# A TLA+ model of astraea.cpp

astraea.cpp is a retrieval-augmented question server: a browser asks, the
server retrieves sources from Qdrant, waits for a turn at the one LLM it
shares with everybody else, and streams the answer back. This directory holds
TLA+ modules of the parts whose correctness depends on the order in which
threads, event loops, timers, connections and processes act, or on the way the
answer's sources are chosen from hand-written tables, the TLC configurations
that check small instances of them, and proofs, checked by TLAPS, of all their
safety properties for every value of their constants.

Paths below are relative to the repository.

## 1. Inventory

### Components

| Component | State | Operations | Modelled by |
|---|---|---|---|
| AsyncSemaphore, InProcessCoordinator (`src/async_semaphore.cpp`) | available permits, queue of waiters, one timer per timed waiter | `acquire`, `acquire(timeout)`, `release` | `AsyncSemaphore`, contract `PermitPool` |
| RedisCoordinator (`src/redis_coordinator.cpp`) | a counter in Redis with a TTL, shared by processes | two Lua scripts, polling acquire, release on a worker thread | `RedisCoordinator` |
| HiredisRuntime (`src/hiredis_runtime.cpp`) | task queue, worker threads, one Redis connection per worker | submit, run, resume a coroutine, shut down | `HiredisRuntime` |
| `when_all_pair`, `when_all_void` (`include/astraea/detail/when_all.hpp`) | a counter, results, the waiting coroutine | launch tasks, count down, join | `WhenAll`, contract `Fanout` |
| LlmStreamSession, LlmTcpPool (`src/llm_stream.cpp`, `src/llm_tcp_pool.cpp`) | connection, parser, idle and fallback timers; idle connections per loop | start, callbacks of resolver, connection, data and timers, finish, pool | `LlmStream` |
| `POST /ask`, `POST /ask/stream` of both servers (`apps/nz_tenancy/main.cpp`, `apps/building_consents/main.cpp`) | one coroutine per request with the permits it owns | about a dozen suspension points, nine exits | `AskRequests` |
| MCP endpoint (`apps/nz_tenancy/mcp_handler.cpp`) | one coroutine per call | `legal_ask`, which competes for the LLM permits; other tools only read | `AskRequests` (`legal_ask`) |
| Geocode client (`include/astraea/geocode_client.hpp`) | none between calls | one lookup that never fails | `AskRequests` |
| IpLimiter (`apps/nz_tenancy/main.cpp`) | requests in flight per address | acquire, release by a moved permit object | `AskRequests` |
| SessionStore (`src/session.cpp`) | message history per session in Redis, with a TTL | load, save with eviction | `AskRequests` |
| JsonlWriter (`src/feedback.cpp`) | bounded queue, one worker, live file and rotated files | append, drain, rotate, destroy | `JsonlWriter` |
| Routing and term matching (`src/routing.cpp`, `src/aho_corasick.cpp`, `term_match.hpp`) | an automaton built at start | normalise a question, scan it, decide which routes fire and what they ask for | `Routing`, `AhoCorasick`, composed in `RouteTables` |
| Jurisdictions (`jurisdictions/*/routes.cpp`) | two route tables, low-priority sections, sources with quotas | none: data | `TenancyRoutes`, `ConsentsRoutes` |
| Route validator (`src/route_validator_corpus.cpp`) | outstanding probes of one start-up check | probe, wait with a ceiling, report | `RouteValidator` |
| Embedder (`src/embedder.cpp`) | cache of vectors, set of keys being fetched | `embed`, single-flight `embed_synth` | `Embedder` |
| Anchoring (`src/anchor.cpp`) | none between calls | `retrieve_anchor`, `augment_case_retrieval`, `refine_retrieve`, `retrieve_manual_guidance` | `Retrieval` |
| RAGPipeline, retriever, reranker (`src/pipeline.cpp`, `src/retriever.cpp`) | none between calls | one or several HTTP calls per question | `Retrieval`: any result their limits allow |
| HttpStreamParser, SseLineSplitter (`src/http_stream_parser.cpp`) | bytes of an unfinished line, state of the body | `feed` | `HttpStreamParser` |
| Wiki store, operations and server (`apps/llm_wiki`) | pages, index, change log on disk; one mutex | ingest, query, lint, upload | `Wiki` (ingest) |
| Generator (`src/generator.cpp`) | none between calls | `generate`, `generate_stream` | its stream is `LlmStream`; the rest is not modelled |
| HealthProber | none between calls | four probes | a step of `AskRequests` that answers up or down |
| IpCooldown, feedback and search endpoints, start-up | last submission per address | `try_consume`, handlers, `main` | not modelled |
| Sanitising, configuration, Anthropic client, bindings, frontends, tools | none | pure functions, data | not modelled |

`PROJECT.json` gives the reason for every part that is not modelled.

### How they interact

At start a server probes the legislation store for every section its routes
name and refuses to serve, unless told otherwise, when one is missing. A request
is a coroutine on the event loop of its client's connection. It takes a permit
of its address from IpLimiter, probes the LLM, and decides its routes from one
scan of the question. It embeds the question, anchors it in legislation (one
search per source, injected sections for what a route declares mandatory,
filters, a cap), retrieves cases (two retrievals at once, joined by
`when_all_pair`), augments and refines them, and looks for a guidance document.
It loads its session, acquires an LLM permit from a CoordinatorClient, streams
from the LLM through an LlmStreamSession, whose bytes go through
HttpStreamParser and SseLineSplitter and whose connection may come from a pool,
saves the session, hands a line to two JsonlWriters and ends, which releases
both permits. The coordinator is the in-process semaphore or the Redis
coordinator; Redis commands run on the HiredisRuntime's workers, which
post the coroutine back to its loop. HTTP clients resume a coroutine on a loop
of their own, so the handlers call `pin_to_loop` before they write to the
client. Tool calls of the MCP endpoint take LLM permits, but none of an address.
The wiki server shares the LLM client and none of the rest.

### What is hard, and what makes each component correct

* **AsyncSemaphore.** A release on one thread meets a waiter that another
  thread is still suspending, whose timer has been started but not yet recorded,
  or whose timer is firing. Correct means: permits are neither lost nor
  duplicated, nobody sleeps beside an idle permit, the longest waiter goes
  first, a coroutine is resumed once and only after it has suspended, and no
  live timer is left behind.
* **RedisCoordinator.** A process dies with a permit; a script runs and its
  reply is lost; a release is lost, or arrives after the counter has expired.
  Correct means: the counter never counts fewer permits than are out, the cap
  holds over all processes, acquires are answered, a stuck pool recovers.
* **HiredisRuntime.** A task is queued just as a worker goes to sleep; the
  destructor races with both. Correct means: no wake-up is lost, each task
  runs once, a broken connection fails one command, shutdown ends.
* **when_all.** The last task ends while its caller registers itself. Correct
  means: the caller is resumed once, after all tasks, with the right error.
* **LlmStream.** Head, tokens, `[DONE]`, the end of the body, a close of the
  server, two timers and a cancellation come in any order and any grouping.
  Correct means: only clean connections are pooled, nothing is called after
  `on_done`, a truncated answer is an error, a finished session lets go of
  its connection.
* **AskRequests.** Many exits must give back exactly what the request owns;
  history is read long before it is written; the coroutine wanders between
  loops. Correct means: the counts agree with the requests in flight, a
  client hears the end and every failure, a session is whole turns.
* **JsonlWriter.** Rotation is several renames; the process may die between
  two. Correct means: what is on disk is the newest part of what was accepted,
  in order, without holes.

* **Handlers.** Each exit must give back each permit once; a coroutine drifts
  to another loop with each HTTP call; two requests of a session overlap.
  Correct means: counts match requests in flight, nothing is generated without a
  permit, a client is told how its request ended, on its own loop.
* **Routing.** Fifty-seven routes may fire in any combination, and what they
  ask for is merged. Correct means: firing one more route never hides what
  another declares mandatory, the cap has room for it, and one pass of the
  automaton finds what a search for each term would.
* **Anchoring.** A mandatory section must survive a search that missed it, a
  choice among windows and titles, two filters, a reranker that may fail, a
  deduplication and a cap. Correct means: it is in the context.
* **Route validator.** Probes fail or do not answer. Correct means: only an
  absent section keeps the server down, and a complete report can be relied on.
* **Embedder.** An owner fails while others wait for it. Correct means: no
  claim is left without an owner, every waiter ends.
* **HttpStreamParser.** A response is cut by the network at any byte. Correct
  means: the cuts make no difference.
* **Wiki.** Ingests interleave, the process dies between two files, a full disk
  cuts a write that nothing checks, and an LLM may call a page INDEX. Correct
  means: pages are whole, the store itself lists only pages that exist, done
  means written; and what takes that away again can be named.

The hazards are listed with their lines in `PROJECT.json`.

## 2. The modules

A step of a model is what one thread does without another being able to come
in between: a critical section, a callback of an event loop, a coroutine from
one suspension to the next, one Redis command, one rename. What follows names
the correspondence; `PROJECT.json` maps every definition to its lines.

### AsyncSemaphore, PermitPool

An element of `Calls` is one `acquire()` and the life of its permit; `pc` says
where its coroutine is. `acquire` is `TryAcquire` (await_ready) followed by
`SuspendUntimed` or `SuspendTimed` (the critical section of await_suspend),
`RunAfter` (the timer is started outside the lock) and `CommitTimer` (the second
critical section). `release` is `Release` (its critical section) and
`Dispatch` (cancel the timer, resume in place or post to the waiter's loop);
`LoopResume` is the posted resume. `TimerFire` is the timer's callback;
`TimerCancelled` exists because a cancellation from another thread takes effect
only when the timer's loop gets to it. `LoopBusy` keeps a loop to one
callback at a time.

`PermitPool` is the contract of `CoordinatorClient`: a number of free permits, a
line, the owners and the refused, with the moves `Take`, `Wait`, `Refuse` and
`Return`. `ImplementsPool` maps the semaphore to it; the owner of a permit is
its holder, or the waiter that release has chosen and not yet resumed.

### RedisCoordinator

`active` and `age` are the key and the time since its last EXPIRE. `Granted`,
`Contended` and `ErrorReply` are the three ways a script's reply is read;
`Unreachable` and `ReplyLost` are the two ways an acquire throws and fails
open, without and with a slot taken; `Drop`, `Released`, `ReleaseLost` are the
release; `Crash` takes a process with its permits. Time is ticks, so that TTL,
timeout and holding time can be compared.

### HiredisRuntime

`Push` and `Notify` are the two halves of `submit` (the lock is released before
`notify_one`); `Wait`, `Spurious`, `Take` and `Return` the worker's loop;
`Connect`, `Command` and `Report` the job; `Resume` the coroutine on its loop or
in place; `Stop`, `NotifyAll` and `Join` the destructor. A connection is good,
cut by the server without the worker's knowledge, or known to be broken.

### WhenAll, Fanout

One module for both functions, for any set of tasks. Each task stores its
result, counts down, and the last one locks, takes the handle, unlocks and
resumes. The caller looks at the counter, locks, looks again, registers.
`Fanout` is the contract: one answer, after all tasks, an error exactly when a
task threw.

### LlmStream

All callbacks of the sessions of one loop. A response is a sequence of items
(head, token, text, `[DONE]`, end of the body, bytes that do not parse), and a
receive delivers up to `Batch` of them, so grouping is free; `Feed` hands them to
`Parse` one after the other, until one ends the session. `Finish` is
`finish()` with its choice between keeping, pooling and disposing of the
connection; `Fallback` is the timer that bounds the wait for the end of the
body.

### AskRequests

The life of a request of either handler of either server, or of a `legal_ask`
call, from parsing to the end of its coroutine. `server` says which program
runs: only the consents server looks an address up (`Locate`, `Located`), `/ask`
before the limit of the client's address and `/ask/stream` after it, and only
the tenancy server has the tool (`Call`, `Replied`). It composes
`INSTANCE PermitPool` (the contract the semaphore was shown to implement) with
IpLimiter, the session store and `pin_to_loop`. A streaming request calls
`acquire` twice, first without waiting and then, after the client has been told
that it waits, with waiting. `Drift` in the steps that return from HTTP says
that the coroutine may resume on another loop.

### JsonlWriter

`AppendLine` is `append`; the worker is `TakeBatch`, `WriteLine`, `Flush`,
`FinalDrain`, `Rotate` and one `Shift` per rename, `Open` the (re)opening.
`Die` may lose the queue, the batch and any tail of the stream's buffer;
`Restart` follows an orderly destruction.

### Routing, TenancyRoutes, ConsentsRoutes, AhoCorasick, RouteTables

`Routing` is `build_route_decision`, `compute_max_hits`, `reconcile_max_hits`,
the low-priority gate and `validate_forced_sections` as operators over a table
and a set of hits. `TenancyRoutes` and `ConsentsRoutes` are the two tables, one
record per route in definition order; of its trigger terms a record keeps which
lists are not empty. `AhoCorasick` is `normalize_query`, the automaton
(`Links`: transitions and failure links together, depth by depth; `Out`: what
ends at a node or at those its links lead to) and the boundary rules, next to
`ContainsRouteToken`, the search for one term on its own. `RouteTables` composes
them into the life of a question: it collects hits, or is written character by
character for a small table whose terms are spelled out, and is decided.

### RouteValidator, Embedder, Retrieval

`RouteValidator` is the start-up check: `ProbeAnswers`, `ProbeFails`, and
`Validate`, which may come before the last probe (the ceiling) and decides what
`main()` does with the report. `Embedder` is `embed_synth`, one action per
critical section (`FastPath`, `Claim`, `Poll`) and per end of a fetch. `Retrieval`
composes both with `Routing` into `assemble_request`: one action per awaited
call, over a corpus of a few chunks, next to a second request that wants
the same embeddings. `SearchSources`, `EmbedSynthetic`, `InjectSynthetic`,
`FetchMissed` and `GateAndCap` are `retrieve_anchor`, and `AnchorThrows` its
catch; `BestChunks` is the choice of the one chunk that stands for a section,
which reads `chunk_index` although the search does not ask the store for it
(`PayloadFields`).
`RetrieveCases`, `Augment`, `CheckConfidence`, `Refine` and `Guide` follow. What a
search returns, and what the cross-encoder keeps, is any set that quotas, limits
and filters allow.

### HttpStreamParser

The members of both parsers, and `FeedBytes`, which takes a `Turn` of feed()'s
loop until `Over`: the bytes of a read are used up or the response has ended. A
turn is the step of the parser's state (`Consume`) and `SseFeed` of the body it
gives. A response is a sequence of symbols: CR, LF, and
pieces, each standing for the text of a line; chunk data and bodies are symbols
like any other, so that a chunk can end inside an event or between CR and LF.

### Wiki

A request of `POST /wiki/ingest`: `Look`, `WriteTmp`, `Rename` and `LogChange`
page by page, each under the mutex on its own, then `TruncateIndex` and
`WriteIndex` under one lock. `LookFails` and `WriteFails` are a look and a rename
the file system refuses, which throw. What a stream reports the code does not
look at, so a full disk or a refused open passes unnoticed: `WriteCut` (a page),
`LogLost` (a line of the log), `IndexCut` and `IndexRefused` (the index; a read of
the old one that fails has an outcome of `IndexCut`). `short` remembers the kinds
that happened. `Crash` comes between any two steps and leaves the disk as it is.

`File` is `page_path`. It may give `IndexFile` and `LogFile` (INDEX.md and
CHANGELOG.md, `wiki_store.cpp:56-57`), and nothing in the code keeps an LLM from
naming a page so: `Rename` then replaces the index by what the page's text lists,
or drops the log. `index` and `log` are what the two files say, `pages` also
whether they are there and whose text they hold. An entry is a line, and the code
writes names and summaries into it as they come: `more` are the entries behind a
line end in a summary, `Listed` what the entry of a name is read back as. The
names that got into the index on these three ways are `Claimed`.

### What the models leave out of the code they cover

Texts of prompts, events and log lines; the injected tail of the history and
the truncation of long answers (they change neither a message's role nor its
turn); the events between the sources and the queue position, which are one
send; the query rewrite, which takes no permit by design (`main.cpp:2218-2221`);
the case of an unlimited coordinator or address limit; the choice of the Redis
coordinator inside `AskRequests`; the scores of the vector search and of the
cross-encoder; the lifetime of the validator's counters after its ceiling; in
`Augment`, that each of several synthetic case queries is a retrieval of its own:
one stands for all, and no property depends on their number; a JSONL file whose
stream has failed, a full disk for one, after which lines leave queue and batch
and are not on disk (`KeepsNewest` and `EachWritten` speak of a stream that
takes what it is given); in the wiki, a temporary file that cannot be opened
while an older one of that page is there, which is then renamed in its place,
and a page name with a NUL byte in it, whose temporary file is the page itself.
The LLM permit and the address permit are released in one step, as both go with
the coroutine's frame. Redis connections and commands of hiredis have no time-out
in the code; the models assume that each ends.

## 3. The runs

| Run | Configuration | Question |
|---|---|---|
| `semaphore` | `AsyncSemaphore.cfg` | Four acquires (two timed on two loops, one untimed and one with a zero timeout on plain threads), one permit: are permits conserved, is nobody asleep beside one (`PermitsConserved`, `NoIdlePermit`), does a resume only meet what is suspended (`ResumeOnlySuspended`), is it the pool it promises to be (`ImplementsPool`), is everybody answered (`AnsweredIfReleased`)? |
| `redis` | `RedisCoordinator.cfg` | Three clients in two processes, two slots, one fault of any kind, one error reply: does the counter account for every slot (`SlotsAccounted`), does the cap hold over the processes (`ClusterCap`), does a pool that is stuck recover (`FullStallEnds`)? |
| `hiredis` | `HiredisRuntime.cfg` | Three jobs (awaited on a loop, awaited on a plain thread, not awaited), two workers, one outage, the destructor at any time: `FailsOnce`, `JobAnswered`, `ShutdownEnds`. |
| `whenall` | `WhenAll.cfg` | Two tasks that may throw, on two threads, against their caller: `NoLostWakeup`, `ImplementsFanout`. |
| `stream` | `LlmStream.cfg` | Two streams on one loop share the pool; five kinds of response, two closes of the server, one cancellation: does a session ever get another's answer (`OwnAnswerOnly`), report half of one as success (`NoTruncatedSuccess`), keep its connection (`Released`), or hang (`SessionEnds`)? |
| `ask` | `AskRequests.cfg` | A stream and a plain request share a session, two requests share an address, a tool call competes for the one LLM permit, on either server: `IpAccounted`, `GeneratesWithPermit`, `ClientIsTold`, `SessionPaired`, `SendsOnClientLoop`, `RequestEnds`. |
| `jsonl` | `JsonlWriter.cfg` | Eight lines through a queue of two and two rotated files, one crash, one failure of the file system, orderly restarts: `KeepsNewest`, `EachWritten`. |
| `routes` | `RouteTables.cfg` | Every question that hits up to three term lists of up to two routes of the real tables, and every text of up to five characters against a table of overlapping terms: `CapCoversForced`, `AllowCoversForced`, `MoreTermsKeepSections`, `ScanIsExact`. |
| `retrieval` | `Retrieval.cfg` | A start-up check with failing probes, then requests over a small corpus with every hit set and every result of each search: `MandatoryDelivered`, `ContextClean`, `RefusedForCause`, `InflightOwned`, `RefineNeverWorsens`, `AssembleEnds`. |
| `guidance` | `Retrieval_guidance.cfg` | Is a guidance document that a fired route names injected (`RouteGuidanceInjected`)? Violated, see findings. |
| `http_parser` | `HttpStreamParser.cfg` | Responses in three framings with three line ends, and malformed ones, in reads of every size: `CutsDoNotMatter`, `EventsAreThoseSent`. |
| `wiki` | `Wiki.cfg` | Two ingests with overlapping pages, some named INDEX and CHANGELOG, a crash, full disks, refused renames: `PagesWhole`, `IndexNamesPages`, `DoneMeansIndexed`. |

All but `guidance` pass.

### Bounds

* `semaphore`: contention needs one permit and more calls than permits. With
  four calls a release can meet a waiter that is being suspended and one behind
  it, on the same loop, on another loop and on no loop; a timed waiter can time
  out in front of another. The proofs do without these bounds.
* `redis`: two slots and three clients let one client be refused while two hold
  slots, and two processes let one crash while the other goes on. `Ttl = 3` with
  `HoldMax = 1` leaves room for a renewal between two releases; `Timeout = 2`
  gives a client one poll and a repeat. One fault is the case the failsafe
  TTL is for. The assumption that no permit is held for a TTL is
  `HoldMax < Ttl`; see the findings for what happens without it.
* `hiredis`: two workers and three jobs put a job in the queue while both
  workers are busy, and one worker asleep while the other is between its tasks.
* `stream`: two sessions suffice for one to inherit the other's connection and
  for both to overlap; `Batch = 2` lets any two neighbouring items share a
  receive; each response has two tokens, so it can break between them. All are
  whole answers (`WholeAnswer`, which TLC evaluates as an assumption): what
  breaks one is the connection.
  `SlowDns = FALSE` leaves out a resolver slower than the idle timer, which
  violates `Released` (see the findings).
* `ask`: `IpMax = 1` and one LLM permit make both limits bind; the two requests
  of one session come from different addresses so that they can overlap, and a
  third shares an address with one of them and has no session. The tenancy
  server gets a tool call besides, the consents server a second stream, with
  an address to look up before the limit and one after. `MaxTurns = 2` with one
  earlier turn is reached and evicted within the run. One browser may leave
  (`Leavers`): what it leaves behind meets each of the others.
* `jsonl`: files of two lines, three of them: eight lines are enough for the
  oldest to be dropped, with a crash (`Deaths`) or a failure (`Failures`) on the
  way. The proof of `KeepsNewest` does without these bounds.
* `routes`: the merge of a decision is a union over routes and a choice of one,
  so a pair of routes shows every conflict; three hits let one route fire by two
  term lists, or be excluded, beside another. Five characters hold two
  overlapping terms, or one of three characters with both its boundaries.
* `retrieval`: two routes, with and without an allow-list and of different Acts;
  the corpus has a section in several windows and under two titles, one that
  reads like an amendment, a low-priority one and a case that does not belong,
  and may lack one section. Two callers make an owner and a waiter, `MaxPolls = 1`
  a waiter that gives up. The scores of the five cases lie on both sides of each
  threshold.
* `http_parser`: a read of six symbols spans a chunk's size line and its data,
  or a chunk's end and the next size; a body is divided into three chunks at any
  two of its first ten symbols, inside an event, a line end and a data line.
* `wiki`: two names of one file and answers that name the same page let two
  ingests meet on a page, on the log and on the index; one answer names INDEX, one
  CHANGELOG and a page that the index cannot hold, one has a line end in a
  summary. One crash is a single event in the history of a file; writes may be
  lost any number of times, of all three kinds (`MayCut`). Each of the exceptions
  in the three properties is needed: without any one of them the run fails.
  Exchanging the two ingests changes nothing, so they are symmetric.

Deadlock is not checked where the system may rest: all requests served, all
lines written, the pool destroyed, the response read. `redis` checks it.

### Fairness

* Semaphore: a thread finishes the critical sections it has begun, a loop
  runs what is posted to it, timers fire. Nobody has to call `acquire` or to drop
  a permit: `AnsweredIfReleased` states dropping as its premise.
* Redis coordinator: time passes, commands are answered, timers fire, permits
  are dropped (generation is bounded by the stream's idle timer). Faults are not
  fair.
* HiredisRuntime: threads are scheduled and a command ends. Spurious wake-ups,
  the server and the destructor are not fair.
* Stream: the loop runs its timers and the resolver calls back. The network
  and the LLM owe nothing, and yet every session ends.
* AskRequests: every awaited call returns (HTTP calls carry a time-out, the
  idle timer ends a stalled stream). A timed acquire need not time out.
* JsonlWriter: the worker is scheduled and the file system answers.
* Retrieval: a request's coroutine takes its next step: every call it awaits
  carries a time-out and its loop runs. The other request is not fair, so a
  waiter cannot count on the owner of its embedding; that its polls are counted
  is why it ends.

WhenAll, RouteTables, HttpStreamParser and Wiki are checked for safety only. All
fairness is weak: none of these steps is disabled again by another actor
while it waits, except where the property is about the race itself.

Every property of a passing run has a mutant in `PROJECT.json`: a plausible bug
in one mapped definition (a dropped second look, a wrong end of the queue, a
missing release) under which TLC finds the property violated.

## 4. What is proved

`AsyncSemaphore_proofs` proves, for any finite set of calls, any loops,
any assignment of calls to loops and modes, and any number of permits
(`SemaphoreAssumption`):

| Theorem | Result |
|---|---|
| `TypeCorrect` | the type invariant |
| `NoLostWakeup` | `NoIdlePermit`: nobody is queued while a permit is available |
| `OneDecision` | `release` and the timer never both decide a waiter |
| `Conservation` | available and owned permits add up to the initial number |
| `SafeResume` | a resume never meets a coroutine that is still inside await_suspend |
| `TimersCancelled` | a granted call leaves no live timer |
| `SingleResume` | a decided call is not resumed again |
| `Implementation` | the semaphore refines `PermitPool` |

None of these is inductive as it stands. The strengthening is `Structure`:
`QueueInv` (what is queued is suspended, undecided and queued once), `CallInv`
(what a decision and a timer say about the position of a coroutine) and
`HandInv` (a hand-over in flight has one carrier, and its waiter is still
suspended). `QueueInv` is why the queue of the model never holds decided entries, so that
`release` always hands over to the head of the line, which is what the
refinement needs. `SafeResume` adds `OneActivity`, that a loop's thread is inside
one handler at a time: a waiter in the middle of await_suspend can be
resumed in place only by its own thread, which is busy. `TimersCancelled` adds
`TimerInv`: while a timer is pending, await_suspend, a release in flight
or a decision still to come will cancel it. `Conservation` needs no further
invariant: it follows from the refinement, step by step.

`WhenAll_proofs` proves, for any finite non-empty set of tasks
(`WhenAllAssumption`), the type invariant, no lost wake-up, a single resume,
that the caller goes on only after every task has counted down, which error
wins, and that `WhenAll` implements `Fanout`. Its invariant ties the counter to
the number of tasks that have not counted down, allows one task to carry the
resume, and says where the caller can be for each value of the counter and the
handle.

In `AsyncSemaphore_proofs` and `WhenAll_proofs`, `NoLostWakeup`, `Conservation`,
`SafeResume` and `Implementation` of the semaphore, and the wake-up and the
refinement of `WhenAll`, are also checked by the runs; the others are proved only.

### Redis_proofs

Of `RedisCoordinator`, for any finite set of clients, any processes, slots, TTL, and number of faults
and error replies, under `HoldMax < Ttl` (a permit is dropped within a TTL, which
is what the TTL is chosen for; section 5 says what happens otherwise):

| Theorem | Run property | Result |
|---|---|---|
| `RedisTypeCorrect` | | the counter and its age stay in range |
| `CounterAccounts` | `SlotsAccounted` | the counter is the permits that are out and at most what faults leaked |
| `CapHolds` | `ClusterCap` | fail-open grants apart, at most `Max` permits are out over all processes |

The invariant `Accounting` adds `LeaseInv` to the count: the key is never older
than the youngest permit it counts, because every grant renews it. That is why
the key cannot expire under a permit, the only step that resets the counter.

Of `HiredisRuntime`, for any finite set of jobs, awaited or not and on a loop or
not, any workers, and any number of outages (`RuntimeAssumption`):

| Theorem | Run property | Result |
|---|---|---|
| `JobsStayPlaced` | | the invariant `Placement`: a submitted job is queued once or with one worker, and is reported only with a result or an error |
| `OneFailurePerOutage` | `FailsOnce` | no command is given a connection on which one has failed |
| `NoWakeupLost` | | while a worker sleeps, there are no more queued jobs than `notify_one` calls still to come and awake workers about to look |
| `ShutdownStrandsNone` | | after the destructor every job ever submitted was run and reported |

`Placement` says where each job is in each of its stages, that a worker which
has begun a command has a connection without an error, and how far the workers are for
each step of the destructor: they return only when the pool is stopped and the
queue is empty, so that the join leaves nothing behind. `NoWakeupLost`
(`WakeupsSuffice`) is a count, because the mutex is free between the push and its notify: a worker
may take the job in between, and the notify then wakes another for nothing. It is
the safety half of `JobAnswered`.

### AskRequests_proofs

For any finite set of requests of any kind on either server, any addresses,
sessions and limits (`AskAssumption`):

| Theorem | Run property | Result |
|---|---|---|
| `OnePermitEach` | `GeneratesWithPermit` | a request talks to the LLM with exactly one permit; one that has ended has none and waits for none |
| `FewGenerate` | | at most as many talk to the LLM as there are permits |
| `HandlersUsePool` | | every step of a handler is a step of `PermitPool`, or none |
| `CountsAreRequests` | `IpAccounted` | the count of an address is its requests in work, whichever exits they take |
| `AddressCapHolds` | | no address exceeds its limit, no count is negative |
| `AlwaysOnClientLoop` | `SendsOnClientLoop` | a stream writes only from its client's loop |
| `ClientAlwaysTold` | `ClientIsTold` | a client that stays gets "done" last, and an error exactly if its request failed |
| `SessionsStayWhole` | `SessionPaired` | a stored session is whole turns, each once, at most the configured number |
| `TypeCorrect` | | the type invariant |

Each rests on a statement of what the position of a coroutine says about one
other piece of state: `CallInv` about the queue and the owners of the pool (so
that the two acquires of a stream never both end with a permit), `OnLoopInv` about
the loop (it may be another one only between an HTTP call and the `pin_to_loop`
behind it), `ToldInv` about the events sent, `SessionInv` about the histories (the
turn of a request is in nobody's messages before it saves). `IpAccounted` is
inductive, given the types.

Because `PermitPool` is what the semaphore implements (`Implementation`) and what
the handlers use (`HandlersUsePool`), the theorems about permits hold of the
handlers over the real queue, not only over the one the run composes.

### Streaming_proofs

Of `LlmStream`, for any finite set of sessions, any responses, any `Batch`, and any number of
closes and cancellations (`StreamAssumption`):

| Theorem | Run property | Result |
|---|---|---|
| `StreamTypeCorrect` | | the type invariant, with what the fields of a session say of each other |
| `OwnAnswer` | `OwnAnswerOnly` | what a session has still to parse is its own answer |
| `ReleasedAtEnd` | `Released` | if `~SlowDns`, a finished session holds a connection only while its fallback timer runs |
| `SuccessIsWhole` | `NoTruncatedSuccess` | if every response is a `WholeAnswer`, a session reports success only with all its tokens or after a cancellation |

The invariant `Inv` has three parts: `Sound`, about the fields of one session;
`Line`, about one connection (unread items belong to the session whose callbacks
it has, and none are left on one without); `PoolFree` (a pooled connection serves
nobody and is pooled once). `ReleasedAtEnd` needs `Bonded`, that a session's
resolution is over before its idle timer can be: with `SlowDns` the property is
false, which the findings describe. `SuccessIsWhole` adds `Faithful`: the tokens
counted so far and those in the unread items are those of the answer, and the
parser's phase is the one these items continue. Its hypothesis is what the client
cannot see for itself: that the server does not send `[DONE]`, or the end of a
well-formed body, before the last token. It also leaves out the finding about
`llm_stream.cpp:229`: the body of an HTTP error does not end within one receive.
Malformed answers, error statuses, and connections that close anywhere, in the
first answer of a connection or a later one, are in.

A receive is a fold of `Parse` over its items. `CountUp` replaces the induction
scheme: if a property of 0 passed from k to k + 1 but did not hold of n, adding 1
would map the finite set of numbers below n that have it into itself less one,
one to one, and a finite set has no such map. It is stated with a set instead of
a predicate, and so within the prover's reach.

Of `HttpStreamParser`, for any responses and reads of any size
(`ParserAssumption`):

| Theorem | Run property | Result |
|---|---|---|
| `CutsNeverMatter` | `CutsDoNotMatter` | parser and splitter are always where one read of the same bytes would have taken them |
| `EventsSurviveCuts` | `EventsAreThoseSent` | if each response gives its events in one read, then in any reads the events delivered are the first of them, and all once it has been read |

The first needs that feeding two pieces one after the other is feeding both at
once (`FeedCut`). For the splitter that is a fact about a fold (`SseCut`). For the
parser it is proved turn by turn: a step of any state on two pieces either is
its step on the first, with the second left over, or takes all of the first and
is the step of the parser it leaves on the second (`ConsumeCut`; the line a
piece ends in is finished by the next, `WholeLine`, and a CR at the end of the
first loses nothing). As a turn takes a byte or more, a loop of as many turns as
bytes has ended (`FeedEnds`), whichever piece it began with. `Parsers` is the
type of the members with what feed() relies on: no state waits for a body or a chunk of
length zero, where a turn would take no byte. The second theorem adds that
events are only ever appended (`FeedGrows`). Its hypothesis is about one read,
which a unit test can show; of the run's responses it follows from the two
invariants where a response has been read to its end.

### Retrieval_proofs

For any table of routes, corpus, quotas, callers, and every result of every
search and of the start-up probes (`RetrievalAssumption`):

| Theorem | Run property | Result |
|---|---|---|
| `MarksHaveOwners` | `InflightOwned` | a query marked as in flight has exactly one owner, which will clear the mark |
| `RefusalHasCause` | `RefusedForCause` | the server refuses to start only if a section named by a route is absent, whichever probes fail |
| `MandatoryReachesContext` | `MandatoryDelivered` | after a start-up check that got every answer, a request whose `retrieve_anchor` ran to its end has every mandatory section in its context |
| `ContextStaysClean` | `ContextClean` | one place per section, legislation only, nothing outside the allow-list but mandatory sections, within the cap |
| `SecondPassImproves` | `RefineNeverWorsens` | the second pass never loses the best case, never ends with fewer (up to its cap), never has one twice |

`FlightInv` also says that the key of every owner is marked; otherwise a second
coroutine could claim it. `BootInv` ties the answers of the probes to what is
indexed. `AnchorInv` follows the injected chunks through `retrieve_anchor`: they
are of forced sections, one of each; before the cut every forced section that
the corpus has is among them; and the cut, whose limit covers them (from
`ReconcileMaxHits`), drops none. `CasesInv` says that the list of cases has no
repeats. That no two cases score the same costs nothing: multiply every score and
threshold by the number of cases and the order in which the code's sort leaves
a tie fits between two scores.

### RouteTables_proofs

About the two tables as they are written, for a question that hits any number of
terms of any number of routes, where the run stops at three:

| Theorem | Run property | Result |
|---|---|---|
| `HitsHaveRoutes` | | every hit is of a term list of a route of the table in use |
| `AllowListKeepsForced` | `AllowCoversForced` | a forced section is never outside the merged allow-list |
| `CapLeavesRoom` | `CapCoversForced` | the cap leaves room for every forced section that is found |
| `MoreTermsMoreSections` | `MoreTermsKeepSections` | a term that is not an exclusion takes no section away |

That each row's forced sections are within its own allow-list (`Covers`) is proved
row by row; the rest holds of any table with `Covers`, because forced and allowed
sections are unions over the matched routes, which only grow with the hits.
`SmallTableAssumption` says the same of the small table of the automaton's run.

About the automaton, for any terms over any alphabet, overlapping or inside each other,
and questions of any length:

| Theorem | Run property | Result |
|---|---|---|
| `ScanFindsEveryTerm` | `ScanIsExact` | if no term has a byte outside ASCII, one pass finds exactly the terms that a search for each at every position would |

`aho_corasick.hpp` demands the hypothesis; such a term is not inserted. `Ends(u, w)`
says that u is a suffix of w, and `LongestNode(u, w)` that u is the longest node that
is one. `LinksAreRight` proves, depth by depth, that a failure link is the longest node among
the proper suffixes and a transition the longest node among the suffixes of the path
with the character behind it; `OutIsRight`, that a node's terms are all that end
there; `ScanStates`, that after each character the scan is at the longest node
that is a suffix of the text since the last byte outside ASCII; `SearchIsExact`
adds the word boundaries. `ScanInv` says that the hits of the small table are
those of its text.

### Files_proofs

Of `Wiki`, for any ingests, answers, names and files (INDEX.md and CHANGELOG.md among
them or not), any number of crashes and any of the writes lost or cut (`WikiAssumption`):

| Theorem | Run property | Result |
|---|---|---|
| `PagesStayWhole` | `PagesWhole` | a page is the whole text of one ingest, or one a full disk cut short |
| `IndexIsTrue` | `IndexNamesPages` | a name the index lists is on disk, or the text of an LLM's answer put it there |
| `DoneIsDone` | `DoneMeansIndexed` | what a client was told is done is on disk; it is in the log unless an append was lost or some answer named CHANGELOG; it is in the index unless a rewrite was lost, the process died, some answer named INDEX or the name cannot stand in an entry |

`OpInv` says what a coroutine at each position has of the disk and of the mutex.
`Grows` is what every step keeps: pages that are there stay there, no answer and
no lost write is undone, and the log grows while no page takes its place.
`IndexInv` bridges the rewriting of the index: between truncation and write, the
old entries of an ended ingest are in the memory of the one request that holds
the mutex, and otherwise in the file.

Of `JsonlWriter`, for any sizes of the queue and of the files, any number of
backups, lines, restarts, deaths of the process and failures of the file system
(`WriterAssumption`):

| Theorem | Run property | Result |
|---|---|---|
| `WriterKeepsNewest` | `KeepsNewest` | what queue, batch and files hold is the newest part of what was accepted, in order, once each, without a hole but for the lines a death or a failure took |

The invariant `WriterInv` adds `Counted`, that no number is given twice, and
`Stages`: a batch is taken only when the last one is written, the last one of
all from an empty queue, and a rotation between two of its renames overwrites only
the oldest file, one it has already moved, or one whose lines it has lost. Every
move of lines (append, take, write, rename) is one from a place to its
neighbour in `Place`, and keeps the order of the whole.

### Only model-checked

* All liveness: `AnsweredIfReleased`, `FullStallEnds`, `JobAnswered`,
  `ShutdownEnds`, `SessionEnds`, `RequestEnds`, `EachWritten`, `AssembleEnds`.
  The proof system has no rules for fairness and ENABLED.
* That the responses of the run give their events when they come in one read, the
  hypothesis of `EventsSurviveCuts`: it is a fact about those responses, not
  about all.

Every safety property of a passing run is stated by a theorem.

## 5. Findings

Shown by a run:

1. `guidance`. `include/astraea/anchor.hpp:71-72` says that guidance documents
   named by a route "are injected regardless of vector score". The routes name
   them by case id, the hits are keyed by point id and the fetch sends the name
   where the store wants a UUID (`src/anchor.cpp:582`). The store refuses, the
   exception is caught, and the question is answered without any guidance.

Noted while modelling, without a run:

* Redis coordinator. The header promises that a holder that dies "only stalls
  the pool for at most one TTL window" (`redis_coordinator.hpp:31-33`). Every
  grant renews the one key that counts all slots (`redis_coordinator.cpp:31`), so
  with traffic the slot never comes back; only a pool whose slots are all leaked
  recovers (`FullStallEnds`). A permit held for longer than the TTL outlives the
  key, and the cap is exceeded (`HoldMax >= Ttl` violates `ClusterCap`).
* "Fail-open on Redis errors" (`redis_coordinator.hpp:34-37`) holds for a missing
  reply. An error reply is read as contention and the client is refused
  (`redis_coordinator.cpp:61`).
* An HTTP error whose whole body arrives in one receive takes the branch of a
  complete response and is reported as success (`llm_stream.cpp:229`).
* When the idle timer beats the resolver, the resolver's callback gives a
  finished session a connection that nothing disposes of (`llm_stream.cpp:128`).
  `SlowDns = TRUE` in `LlmStream` shows it.
* `llm_stream.hpp:31` says that a cancellation closes the connection; it may be
  kept for the end of the body and pooled. `llm_tcp_pool.hpp:48` asks callers to
  retry a dead pooled connection on a fresh one; the session reports the error.
  `llm_tcp_pool.hpp:27` says that at most one session per loop is in flight; two
  coroutines of a loop may stream at once. The pool is right all the same.
* A session load that fails looks like an empty session, and the save that
  follows replaces the stored one (`session.cpp:106`); two overlapping requests of
  a session overwrite each other's turns. A stream that fails after its first
  token saves the partial answer; `/ask` saves nothing. `session.hpp:82` says
  hyphens only; the code accepts underscores too.
* `anchor.cpp:181-265` chooses the chunk with the lowest `chunk_index`, and
  `apply_manual_discounts` (`pipeline_helpers.hpp:38-49`) reads `court` and
  `source_type`; none of the three is among the fields the store is asked for
  (`retriever.cpp:27-29`), so neither has an effect. `ChunkIndex` models it.
* The act of a forced section of the Healthy Homes Standards is `HHS`, the
  source to be boosted is called `HHS2019`: its quota is never raised.
* `routing.hpp` says that all terms are stored in lower case; several contain
  capitals or a dash, which `normalize_query` never leaves in a question, so they
  cannot match. `landlord_entry` includes terms it also excludes. A route
  without two tiers ignores its context words (`repairs_tenant_not_at_fault`).
* `routing.hpp:73` calls the dominant route the one of highest priority; a route
  with an allow-list comes first whatever its priority. `routing.hpp:52` calls
  ignored routes excluded ones; they are matched routes that lost.
* A near miss is reported also for a route that an exclusion ruled out.
* When the ceiling on the start-up check fires, the locals its probes refer to
  are gone before they answer (`route_validator_corpus.cpp:138`).
* Wiki: a crash between truncating the index and writing it loses the old
  entries. No stream is checked (`wiki_store.cpp:96-99`, `277-280`, `298-301`): on a
  full disk a page cut short is renamed over the good one, the index is left
  empty or cut, a line of the log is lost, and the client is told "done".
* Wiki: `parse_ingest` refuses no name (`wiki_ops.cpp:130`). A page the LLM calls
  INDEX or CHANGELOG replaces the index or the log; with the first the earlier
  entries are gone and any name may be listed. A line end in a summary starts a
  new entry, and a name with `]]` or a line end in it is read back as another.
* Wiki: two ingests of a new page may both log it as created. Pages without a
  summary are never indexed.
* `apps/nz_tenancy/main.cpp:1809` and `1835` say that `load()` and `acquire()` may
  drift off the client's loop. Both post the coroutine back to the loop it came
  from (`hiredis_runtime.hpp:81-83`), as `AskRequests` has it.
* The consents server puts the zone it looked up before the question, so that
  the name of a council takes part in the match of the routes and in what the
  logs keep. Its `/ask` looks up before the limit of the client's address binds.

## 6. Plan

Done, in this order: `PermitPool` and `AsyncSemaphore` with its proofs;
`RedisCoordinator`; `HiredisRuntime`; `Fanout` and `WhenAll` with proofs;
`LlmStream`; `AskRequests`, which composes the pool with the handlers;
`JsonlWriter`; `Routing` with the tables and the automaton; `RouteValidator` and
`Embedder`, composed with the routes in `Retrieval`; `HttpStreamParser`; `Wiki`;
the consents server and the tool call in `AskRequests`.

Proved since: the safety of `RedisCoordinator`, `AskRequests`, `LlmStream`,
`Retrieval` with `Embedder` and `RouteValidator`, `RouteTables` and `Wiki`; then
`ScanIsExact`, the safety of `HiredisRuntime`, `KeepsNewest` of `JsonlWriter`, and
both invariants of `HttpStreamParser`.

What remains is liveness, which stays with TLC, and a refinement of the items
of `LlmStream` by the symbols of `HttpStreamParser`: the two agree on what an
answer is only by inspection.

### Not modelled, and why

* Feedback, search and health endpoints, the read-only tools, `query` and `lint`
  of the wiki: they keep nothing between calls, or hand one line to JsonlWriter.
  IpCooldown is one critical section over a clock.
* Start-up apart from the route check, configuration, request ids, sanitising,
  prompts, rule cards, the text of the anchor block: texts and fixed values.
* The JSON of the vector store and of the LLM, URLs and headers: conversions
  without state, of which the models keep what was found or that it failed.
* Bindings, frontends, tools, examples, tests and vendored code.
