---------------------------- MODULE HiredisRuntime ----------------------------
(***************************************************************************)
(* astraea::detail::HiredisRuntime (src/hiredis_runtime.cpp and its        *)
(* header): a pool of threads that runs blocking Redis commands, each with *)
(* a connection of its own, for coroutines that wait on their event loop.  *)
(*                                                                         *)
(* A step is a critical section of the pool's mutex or the code between    *)
(* two of them.  The condition variable is modelled by the set of workers  *)
(* that wait on it; it may wake spuriously.                                *)
(***************************************************************************)
EXTENDS Integers, Sequences, FiniteSets

CONSTANTS Jobs,      \* the calls of run_on_worker and submit_void
          Workers,   \* the threads of the pool
          Awaited,   \* the jobs of run_on_worker
          OnLoop,    \* those of them that an event loop awaits
          NoJob,     \* the task of a worker that has none
          Outages    \* bound on how often the Redis server goes away

ASSUME RuntimeAssumption ==
  /\ IsFiniteSet(Jobs)
  /\ IsFiniteSet(Workers) /\ Workers # {}
  /\ Awaited \subseteq Jobs
  /\ OnLoop \subseteq Awaited
  /\ NoJob \notin Jobs
  /\ Outages \in Nat

VARIABLES
  queue,     \* _queue
  stop,      \* _stop
  stage,        \* where each job is
  notifying, \* the jobs whose submitter has pushed them and not called notify_one yet
  outcome,   \* what its awaiter holds: result, err or nothing yet
  wpc,       \* where each worker is
  task,      \* the job a worker took
  ctx,       \* the worker's redisContext: none, good, cut by the server, or with err set
  server,    \* whether Redis accepts connections
  outages,   \* outages so far
  owner      \* the thread that destroys the pool

poolVars == <<queue, stop, stage, notifying, outcome, wpc, task, ctx, server, outages, owner>>

Busy == {w \in Workers : wpc[w] \in {"connecting", "command", "reporting"}}
Idle == {w \in Workers : wpc[w] = "waiting"}

PoolTypeOK ==
  /\ queue \in Seq(Jobs)
  /\ stop \in BOOLEAN
  /\ stage \in [Jobs -> {"new", "submitted", "posted", "done"}]
  /\ notifying \subseteq Jobs
  /\ outcome \in [Jobs -> {"none", "value", "error"}]
  /\ wpc \in [Workers -> {"checking", "waiting", "connecting", "command", "reporting", "exited"}]
  /\ task \in [Workers -> Jobs \union {NoJob}]
  /\ \A w \in Workers : task[w] # NoJob <=> w \in Busy
  /\ ctx \in [Workers -> {"none", "good", "cut", "err"}]
  /\ server \in {"up", "down"}
  /\ outages \in 0 .. Outages
  /\ owner \in {"alive", "stopping", "joining", "gone"}

PoolInit ==
  /\ queue = <<>>
  /\ stop = FALSE
  /\ stage = [j \in Jobs |-> "new"]
  /\ notifying = {}
  /\ outcome = [j \in Jobs |-> "none"]
  /\ wpc = [w \in Workers |-> "checking"]
  /\ task = [w \in Workers |-> NoJob]
  /\ ctx = [w \in Workers |-> "none"]
  /\ server = "up"
  /\ outages = 0
  /\ owner = "alive"

WorkerTo(w, s) == wpc' = [wpc EXCEPT ![w] = s]

JobTo(j, s) == stage' = [stage EXCEPT ![j] = s]

-------------------------------------------------------------------------------
(* ThreadPool::submit                                                      *)

\* The task is pushed under the mutex.
Push(j) ==
  /\ stage[j] = "new"
  /\ owner = "alive"
  /\ queue' = Append(queue, j)
  /\ JobTo(j, "submitted")
  /\ notifying' = notifying \union {j}
  /\ UNCHANGED <<stop, outcome, wpc, task, ctx, server, outages, owner>>

WakeOne ==
  IF Idle = {} THEN UNCHANGED wpc ELSE \E w \in Idle : WorkerTo(w, "checking")

\* notify_one wakes one of the waiting workers, if there is one.
NotifyOne == WakeOne

\* The end of submit.  The task may be long done: its awaiter is not touched.
Notify(j) ==
  /\ j \in notifying
  /\ NotifyOne
  /\ notifying' = notifying \ {j}
  /\ UNCHANGED <<queue, stop, stage, outcome, task, ctx, server, outages, owner>>

-------------------------------------------------------------------------------
(* ThreadPool::worker_loop                                                 *)

\* Mutation: the worker waits without looking at the queue first.
WaitBlindly(w) ==
  /\ wpc[w] = "checking"
  /\ ~stop
  /\ WorkerTo(w, "waiting")
  /\ UNCHANGED <<queue, stop, stage, notifying, outcome, task, ctx, server, outages, owner>>

\* The wait's predicate is false: the mutex is released and the worker waits.
Wait(w) ==
  /\ wpc[w] = "checking"
  /\ queue = <<>> /\ ~stop
  /\ WorkerTo(w, "waiting")
  /\ UNCHANGED <<queue, stop, stage, notifying, outcome, task, ctx, server, outages, owner>>

Spurious(w) ==
  /\ wpc[w] = "waiting"
  /\ WorkerTo(w, "checking")
  /\ UNCHANGED <<queue, stop, stage, notifying, outcome, task, ctx, server, outages, owner>>

MayReturn == stop /\ queue = <<>>

Return(w) ==
  /\ wpc[w] = "checking"
  /\ MayReturn
  /\ WorkerTo(w, "exited")
  /\ UNCHANGED <<queue, stop, stage, notifying, outcome, task, ctx, server, outages, owner>>

\* A stopped pool still works off its queue.
Take(w) ==
  /\ wpc[w] = "checking"
  /\ queue # <<>>
  /\ task' = [task EXCEPT ![w] = Head(queue)]
  /\ queue' = Tail(queue)
  /\ WorkerTo(w, "connecting")
  /\ UNCHANGED <<stop, stage, notifying, outcome, ctx, server, outages, owner>>

Settle(w, o) == outcome' = [outcome EXCEPT ![task[w]] = o] /\ WorkerTo(w, "reporting")

\* Mutation: whatever connection there is, is used again.
ReusableAny(w) == ctx[w] # "none"

\* A connection with err set is dropped before it is used again.
Reusable(w) == ctx[w] \in {"good", "cut"}

\* get_thread_context: reuse, connect, or throw.
Connect(w) ==
  /\ wpc[w] = "connecting"
  /\ \/ /\ Reusable(w)
        /\ WorkerTo(w, "command")
        /\ UNCHANGED <<ctx, outcome>>
     \/ /\ ~Reusable(w) /\ server = "up"
        /\ ctx' = [ctx EXCEPT ![w] = "good"]
        /\ WorkerTo(w, "command")
        /\ UNCHANGED outcome
     \/ /\ ~Reusable(w) /\ server = "down"
        /\ ctx' = [ctx EXCEPT ![w] = "none"]
        /\ Settle(w, "error")
  /\ UNCHANGED <<queue, stop, stage, notifying, task, server, outages, owner>>

\* func(ctx): the first command on a cut connection fails and sets err.
Command(w) ==
  /\ wpc[w] = "command"
  /\ \/ /\ ctx[w] = "good"
        /\ Settle(w, "value")
        /\ UNCHANGED ctx
     \/ /\ ctx[w] \in {"cut", "err"}
        /\ Settle(w, "error")
        /\ ctx' = [ctx EXCEPT ![w] = "err"]
  /\ UNCHANGED <<queue, stop, stage, notifying, task, server, outages, owner>>

\* After the task: an awaited job's resume is posted to its loop, or runs here
\* when no loop awaits it; the error of a submit_void is logged.
Report(w) ==
  LET j == task[w] IN
  /\ wpc[w] = "reporting"
  /\ JobTo(j, IF j \in OnLoop THEN "posted" ELSE "done")
  /\ task' = [task EXCEPT ![w] = NoJob]
  /\ WorkerTo(w, "checking")
  /\ UNCHANGED <<queue, stop, notifying, outcome, ctx, server, outages, owner>>

\* The event loop runs the posted resume, once it is out of await_suspend.
Resume(j) ==
  /\ stage[j] = "posted"
  /\ j \notin notifying
  /\ JobTo(j, "done")
  /\ UNCHANGED <<queue, stop, notifying, outcome, wpc, task, ctx, server, outages, owner>>

-------------------------------------------------------------------------------
(* ~ThreadPool, called when nobody submits any more                        *)

Stop ==
  /\ owner = "alive"
  /\ notifying = {}
  /\ stop' = TRUE
  /\ owner' = "stopping"
  /\ UNCHANGED <<queue, stage, notifying, outcome, wpc, task, ctx, server, outages>>

\* Mutation: the destructor wakes one worker only.
WakeFirst ==
  IF Idle = {} THEN wpc ELSE [wpc EXCEPT ![CHOOSE w \in Idle : TRUE] = "checking"]

WakeAll == [w \in Workers |-> IF wpc[w] = "waiting" THEN "checking" ELSE wpc[w]]

NotifyAll ==
  /\ owner = "stopping"
  /\ owner' = "joining"
  /\ wpc' = WakeAll
  /\ UNCHANGED <<queue, stop, stage, notifying, outcome, task, ctx, server, outages>>

Join ==
  /\ owner = "joining"
  /\ \A w \in Workers : wpc[w] = "exited"
  /\ owner' = "gone"
  /\ UNCHANGED <<queue, stop, stage, notifying, outcome, wpc, task, ctx, server, outages>>

-------------------------------------------------------------------------------
(* The Redis server                                                        *)

\* The server closes its connections; the clients do not notice yet.
GoDown ==
  /\ server = "up"
  /\ outages < Outages
  /\ outages' = outages + 1
  /\ server' = "down"
  /\ ctx' = [w \in Workers |-> IF ctx[w] = "good" THEN "cut" ELSE ctx[w]]
  /\ UNCHANGED <<queue, stop, stage, notifying, outcome, wpc, task, owner>>

ComeUp ==
  /\ server = "down"
  /\ server' = "up"
  /\ UNCHANGED <<queue, stop, stage, notifying, outcome, wpc, task, ctx, outages, owner>>

PoolNext ==
  \/ \E j \in Jobs : Push(j) \/ Notify(j) \/ Resume(j)
  \/ \E w \in Workers : \/ Wait(w) \/ Spurious(w) \/ Return(w) \/ Take(w)
                        \/ Connect(w) \/ Command(w) \/ Report(w)
  \/ Stop \/ NotifyAll \/ Join
  \/ GoDown \/ ComeUp

PoolSpec == PoolInit /\ [][PoolNext]_poolVars

\* Threads are scheduled, a command on a connection ends, loops run what is
\* posted to them.  Spurious wake-ups and the server are not fair.
PoolFairness ==
  /\ \A j \in Jobs : WF_poolVars(Notify(j)) /\ WF_poolVars(Resume(j))
  /\ \A w \in Workers : /\ WF_poolVars(Wait(w) \/ Return(w) \/ Take(w))
                        /\ WF_poolVars(Connect(w) \/ Command(w) \/ Report(w))
  /\ WF_poolVars(NotifyAll)
  /\ WF_poolVars(Join)

FairPoolSpec == PoolSpec /\ PoolFairness

-------------------------------------------------------------------------------
(* Properties                                                              *)

\* An outage costs a worker one command: a connection whose err is set is
\* never given to a task (get_thread_context).
FailsOnce ==
  [][\A w \in Workers : Command(w) => ctx[w] # "err"]_poolVars

\* Every job that was submitted is reported, and its coroutine resumed.
JobAnswered == \A j \in Jobs : (stage[j] = "submitted") ~> (stage[j] = "done")

\* The destructor does not hang in join().
ShutdownEnds == (owner = "stopping") ~> (owner = "gone")
===============================================================================
