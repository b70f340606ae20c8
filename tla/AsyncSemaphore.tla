---------------------------- MODULE AsyncSemaphore ----------------------------
(***************************************************************************)
(* astraea::AsyncSemaphore (src/async_semaphore.cpp): the coroutine-aware  *)
(* counting semaphore that serialises LLM calls in one process.            *)
(*                                                                         *)
(* An element of Calls is one acquire() and the life of its permit.  Every *)
(* critical section of _mu is one step; what the code does between two     *)
(* critical sections (arming the timer, dispatching the resume) is a step  *)
(* of its own, so that other threads may come in between.  An event loop   *)
(* is one thread: while it executes await_suspend or release() it runs no  *)
(* other callback (LoopBusy).                                              *)
(***************************************************************************)
EXTENDS Integers, Sequences, FiniteSets, SequencesExt

CONSTANTS Calls,     \* the acquire() calls
          Loops,     \* the trantor event loops
          NoLoop,    \* a plain thread, which has no event loop
          LoopOf,    \* the loop whose thread executes each acquire()
          Mode,      \* "untimed", or "zero" / "timed" for acquire(timeout)
          Permits    \* the initial number of permits

ASSUME SemaphoreAssumption ==
  /\ IsFiniteSet(Calls)
  /\ NoLoop \notin Loops
  /\ LoopOf \in [Calls -> Loops \union {NoLoop}]
  /\ Mode \in [Calls -> {"untimed", "zero", "timed"}]
  /\ Permits \in Nat

VARIABLES
  avail,     \* _avail
  waiters,   \* _waiters
  acquired,  \* WaiterState::acquired
  timedOut,  \* WaiterState::timed_out
  timerId,   \* whether WaiterState::timer_id is set
  timer,     \* the trantor timer of the wait
  pc,        \* where the call's coroutine is
  target,    \* release(): the waiter w the permit was handed to
  at,        \* release(): the thread that executes it
  posted     \* resumes queued with queueInLoop and not yet run

vars == <<avail, waiters, acquired, timedOut, timerId, timer, pc, target, at, posted>>

Threads == Loops \union {NoLoop}

\* In await_suspend of the timed awaiter the coroutine counts as suspended
\* although its thread still executes: another thread may resume it.
Waiting == {"enqueued", "timer_set", "suspended"}

PC == Waiting \union {"idle", "unready", "holding", "refused", "handing", "released"}

TypeOK ==
  /\ avail \in Nat
  /\ waiters \in Seq(Calls)
  /\ acquired \in [Calls -> BOOLEAN]
  /\ timedOut \in [Calls -> BOOLEAN]
  /\ timerId \in [Calls -> BOOLEAN]
  /\ timer \in [Calls -> {"none", "pending", "doomed", "gone"}]
  /\ pc \in [Calls -> PC]
  /\ target \in [Calls -> Calls]
  /\ at \in [Calls -> Threads]
  /\ posted \in SUBSET Calls

Init ==
  /\ avail = Permits
  /\ waiters = <<>>
  /\ acquired = [c \in Calls |-> FALSE]
  /\ timedOut = [c \in Calls |-> FALSE]
  /\ timerId = [c \in Calls |-> FALSE]
  /\ timer = [c \in Calls |-> "none"]
  /\ pc = [c \in Calls |-> "idle"]
  /\ target = [c \in Calls |-> c]
  /\ at = [c \in Calls |-> NoLoop]
  /\ posted = {}

Become(c, s) == pc' = [pc EXCEPT ![c] = s]

\* The thread of loop l is inside await_suspend or release().
LoopBusy(l) ==
  /\ l # NoLoop
  /\ \E c \in Calls : \/ LoopOf[c] = l /\ pc[c] \in {"unready", "enqueued", "timer_set"}
                      \/ at[c] = l /\ pc[c] = "handing"

-------------------------------------------------------------------------------
(* acquire()                                                               *)

\* await_ready: try_acquire(); a zero timeout does not wait.
TryAcquire(c) ==
  /\ pc[c] = "idle"
  /\ ~LoopBusy(LoopOf[c])
  /\ \/ avail > 0 /\ avail' = avail - 1 /\ Become(c, "holding")
     \/ /\ avail <= 0
        /\ Become(c, IF Mode[c] = "zero" THEN "refused" ELSE "unready")
        /\ UNCHANGED avail
  /\ UNCHANGED <<waiters, acquired, timedOut, timerId, timer, target, at, posted>>

\* Mutation: no second look, the call always joins the queue.
SuspendAlways(c) ==
  /\ pc[c] = "unready"
  /\ Mode[c] = "untimed"
  /\ waiters' = Append(waiters, c)
  /\ Become(c, "suspended")
  /\ UNCHANGED <<avail, acquired, timedOut, timerId, timer, target, at, posted>>

\* await_suspend of acquire(): look at _avail again, else join the queue.
SuspendUntimed(c) ==
  /\ pc[c] = "unready"
  /\ Mode[c] = "untimed"
  /\ \/ avail > 0 /\ avail' = avail - 1 /\ Become(c, "holding") /\ UNCHANGED waiters
     \/ avail <= 0 /\ waiters' = Append(waiters, c) /\ Become(c, "suspended") /\ UNCHANGED avail
  /\ UNCHANGED <<acquired, timedOut, timerId, timer, target, at, posted>>

\* await_suspend of acquire(timeout): the same, except that a thread without
\* an event loop cannot bound its wait and gives up.
SuspendTimed(c) ==
  /\ pc[c] = "unready"
  /\ Mode[c] = "timed"
  /\ \/ /\ avail > 0
        /\ avail' = avail - 1
        /\ acquired' = [acquired EXCEPT ![c] = TRUE]
        /\ Become(c, "holding")
        /\ UNCHANGED waiters
     \/ /\ avail <= 0
        /\ LoopOf[c] = NoLoop
        /\ Become(c, "refused")
        /\ UNCHANGED <<avail, acquired, waiters>>
     \/ /\ avail <= 0
        /\ LoopOf[c] # NoLoop
        /\ waiters' = Append(waiters, c)
        /\ Become(c, "enqueued")
        /\ UNCHANGED <<avail, acquired>>
  /\ UNCHANGED <<timedOut, timerId, timer, target, at, posted>>

\* loop->runAfter, outside the lock.
RunAfter(c) ==
  /\ pc[c] = "enqueued"
  /\ timer' = [timer EXCEPT ![c] = "pending"]
  /\ Become(c, "timer_set")
  /\ UNCHANGED <<avail, waiters, acquired, timedOut, timerId, target, at, posted>>

\* The second critical section: keep the timer's id, or cancel the timer if
\* the wait was decided meanwhile.
CommitTimer(c) ==
  /\ pc[c] = "timer_set"
  /\ \/ /\ acquired[c] \/ timedOut[c]
        /\ timer' = [timer EXCEPT ![c] = "gone"]
        /\ UNCHANGED timerId
     \/ /\ ~acquired[c] /\ ~timedOut[c]
        /\ timerId' = [timerId EXCEPT ![c] = TRUE]
        /\ UNCHANGED timer
  /\ Become(c, "suspended")
  /\ UNCHANGED <<avail, waiters, acquired, timedOut, target, at, posted>>

\* Mutation: await_resume forgets the slow path of the timed awaiter.
ResumedRefused(c) == IF Mode[c] = "untimed" THEN "holding" ELSE "refused"

\* await_resume: an untimed acquire always returns a permit, a timed one
\* only when its waiter was marked acquired.
ResumedAs(c) == IF Mode[c] = "untimed" \/ acquired[c] THEN "holding" ELSE "refused"

-------------------------------------------------------------------------------
(* The timer                                                               *)

\* Mutation: the youngest waiter is served first.
IsLast(i, S) == i \in S /\ \A j \in S : j <= i

IsFirst(i, S) == i \in S /\ \A j \in S : i <= j

\* std::find and erase: take the waiter out of the queue if it is there.
EraseWaiter(c) ==
  LET found == {i \in DOMAIN waiters : waiters[i] = c} IN
  \/ found = {} /\ UNCHANGED waiters
  \/ \E i \in DOMAIN waiters : IsFirst(i, found) /\ waiters' = RemoveAt(waiters, i)

\* The timer's callback on the waiter's loop.  It loses the race with
\* release() when the waiter is already decided; otherwise it leaves the
\* queue and resumes the coroutine without a permit.
TimerFire(c) ==
  /\ timer[c] \in {"pending", "doomed"}
  /\ ~LoopBusy(LoopOf[c])
  /\ timer' = [timer EXCEPT ![c] = "gone"]
  /\ \/ /\ acquired[c] \/ timedOut[c]
        /\ UNCHANGED <<waiters, timedOut, pc>>
     \/ /\ ~acquired[c] /\ ~timedOut[c]
        /\ EraseWaiter(c)
        /\ timedOut' = [timedOut EXCEPT ![c] = TRUE]
        /\ Become(c, "refused")
  /\ UNCHANGED <<avail, acquired, timerId, target, at, posted>>

\* invalidateTimer called from another thread takes effect when the timer's
\* loop gets to it; until then the timer may still fire.
TimerCancelled(c) ==
  /\ timer[c] = "doomed"
  /\ ~LoopBusy(LoopOf[c])
  /\ timer' = [timer EXCEPT ![c] = "gone"]
  /\ UNCHANGED <<avail, waiters, acquired, timedOut, timerId, pc, target, at, posted>>

-------------------------------------------------------------------------------
(* release()                                                               *)

\* The positions of _waiters that are still undecided.
Undecided == {i \in DOMAIN waiters : ~acquired[waiters[i]] /\ ~timedOut[waiters[i]]}

\* Permit::reset() on thread t, the critical section of release(): drop the
\* decided entries at the front, hand the permit to the first other one
\* without touching _avail, or else put it back.
Release(c, t) ==
  /\ pc[c] = "holding"
  /\ ~LoopBusy(t)
  /\ \/ /\ Undecided = {}
        /\ waiters' = <<>>
        /\ avail' = avail + 1
        /\ Become(c, "released")
        /\ UNCHANGED <<acquired, target, at>>
     \/ \E i \in DOMAIN waiters :
          /\ IsFirst(i, Undecided)
          /\ waiters' = SubSeq(waiters, i + 1, Len(waiters))
          /\ acquired' = [acquired EXCEPT ![waiters[i]] = TRUE]
          /\ target' = [target EXCEPT ![c] = waiters[i]]
          /\ at' = [at EXCEPT ![c] = t]
          /\ Become(c, "handing")
          /\ UNCHANGED avail
  /\ UNCHANGED <<timedOut, timerId, timer, posted>>

\* Mutation: every waiter is resumed in place, on the releasing thread.
PostsNever(w, t) == FALSE

\* A waiter of another loop is resumed by that loop, the others in place.
Posts(w, t) == LoopOf[w] # NoLoop /\ LoopOf[w] # t

\* The rest of release(), outside the lock: cancel the waiter's timer and
\* resume the waiter.
Dispatch(c) ==
  LET w == target[c] IN
  /\ pc[c] = "handing"
  /\ timer' = [timer EXCEPT ![w] =
                 IF timerId[w] /\ timer[w] = "pending"
                 THEN IF LoopOf[w] = at[c] THEN "gone" ELSE "doomed"
                 ELSE @]
  /\ \/ /\ Posts(w, at[c])
        /\ posted' = posted \union {w}
        /\ Become(c, "released")
     \/ /\ ~Posts(w, at[c])
        /\ pc' = [pc EXCEPT ![c] = "released", ![w] = ResumedAs(w)]
        /\ UNCHANGED posted
  /\ UNCHANGED <<avail, waiters, acquired, timedOut, timerId, target, at>>

\* The loop runs the queued h.resume().
LoopResume(c) ==
  /\ c \in posted
  /\ ~LoopBusy(LoopOf[c])
  /\ posted' = posted \ {c}
  /\ Become(c, ResumedAs(c))
  /\ UNCHANGED <<avail, waiters, acquired, timedOut, timerId, timer, target, at>>

-------------------------------------------------------------------------------

Settle(c) == \/ SuspendUntimed(c) \/ SuspendTimed(c) \/ RunAfter(c) \/ CommitTimer(c)
             \/ Dispatch(c) \/ LoopResume(c)

Next == \E c \in Calls :
          \/ TryAcquire(c) \/ SuspendUntimed(c) \/ SuspendTimed(c)
          \/ RunAfter(c) \/ CommitTimer(c)
          \/ TimerFire(c) \/ TimerCancelled(c)
          \/ \E t \in Threads : Release(c, t)
          \/ Dispatch(c) \/ LoopResume(c)

Spec == Init /\ [][Next]_vars

\* A thread goes on with what it started, loops run what is queued with them
\* and timers fire; nobody has to call acquire(), nor to drop a permit.
Fairness == \A c \in Calls : WF_vars(Settle(c)) /\ WF_vars(TimerFire(c))

FairSpec == Spec /\ Fairness

-------------------------------------------------------------------------------
(* Properties                                                              *)

\* The calls a permit is charged to: its holder, or the waiter that
\* release() chose and that has not been resumed yet.
Owners == {c \in Calls : pc[c] = "holding" \/ (acquired[c] /\ pc[c] \in Waiting)}

Refused == {c \in Calls : pc[c] = "refused"}

\* Permits are neither lost nor duplicated: those available and those owned
\* add up to the initial number at every point between two critical sections,
\* a hand-over in flight included.
PermitsConserved == avail + Cardinality(Owners) = Permits

\* No lost wake-up: nobody is queued while a permit lies idle.
NoIdlePermit == waiters # <<>> => avail = 0

\* A waiter is decided once: never both granted a permit and timed out.
DecidedOnce == \A c \in Calls : ~(acquired[c] /\ timedOut[c])

\* A call that got its permit leaves no live timer behind: either release()
\* or await_suspend cancels it, whichever comes last.
NoStrayTimer ==
  \A c \in Calls : pc[c] \in {"holding", "released"} => timer[c] # "pending"

\* h.resume() only ever meets a coroutine whose await_suspend has returned,
\* and meets it once.
ResumeOnlySuspended ==
  [][\A c \in Calls : (pc[c] \in Waiting /\ pc'[c] \notin Waiting) => pc[c] = "suspended"]_vars

\* A call that has a permit or a refusal only moves on by giving the permit
\* back: a stray resume never restarts it.
ResumeOnce ==
  [][\A c \in Calls : /\ pc[c] = "refused" => pc'[c] = "refused"
                      /\ pc[c] = "holding" => pc'[c] \in {"holding", "handing", "released"}
                      /\ pc[c] \in {"handing", "released"} => pc'[c] \in {"handing", "released"}]_vars

\* If every holder eventually drops its permit, every acquire gets an answer.
HoldersRelease == \A c \in Calls : []<>(pc[c] # "holding")
AllAnswered == \A c \in Calls : []<>(pc[c] \notin Waiting \union {"unready"})
AnsweredIfReleased == HoldersRelease => AllAnswered

\* The semaphore implements the abstract pool of permits.
Pool == INSTANCE PermitPool WITH
          Patient <- {c \in Calls : Mode[c] = "untimed"},
          free <- avail,
          line <- waiters,
          owner <- Owners,
          refused <- Refused

ImplementsPool == Pool!PoolSpec
===============================================================================
