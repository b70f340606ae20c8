------------------------------- MODULE WhenAll --------------------------------
(***************************************************************************)
(* when_all_pair and when_all_void (include/astraea/detail/when_all.hpp):  *)
(* a coroutine runs tasks on other threads and waits for all of them.      *)
(*                                                                         *)
(* The last task to count down resumes the caller; an atomic counter and a *)
(* mutex keep the count and the registration of the caller apart.  Steps   *)
(* are single atomic accesses and critical sections.                       *)
(***************************************************************************)
EXTENDS Integers, Sequences, FiniteSets

CONSTANTS Tasks,    \* the tasks
          First,    \* when_all_pair: task A, whose error comes first; when_all_void: NoTask
          NoTask,
          MayThrow  \* the tasks that may end with an exception

Values == "values"
Nothing == "nothing"

ASSUME WhenAllAssumption ==
  /\ IsFiniteSet(Tasks) /\ Tasks # {}
  /\ NoTask \notin Tasks /\ Values \notin Tasks /\ Nothing \notin Tasks
  /\ First \in Tasks \union {NoTask}
  /\ MayThrow \subseteq Tasks

VARIABLES
  stage,      \* where each task is
  remaining,  \* the atomic counter
  waiter,     \* whether the caller's handle is registered
  errors,     \* the tasks whose exceptions were stored, in that order
  holder,     \* who holds mu: "free" or "caller"; the other sections are one step
  caller,     \* where the caller is
  answer      \* what it got

vars == <<stage, remaining, waiter, errors, holder, caller, answer>>

\* "last" has counted down to zero, "resuming" has the caller's handle.
Stages == {"idle", "running", "settled", "last", "resuming", "out"}

TypeOK ==
  /\ stage \in [Tasks -> Stages]
  /\ remaining \in 0 .. Cardinality(Tasks)
  /\ waiter \in BOOLEAN
  /\ errors \in Seq(Tasks)
  /\ holder \in {"free", "caller"}
  /\ holder = "caller" <=> caller \in {"checking", "registering"}
  /\ caller \in {"launching", "asking", "locking", "checking", "registering", "suspended", "resumed", "done"}
  /\ answer \in Tasks \union {Values, Nothing}

Init ==
  /\ stage = [t \in Tasks |-> "idle"]
  /\ remaining = Cardinality(Tasks)
  /\ waiter = FALSE
  /\ errors = <<>>
  /\ holder = "free"
  /\ caller = "launching"
  /\ answer = Nothing

StageTo(t, s) == stage' = [stage EXCEPT ![t] = s]

-------------------------------------------------------------------------------
(* The tasks                                                               *)

\* async_run: the task runs on this thread up to its first suspension.
Launch(t) ==
  /\ caller = "launching"
  /\ stage[t] = "idle"
  /\ StageTo(t, "running")
  /\ UNCHANGED <<remaining, waiter, errors, holder, caller, answer>>

\* The task returns, and its result is stored.
Return(t) ==
  /\ stage[t] = "running"
  /\ StageTo(t, "settled")
  /\ UNCHANGED <<remaining, waiter, errors, holder, caller, answer>>

Keep(t) == errors' = Append(errors, t)

\* The task throws, and its exception is stored; when_all_void does so under mu.
Throw(t) ==
  /\ stage[t] = "running"
  /\ t \in MayThrow
  /\ First # NoTask \/ holder = "free"
  /\ Keep(t)
  /\ StageTo(t, "settled")
  /\ UNCHANGED <<remaining, waiter, holder, caller, answer>>

\* --remaining == 0
CountOut(t) ==
  /\ stage[t] = "settled"
  /\ remaining' = remaining - 1
  /\ StageTo(t, IF remaining' = 0 THEN "last" ELSE "out")
  /\ UNCHANGED <<waiter, errors, holder, caller, answer>>

\* The last task reads the handle under mu.
TakeHandle(t) ==
  /\ stage[t] = "last"
  /\ holder = "free"
  /\ StageTo(t, IF waiter THEN "resuming" ELSE "out")
  /\ UNCHANGED <<remaining, waiter, errors, holder, caller, answer>>

\* h.resume(), on the task's thread.
Resume(t) ==
  /\ stage[t] = "resuming"
  /\ StageTo(t, "out")
  /\ caller' = "resumed"
  /\ UNCHANGED <<remaining, waiter, errors, holder, answer>>

-------------------------------------------------------------------------------
(* The caller                                                              *)

CallerTo(c) == caller' = c

Launched ==
  /\ caller = "launching"
  /\ \A t \in Tasks : stage[t] # "idle"
  /\ CallerTo("asking")
  /\ UNCHANGED <<stage, remaining, waiter, errors, holder, answer>>

\* await_ready
Ask ==
  /\ caller = "asking"
  /\ CallerTo(IF remaining = 0 THEN "resumed" ELSE "locking")
  /\ UNCHANGED <<stage, remaining, waiter, errors, holder, answer>>

\* await_suspend: lock mu ...
Lock ==
  /\ caller = "locking"
  /\ holder = "free"
  /\ holder' = "caller"
  /\ CallerTo("checking")
  /\ UNCHANGED <<stage, remaining, waiter, errors, answer>>

\* Mutation: await_suspend does not look at the counter again.
RecheckNot ==
  /\ caller = "checking"
  /\ CallerTo("registering")
  /\ UNCHANGED <<stage, remaining, waiter, errors, holder, answer>>

\* ... go on at once if everything has ended meanwhile ...
Recheck ==
  /\ caller = "checking"
  /\ CallerTo(IF remaining = 0 THEN "resumed" ELSE "registering")
  /\ holder' = IF remaining = 0 THEN "free" ELSE "caller"
  /\ UNCHANGED <<stage, remaining, waiter, errors, answer>>

\* ... or register the handle, and unlock.
Register ==
  /\ caller = "registering"
  /\ waiter' = TRUE
  /\ holder' = "free"
  /\ CallerTo("suspended")
  /\ UNCHANGED <<stage, remaining, errors, answer>>

Stored == {errors[i] : i \in 1 .. Len(errors)}

\* Mutation: only the first task's exception is rethrown.
RethrownOnlyFirst == IF First \in Stored THEN First ELSE Values

\* await_resume: when_all_pair prefers task A's error, when_all_void the first.
Rethrown ==
  CASE errors = <<>> -> Values
    [] errors # <<>> /\ First \in Stored -> First
    [] OTHER -> Head(errors)

Finish ==
  /\ caller = "resumed"
  /\ answer' = Rethrown
  /\ CallerTo("done")
  /\ UNCHANGED <<stage, remaining, waiter, errors, holder>>

TaskNext(t) ==
  \/ Launch(t) \/ Return(t) \/ Throw(t) \/ CountOut(t) \/ TakeHandle(t) \/ Resume(t)

CallerNext == Launched \/ Ask \/ Lock \/ Recheck \/ Register \/ Finish

Next == CallerNext \/ \E t \in Tasks : TaskNext(t)

Spec == Init /\ [][Next]_vars

\* Tasks end and threads are scheduled.
Fairness ==
  /\ WF_vars(CallerNext)
  /\ \A t \in Tasks : WF_vars(TaskNext(t))

FairSpec == Spec /\ Fairness

-------------------------------------------------------------------------------
(* Properties                                                              *)

\* A suspended caller is always going to be resumed: a task is on its way to
\* it (notify_one against await_suspend).
NoLostWakeup ==
  caller = "suspended" => \E t \in Tasks : stage[t] # "out"

\* The caller is resumed by one task at a time, and only while it is
\* suspended: never a second time, never while it is still registering.
ResumeOnlySuspended ==
  \A t \in Tasks : stage[t] = "resuming" =>
    /\ caller = "suspended"
    /\ \A u \in Tasks : stage[u] = "resuming" => u = t

\* The caller touches the results only after every task has stored its own
\* and has counted down (await_resume).
ResumedAfterAll ==
  caller \in {"resumed", "done"} =>
    \A t \in Tasks : stage[t] \notin {"idle", "running", "settled"}

\* when_all_pair: "task A takes priority when both throw".
FirstHasPriority ==
  answer \in Tasks /\ First \in Stored => answer = First

\* The caller goes on once, after all tasks, with an error exactly when one threw.
Ended == {t \in Tasks : stage[t] \notin {"idle", "running"}}

Contract == INSTANCE Fanout WITH
  ended <- Ended, thrown <- Stored, answer <- answer

ImplementsFanout == Contract!Spec

\* The caller gets its answer.
Answered == <>(caller = "done")
===============================================================================
