--------------------------- MODULE RedisCoordinator ---------------------------
(***************************************************************************)
(* astraea::RedisCoordinator (src/redis_coordinator.cpp): the cluster-wide *)
(* cap on LLM calls, a counter in Redis that several processes change with *)
(* two Lua scripts, and a failsafe TTL on the counter's key.               *)
(*                                                                         *)
(* Time is counted in ticks; the TTL, the acquire timeout and the longest  *)
(* time a permit is held are numbers of ticks.  A Redis command may fail,  *)
(* be executed although its reply is lost, or be answered with an error    *)
(* reply; a process may crash.  Faults and Errors bound how often.         *)
(***************************************************************************)
EXTENDS Integers, FiniteSets

CONSTANTS Clients,   \* coroutines of all processes, each calling acquire again and again
          Procs,     \* the processes that share one Redis
          ProcOf,    \* the process of each client
          Max,       \* _max, the script's ARGV[1]
          Ttl,       \* _ttl in ticks
          Timeout,   \* the timeout of acquire() in ticks
          HoldMax,   \* the longest time from a grant to the end of its release
          Faults,    \* bound on lost commands, lost replies and crashes
          Errors     \* bound on error replies (LOADING, READONLY, OOM, ...)

ASSUME RedisAssumption ==
  /\ IsFiniteSet(Clients)
  /\ ProcOf \in [Clients -> Procs]
  /\ Max \in Nat \ {0}
  /\ Ttl \in Nat \ {0}
  /\ Timeout \in Nat
  /\ HoldMax \in Nat
  /\ Faults \in Nat
  /\ Errors \in Nat

VARIABLES
  active,   \* the counter astraea:llm:active, 0 when the key does not exist
  age,      \* ticks since the key's last EXPIRE
  pc,       \* where each client is
  clock,    \* ticks since a waiting client entered acquire(), or a charged one was granted
  slept,    \* whether the poll interval of a sleeping client is over
  leaked,   \* slots of the counter that nobody will release
  faults,   \* faults so far
  errors    \* error replies so far

vars == <<active, age, pc, clock, slept, leaked, faults, errors>>

\* "open" is a permit without a slot: RedisPermit(nullptr).
PC == {"idle", "polling", "sleeping", "holding", "open", "releasing", "refused"}

Waiting == {c \in Clients : pc[c] \in {"polling", "sleeping"}}

\* The clients whose slot the counter holds.
Charged == {c \in Clients : pc[c] \in {"holding", "releasing"}}

TypeOK ==
  /\ active \in 0 .. Max
  /\ age \in 0 .. Ttl - 1
  /\ pc \in [Clients -> PC]
  /\ clock \in [Clients -> Nat]
  /\ \A c \in Clients : clock[c] <= IF c \in Waiting THEN Timeout ELSE HoldMax
  /\ slept \in [Clients -> BOOLEAN]
  /\ leaked \in Nat
  /\ faults \in 0 .. Faults
  /\ errors \in 0 .. Errors

Init ==
  /\ active = 0
  /\ age = 0
  /\ pc = [c \in Clients |-> "idle"]
  /\ clock = [c \in Clients |-> 0]
  /\ slept = [c \in Clients |-> FALSE]
  /\ leaked = 0
  /\ faults = 0
  /\ errors = 0

Become(c, s) == pc' = [pc EXCEPT ![c] = s]

Restart(c) == clock' = [clock EXCEPT ![c] = 0]

Fault == faults < Faults /\ faults' = faults + 1

-------------------------------------------------------------------------------
(* The Lua scripts, which Redis runs atomically                            *)

Admit == active < Max

\* Mutation: the grant does not renew the key's expiry.
LuaGrantNoExpire ==
  Admit /\ active' = active + 1 /\ age' = IF active = 0 THEN 0 ELSE age

\* LUA_ACQUIRE when the counter is below max: INCR and EXPIRE.
LuaGrant == Admit /\ active' = active + 1 /\ age' = 0

\* Mutation: the key is deleted although other permits are counted.
AfterReleaseDel(n) == 0

\* LUA_RELEASE: DECR, and DEL when nothing is left.  DECR of a missing key
\* gives -1 and is deleted as well.
AfterRelease(n) == IF n - 1 <= 0 THEN 0 ELSE n - 1

\* Mutation: the script sets no expiry.
ExpiresNever == FALSE

\* EXPIRE was set by the grant, so the key goes when it is Ttl old.
Expires == age + 1 >= Ttl

-------------------------------------------------------------------------------
(* acquire(timeout)                                                        *)

Acquire(c) ==
  /\ pc[c] \in {"idle", "refused"}
  /\ Become(c, "polling")
  /\ UNCHANGED <<active, age, clock, slept, leaked, faults, errors>>

\* The script grants a slot and its reply arrives.
Granted(c) ==
  /\ pc[c] = "polling"
  /\ LuaGrant
  /\ Become(c, "holding")
  /\ Restart(c)
  /\ UNCHANGED <<slept, leaked, faults, errors>>

Expired(c) == clock[c] >= Timeout

\* After a reply of less than 1: give up at the deadline, else sleep.
TryLater(c) ==
  /\ Become(c, IF Expired(c) THEN "refused" ELSE "sleeping")
  /\ clock' = IF Expired(c) THEN [clock EXCEPT ![c] = 0] ELSE clock

\* The script answers -1.
Contended(c) ==
  /\ pc[c] = "polling"
  /\ ~Admit
  /\ TryLater(c)
  /\ UNCHANGED <<active, age, slept, leaked, faults, errors>>

\* Redis answers with an error reply: exec_lua_acquire throws only when there
\* is no reply, every reply that is not an integer reads as -1.
ErrorReply(c) ==
  /\ pc[c] = "polling"
  /\ errors < Errors
  /\ errors' = errors + 1
  /\ TryLater(c)
  /\ UNCHANGED <<active, age, slept, leaked, faults>>

\* The command fails before Redis runs it: fail open.
Unreachable(c) ==
  /\ pc[c] = "polling"
  /\ Fault
  /\ Become(c, "open")
  /\ Restart(c)
  /\ UNCHANGED <<active, age, slept, leaked, errors>>

\* Redis runs the script, its reply is lost: fail open, and the slot has no owner.
ReplyLost(c) ==
  /\ pc[c] = "polling"
  /\ Fault
  /\ LuaGrant
  /\ leaked' = leaked + 1
  /\ Become(c, "open")
  /\ Restart(c)
  /\ UNCHANGED <<slept, errors>>

\* The end of sleep_on_loop(min(_poll, remaining)).
Wake(c) ==
  /\ pc[c] = "sleeping"
  /\ slept[c]
  /\ Become(c, "polling")
  /\ slept' = [slept EXCEPT ![c] = FALSE]
  /\ UNCHANGED <<active, age, clock, leaked, faults, errors>>

-------------------------------------------------------------------------------
(* The permit's destructor                                                 *)

\* ~RedisPermit: a permit with a slot submits its release to a worker.
Drop(c) ==
  /\ pc[c] \in {"holding", "open"}
  /\ Become(c, IF pc[c] = "holding" THEN "releasing" ELSE "idle")
  /\ UNCHANGED <<active, age, clock, slept, leaked, faults, errors>>

\* A worker runs LUA_RELEASE.
Released(c) ==
  /\ pc[c] = "releasing"
  /\ active' = AfterRelease(active)
  /\ Become(c, "idle")
  /\ Restart(c)
  /\ UNCHANGED <<age, slept, leaked, faults, errors>>

\* The worker has no connection: the release is logged and lost.
ReleaseLost(c) ==
  /\ pc[c] = "releasing"
  /\ Fault
  /\ leaked' = leaked + 1
  /\ Become(c, "idle")
  /\ Restart(c)
  /\ UNCHANGED <<active, age, slept, errors>>

-------------------------------------------------------------------------------
(* Crashes and time                                                        *)

\* A process dies with the permits its clients hold or are giving back, and
\* is started again.
Crash(p) ==
  LET own == {c \in Clients : ProcOf[c] = p} IN
  /\ \E c \in own : pc[c] \notin {"idle", "refused"}
  /\ Fault
  /\ leaked' = leaked + Cardinality(own \cap Charged)
  /\ pc' = [c \in Clients |-> IF c \in own THEN "idle" ELSE pc[c]]
  /\ clock' = [c \in Clients |-> IF c \in own THEN 0 ELSE clock[c]]
  /\ slept' = [c \in Clients |-> IF c \in own THEN FALSE ELSE slept[c]]
  /\ UNCHANGED <<active, age, errors>>

\* A tick: the clients' clocks advance.
Elapse ==
  /\ \A c \in Charged : clock[c] < HoldMax
  /\ clock' = [c \in Clients |->
       IF c \in Charged \/ (c \in Waiting /\ clock[c] < Timeout) THEN clock[c] + 1 ELSE clock[c]]
  /\ slept' = [c \in Clients |-> slept[c] \/ pc[c] = "sleeping"]
  /\ UNCHANGED <<pc, faults, errors>>

\* A tick after which the key is still there, or was not there before.
Tick ==
  /\ Elapse
  /\ active = 0 \/ ~Expires
  /\ age' = IF active = 0 THEN 0 ELSE IF age < Ttl - 1 THEN age + 1 ELSE age
  /\ leaked' = IF active = 0 THEN 0 ELSE leaked
  /\ UNCHANGED active

\* A tick with which the key expires, and every slot with it.
Expire ==
  /\ Elapse
  /\ active > 0
  /\ Expires
  /\ active' = 0
  /\ age' = 0
  /\ leaked' = 0

Next ==
  \/ \E c \in Clients : \/ Acquire(c) \/ Granted(c) \/ Contended(c) \/ ErrorReply(c)
                        \/ Unreachable(c) \/ ReplyLost(c) \/ Wake(c)
                        \/ Drop(c) \/ Released(c) \/ ReleaseLost(c)
  \/ \E p \in Procs : Crash(p)
  \/ Tick
  \/ Expire

Spec == Init /\ [][Next]_vars

\* Redis answers every command in the end, loops run their timers, permits
\* are dropped and time passes.
Fairness ==
  /\ WF_vars(Tick \/ Expire)
  /\ \A c \in Clients : WF_vars(Granted(c) \/ Contended(c)) /\ WF_vars(Wake(c))
                        /\ WF_vars(Drop(c)) /\ WF_vars(Released(c))

FairSpec == Spec /\ Fairness

-------------------------------------------------------------------------------
(* Properties                                                              *)

\* The counter is the permits charged to it and the slots that a fault leaked:
\* it never falls below the former, whatever crashes and however late a release
\* comes, as long as no permit is held for a TTL, and no slot is lost without a
\* fault (LUA_ACQUIRE, LUA_RELEASE).
SlotsAccounted == active \in Cardinality(Charged) .. Cardinality(Charged) + leaked

\* The cluster-wide cap: permits with a slot, the ones on their way back
\* included, never exceed Max.
ClusterCap == Cardinality(Charged) <= Max

\* A pool whose slots are all leaked recovers: no acquire succeeds, nobody
\* renews the key, and the failsafe TTL runs out.
FullStallEnds == (active = Max /\ Charged = {}) ~> active < Max

===============================================================================
