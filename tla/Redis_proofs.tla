------------------------------ MODULE Redis_proofs ------------------------------
(***************************************************************************)
(* Proofs about RedisCoordinator for any finite set of clients, any number *)
(* of processes and slots, any TTL, and any number of faults, as long as   *)
(* no permit is held for a TTL; and about the threads that run its         *)
(* commands (HiredisRuntime), for any jobs, workers and outages.           *)
(***************************************************************************)
EXTENDS RedisCoordinator, HiredisRuntime, FiniteSetTheorems, SequenceTheorems, TLAPS

\* A client that neither waits nor is charged has no time running.
ClockInv == \A c \in Clients : c \notin Waiting \union Charged => clock[c] = 0

\* Every grant renews the key, so the key is not older than the youngest permit
\* that it counts; this is why it cannot expire under a permit held for less
\* than a TTL.
LeaseInv == \A c \in Charged : age <= clock[c]

Accounting == TypeOK /\ ClockInv /\ LeaseInv /\ SlotsAccounted

LEMMA ChargedFinite == IsFiniteSet(Charged) /\ Cardinality(Charged) \in Nat
<1>1. Charged \in SUBSET Clients
  BY DEF Charged
<1>2. IsFiniteSet(Charged)
  BY <1>1, RedisAssumption, FS_Subset
<1> QED BY <1>2, FS_CardinalityType

\* What a step of one client does to the set of charged clients.
LEMMA ChargedStep ==
  ASSUME NEW c \in Clients, TypeOK, NEW s, pc' = [pc EXCEPT ![c] = s]
  PROVE  /\ s \in {"holding", "releasing"} => Charged' = Charged \union {c}
         /\ s \notin {"holding", "releasing"} => Charged' = Charged \ {c}
  BY DEF Charged, TypeOK

LEMMA AccountingInit == Init => Accounting
<1> SUFFICES ASSUME Init PROVE Accounting
  OBVIOUS
<1>1. Charged = {} /\ Waiting = {}
  BY DEF Init, Charged, Waiting
<1>2. Cardinality(Charged) = 0
  BY <1>1, FS_EmptySet
<1>3. TypeOK
  BY <1>1, RedisAssumption DEF Init, TypeOK, PC
<1> QED BY <1>1, <1>2, <1>3, RedisAssumption DEF Init, Accounting, ClockInv, LeaseInv, SlotsAccounted

\* The type, the clocks and the lease of the key.
LEMMA ClocksNext ==
  ASSUME Accounting, [Next]_vars, HoldMax < Ttl
  PROVE  TypeOK' /\ ClockInv' /\ LeaseInv'
<1> USE RedisAssumption DEF Accounting, TypeOK, PC, Waiting, Charged, ClockInv, LeaseInv
<1>1. ASSUME NEW c \in Clients,
             Acquire(c) \/ Contended(c) \/ ErrorReply(c) \/ Wake(c) \/ Drop(c)
      PROVE  TypeOK' /\ ClockInv' /\ LeaseInv'
  <2>1. CASE Acquire(c)
    BY <2>1 DEF Acquire, Become
  <2>2. CASE Contended(c) \/ ErrorReply(c)
    <3>1. CASE Expired(c)
      BY <2>2, <3>1 DEF Contended, ErrorReply, Become, TryLater
    <3>2. CASE ~Expired(c)
      BY <2>2, <3>2 DEF Contended, ErrorReply, Become, TryLater
    <3> QED BY <3>1, <3>2
  <2>3. CASE Wake(c)
    BY <2>3 DEF Wake, Become
  <2>4. CASE Drop(c)
    BY <2>4 DEF Drop, Become
  <2> QED BY <1>1, <2>1, <2>2, <2>3, <2>4
<1>2. ASSUME NEW c \in Clients, Granted(c) \/ ReplyLost(c)
      PROVE  TypeOK' /\ ClockInv' /\ LeaseInv'
  BY <1>2 DEF Granted, ReplyLost, Become, Restart, LuaGrant, Admit, Fault
<1>3. ASSUME NEW c \in Clients, Unreachable(c) \/ Released(c) \/ ReleaseLost(c)
      PROVE  TypeOK' /\ ClockInv' /\ LeaseInv'
  BY <1>3 DEF Unreachable, Released, ReleaseLost, Become, Restart, AfterRelease, Fault
<1>4. ASSUME NEW p \in Procs, Crash(p)
      PROVE  TypeOK' /\ ClockInv' /\ LeaseInv'
  <2> DEFINE own == {c \in Clients : ProcOf[c] = p}
  <2>1. own \intersect Charged \in SUBSET Clients
    OBVIOUS
  <2>2. Cardinality(own \intersect Charged) \in Nat
    BY <2>1, FS_Subset, FS_CardinalityType
  <2>3. TypeOK'
    <3>1. leaked' \in Nat
      BY <1>4, <2>2 DEF Crash
    <3>2. active' \in 0 .. Max /\ age' \in 0 .. Ttl - 1 /\ faults' \in 0 .. Faults /\ errors' \in 0 .. Errors
      BY <1>4 DEF Crash, Fault
    <3>3. pc' \in [Clients -> PC] /\ clock' \in [Clients -> Nat] /\ slept' \in [Clients -> BOOLEAN]
      BY <1>4 DEF Crash
    <3>4. \A c \in Clients : clock'[c] <= IF c \in Waiting' THEN Timeout ELSE HoldMax
      BY <1>4 DEF Crash
    <3> QED BY <3>1, <3>2, <3>3, <3>4
  <2>4. ClockInv' /\ LeaseInv'
    BY <1>4 DEF Crash
  <2> QED BY <2>3, <2>4
<1>5. CASE Tick
  <2>1. active = 0 => Charged = {}
    BY ChargedFinite, FS_EmptySet DEF SlotsAccounted
  <2>2. TypeOK' /\ ClockInv'
    BY <1>5 DEF Tick, Elapse, Expires
  <2>3. LeaseInv'
    BY <1>5, <2>1 DEF Tick, Elapse, Expires
  <2> QED BY <2>2, <2>3
<1>6. CASE Expire
  BY <1>6 DEF Expire, Elapse, Expires
<1>7. CASE UNCHANGED vars
  BY <1>7 DEF vars
<1> QED BY <1>1, <1>2, <1>3, <1>4, <1>5, <1>6, <1>7 DEF Next

\* The counter.
LEMMA SlotsNext ==
  ASSUME Accounting, [Next]_vars, HoldMax < Ttl
  PROVE  SlotsAccounted'
<1> DEFINE n == Cardinality(Charged)
<1>0. /\ IsFiniteSet(Charged) /\ n \in Nat /\ active \in Nat /\ leaked \in Nat
      /\ n <= active /\ active <= n + leaked
  BY ChargedFinite, RedisAssumption DEF Accounting, TypeOK, SlotsAccounted
<1> USE DEF SlotsAccounted
<1>1. ASSUME NEW c \in Clients,
             Acquire(c) \/ Contended(c) \/ ErrorReply(c) \/ Unreachable(c) \/ Wake(c) \/ Drop(c)
      PROVE  SlotsAccounted'
  <2>1. Charged' = Charged
    BY <1>1 DEF Acquire, Contended, ErrorReply, Unreachable, Wake, Drop, Become, TryLater,
                Charged, Accounting, TypeOK
  <2> QED BY <1>0, <1>1, <2>1 DEF Acquire, Contended, ErrorReply, Unreachable, Wake, Drop
<1>2. ASSUME NEW c \in Clients, Granted(c)
      PROVE  SlotsAccounted'
  <2>1. Charged' = Charged \union {c} /\ c \notin Charged
    BY <1>2, ChargedStep DEF Granted, Become, Charged, Accounting
  <2>2. Cardinality(Charged') = n + 1
    BY <1>0, <2>1, FS_AddElement
  <2> QED BY <1>0, <1>2, <2>2 DEF Granted, LuaGrant
<1>3. ASSUME NEW c \in Clients, ReplyLost(c)
      PROVE  SlotsAccounted'
  <2>1. Charged' = Charged
    BY <1>3 DEF ReplyLost, Become, Charged, Accounting, TypeOK
  <2> QED BY <1>0, <1>3, <2>1 DEF ReplyLost, LuaGrant
<1>4. ASSUME NEW c \in Clients, Released(c) \/ ReleaseLost(c)
      PROVE  SlotsAccounted'
  <2>1. Charged' = Charged \ {c} /\ c \in Charged
    <3>1. pc' = [pc EXCEPT ![c] = "idle"] /\ pc[c] = "releasing"
      BY <1>4 DEF Released, ReleaseLost, Become
    <3>2. "idle" \notin {"holding", "releasing"}
      OBVIOUS
    <3> QED BY <3>1, <3>2, ChargedStep DEF Charged, Accounting
  <2>2. Cardinality(Charged') = n - 1 /\ n - 1 \in Nat
    <3>1. Cardinality(Charged') = n - 1
      BY <1>0, <2>1, FS_RemoveElement
    <3>2. IsFiniteSet(Charged')
      BY <1>0, <2>1, FS_RemoveElement
    <3> QED BY <3>1, <3>2, FS_CardinalityType
  <2> QED BY <1>0, <1>4, <2>2 DEF Released, ReleaseLost, AfterRelease
<1>5. ASSUME NEW p \in Procs, Crash(p)
      PROVE  SlotsAccounted'
  <2> DEFINE own == {c \in Clients : ProcOf[c] = p}
  <2>1. Charged' = Charged \ own
    BY <1>5 DEF Crash, Charged
  <2>2. Cardinality(Charged') = n - Cardinality(own \intersect Charged)
    <3>1. own \intersect Charged = Charged \intersect own
      OBVIOUS
    <3> HIDE DEF own
    <3>2. Cardinality(Charged \ own) = Cardinality(Charged) - Cardinality(Charged \intersect own)
      BY <1>0, FS_Difference
    <3> QED BY <2>1, <3>1, <3>2
  <2>3. Cardinality(own \intersect Charged) \in Nat
    BY <1>0, FS_Intersection, FS_CardinalityType
  <2>4. active' = active /\ leaked' = leaked + Cardinality(own \intersect Charged)
    BY <1>5 DEF Crash
  <2> HIDE DEF own
  <2> QED BY <1>0, <2>2, <2>3, <2>4
<1>6. CASE Tick
  <2>1. Charged' = Charged
    BY <1>6 DEF Tick, Elapse, Charged
  <2> QED BY <1>0, <1>6, <2>1 DEF Tick
<1>7. CASE Expire
  <2>1. Charged = {}
    <3> SUFFICES ASSUME NEW c \in Charged PROVE FALSE
      OBVIOUS
    <3>1. /\ c \in Clients /\ clock[c] \in Nat /\ age \in Nat
          /\ age <= clock[c] /\ clock[c] < HoldMax /\ age + 1 >= Ttl
      BY <1>7, RedisAssumption DEF Expire, Elapse, Expires, Charged, Accounting, TypeOK, LeaseInv
    <3> QED BY <3>1, RedisAssumption
  <2>2. Charged' = {}
    BY <1>7, <2>1 DEF Expire, Elapse, Charged
  <2> QED BY <1>7, <2>2, FS_EmptySet DEF Expire
<1>8. CASE UNCHANGED vars
  BY <1>0, <1>8 DEF vars, Charged
<1> QED BY <1>1, <1>2, <1>3, <1>4, <1>5, <1>6, <1>7, <1>8 DEF Next

\* The invariant the theorems follow from.
THEOREM AccountingHolds ==
  ASSUME HoldMax < Ttl
  PROVE  Spec => []Accounting
<1>1. Accounting /\ [Next]_vars => Accounting'
  BY ClocksNext, SlotsNext DEF Accounting
<1> QED BY <1>1, AccountingInit, PTL DEF Spec

\* The state keeps its type: the counter stays within 0 .. Max although late
\* and lost releases decrement it or do not.
THEOREM RedisTypeCorrect ==
  ASSUME HoldMax < Ttl
  PROVE  Spec => []TypeOK
<1>1. Accounting => TypeOK
  BY DEF Accounting
<1> QED BY <1>1, AccountingHolds, PTL

\* The counter is the permits that are out plus at most what faults leaked: no
\* release, however late, and no expiry takes away the slot of a live permit.
THEOREM CounterAccounts ==
  ASSUME HoldMax < Ttl
  PROVE  Spec => []SlotsAccounted
<1>1. Accounting => SlotsAccounted
  BY DEF Accounting
<1> QED BY <1>1, AccountingHolds, PTL

\* The cap over all processes, through crashes, lost replies and lost releases.
THEOREM CapHolds ==
  ASSUME HoldMax < Ttl
  PROVE  Spec => []ClusterCap
<1>1. Accounting => ClusterCap
  BY ChargedFinite, RedisAssumption DEF Accounting, TypeOK, SlotsAccounted, ClusterCap
<1> QED BY <1>1, AccountingHolds, PTL

-------------------------------------------------------------------------------
(* HiredisRuntime                                                          *)

\* A command runs on a connection that has not failed one.
Usable == \A w \in Workers : wpc[w] = "command" => ctx[w] \in {"good", "cut"}

\* A job that was submitted and not reported is in the queue or with a worker, and in one of these places only.
JobsPlaced ==
  /\ \A i, k \in 1 .. Len(queue) : queue[i] = queue[k] => i = k
  /\ \A v, w \in Workers : task[v] = task[w] /\ task[v] # NoJob => v = w
  /\ \A i \in 1 .. Len(queue), w \in Workers : queue[i] # task[w]
  /\ \A j \in Jobs : stage[j] = "submitted" <=> \/ \E i \in 1 .. Len(queue) : queue[i] = j
                                               \/ \E w \in Workers : task[w] = j

\* No job is reported before its awaiter holds a result or an error.
Answered ==
  /\ \A w \in Workers : wpc[w] = "reporting" => outcome[task[w]] # "none"
  /\ \A j \in Jobs : stage[j] \in {"posted", "done"} => outcome[j] # "none"

\* The order of the destructor: nobody is left to notify when it begins, a worker returns from an empty queue
\* only, none waits once all were notified.
ShutdownInv ==
  /\ stop <=> owner # "alive"
  /\ stop => notifying = {}
  /\ \A j \in notifying : stage[j] # "new"
  /\ \A w \in Workers : wpc[w] = "exited" => stop /\ queue = <<>>
  /\ owner \in {"joining", "gone"} => Idle = {}
  /\ owner = "gone" => \A w \in Workers : wpc[w] = "exited"

Placement == PoolTypeOK /\ Usable /\ JobsPlaced /\ Answered /\ ShutdownInv

LEMMA PlacementInit == PoolInit => Placement
<1> SUFFICES ASSUME PoolInit PROVE Placement
  OBVIOUS
<1>1. PoolTypeOK
  <2>1. Busy = {} /\ queue \in Seq(Jobs) /\ 0 \in 0 .. Outages
    BY RuntimeAssumption DEF PoolInit, Busy
  <2> QED BY <2>1 DEF PoolInit, PoolTypeOK
<1>2. Usable /\ Answered
  BY DEF PoolInit, Usable, Answered
<1>3. JobsPlaced
  <2>1. Len(queue) = 0 /\ (\A w \in Workers : task[w] = NoJob) /\ \A j \in Jobs : stage[j] = "new"
    BY DEF PoolInit
  <2> QED BY <2>1, RuntimeAssumption DEF JobsPlaced
<1>4. ShutdownInv
  BY DEF PoolInit, ShutdownInv
<1> QED BY <1>1, <1>2, <1>3, <1>4 DEF Placement

\* The steps that neither queue a job nor take one.
LEMMA PlacementQuiet ==
  ASSUME Placement, queue' = queue, task' = task, stage' = stage, stop' = stop, owner' = owner,
         PoolTypeOK', Usable', Answered', notifying' \subseteq notifying,
         \A w \in Workers : wpc'[w] = "exited" => wpc[w] = "exited" \/ (stop /\ queue = <<>>),
         \A w \in Workers : wpc[w] = "exited" => wpc'[w] = "exited",
         \A w \in Workers : wpc'[w] = "waiting" => wpc[w] = "waiting" \/ ~stop
  PROVE  Placement'
<1>1. JobsPlaced'
  BY DEF Placement, JobsPlaced
<1>2. ShutdownInv'
  BY DEF Placement, ShutdownInv, Idle
<1> QED BY <1>1, <1>2 DEF Placement

LEMMA PlacementWaits ==
  ASSUME Placement
  PROVE  /\ \A j \in Jobs : Notify(j) => Placement'
         /\ \A w \in Workers : Wait(w) \/ Spurious(w) \/ Return(w) => Placement'
<1>1. ASSUME NEW j \in Jobs, Notify(j) PROVE Placement'
  <2>1. wpc' = wpc \/ \E w \in Idle : wpc' = [wpc EXCEPT ![w] = "checking"]
    BY <1>1 DEF Notify, NotifyOne, WakeOne, WorkerTo
  <2>2. PoolTypeOK' /\ Usable' /\ Answered'
    BY <1>1, <2>1 DEF Placement, PoolTypeOK, Usable, Answered, Notify, Busy, Idle
  <2>3. /\ \A w \in Workers : wpc'[w] = "exited" => wpc[w] = "exited"
        /\ \A w \in Workers : wpc[w] = "exited" => wpc'[w] = "exited"
        /\ \A w \in Workers : wpc'[w] = "waiting" => wpc[w] = "waiting"
    BY <2>1 DEF Placement, PoolTypeOK, Idle
  <2> QED BY <1>1, <2>2, <2>3, PlacementQuiet DEF Notify
<1>2. ASSUME NEW w \in Workers, Wait(w) \/ Spurious(w) \/ Return(w) PROVE Placement'
  <2>1. PoolTypeOK' /\ Usable' /\ Answered'
    BY <1>2 DEF Placement, PoolTypeOK, Usable, Answered, Wait, Spurious, Return, WorkerTo, Busy
  <2>2. /\ \A v \in Workers : wpc'[v] = "exited" => wpc[v] = "exited" \/ (stop /\ queue = <<>>)
        /\ \A v \in Workers : wpc[v] = "exited" => wpc'[v] = "exited"
        /\ \A v \in Workers : wpc'[v] = "waiting" => wpc[v] = "waiting" \/ ~stop
    BY <1>2 DEF Placement, PoolTypeOK, Wait, Spurious, Return, MayReturn, WorkerTo
  <2> QED BY <1>2, <2>1, <2>2, PlacementQuiet DEF Wait, Spurious, Return
<1> QED BY <1>1, <1>2

LEMMA PlacementRuns ==
  ASSUME Placement
  PROVE  /\ \A w \in Workers : Connect(w) \/ Command(w) => Placement'
         /\ GoDown \/ ComeUp \/ UNCHANGED poolVars => Placement'
<1>1. ASSUME NEW w \in Workers, Connect(w) \/ Command(w) PROVE Placement'
  <2>1. wpc[w] \in {"connecting", "command"} /\ task[w] \in Jobs
    BY <1>1 DEF Placement, PoolTypeOK, Connect, Command, Busy
  <2>2. \/ /\ wpc' = [wpc EXCEPT ![w] = "command"] /\ outcome' = outcome
           /\ ctx'[w] \in {"good", "cut"}
           /\ \A v \in Workers \ {w} : ctx'[v] = ctx[v]
        \/ /\ wpc' = [wpc EXCEPT ![w] = "reporting"]
           /\ \E o \in {"value", "error"} : outcome' = [outcome EXCEPT ![task[w]] = o]
           /\ \A v \in Workers \ {w} : ctx'[v] = ctx[v]
    BY <1>1 DEF Placement, PoolTypeOK, Connect, Command, Settle, WorkerTo, Reusable
  <2>3. /\ ctx' \in [Workers -> {"none", "good", "cut", "err"}]
        /\ queue' = queue /\ stop' = stop /\ stage' = stage /\ notifying' = notifying /\ task' = task
        /\ server' = server /\ outages' = outages /\ owner' = owner
    BY <1>1 DEF Placement, PoolTypeOK, Connect, Command
  <2>4. PoolTypeOK'
    BY <2>1, <2>2, <2>3 DEF Placement, PoolTypeOK, Busy
  <2>5. Usable'
    BY <2>1, <2>2, <2>3 DEF Placement, PoolTypeOK, Usable
  <2>6. Answered'
    <3>1. \A v \in Workers : wpc'[v] = "reporting" => task[v] \in Jobs /\ (v = w \/ wpc[v] = "reporting")
      BY <2>1, <2>2 DEF Placement, PoolTypeOK, Busy
    <3>2. \A j \in Jobs : outcome[j] # "none" => outcome'[j] # "none"
      BY <2>1, <2>2 DEF Placement, PoolTypeOK
    <3>3. wpc'[w] = "reporting" => outcome'[task[w]] # "none"
      BY <2>1, <2>2 DEF Placement, PoolTypeOK
    <3> QED BY <2>3, <3>1, <3>2, <3>3 DEF Placement, Answered
  <2>7. /\ \A v \in Workers : wpc'[v] = "exited" => wpc[v] = "exited"
        /\ \A v \in Workers : wpc[v] = "exited" => wpc'[v] = "exited"
        /\ \A v \in Workers : wpc'[v] = "waiting" => wpc[v] = "waiting"
    BY <2>1, <2>2 DEF Placement, PoolTypeOK
  <2> QED BY <2>3, <2>4, <2>5, <2>6, <2>7, PlacementQuiet
<1>2. ASSUME GoDown \/ ComeUp \/ UNCHANGED poolVars PROVE Placement'
  <2>1. wpc' = wpc /\ queue' = queue /\ task' = task /\ stage' = stage /\ stop' = stop /\ owner' = owner
        /\ notifying' = notifying /\ outcome' = outcome
    BY <1>2 DEF GoDown, ComeUp, poolVars
  <2>2. PoolTypeOK' /\ Usable'
    <3>1. \/ ctx' = ctx
          \/ ctx' = [w \in Workers |-> IF ctx[w] = "good" THEN "cut" ELSE ctx[w]]
      BY <1>2 DEF GoDown, ComeUp, poolVars
    <3>2. /\ ctx' \in [Workers -> {"none", "good", "cut", "err"}]
          /\ \A w \in Workers : ctx[w] \in {"good", "cut"} => ctx'[w] \in {"good", "cut"}
      BY <3>1 DEF Placement, PoolTypeOK
    <3>3. server' \in {"up", "down"} /\ outages' \in 0 .. Outages
      BY <1>2, RuntimeAssumption DEF Placement, PoolTypeOK, GoDown, ComeUp, poolVars
    <3> QED BY <2>1, <3>2, <3>3 DEF Placement, PoolTypeOK, Usable, Busy
  <2>3. Answered'
    BY <2>1 DEF Placement, Answered
  <2> QED BY <2>1, <2>2, <2>3, PlacementQuiet
<1> QED BY <1>1, <1>2

LEMMA PlacementPush ==
  ASSUME Placement, NEW j \in Jobs, Push(j)
  PROVE  Placement'
<1>1. /\ queue \in Seq(Jobs) /\ Len(queue) \in Nat /\ Len(queue') = Len(queue) + 1 /\ queue' \in Seq(Jobs)
      /\ \A i \in 1 .. Len(queue) : queue'[i] = queue[i]
      /\ queue'[Len(queue) + 1] = j
  BY DEF Placement, PoolTypeOK, Push
<1>2. /\ stage[j] = "new" /\ stage' = [stage EXCEPT ![j] = "submitted"] /\ notifying' = notifying \union {j}
      /\ owner = "alive" /\ stop' = stop /\ owner' = owner /\ task' = task /\ wpc' = wpc /\ ctx' = ctx
      /\ outcome' = outcome /\ server' = server /\ outages' = outages
  BY DEF Push, JobTo
<1>3. PoolTypeOK' /\ Usable' /\ Answered'
  BY <1>1, <1>2 DEF Placement, PoolTypeOK, Usable, Answered, Busy
<1>4. (\A i \in 1 .. Len(queue) : queue[i] # j) /\ \A w \in Workers : task[w] # j
  BY <1>2 DEF Placement, JobsPlaced
<1>5. \A i \in 1 .. Len(queue') : i = Len(queue) + 1 \/ i \in 1 .. Len(queue)
  BY <1>1
<1>6. JobsPlaced'
  <2>1. \A i, k \in 1 .. Len(queue') : queue'[i] = queue'[k] => i = k
    BY <1>1, <1>4, <1>5 DEF Placement, JobsPlaced
  <2>2. \A i \in 1 .. Len(queue'), w \in Workers : queue'[i] # task'[w]
    BY <1>1, <1>2, <1>4, <1>5 DEF Placement, JobsPlaced
  <2>3. ASSUME NEW k \in Jobs
        PROVE  stage'[k] = "submitted" <=> \/ \E i \in 1 .. Len(queue') : queue'[i] = k
                                          \/ \E w \in Workers : task'[w] = k
    <3>1. (\E i \in 1 .. Len(queue') : queue'[i] = k) <=> k = j \/ \E i \in 1 .. Len(queue) : queue[i] = k
      BY <1>1, <1>5
    <3>2. stage'[k] = "submitted" <=> k = j \/ stage[k] = "submitted"
      BY <1>2 DEF Placement, PoolTypeOK
    <3>3. stage[k] = "submitted" <=> \/ \E i \in 1 .. Len(queue) : queue[i] = k
                                    \/ \E w \in Workers : task[w] = k
      BY DEF Placement, JobsPlaced
    <3> QED BY <1>2, <3>1, <3>2, <3>3
  <2>4. \A v, w \in Workers : task'[v] = task'[w] /\ task'[v] # NoJob => v = w
    BY <1>2 DEF Placement, JobsPlaced
  <2> QED BY <2>1, <2>2, <2>3, <2>4 DEF JobsPlaced
<1>7. ShutdownInv'
  BY <1>2 DEF Placement, PoolTypeOK, ShutdownInv, Idle
<1> QED BY <1>3, <1>6, <1>7 DEF Placement

LEMMA PlacementTake ==
  ASSUME Placement, NEW w \in Workers, Take(w)
  PROVE  Placement'
<1> DEFINE j == Head(queue)
<1>1. /\ queue \in Seq(Jobs) /\ Len(queue) \in Nat \ {0} /\ j = queue[1] /\ j \in Jobs
      /\ queue' \in Seq(Jobs) /\ Len(queue') = Len(queue) - 1
      /\ \A i \in 1 .. Len(queue) - 1 : queue'[i] = queue[i + 1]
  <2>1. queue \in Seq(Jobs) /\ queue # <<>> /\ queue' = Tail(queue)
    BY DEF Placement, PoolTypeOK, Take
  <2> QED BY <2>1, EmptySeq, HeadTailProperties
<1>2. /\ wpc[w] = "checking" /\ task' = [task EXCEPT ![w] = j] /\ wpc' = [wpc EXCEPT ![w] = "connecting"]
      /\ stop' = stop /\ stage' = stage /\ notifying' = notifying /\ outcome' = outcome /\ ctx' = ctx
      /\ server' = server /\ outages' = outages /\ owner' = owner
  BY DEF Take, WorkerTo
<1> HIDE DEF j
<1>3. PoolTypeOK' /\ Usable' /\ Answered'
  <2>1. PoolTypeOK'
    BY <1>1, <1>2, RuntimeAssumption DEF Placement, PoolTypeOK, Busy
  <2>2. Usable' /\ Answered'
    BY <1>2 DEF Placement, PoolTypeOK, Usable, Answered
  <2> QED BY <2>1, <2>2
<1>4. task[w] = NoJob /\ j # NoJob
  BY <1>1, <1>2, RuntimeAssumption DEF Placement, PoolTypeOK, Busy
<1>5. \A v \in Workers : task'[v] = IF v = w THEN j ELSE task[v]
  BY <1>2 DEF Placement, PoolTypeOK
<1>6. /\ 1 \in 1 .. Len(queue) /\ \A i \in 1 .. Len(queue') : i + 1 \in 1 .. Len(queue) /\ i + 1 # 1
      /\ \A i \in 1 .. Len(queue) : i = 1 \/ (i - 1 \in 1 .. Len(queue') /\ (i - 1) + 1 = i)
      /\ \A i, k \in 1 .. Len(queue') : i + 1 = k + 1 => i = k
  BY <1>1
<1>7. \A i \in 1 .. Len(queue') : queue'[i] = queue[i + 1]
  BY <1>1
<1>8. JobsPlaced'
  <2>1. \A i, k \in 1 .. Len(queue') : queue'[i] = queue'[k] => i = k
    BY <1>6, <1>7 DEF Placement, JobsPlaced
  <2>2. \A u, v \in Workers : task'[u] = task'[v] /\ task'[u] # NoJob => u = v
    BY <1>1, <1>5, <1>6 DEF Placement, JobsPlaced
  <2>3. \A i \in 1 .. Len(queue'), v \in Workers : queue'[i] # task'[v]
    BY <1>1, <1>5, <1>6, <1>7 DEF Placement, JobsPlaced
  <2>4. ASSUME NEW k \in Jobs
        PROVE  stage'[k] = "submitted" <=> \/ \E i \in 1 .. Len(queue') : queue'[i] = k
                                          \/ \E v \in Workers : task'[v] = k
    <3>1. (\E i \in 1 .. Len(queue) : queue[i] = k) <=> k = j \/ \E i \in 1 .. Len(queue') : queue'[i] = k
      <4>1. ASSUME NEW i \in 1 .. Len(queue), queue[i] = k
            PROVE  k = j \/ \E m \in 1 .. Len(queue') : queue'[m] = k
        <5>1. CASE i = 1
          BY <1>1, <4>1, <5>1
        <5>2. CASE i # 1
          <6>1. i - 1 \in 1 .. Len(queue') /\ (i - 1) + 1 = i
            BY <1>6, <5>2
          <6>2. queue'[i - 1] = k
            BY <1>7, <4>1, <6>1
          <6> QED BY <6>1, <6>2
        <5> QED BY <5>1, <5>2
      <4> QED BY <1>1, <1>6, <1>7, <4>1
    <3>2. (\E v \in Workers : task'[v] = k) <=> k = j \/ \E v \in Workers : task[v] = k
      BY <1>4, <1>5, RuntimeAssumption
    <3>3. stage[k] = "submitted" <=> \/ \E i \in 1 .. Len(queue) : queue[i] = k
                                    \/ \E v \in Workers : task[v] = k
      BY DEF Placement, JobsPlaced
    <3> QED BY <1>2, <3>1, <3>2, <3>3
  <2> QED BY <2>1, <2>2, <2>3, <2>4 DEF JobsPlaced
<1>9. ShutdownInv'
  <2>1. queue # <<>>
    BY DEF Take
  <2> QED BY <1>2, <2>1 DEF Placement, PoolTypeOK, ShutdownInv, Idle
<1> QED BY <1>3, <1>8, <1>9 DEF Placement

LEMMA PlacementReport ==
  ASSUME Placement
  PROVE  /\ \A w \in Workers : Report(w) => Placement'
         /\ \A j \in Jobs : Resume(j) => Placement'
<1>1. ASSUME NEW w \in Workers, Report(w) PROVE Placement'
  <2> DEFINE j == task[w]
             s == IF j \in OnLoop THEN "posted" ELSE "done"
  <2>1. /\ wpc[w] = "reporting" /\ stage' = [stage EXCEPT ![j] = s] /\ s \in {"posted", "done"}
        /\ task' = [task EXCEPT ![w] = NoJob] /\ wpc' = [wpc EXCEPT ![w] = "checking"]
        /\ queue' = queue /\ stop' = stop /\ notifying' = notifying /\ outcome' = outcome /\ ctx' = ctx
        /\ server' = server /\ outages' = outages /\ owner' = owner
    BY <1>1 DEF Report, JobTo, WorkerTo
  <2>2. j \in Jobs /\ j # NoJob
    BY <2>1, RuntimeAssumption DEF Placement, PoolTypeOK, Busy
  <2>3. outcome[j] # "none"
    BY <2>1 DEF Placement, Answered
  <2> HIDE DEF j, s
  <2>4. PoolTypeOK'
    BY <2>1, <2>2 DEF Placement, PoolTypeOK, Busy, j
  <2>5. Usable' /\ Answered'
    <3>1. \A v \in Workers : task[v] = j => v = w
      BY <2>2 DEF Placement, JobsPlaced, j
    <3> QED BY <2>1, <2>2, <2>3, <3>1 DEF Placement, PoolTypeOK, Usable, Answered, Busy
  <2>6. JobsPlaced'
    <3>1. \A v \in Workers : task'[v] = IF v = w THEN NoJob ELSE task[v]
      BY <2>1 DEF Placement, PoolTypeOK
    <3>2. \A i \in 1 .. Len(queue) : queue[i] \in Jobs
      BY DEF Placement, PoolTypeOK
    <3>3. ASSUME NEW k \in Jobs
          PROVE  stage'[k] = "submitted" <=> \/ \E i \in 1 .. Len(queue') : queue'[i] = k
                                            \/ \E v \in Workers : task'[v] = k
      <4>1. stage[k] = "submitted" <=> \/ \E i \in 1 .. Len(queue) : queue[i] = k
                                      \/ \E v \in Workers : task[v] = k
        BY DEF Placement, JobsPlaced
      <4>2. stage'[k] = "submitted" <=> k # j /\ stage[k] = "submitted"
        BY <2>1, <2>2 DEF Placement, PoolTypeOK
      <4>3. (\E v \in Workers : task'[v] = k) <=> k # j /\ \E v \in Workers : task[v] = k
        BY <2>2, <3>1, RuntimeAssumption DEF Placement, JobsPlaced, j
      <4>4. (\E i \in 1 .. Len(queue) : queue[i] = k) => k # j
        BY DEF Placement, JobsPlaced, j
      <4> QED BY <2>1, <4>1, <4>2, <4>3, <4>4
    <3>4. \A i, k \in 1 .. Len(queue') : queue'[i] = queue'[k] => i = k
      BY <2>1 DEF Placement, JobsPlaced
    <3>5. \A u, v \in Workers : task'[u] = task'[v] /\ task'[u] # NoJob => u = v
      BY <3>1 DEF Placement, JobsPlaced
    <3>6. \A i \in 1 .. Len(queue'), v \in Workers : queue'[i] # task'[v]
      BY <2>1, <3>1, <3>2, RuntimeAssumption DEF Placement, JobsPlaced
    <3> QED BY <3>3, <3>4, <3>5, <3>6 DEF JobsPlaced
  <2>7. ShutdownInv'
    BY <2>1, <2>2 DEF Placement, PoolTypeOK, ShutdownInv, Idle
  <2> QED BY <2>4, <2>5, <2>6, <2>7 DEF Placement
<1>2. ASSUME NEW j \in Jobs, Resume(j) PROVE Placement'
  <2>1. /\ stage[j] = "posted" /\ stage' = [stage EXCEPT ![j] = "done"]
        /\ queue' = queue /\ stop' = stop /\ notifying' = notifying /\ outcome' = outcome /\ ctx' = ctx
        /\ wpc' = wpc /\ task' = task /\ server' = server /\ outages' = outages /\ owner' = owner
    BY <1>2 DEF Resume, JobTo
  <2>2. PoolTypeOK' /\ Usable' /\ Answered'
    BY <2>1 DEF Placement, PoolTypeOK, Usable, Answered, Busy
  <2>3. \A k \in Jobs : stage'[k] = "submitted" <=> stage[k] = "submitted"
    BY <2>1 DEF Placement, PoolTypeOK
  <2>4. JobsPlaced'
    BY <2>1, <2>3 DEF Placement, JobsPlaced
  <2>5. ShutdownInv'
    BY <2>1 DEF Placement, PoolTypeOK, ShutdownInv, Idle
  <2> QED BY <2>2, <2>4, <2>5 DEF Placement
<1> QED BY <1>1, <1>2

LEMMA PlacementStops ==
  ASSUME Placement, Stop \/ NotifyAll \/ Join
  PROVE  Placement'
<1>1. /\ queue' = queue /\ stage' = stage /\ notifying' = notifying /\ outcome' = outcome /\ ctx' = ctx
      /\ task' = task /\ server' = server /\ outages' = outages
  BY DEF Stop, NotifyAll, Join
<1>2. CASE Stop
  <2>1. PoolTypeOK' /\ Usable' /\ Answered'
    BY <1>1, <1>2 DEF Placement, PoolTypeOK, Usable, Answered, Stop, Busy
  <2>2. JobsPlaced' /\ ShutdownInv'
    BY <1>1, <1>2 DEF Placement, JobsPlaced, ShutdownInv, Stop, Idle
  <2> QED BY <2>1, <2>2 DEF Placement
<1>3. CASE NotifyAll
  <2>1. \A w \in Workers : wpc'[w] = IF wpc[w] = "waiting" THEN "checking" ELSE wpc[w]
    BY <1>3 DEF NotifyAll, WakeAll
  <2>2. PoolTypeOK' /\ Usable' /\ Answered'
    BY <1>1, <1>3 DEF Placement, PoolTypeOK, Usable, Answered, NotifyAll, WakeAll, Busy
  <2>3. JobsPlaced' /\ ShutdownInv'
    BY <1>1, <1>3, <2>1 DEF Placement, JobsPlaced, ShutdownInv, NotifyAll, Idle
  <2> QED BY <2>2, <2>3 DEF Placement
<1>4. CASE Join
  <2>1. PoolTypeOK' /\ Usable' /\ Answered'
    BY <1>1, <1>4 DEF Placement, PoolTypeOK, Usable, Answered, Join, Busy
  <2>2. JobsPlaced' /\ ShutdownInv'
    BY <1>1, <1>4 DEF Placement, JobsPlaced, ShutdownInv, Join, Idle
  <2> QED BY <2>1, <2>2 DEF Placement
<1> QED BY <1>2, <1>3, <1>4

LEMMA PlacementNext == Placement /\ [PoolNext]_poolVars => Placement'
<1> SUFFICES ASSUME Placement, [PoolNext]_poolVars PROVE Placement'
  OBVIOUS
<1>1. CASE \E j \in Jobs : Push(j) \/ Notify(j) \/ Resume(j)
  BY <1>1, PlacementPush, PlacementWaits, PlacementReport
<1>2. CASE \E w \in Workers : \/ Wait(w) \/ Spurious(w) \/ Return(w) \/ Take(w)
                              \/ Connect(w) \/ Command(w) \/ Report(w)
  BY <1>2, PlacementWaits, PlacementTake, PlacementRuns, PlacementReport
<1>3. CASE Stop \/ NotifyAll \/ Join
  BY <1>3, PlacementStops
<1>4. CASE GoDown \/ ComeUp \/ UNCHANGED poolVars
  BY <1>4, PlacementRuns
<1> QED BY <1>1, <1>2, <1>3, <1>4 DEF PoolNext

\* The invariant of the pool.
THEOREM JobsStayPlaced == PoolSpec => []Placement
BY PlacementInit, PlacementNext, PTL DEF PoolSpec

\* FailsOnce: for any jobs, workers and outages, no command is given a connection on which one has failed.
THEOREM OneFailurePerOutage == PoolSpec => FailsOnce
<1>1. Placement => \A w \in Workers : Command(w) => ctx[w] # "err"
  BY DEF Placement, Usable, Command
<1> QED BY <1>1, JobsStayPlaced, PTL DEF FailsOnce

\* Once the destructor has joined its workers, every job that was ever submitted was run and reported with a
\* result or an error: none is left in the queue.
NoneStranded == owner = "gone" => \A j \in Jobs : stage[j] # "submitted" /\ (stage[j] # "new" => outcome[j] # "none")

THEOREM ShutdownStrandsNone == PoolSpec => []NoneStranded
<1>1. Placement => NoneStranded
  <2> SUFFICES ASSUME Placement, owner = "gone", NEW j \in Jobs
               PROVE  stage[j] # "submitted" /\ (stage[j] # "new" => outcome[j] # "none")
    BY DEF NoneStranded
  <2>1. \A w \in Workers : wpc[w] = "exited" /\ task[w] = NoJob
    BY DEF Placement, ShutdownInv, PoolTypeOK, Busy
  <2>2. Len(queue) = 0
    BY <2>1, RuntimeAssumption DEF Placement, ShutdownInv
  <2>3. stage[j] # "submitted"
    BY <2>1, <2>2, RuntimeAssumption DEF Placement, JobsPlaced
  <2> QED BY <2>3 DEF Placement, PoolTypeOK, Answered
<1> QED BY <1>1, JobsStayPlaced, PTL

-----------------------------------------------------------------------------
\* The condition variable.

Checking == {w \in Workers : wpc[w] = "checking"}

\* While a worker waits, for every job in the queue a notify_one is still to come or a worker is awake and will
\* look at the queue: a push just before a worker goes to sleep is not lost.
WakeupsSuffice == Idle # {} => Len(queue) <= Cardinality(notifying) + Cardinality(Checking)

LEMMA PoolCounts ==
  ASSUME Placement
  PROVE  /\ IsFiniteSet(notifying) /\ Cardinality(notifying) \in Nat
         /\ IsFiniteSet(Checking) /\ Cardinality(Checking) \in Nat
         /\ Len(queue) \in Nat
<1>1. notifying \in SUBSET Jobs /\ Checking \in SUBSET Workers /\ Len(queue) \in Nat
  BY DEF Placement, PoolTypeOK, Checking
<1>2. IsFiniteSet(notifying) /\ IsFiniteSet(Checking)
  BY <1>1, RuntimeAssumption, FS_Subset
<1> QED BY <1>1, <1>2, FS_CardinalityType

\* What a step of one worker does to the set of those that will look at the queue.
LEMMA CheckingStep ==
  ASSUME Placement, NEW w \in Workers, NEW s, wpc' = [wpc EXCEPT ![w] = s]
  PROVE  /\ s = "checking" => Checking' = Checking \union {w}
         /\ s # "checking" => Checking' = Checking \ {w}
         /\ s # "waiting" => Idle' \subseteq Idle
         /\ s # "waiting" /\ wpc[w] # "waiting" => Idle' = Idle
BY DEF Placement, PoolTypeOK, Checking, Idle

LEMMA WakeupsNext ==
  ASSUME Placement, WakeupsSuffice, [PoolNext]_poolVars
  PROVE  WakeupsSuffice'
<1> DEFINE n == Cardinality(notifying)
           c == Cardinality(Checking)
<1>0. n \in Nat /\ c \in Nat /\ Len(queue) \in Nat /\ IsFiniteSet(notifying) /\ IsFiniteSet(Checking)
  BY PoolCounts
<1>1. ASSUME NEW j \in Jobs, Push(j) PROVE WakeupsSuffice'
  <2>1. /\ Len(queue') = Len(queue) + 1 /\ notifying' = notifying \union {j} /\ wpc' = wpc
        /\ j \notin notifying
    BY <1>1 DEF Push, Placement, PoolTypeOK, ShutdownInv
  <2>2. Cardinality(notifying') = n + 1
    BY <1>0, <2>1, FS_AddElement
  <2>3. Idle' = Idle /\ Checking' = Checking
    BY <2>1 DEF Idle, Checking
  <2> QED BY <1>0, <2>1, <2>2, <2>3 DEF WakeupsSuffice
<1>2. ASSUME NEW j \in Jobs, Notify(j) PROVE WakeupsSuffice'
  <2>1. j \in notifying /\ notifying' = notifying \ {j} /\ queue' = queue
    BY <1>2 DEF Notify
  <2>2. Cardinality(notifying') = n - 1
    BY <1>0, <2>1, FS_RemoveElement
  <2>3. CASE Idle = {}
    <3>1. Idle' = {}
      BY <1>2, <2>3 DEF Notify, NotifyOne, WakeOne, Idle
    <3> QED BY <3>1 DEF WakeupsSuffice
  <2>4. CASE Idle # {}
    <3>1. PICK w \in Idle : wpc' = [wpc EXCEPT ![w] = "checking"]
      BY <1>2, <2>4 DEF Notify, NotifyOne, WakeOne, WorkerTo
    <3>2. w \in Workers /\ w \notin Checking
      BY DEF Idle, Checking
    <3>3. Checking' = Checking \union {w}
      BY <3>1, <3>2, CheckingStep
    <3>4. Cardinality(Checking') = c + 1
      BY <1>0, <3>2, <3>3, FS_AddElement
    <3> QED BY <1>0, <2>1, <2>2, <2>4, <3>4 DEF WakeupsSuffice
  <2> QED BY <2>3, <2>4
<1>3. ASSUME NEW w \in Workers, Wait(w) \/ Return(w) PROVE WakeupsSuffice'
  <2>1. queue' = <<>> /\ notifying' = notifying /\ \E s : wpc' = [wpc EXCEPT ![w] = s]
    BY <1>3 DEF Wait, Return, MayReturn, WorkerTo
  <2>2. Len(queue') = 0
    BY <2>1
  <2>3. IsFiniteSet(Checking') /\ Cardinality(Checking') \in Nat
    <3>1. Checking' \in SUBSET Workers
      BY DEF Checking
    <3>2. IsFiniteSet(Checking')
      BY <3>1, RuntimeAssumption, FS_Subset
    <3> QED BY <3>2, FS_CardinalityType
  <2> QED BY <1>0, <2>1, <2>2, <2>3 DEF WakeupsSuffice
<1>4. ASSUME NEW w \in Workers, Spurious(w) \/ Report(w) PROVE WakeupsSuffice'
  <2>1. wpc' = [wpc EXCEPT ![w] = "checking"] /\ w \notin Checking /\ queue' = queue /\ notifying' = notifying
    BY <1>4 DEF Spurious, Report, WorkerTo, Checking
  <2>2. Checking' = Checking \union {w} /\ Idle' \subseteq Idle
    BY <2>1, CheckingStep
  <2>3. Cardinality(Checking') = c + 1
    BY <1>0, <2>1, <2>2, FS_AddElement
  <2> QED BY <1>0, <2>1, <2>2, <2>3 DEF WakeupsSuffice
<1>5. ASSUME NEW w \in Workers, Take(w) PROVE WakeupsSuffice'
  <2>1. /\ wpc' = [wpc EXCEPT ![w] = "connecting"] /\ w \in Checking /\ notifying' = notifying
        /\ wpc[w] = "checking"
    BY <1>5 DEF Take, WorkerTo, Checking
  <2>2. Len(queue') = Len(queue) - 1
    <3>1. queue \in Seq(Jobs) /\ queue # <<>> /\ queue' = Tail(queue)
      BY <1>5 DEF Take, Placement, PoolTypeOK
    <3> QED BY <3>1, EmptySeq, HeadTailProperties
  <2>3. Checking' = Checking \ {w} /\ Idle' = Idle
    BY <2>1 DEF Placement, PoolTypeOK, Checking, Idle
  <2>4. Cardinality(Checking') = c - 1
    BY <1>0, <2>1, <2>3, FS_RemoveElement
  <2> QED BY <1>0, <2>1, <2>2, <2>3, <2>4 DEF WakeupsSuffice
<1>6. ASSUME NEW w \in Workers, Connect(w) \/ Command(w) PROVE WakeupsSuffice'
  <2>1. /\ wpc[w] \in {"connecting", "command"} /\ queue' = queue /\ notifying' = notifying
        /\ wpc' = [wpc EXCEPT ![w] = "command"] \/ wpc' = [wpc EXCEPT ![w] = "reporting"]
    BY <1>6 DEF Connect, Command, Settle, WorkerTo
  <2>2. Checking' = Checking /\ Idle' = Idle
    BY <2>1 DEF Placement, PoolTypeOK, Checking, Idle
  <2> QED BY <2>1, <2>2 DEF WakeupsSuffice
<1>7. CASE NotifyAll
  <2>1. Idle' = {}
    BY <1>7 DEF NotifyAll, WakeAll, Idle
  <2> QED BY <2>1 DEF WakeupsSuffice
<1>8. ASSUME wpc' = wpc, queue' = queue, notifying' = notifying PROVE WakeupsSuffice'
  BY <1>8 DEF WakeupsSuffice, Idle, Checking
<1>9. ASSUME NEW j \in Jobs, Resume(j) PROVE WakeupsSuffice'
  BY <1>8, <1>9 DEF Resume
<1>10. CASE Stop \/ Join \/ GoDown \/ ComeUp \/ UNCHANGED poolVars
  BY <1>8, <1>10 DEF Stop, Join, GoDown, ComeUp, poolVars
<1> QED BY <1>1, <1>2, <1>3, <1>4, <1>5, <1>6, <1>7, <1>9, <1>10 DEF PoolNext

\* While a worker sleeps no job waits without a wake-up on its way, for any jobs and workers.
THEOREM NoWakeupLost == PoolSpec => []WakeupsSuffice
<1>1. PoolInit => WakeupsSuffice
  <2> SUFFICES ASSUME PoolInit PROVE WakeupsSuffice
    OBVIOUS
  <2>1. Len(queue) = 0
    BY DEF PoolInit
  <2> QED BY <2>1, PlacementInit, PoolCounts DEF WakeupsSuffice
<1>2. Placement /\ WakeupsSuffice /\ [PoolNext]_poolVars => WakeupsSuffice'
  BY WakeupsNext
<1> QED BY <1>1, <1>2, JobsStayPlaced, PTL DEF PoolSpec
================================================================================
