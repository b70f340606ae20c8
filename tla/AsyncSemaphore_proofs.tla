------------------------- MODULE AsyncSemaphore_proofs -------------------------
(***************************************************************************)
(* Proofs about AsyncSemaphore for any finite set of acquires, any number  *)
(* of event loops and any number of permits.                               *)
(***************************************************************************)
EXTENDS AsyncSemaphore, FiniteSetTheorems, SequenceTheorems, TLAPS

Undone(c) == ~acquired[c] /\ ~timedOut[c]

\* What is queued is suspended (or about to be), undecided and queued once.
QueueInv ==
  /\ \A i, j \in DOMAIN waiters : waiters[i] = waiters[j] => i = j
  /\ \A i \in DOMAIN waiters : pc[waiters[i]] \in Waiting /\ Undone(waiters[i])

\* What a decision and a timer say about where the call is.
CallInv ==
  \A c \in Calls :
    /\ timedOut[c] => pc[c] = "refused" /\ ~acquired[c]
    /\ pc[c] \in {"idle", "unready"} => Undone(c)
    /\ pc[c] \in Waiting => acquired[c] \/ \E i \in DOMAIN waiters : waiters[i] = c
    /\ acquired[c] => pc[c] # "refused"
    /\ timer[c] # "none" => ~Undone(c) \/ pc[c] \in {"timer_set", "suspended"}
    /\ pc[c] \in {"enqueued", "timer_set"} \/ timer[c] # "none" =>
         Mode[c] = "timed" /\ LoopOf[c] # NoLoop

\* A hand-over in flight: the waiter has the permit and has not been resumed,
\* and exactly one release or one queued resume is about to resume it.
HandInv ==
  /\ \A c \in Calls : pc[c] = "handing" =>
       /\ acquired[target[c]]
       /\ pc[target[c]] \in Waiting
       /\ target[c] \notin posted
  /\ \A c, d \in Calls : pc[c] = "handing" /\ pc[d] = "handing" /\ target[c] = target[d] => c = d
  /\ \A c \in posted : acquired[c] /\ pc[c] \in Waiting

Structure == TypeOK /\ QueueInv /\ CallInv /\ HandInv /\ NoIdlePermit

LEMMA RemoveAtFacts ==
  ASSUME NEW q \in Seq(Calls), NEW i \in DOMAIN q
  PROVE  /\ RemoveAt(q, i) \in Seq(Calls)
         /\ Len(RemoveAt(q, i)) = Len(q) - 1
         /\ \A j \in 1 .. Len(q) - 1 :
              RemoveAt(q, i)[j] = IF j < i THEN q[j] ELSE q[j + 1]
<1> DEFINE front == SubSeq(q, 1, i - 1)
           back  == SubSeq(q, i + 1, Len(q))
<1>1. front \in Seq(Calls) /\ Len(front) = i - 1 /\ \A j \in 1 .. i - 1 : front[j] = q[j]
  BY SubSeqProperties
<1>2. back \in Seq(Calls) /\ Len(back) = Len(q) - i /\ \A j \in 1 .. Len(q) - i : back[j] = q[i + j]
  BY SubSeqProperties
<1>3. RemoveAt(q, i) = front \o back
  BY DEF RemoveAt
<1> HIDE DEF front, back
<1>4. /\ front \o back \in Seq(Calls)
      /\ Len(front \o back) = Len(q) - 1
      /\ \A j \in 1 .. Len(q) - 1 :
           (front \o back)[j] = IF j < i THEN q[j] ELSE q[j + 1]
  BY <1>1, <1>2
<1> QED BY <1>3, <1>4

LEMMA StructureInit == Init => Structure
  BY SemaphoreAssumption
  DEF Init, Structure, TypeOK, QueueInv, CallInv, HandInv, NoIdlePermit, Undone, Waiting, PC, Threads

LEMMA AppendFacts ==
  ASSUME NEW q \in Seq(Calls), NEW c \in Calls
  PROVE  /\ Append(q, c) \in Seq(Calls)
         /\ DOMAIN q = 1 .. Len(q) /\ Len(q) \in Nat
         /\ DOMAIN Append(q, c) = 1 .. Len(q) + 1
         /\ \A i \in 1 .. Len(q) : Append(q, c)[i] = q[i]
         /\ Append(q, c)[Len(q) + 1] = c
         /\ Append(q, c) # <<>>
  OBVIOUS

\* While the queue holds undecided waiters only, release() serves its head.
LEMMA UndecidedAll ==
  ASSUME TypeOK, QueueInv
  PROVE  /\ Undecided = DOMAIN waiters
         /\ Undecided = {} <=> waiters = <<>>
         /\ \A i \in DOMAIN waiters : IsFirst(i, Undecided) <=> i = 1
<1>1. Undecided = DOMAIN waiters
  BY DEF QueueInv, Undecided, Undone
<1>2. waiters \in Seq(Calls) /\ DOMAIN waiters = 1 .. Len(waiters) /\ Len(waiters) \in Nat
  BY DEF TypeOK
<1>3. DOMAIN waiters = {} <=> waiters = <<>>
  <2>1. CASE Len(waiters) = 0 BY <1>2, <2>1
  <2>2. CASE Len(waiters) # 0
    <3>1. 1 \in DOMAIN waiters BY <1>2, <2>2
    <3>2. waiters # <<>> BY <1>2, <2>2
    <3> QED BY <3>1, <3>2
  <2> QED BY <1>2, <2>1, <2>2
<1>4. ASSUME NEW i \in DOMAIN waiters PROVE IsFirst(i, DOMAIN waiters) <=> i = 1
  BY <1>2 DEF IsFirst
<1> QED BY <1>1, <1>3, <1>4

\* Handing the permit over takes the head out of the queue.
LEMMA TailFacts ==
  ASSUME NEW q \in Seq(Calls), q # <<>>
  PROVE  /\ SubSeq(q, 2, Len(q)) \in Seq(Calls)
         /\ SubSeq(q, 2, Len(q)) = Tail(q)
         /\ q[1] \in Calls /\ 1 \in DOMAIN q
         /\ DOMAIN q = 1 .. Len(q) /\ Len(q) \in Nat /\ Len(q) > 0
         /\ DOMAIN SubSeq(q, 2, Len(q)) = 1 .. Len(q) - 1
         /\ \A i \in 1 .. Len(q) - 1 : SubSeq(q, 2, Len(q))[i] = q[i + 1]
  OBVIOUS

LEMMA StructureStep == Structure /\ [Next]_vars => Structure'
<1> SUFFICES ASSUME Structure, [Next]_vars PROVE Structure'
  OBVIOUS
<1> USE SemaphoreAssumption DEF Structure, TypeOK, PC, Waiting, Threads, Become, Undone
<1>1. ASSUME NEW c \in Calls, TryAcquire(c) PROVE Structure'
  <2> USE <1>1 DEF TryAcquire
  <2>1. TypeOK'
    OBVIOUS
  <2>2. QueueInv'
    BY DEF QueueInv, HandInv
  <2>3. CallInv'
    BY DEF QueueInv, CallInv, HandInv
  <2>4. HandInv'
    <3>1. PICK w \in {"holding", "refused", "unready"} : pc' = [pc EXCEPT ![c] = w]
      OBVIOUS
    <3>2. pc[c] = "idle" /\ UNCHANGED <<acquired, target, posted>>
      OBVIOUS
    <3> HIDE <1>1 DEF TryAcquire
    <3> QED BY <3>1, <3>2 DEF HandInv
  <2>5. NoIdlePermit'
    BY DEF NoIdlePermit
  <2> QED BY <2>1, <2>2, <2>3, <2>4, <2>5
<1>2. ASSUME NEW c \in Calls, SuspendUntimed(c) PROVE Structure'
  <2> USE <1>2 DEF SuspendUntimed
  <2>1. CASE avail > 0
    <3>0. /\ pc[c] = "unready"
          /\ avail' = avail - 1
          /\ pc' = [pc EXCEPT ![c] = "holding"]
          /\ UNCHANGED <<waiters, acquired, timedOut, timerId, timer, target, at, posted>>
      BY <2>1
    <3> HIDE DEF SuspendUntimed
    <3>1. TypeOK'
      BY <2>1, <3>0
    <3>2. QueueInv'
      BY <2>1, <3>0 DEF QueueInv
    <3>3. CallInv'
      BY <2>1, <3>0 DEF CallInv
    <3>4. HandInv'
      BY <2>1, <3>0 DEF HandInv
    <3>5. NoIdlePermit'
      BY <2>1, <3>0 DEF NoIdlePermit
    <3> QED BY <3>1, <3>2, <3>3, <3>4, <3>5
  <2>2. CASE ~(avail > 0)
    <3>1. /\ waiters' = Append(waiters, c)
          /\ pc' = [pc EXCEPT ![c] = "suspended"]
          /\ pc[c] = "unready" /\ Mode[c] = "untimed"
          /\ avail = 0
          /\ UNCHANGED <<avail, acquired, timedOut, timerId, timer, target, at, posted>>
      BY <2>2
    <3>2. /\ waiters' \in Seq(Calls)
          /\ DOMAIN waiters = 1 .. Len(waiters) /\ Len(waiters) \in Nat
          /\ DOMAIN waiters' = 1 .. Len(waiters) + 1
          /\ \A i \in 1 .. Len(waiters) : waiters'[i] = waiters[i]
          /\ waiters'[Len(waiters) + 1] = c
      BY <3>1, AppendFacts
    <3> HIDE DEF SuspendUntimed
    <3>3. TypeOK'
      BY <3>1, <3>2
    <3>4. \A i \in DOMAIN waiters : waiters[i] # c
      BY <3>1 DEF QueueInv
    <3>5. QueueInv'
      <4>1. \A i, j \in DOMAIN waiters' : waiters'[i] = waiters'[j] => i = j
        BY <3>2, <3>4 DEF QueueInv
      <4>2. \A i \in DOMAIN waiters' : pc'[waiters'[i]] \in Waiting /\ ~acquired'[waiters'[i]] /\ ~timedOut'[waiters'[i]]
        BY <3>1, <3>2, <3>4 DEF QueueInv, CallInv
      <4> QED BY <4>1, <4>2 DEF QueueInv
    <3>6. CallInv'
      <4>1. ASSUME NEW d \in Calls, pc'[d] \in Waiting, ~acquired'[d]
            PROVE  \E i \in DOMAIN waiters' : waiters'[i] = d
        <5>1. CASE d = c
          <6>1. Len(waiters) + 1 \in DOMAIN waiters' /\ waiters'[Len(waiters) + 1] = d
            BY <3>2, <5>1
          <6> QED BY <6>1
        <5>2. CASE d # c BY <3>1, <3>2, <4>1, <5>2 DEF CallInv
        <5> QED BY <5>1, <5>2
      <4>2. timer[c] = "none" /\ Undone(c)
        BY <3>1 DEF CallInv
      <4> QED BY <2>2, <3>1, <4>1, <4>2 DEF CallInv
    <3>7. HandInv'
      BY <3>1 DEF HandInv
    <3>8. NoIdlePermit'
      BY <3>1 DEF NoIdlePermit
    <3> QED BY <3>3, <3>5, <3>6, <3>7, <3>8
  <2> QED BY <2>1, <2>2
<1>3. ASSUME NEW c \in Calls, SuspendTimed(c) PROVE Structure'
  <2> USE <1>3 DEF SuspendTimed
  <2>1. CASE avail > 0
    <3>0. /\ pc[c] = "unready"
          /\ avail' = avail - 1
          /\ acquired' = [acquired EXCEPT ![c] = TRUE]
          /\ pc' = [pc EXCEPT ![c] = "holding"]
          /\ UNCHANGED <<waiters, timedOut, timerId, timer, target, at, posted>>
      BY <2>1
    <3> HIDE DEF SuspendTimed
    <3>1. TypeOK'
      BY <2>1, <3>0
    <3>2. QueueInv'
      BY <2>1, <3>0 DEF QueueInv
    <3>3. CallInv'
      BY <2>1, <3>0 DEF CallInv
    <3>4. HandInv'
      BY <2>1, <3>0 DEF HandInv
    <3>5. NoIdlePermit'
      BY <2>1, <3>0 DEF NoIdlePermit
    <3> QED BY <3>1, <3>2, <3>3, <3>4, <3>5
  <2>2. CASE ~(avail > 0) /\ LoopOf[c] = NoLoop
    <3>0. /\ pc[c] = "unready"
          /\ pc' = [pc EXCEPT ![c] = "refused"]
          /\ UNCHANGED <<avail, waiters, acquired, timedOut, timerId, timer, target, at, posted>>
      BY <2>2
    <3> HIDE DEF SuspendTimed
    <3>1. TypeOK'
      BY <2>2, <3>0
    <3>2. QueueInv'
      BY <2>2, <3>0 DEF QueueInv
    <3>3. CallInv'
      BY <2>2, <3>0 DEF CallInv
    <3>4. HandInv'
      BY <2>2, <3>0 DEF HandInv
    <3>5. NoIdlePermit'
      BY <2>2, <3>0 DEF NoIdlePermit
    <3> QED BY <3>1, <3>2, <3>3, <3>4, <3>5
  <2>3. CASE ~(avail > 0) /\ LoopOf[c] # NoLoop
    <3>1. /\ waiters' = Append(waiters, c)
          /\ pc' = [pc EXCEPT ![c] = "enqueued"]
          /\ pc[c] = "unready" /\ Mode[c] = "timed"
          /\ avail = 0
          /\ UNCHANGED <<avail, acquired, timedOut, timerId, timer, target, at, posted>>
      BY <2>3
    <3>2. /\ waiters' \in Seq(Calls)
          /\ DOMAIN waiters = 1 .. Len(waiters) /\ Len(waiters) \in Nat
          /\ DOMAIN waiters' = 1 .. Len(waiters) + 1
          /\ \A i \in 1 .. Len(waiters) : waiters'[i] = waiters[i]
          /\ waiters'[Len(waiters) + 1] = c
      BY <3>1, AppendFacts
    <3> HIDE DEF SuspendTimed
    <3>3. TypeOK'
      BY <3>1, <3>2
    <3>4. \A i \in DOMAIN waiters : waiters[i] # c
      BY <3>1 DEF QueueInv
    <3>5. QueueInv'
      <4>1. \A i, j \in DOMAIN waiters' : waiters'[i] = waiters'[j] => i = j
        BY <3>2, <3>4 DEF QueueInv
      <4>2. \A i \in DOMAIN waiters' : pc'[waiters'[i]] \in Waiting /\ ~acquired'[waiters'[i]] /\ ~timedOut'[waiters'[i]]
        BY <3>1, <3>2, <3>4 DEF QueueInv, CallInv
      <4> QED BY <4>1, <4>2 DEF QueueInv
    <3>6. CallInv'
      <4>1. ASSUME NEW d \in Calls, pc'[d] \in Waiting, ~acquired'[d]
            PROVE  \E i \in DOMAIN waiters' : waiters'[i] = d
        <5>1. CASE d = c
          <6>1. Len(waiters) + 1 \in DOMAIN waiters' /\ waiters'[Len(waiters) + 1] = d
            BY <3>2, <5>1
          <6> QED BY <6>1
        <5>2. CASE d # c BY <3>1, <3>2, <4>1, <5>2 DEF CallInv
        <5> QED BY <5>1, <5>2
      <4>2. timer[c] = "none" /\ Undone(c)
        BY <3>1 DEF CallInv
      <4> QED BY <2>3, <3>1, <4>1, <4>2 DEF CallInv
    <3>7. HandInv'
      BY <3>1 DEF HandInv
    <3>8. NoIdlePermit'
      BY <3>1 DEF NoIdlePermit
    <3> QED BY <3>3, <3>5, <3>6, <3>7, <3>8
  <2> QED BY <2>1, <2>2, <2>3
<1>4. ASSUME NEW c \in Calls, RunAfter(c) PROVE Structure'
  <2> USE <1>4 DEF RunAfter
  <2>1. TypeOK'
    OBVIOUS
  <2>2. QueueInv'
    BY DEF QueueInv, HandInv
  <2>3. CallInv'
    BY DEF QueueInv, CallInv, HandInv
  <2>4. HandInv'
    BY DEF QueueInv, CallInv, HandInv
  <2>5. NoIdlePermit'
    BY DEF NoIdlePermit
  <2> QED BY <2>1, <2>2, <2>3, <2>4, <2>5
<1>5. ASSUME NEW c \in Calls, CommitTimer(c) PROVE Structure'
  <2> USE <1>5 DEF CommitTimer
  <2>1. TypeOK'
    OBVIOUS
  <2>2. QueueInv'
    BY DEF QueueInv, HandInv
  <2>3. CallInv'
    BY DEF QueueInv, CallInv, HandInv
  <2>4. HandInv'
    BY DEF QueueInv, CallInv, HandInv
  <2>5. NoIdlePermit'
    BY DEF NoIdlePermit
  <2> QED BY <2>1, <2>2, <2>3, <2>4, <2>5
<1>6. ASSUME NEW c \in Calls, TimerFire(c) PROVE Structure'
  <2> USE <1>6 DEF TimerFire
  <2>1. CASE acquired[c] \/ timedOut[c]
    <3> USE <2>1
    <3>1. TypeOK'
      OBVIOUS
    <3>2. QueueInv'
      BY DEF QueueInv, CallInv, HandInv
    <3>3. CallInv'
      BY DEF QueueInv, CallInv, HandInv
    <3>4. HandInv'
      BY DEF HandInv
    <3>5. NoIdlePermit'
      BY DEF QueueInv, NoIdlePermit
    <3> QED BY <3>1, <3>2, <3>3, <3>4, <3>5
  <2>2. CASE Undone(c)
    <3>0. /\ timedOut' = [timedOut EXCEPT ![c] = TRUE]
          /\ pc' = [pc EXCEPT ![c] = "refused"]
          /\ timer' = [timer EXCEPT ![c] = "gone"]
          /\ pc[c] \in {"timer_set", "suspended"}
          /\ Mode[c] = "timed" /\ LoopOf[c] # NoLoop
          /\ EraseWaiter(c)
          /\ UNCHANGED <<avail, acquired, timerId, target, at, posted>>
      BY <2>2 DEF CallInv
    <3> HIDE DEF TimerFire
    <3>1. PICK i \in DOMAIN waiters : waiters[i] = c /\ waiters' = RemoveAt(waiters, i)
      BY <2>2, <3>0 DEF EraseWaiter, IsFirst, CallInv
    <3>2. /\ waiters' \in Seq(Calls)
          /\ DOMAIN waiters = 1 .. Len(waiters) /\ Len(waiters) \in Nat
          /\ DOMAIN waiters' = 1 .. Len(waiters) - 1
          /\ \A j \in 1 .. Len(waiters) - 1 : waiters'[j] = IF j < i THEN waiters[j] ELSE waiters[j + 1]
      BY <3>1, RemoveAtFacts
    <3>3. TypeOK'
      BY <3>0, <3>2
    <3>4. \A j \in DOMAIN waiters' : \E k \in DOMAIN waiters : k # i /\ waiters'[j] = waiters[k]
      <4>1. ASSUME NEW j \in DOMAIN waiters', j < i PROVE j \in DOMAIN waiters /\ waiters'[j] = waiters[j]
        BY <3>2, <4>1
      <4>2. ASSUME NEW j \in DOMAIN waiters', ~(j < i) PROVE j + 1 \in DOMAIN waiters /\ j + 1 # i /\ waiters'[j] = waiters[j + 1]
        BY <3>2, <4>2
      <4> QED BY <4>1, <4>2
    <3>5. \A k \in DOMAIN waiters : k # i => \E j \in DOMAIN waiters' : waiters'[j] = waiters[k]
      <4>1. ASSUME NEW k \in DOMAIN waiters, k < i PROVE k \in DOMAIN waiters' /\ waiters'[k] = waiters[k]
        BY <3>1, <3>2, <4>1
      <4>2. ASSUME NEW k \in DOMAIN waiters, k > i PROVE k - 1 \in DOMAIN waiters' /\ waiters'[k - 1] = waiters[k]
        BY <3>1, <3>2, <4>2
      <4> QED BY <3>1, <3>2, <4>1, <4>2
    <3>6. \A j, k \in DOMAIN waiters' : waiters'[j] = waiters'[k] => j = k
      <4>1. ASSUME NEW j \in DOMAIN waiters', NEW k \in DOMAIN waiters', waiters'[j] = waiters'[k] PROVE j = k
        <5> DEFINE old(n) == IF n < i THEN n ELSE n + 1
        <5>1. /\ old(j) \in DOMAIN waiters /\ old(k) \in DOMAIN waiters
              /\ waiters[old(j)] = waiters'[j] /\ waiters[old(k)] = waiters'[k]
          BY <3>2
        <5>2. old(j) = old(k)
          BY <4>1, <5>1 DEF QueueInv
        <5> QED BY <3>2, <5>2
      <4> QED BY <4>1
    <3>7. \A k \in DOMAIN waiters : k # i => waiters[k] # c
      BY <3>1 DEF QueueInv
    <3>8. QueueInv'
      <4>1. ASSUME NEW j \in DOMAIN waiters' PROVE pc'[waiters'[j]] \in Waiting /\ ~acquired'[waiters'[j]] /\ ~timedOut'[waiters'[j]]
        <5>1. PICK k \in DOMAIN waiters : k # i /\ waiters'[j] = waiters[k]
          BY <3>4
        <5> QED BY <2>2, <3>0, <3>7, <5>1 DEF QueueInv
      <4> QED BY <3>6, <4>1 DEF QueueInv
    <3>9. CallInv'
      <4>1. \A d \in Calls : pc'[d] \in Waiting => acquired'[d] \/ \E j \in DOMAIN waiters' : waiters'[j] = d
        <5>1. ASSUME NEW d \in Calls, pc'[d] \in Waiting, ~acquired'[d]
              PROVE  \E j \in DOMAIN waiters' : waiters'[j] = d
          <6>1. d # c /\ \E k \in DOMAIN waiters : waiters[k] = d
            BY <3>0, <5>1 DEF CallInv
          <6> QED BY <3>1, <3>5, <6>1
        <5> QED BY <5>1
      <4> QED BY <2>2, <3>0, <4>1 DEF CallInv
    <3>10. HandInv'
      BY <2>2, <3>0 DEF HandInv
    <3>11. NoIdlePermit'
      BY <3>0, <3>1 DEF NoIdlePermit
    <3> QED BY <3>3, <3>8, <3>9, <3>10, <3>11
  <2> QED BY <2>1, <2>2
<1>7. ASSUME NEW c \in Calls, TimerCancelled(c) PROVE Structure'
  <2> USE <1>7 DEF TimerCancelled
  <2>1. TypeOK'
    OBVIOUS
  <2>2. QueueInv'
    BY DEF QueueInv, HandInv
  <2>3. CallInv'
    BY DEF QueueInv, CallInv, HandInv
  <2>4. HandInv'
    BY DEF QueueInv, CallInv, HandInv
  <2>5. NoIdlePermit'
    BY DEF NoIdlePermit
  <2> QED BY <2>1, <2>2, <2>3, <2>4, <2>5
<1>8. ASSUME NEW c \in Calls, NEW t \in Threads, Release(c, t) PROVE Structure'
  <2> USE <1>8, UndecidedAll DEF Release
  <2>1. CASE waiters = <<>>
    <3> USE <2>1
    <3>1. TypeOK'
      OBVIOUS
    <3>2. QueueInv'
      BY DEF QueueInv, CallInv, HandInv
    <3>3. CallInv'
      BY DEF QueueInv, CallInv, HandInv
    <3>4. HandInv'
      BY DEF HandInv
    <3>5. NoIdlePermit'
      BY DEF QueueInv, NoIdlePermit
    <3> QED BY <3>1, <3>2, <3>3, <3>4, <3>5
  <2>2. CASE waiters # <<>>
    <3> DEFINE w == waiters[1]
    <3>1. /\ w \in Calls /\ 1 \in DOMAIN waiters
          /\ waiters' = SubSeq(waiters, 2, Len(waiters))
          /\ acquired' = [acquired EXCEPT ![w] = TRUE]
          /\ target' = [target EXCEPT ![c] = w]
          /\ at' = [at EXCEPT ![c] = t]
          /\ pc' = [pc EXCEPT ![c] = "handing"]
          /\ pc[c] = "holding"
          /\ UNCHANGED <<avail, timedOut, timerId, timer, posted>>
      <4>1. \E i \in DOMAIN waiters :
              /\ i = 1
              /\ waiters' = SubSeq(waiters, i + 1, Len(waiters))
              /\ acquired' = [acquired EXCEPT ![waiters[i]] = TRUE]
              /\ target' = [target EXCEPT ![c] = waiters[i]]
        BY <2>2
      <4>2. waiters' = SubSeq(waiters, 2, Len(waiters))
        BY <4>1
      <4> QED BY <2>2, <4>1, <4>2, TailFacts
    <3>2. /\ waiters' \in Seq(Calls)
          /\ DOMAIN waiters = 1 .. Len(waiters) /\ Len(waiters) \in Nat
          /\ DOMAIN waiters' = 1 .. Len(waiters) - 1
          /\ \A j \in 1 .. Len(waiters) - 1 : waiters'[j] = waiters[j + 1]
      BY <2>2, <3>1, TailFacts
    <3>3. /\ pc[w] \in Waiting /\ Undone(w) /\ w # c
          /\ \A j \in DOMAIN waiters : j # 1 => waiters[j] # w
      BY <3>1 DEF QueueInv
    <3> HIDE DEF w, Release
    <3>4. TypeOK'
      BY <3>1, <3>2
    <3>5. QueueInv'
      <4>1. ASSUME NEW j \in DOMAIN waiters' PROVE pc'[waiters'[j]] \in Waiting /\ ~acquired'[waiters'[j]] /\ ~timedOut'[waiters'[j]]
        <5>1. j + 1 \in DOMAIN waiters /\ j + 1 # 1 /\ waiters'[j] = waiters[j + 1]
          BY <3>2
        <5> QED BY <3>1, <3>3, <5>1 DEF QueueInv
      <4>2. \A i, j \in DOMAIN waiters' : waiters'[i] = waiters'[j] => i = j
        <5>1. ASSUME NEW i \in DOMAIN waiters', NEW j \in DOMAIN waiters', waiters'[i] = waiters'[j] PROVE i = j
          <6>1. i + 1 \in DOMAIN waiters /\ j + 1 \in DOMAIN waiters /\ waiters[i + 1] = waiters[j + 1]
            BY <3>2, <5>1
          <6> QED BY <3>2, <6>1 DEF QueueInv
        <5> QED BY <5>1
      <4> QED BY <4>1, <4>2 DEF QueueInv
    <3>6. CallInv'
      <4>1. ASSUME NEW d \in Calls, pc'[d] \in Waiting, ~acquired'[d]
            PROVE  \E j \in DOMAIN waiters' : waiters'[j] = d
        <5>1. PICK k \in DOMAIN waiters : waiters[k] = d
          BY <3>1, <4>1 DEF CallInv
        <5>2. k # 1
          BY <3>1, <4>1, <5>1 DEF w
        <5>3. k - 1 \in DOMAIN waiters' /\ waiters'[k - 1] = d
          BY <3>2, <5>1, <5>2
        <5> QED BY <5>3
      <4> QED BY <3>1, <3>3, <4>1 DEF CallInv
    <3>7. HandInv'
      BY <3>1, <3>3 DEF HandInv
    <3>8. NoIdlePermit'
      BY <2>2, <3>1 DEF NoIdlePermit
    <3> QED BY <3>4, <3>5, <3>6, <3>7, <3>8
  <2> QED BY <2>1, <2>2
<1>9. ASSUME NEW c \in Calls, Dispatch(c) PROVE Structure'
  <2> USE <1>9 DEF Dispatch
  <2>1. TypeOK'
    BY DEF ResumedAs
  <2>2. QueueInv'
    BY DEF QueueInv, HandInv, ResumedAs
  <2>3. CallInv'
    BY DEF QueueInv, CallInv, HandInv, ResumedAs
  <2>4. HandInv'
    <3> DEFINE w == target[c]
    <3>1. /\ pc[c] = "handing" /\ w \in Calls /\ acquired[w] /\ pc[w] \in Waiting /\ w \notin posted
          /\ \A d \in Calls : pc[d] = "handing" /\ d # c => target[d] # w
          /\ UNCHANGED <<acquired, target>>
      BY DEF HandInv
    <3>2. CASE Posts(w, at[c])
      <4>1. posted' = posted \union {w} /\ pc' = [pc EXCEPT ![c] = "released"]
        BY <3>2
      <4> HIDE DEF w, Dispatch
      <4> QED BY <3>1, <4>1 DEF HandInv
    <3>3. CASE ~Posts(w, at[c])
      <4>1. posted' = posted /\ pc' = [pc EXCEPT ![c] = "released", ![w] = "holding"]
        BY <3>1, <3>3 DEF ResumedAs
      <4> HIDE DEF w, Dispatch
      <4>2. ASSUME NEW d \in Calls, pc'[d] = "handing"
            PROVE  pc[d] = "handing" /\ d # c /\ target[d] # w
        BY <3>1, <4>1, <4>2
      <4>3. ASSUME NEW d \in Calls, pc[d] \in Waiting, d # w PROVE pc'[d] = pc[d]
        BY <3>1, <4>1, <4>3
      <4>4. ASSUME NEW d \in Calls, pc'[d] = "handing"
            PROVE  acquired'[target'[d]] /\ pc'[target'[d]] \in Waiting /\ target'[d] \notin posted'
        <5>1. /\ acquired[target[d]] /\ pc[target[d]] \in Waiting /\ target[d] \notin posted
              /\ target[d] # w /\ target[d] \in Calls
          BY <4>2, <4>4 DEF HandInv
        <5> QED BY <3>1, <4>1, <4>3, <5>1
      <4>5. ASSUME NEW d \in posted' PROVE acquired'[d] /\ pc'[d] \in Waiting
        <5>1. d \in posted /\ d # w /\ d \in Calls /\ acquired[d] /\ pc[d] \in Waiting
          BY <3>1, <4>1, <4>5 DEF HandInv
        <5> QED BY <3>1, <4>3, <5>1
      <4>6. \A d, e \in Calls : pc'[d] = "handing" /\ pc'[e] = "handing" /\ target'[d] = target'[e] => d = e
        BY <3>1, <4>2 DEF HandInv
      <4> QED BY <4>4, <4>5, <4>6 DEF HandInv
    <3> QED BY <3>2, <3>3
  <2>5. NoIdlePermit'
    BY DEF NoIdlePermit
  <2> QED BY <2>1, <2>2, <2>3, <2>4, <2>5
<1>10. ASSUME NEW c \in Calls, LoopResume(c) PROVE Structure'
  <2> USE <1>10 DEF LoopResume
  <2>1. TypeOK'
    BY DEF ResumedAs
  <2>2. QueueInv'
    BY DEF QueueInv, HandInv, ResumedAs
  <2>3. CallInv'
    BY DEF QueueInv, CallInv, HandInv, ResumedAs
  <2>4. HandInv'
    BY DEF QueueInv, CallInv, HandInv, ResumedAs
  <2>5. NoIdlePermit'
    BY DEF NoIdlePermit
  <2> QED BY <2>1, <2>2, <2>3, <2>4, <2>5
<1>11. CASE UNCHANGED vars
  BY <1>11 DEF vars, QueueInv, CallInv, HandInv, NoIdlePermit
<1> QED
  BY <1>1, <1>2, <1>3, <1>4, <1>5, <1>6, <1>7, <1>8, <1>9, <1>10, <1>11 DEF Next

\* Every reachable state is well-formed: the strengthening the other theorems
\* rest on.  It says which waiters are queued, what a timer and a hand-over in
\* flight imply about the call they belong to, and that nobody is queued next
\* to an idle permit.
THEOREM Invariance == Spec => []Structure
<1>1. Init => Structure
  BY StructureInit
<1>2. Structure /\ [Next]_vars => Structure'
  BY StructureStep
<1> QED BY <1>1, <1>2, PTL DEF Spec

\* The state of the semaphore keeps its type; in particular _avail never
\* becomes negative.
THEOREM TypeCorrect == Spec => []TypeOK
<1>1. Structure => TypeOK
  BY DEF Structure
<1> QED BY <1>1, Invariance, PTL

\* No lost wake-up: nobody is queued while a permit lies idle.
THEOREM NoLostWakeup == Spec => []NoIdlePermit
<1>1. Structure => NoIdlePermit
  BY DEF Structure
<1> QED BY <1>1, Invariance, PTL

\* The race between release() and the timer decides a waiter once.
THEOREM OneDecision == Spec => []DecidedOnce
<1>1. Structure => DecidedOnce
  BY DEF Structure, CallInv, DecidedOnce
<1> QED BY <1>1, Invariance, PTL

-------------------------------------------------------------------------------
(* AsyncSemaphore implements PermitPool                                    *)

LEMMA PoolInitial == Init => Pool!PoolInit
  BY DEF Init, Pool!PoolInit, Owners, Refused, Waiting

\* An acquire that finds a permit takes it from the pool; nobody waits then.
LEMMA TakeMaps ==
  ASSUME Structure, NEW c \in Calls, avail > 0, avail' = avail - 1,
         pc[c] \in {"idle", "unready"}, pc' = [pc EXCEPT ![c] = "holding"],
         acquired' = acquired \/ acquired' = [acquired EXCEPT ![c] = TRUE],
         waiters' = waiters
  PROVE  Pool!Take(c)
<1> USE DEF Structure, TypeOK, PC, Waiting
<1>1. c \notin Owners /\ c \notin Refused /\ \A i \in DOMAIN waiters : waiters[i] # c
  BY DEF QueueInv, Owners, Refused
<1>2. waiters = <<>>
  BY DEF NoIdlePermit
<1>3. Owners' = Owners \union {c}
  BY DEF Owners
<1>4. Refused' = Refused
  BY DEF Refused
<1> QED BY <1>1, <1>2, <1>3, <1>4 DEF Pool!Take, Pool!Outside

\* A call that joins the queue joins the line.
LEMMA WaitMaps ==
  ASSUME Structure, NEW c \in Calls, avail <= 0, avail' = avail,
         pc[c] = "unready", pc'[c] \in Waiting, pc' = [pc EXCEPT ![c] = pc'[c]],
         acquired' = acquired, waiters' = Append(waiters, c)
  PROVE  Pool!Wait(c)
<1> USE DEF Structure, TypeOK, PC, Waiting
<1>1. c \notin Owners /\ c \notin Refused /\ \A i \in DOMAIN waiters : waiters[i] # c
  BY DEF QueueInv, Owners, Refused
<1>2. Owners' = Owners
  BY DEF Owners, CallInv, Undone
<1>3. Refused' = Refused
  BY DEF Refused
<1> QED BY <1>1, <1>2, <1>3 DEF Pool!Wait, Pool!Outside

\* A timed call is refused before it queues ...
LEMMA RefuseMaps ==
  ASSUME Structure, NEW c \in Calls, avail <= 0, avail' = avail, Mode[c] # "untimed",
         pc[c] \in {"idle", "unready"}, pc' = [pc EXCEPT ![c] = "refused"],
         acquired' = acquired, waiters' = waiters
  PROVE  Pool!Refuse(c)
<1> USE DEF Structure, TypeOK, PC, Waiting
<1>1. c \notin Owners /\ c \notin Refused /\ \A i \in DOMAIN waiters : waiters[i] # c
  BY DEF QueueInv, Owners, Refused
<1>2. Owners' = Owners
  BY DEF Owners, CallInv, Undone
<1>3. Refused' = Refused \union {c}
  BY DEF Refused
<1> QED BY <1>1, <1>2, <1>3 DEF Pool!Refuse, Pool!Outside

\* ... or by its timer, which takes it out of the line.
LEMMA TimeoutMaps ==
  ASSUME Structure, NEW c \in Calls, TimerFire(c), Undone(c)
  PROVE  Pool!Refuse(c)
<1> USE DEF Structure, TypeOK, PC, Waiting, TimerFire, Become
<1>1. pc[c] \in {"timer_set", "suspended"}
  BY DEF CallInv
<1>2. PICK i \in DOMAIN waiters : waiters[i] = c /\ waiters' = RemoveAt(waiters, i)
  BY <1>1 DEF EraseWaiter, IsFirst, CallInv, Undone
<1>3. avail = 0
  BY <1>2 DEF NoIdlePermit
<1>4. Mode[c] # "untimed"
  BY DEF CallInv
<1>5. Owners' = Owners
  BY <1>1 DEF Owners, Undone
<1>6. Refused' = Refused \union {c}
  BY DEF Refused, Undone
<1>7. \E j \in DOMAIN waiters : waiters[j] = c /\ waiters' = RemoveAt(waiters, j)
  BY <1>2
<1>8. UNCHANGED avail
  OBVIOUS
<1> HIDE DEF Structure, TypeOK, PC, Waiting, TimerFire, Become
<1>9. \E j \in DOMAIN waiters : waiters[j] = c /\ waiters' = Pool!RemoveAt(waiters, j)
  BY <1>7 DEF Pool!RemoveAt, RemoveAt
<1> QED BY <1>3, <1>4, <1>5, <1>6, <1>8, <1>9 DEF Pool!Refuse

\* A release returns the permit, and the longest waiting call takes it over.
LEMMA ReleaseMaps ==
  ASSUME Structure, NEW c \in Calls, NEW t \in Threads, Release(c, t)
  PROVE  Pool!Return(c)
<1> USE UndecidedAll DEF Structure, TypeOK, PC, Waiting, Release, Become
<1>1. c \in Owners
  BY DEF Owners
<1>2. Refused' = Refused
  BY DEF Refused
<1>3. CASE waiters = <<>>
  <2>1. Owners' = Owners \ {c}
    BY <1>3 DEF Owners
  <2> QED BY <1>1, <1>2, <1>3, <2>1 DEF Pool!Return
<1>4. CASE waiters # <<>>
  <2>1. /\ waiters' = SubSeq(waiters, 2, Len(waiters))
        /\ acquired' = [acquired EXCEPT ![waiters[1]] = TRUE]
        /\ pc' = [pc EXCEPT ![c] = "handing"]
        /\ avail' = avail
    <3>1. \E i \in DOMAIN waiters :
            /\ i = 1
            /\ waiters' = SubSeq(waiters, i + 1, Len(waiters))
            /\ acquired' = [acquired EXCEPT ![waiters[i]] = TRUE]
      BY <1>4
    <3>2. waiters' = SubSeq(waiters, 2, Len(waiters))
      BY <3>1
    <3> QED BY <1>4, <3>1, <3>2
  <2>2. waiters[1] \in Calls /\ pc[waiters[1]] \in Waiting /\ waiters[1] # c
    BY <1>4, TailFacts DEF QueueInv
  <2>3. Owners' = (Owners \ {c}) \union {waiters[1]}
    BY <2>1, <2>2 DEF Owners
  <2>4. waiters' = Tail(waiters) /\ waiters[1] = Head(waiters)
    BY <1>4, <2>1, TailFacts
  <2> QED BY <1>1, <1>2, <1>4, <2>1, <2>3, <2>4 DEF Pool!Return
<1> QED BY <1>3, <1>4

LEMMA PoolStep == Structure /\ [Next]_vars => [Pool!PoolNext]_(Pool!poolVars)
<1> SUFFICES ASSUME Structure, [Next]_vars PROVE [Pool!PoolNext]_(Pool!poolVars)
  OBVIOUS
<1> USE SemaphoreAssumption DEF Structure, TypeOK, PC, Waiting, Become
<1>1. ASSUME NEW c \in Calls, TryAcquire(c) PROVE [Pool!PoolNext]_(Pool!poolVars)
  <2>1. CASE avail > 0
    <3>1. Pool!Take(c)
      BY <1>1, <2>1, TakeMaps DEF TryAcquire
    <3> QED BY <3>1 DEF Pool!PoolNext
  <2>2. CASE ~(avail > 0) /\ Mode[c] = "zero"
    <3>1. Pool!Refuse(c)
      BY <1>1, <2>2, RefuseMaps DEF TryAcquire
    <3> QED BY <3>1 DEF Pool!PoolNext
  <2>3. CASE ~(avail > 0) /\ Mode[c] # "zero"
    BY <1>1, <2>3 DEF TryAcquire, Pool!poolVars, Owners, Refused
  <2> QED BY <2>1, <2>2, <2>3
<1>2. ASSUME NEW c \in Calls, SuspendUntimed(c) PROVE [Pool!PoolNext]_(Pool!poolVars)
  <2>1. CASE avail > 0
    <3>1. Pool!Take(c)
      BY <1>2, <2>1, TakeMaps DEF SuspendUntimed
    <3> QED BY <3>1 DEF Pool!PoolNext
  <2>2. CASE ~(avail > 0)
    <3>1. Pool!Wait(c)
      BY <1>2, <2>2, WaitMaps DEF SuspendUntimed
    <3> QED BY <3>1 DEF Pool!PoolNext
  <2> QED BY <2>1, <2>2
<1>3. ASSUME NEW c \in Calls, SuspendTimed(c) PROVE [Pool!PoolNext]_(Pool!poolVars)
  <2>1. CASE avail > 0
    <3>1. Pool!Take(c)
      BY <1>3, <2>1, TakeMaps DEF SuspendTimed
    <3> QED BY <3>1 DEF Pool!PoolNext
  <2>2. CASE ~(avail > 0) /\ LoopOf[c] = NoLoop
    <3>1. Pool!Refuse(c)
      BY <1>3, <2>2, RefuseMaps DEF SuspendTimed
    <3> QED BY <3>1 DEF Pool!PoolNext
  <2>3. CASE ~(avail > 0) /\ LoopOf[c] # NoLoop
    <3>1. Pool!Wait(c)
      BY <1>3, <2>3, WaitMaps DEF SuspendTimed
    <3> QED BY <3>1 DEF Pool!PoolNext
  <2> QED BY <2>1, <2>2, <2>3
<1>4. ASSUME NEW c \in Calls, RunAfter(c) PROVE [Pool!PoolNext]_(Pool!poolVars)
  BY <1>4 DEF RunAfter, Pool!poolVars, Owners, Refused
<1>5. ASSUME NEW c \in Calls, CommitTimer(c) PROVE [Pool!PoolNext]_(Pool!poolVars)
  BY <1>5 DEF CommitTimer, Pool!poolVars, Owners, Refused
<1>6. ASSUME NEW c \in Calls, TimerFire(c) PROVE [Pool!PoolNext]_(Pool!poolVars)
  <2>1. CASE Undone(c)
    BY <1>6, <2>1, TimeoutMaps DEF Pool!PoolNext
  <2>2. CASE ~Undone(c)
    BY <1>6, <2>2 DEF TimerFire, Undone, Pool!poolVars, Owners, Refused
  <2> QED BY <2>1, <2>2
<1>7. ASSUME NEW c \in Calls, TimerCancelled(c) PROVE [Pool!PoolNext]_(Pool!poolVars)
  BY <1>7 DEF TimerCancelled, Pool!poolVars, Owners, Refused
<1>8. ASSUME NEW c \in Calls, NEW t \in Threads, Release(c, t) PROVE [Pool!PoolNext]_(Pool!poolVars)
  BY <1>8, ReleaseMaps DEF Pool!PoolNext
<1>9. ASSUME NEW c \in Calls, Dispatch(c) PROVE [Pool!PoolNext]_(Pool!poolVars)
  <2>1. /\ pc[c] = "handing" /\ target[c] \in Calls /\ acquired[target[c]]
        /\ pc[target[c]] \in Waiting
    BY <1>9 DEF Dispatch, HandInv
  <2>2. \/ pc' = [pc EXCEPT ![c] = "released"]
        \/ pc' = [pc EXCEPT ![c] = "released", ![target[c]] = "holding"]
    BY <1>9, <2>1 DEF Dispatch, ResumedAs
  <2>3. Owners' = Owners /\ Refused' = Refused
    BY <1>9, <2>1, <2>2 DEF Dispatch, Owners, Refused
  <2> QED BY <1>9, <2>3 DEF Dispatch, Pool!poolVars
<1>10. ASSUME NEW c \in Calls, LoopResume(c) PROVE [Pool!PoolNext]_(Pool!poolVars)
  <2>1. acquired[c] /\ pc[c] \in Waiting
    BY <1>10 DEF LoopResume, HandInv
  <2>2. Owners' = Owners /\ Refused' = Refused
    BY <1>10, <2>1 DEF LoopResume, ResumedAs, Owners, Refused
  <2> QED BY <1>10, <2>2 DEF LoopResume, Pool!poolVars
<1>11. CASE UNCHANGED vars
  BY <1>11 DEF vars, Pool!poolVars, Owners, Refused
<1> QED
  BY <1>1, <1>2, <1>3, <1>4, <1>5, <1>6, <1>7, <1>8, <1>9, <1>10, <1>11 DEF Next

\* The semaphore implements the abstract pool: the cap, first come first
\* served hand-over, and no overtaking, for any number of calls and loops.
THEOREM Implementation == Spec => ImplementsPool
<1>1. Init => Pool!PoolInit
  BY PoolInitial
<1>2. Structure /\ [Next]_vars => [Pool!PoolNext]_(Pool!poolVars)
  BY PoolStep
<1> QED BY <1>1, <1>2, Invariance, PTL DEF Spec, ImplementsPool, Pool!PoolSpec

-------------------------------------------------------------------------------
(* Permits are conserved                                                   *)

LEMMA OwnersFinite == IsFiniteSet(Owners) /\ Cardinality(Owners) \in Nat
<1>1. Owners \subseteq Calls
  BY DEF Owners
<1> QED BY <1>1, SemaphoreAssumption, FS_Subset, FS_CardinalityType

LEMMA PoolConserves ==
  ASSUME Structure, PermitsConserved, IsFiniteSet(Owners), Cardinality(Owners) \in Nat,
         [Pool!PoolNext]_(Pool!poolVars)
  PROVE  PermitsConserved'
<1> USE DEF PermitsConserved, Structure, TypeOK
<1>1. ASSUME NEW c \in Calls, Pool!Take(c) PROVE PermitsConserved'
  <2>1. c \notin Owners /\ Owners' = Owners \union {c} /\ avail' = avail - 1
    BY <1>1 DEF Pool!Take, Pool!Outside
  <2>2. Cardinality(Owners \union {c}) = Cardinality(Owners) + 1
    BY <2>1, FS_AddElement
  <2> QED BY <2>1, <2>2
<1>2. ASSUME NEW c \in Calls, Pool!Wait(c) \/ Pool!Refuse(c) PROVE PermitsConserved'
  BY <1>2 DEF Pool!Wait, Pool!Refuse
<1>3. ASSUME NEW c \in Calls, Pool!Return(c) PROVE PermitsConserved'
  <2>1. c \in Owners
    BY <1>3 DEF Pool!Return
  <2>2. IsFiniteSet(Owners \ {c}) /\ Cardinality(Owners \ {c}) = Cardinality(Owners) - 1
    BY <2>1, FS_RemoveElement
  <2>5. waiters # <<>> => Head(waiters) \notin Owners
    <3>1. waiters # <<>> => 1 \in DOMAIN waiters /\ Head(waiters) = waiters[1]
      BY TailFacts
    <3> QED BY <3>1 DEF QueueInv, Owners, Undone, Waiting
  <2>3. CASE avail' = avail + 1 /\ Owners' = Owners \ {c}
    BY <2>2, <2>3
  <2>4. CASE avail' = avail /\ Owners' = (Owners \ {c}) \union {Head(waiters)}
               /\ Head(waiters) \notin Owners \ {c}
    <3>1. Cardinality((Owners \ {c}) \union {Head(waiters)}) = Cardinality(Owners)
      <4> DEFINE rest == Owners \ {c}
      <4> HIDE DEF rest
      <4>1. Cardinality(rest \union {Head(waiters)}) = Cardinality(rest) + 1
        BY <2>2, <2>4, FS_AddElement DEF rest
      <4> QED BY <2>2, <4>1 DEF rest
    <3> QED BY <2>4, <3>1
  <2> QED BY <1>3, <2>3, <2>4, <2>5 DEF Pool!Return
<1>4. CASE UNCHANGED Pool!poolVars
  BY <1>4 DEF Pool!poolVars
<1> QED BY <1>1, <1>2, <1>3, <1>4 DEF Pool!PoolNext

\* Permits are neither lost nor duplicated, a hand-over in flight included.
THEOREM Conservation == Spec => []PermitsConserved
<1>1. Init => PermitsConserved
  <2>1. Init => Owners = {} /\ avail = Permits
    BY DEF Init, Owners, Waiting
  <2> QED BY <2>1, FS_EmptySet, SemaphoreAssumption DEF PermitsConserved
<1>2. Structure /\ PermitsConserved /\ [Next]_vars => PermitsConserved'
  BY PoolStep, OwnersFinite, PoolConserves
<1> QED BY <1>1, <1>2, Invariance, PTL DEF Spec

-------------------------------------------------------------------------------
(* Resumption                                                              *)

\* The thread of l is inside await_suspend or release() on behalf of c.
Active(c, l) == \/ LoopOf[c] = l /\ pc[c] \in {"unready", "enqueued", "timer_set"}
                \/ at[c] = l /\ pc[c] = "handing"

\* A loop does one thing at a time.
OneActivity == \A l \in Loops : \A c, d \in Calls : Active(c, l) /\ Active(d, l) => c = d

\* While a timer is pending somebody will still cancel it: await_suspend when it
\* commits the timer's id, the release() that granted the permit, or the decision
\* that is still to come.
TimerInv ==
  \A c \in Calls : timer[c] = "pending" =>
    \/ pc[c] = "timer_set"
    \/ /\ pc[c] = "suspended"
       /\ timerId[c]
       /\ Undone(c) \/ \E d \in Calls : pc[d] = "handing" /\ target[d] = c

LEMMA OneActivityStep == Structure /\ OneActivity /\ [Next]_vars => OneActivity'
<1> SUFFICES ASSUME Structure, OneActivity, [Next]_vars PROVE OneActivity'
  OBVIOUS
<1> USE SemaphoreAssumption DEF Structure, TypeOK, PC, Waiting, Threads, Become, OneActivity, Active
<1>1. ASSUME NEW c \in Calls, TryAcquire(c) PROVE OneActivity'
  BY <1>1 DEF TryAcquire, LoopBusy
<1>2. ASSUME NEW c \in Calls, SuspendUntimed(c) \/ SuspendTimed(c) PROVE OneActivity'
  BY <1>2 DEF SuspendUntimed, SuspendTimed
<1>3. ASSUME NEW c \in Calls, RunAfter(c) \/ CommitTimer(c) PROVE OneActivity'
  BY <1>3 DEF RunAfter, CommitTimer
<1>4. ASSUME NEW c \in Calls, TimerFire(c) \/ TimerCancelled(c) \/ LoopResume(c) PROVE OneActivity'
  BY <1>4 DEF TimerFire, TimerCancelled, LoopResume, ResumedAs
<1>5. ASSUME NEW c \in Calls, NEW t \in Threads, Release(c, t) PROVE OneActivity'
  <2>1. /\ ~LoopBusy(t) /\ pc[c] = "holding"
        /\ \/ pc' = [pc EXCEPT ![c] = "released"] /\ at' = at
           \/ pc' = [pc EXCEPT ![c] = "handing"] /\ at' = [at EXCEPT ![c] = t]
    BY <1>5 DEF Release
  <2> QED BY <2>1 DEF LoopBusy
<1>6. ASSUME NEW c \in Calls, Dispatch(c) PROVE OneActivity'
  <2>1. /\ \/ pc' = [pc EXCEPT ![c] = "released"]
           \/ pc' = [pc EXCEPT ![c] = "released", ![target[c]] = ResumedAs(target[c])]
        /\ at' = at
    BY <1>6 DEF Dispatch
  <2> QED BY <2>1 DEF ResumedAs
<1>7. CASE UNCHANGED vars
  BY <1>7 DEF vars
<1> QED BY <1>1, <1>2, <1>3, <1>4, <1>5, <1>6, <1>7 DEF Next

\* A resume only meets a coroutine whose await_suspend has returned.
LEMMA ResumeStep ==
  ASSUME Structure, OneActivity, [Next]_vars, NEW w \in Calls,
         pc[w] \in Waiting, pc'[w] \notin Waiting
  PROVE  pc[w] = "suspended"
<1> USE SemaphoreAssumption DEF Structure, TypeOK, PC, Waiting, Threads, Become
<1>1. pc[w] # "suspended" => LoopOf[w] \in Loops /\ Active(w, LoopOf[w]) /\ LoopBusy(LoopOf[w])
  BY DEF CallInv, Active, LoopBusy
<1>2. ASSUME NEW c \in Calls, TimerFire(c) \/ LoopResume(c) PROVE pc[w] = "suspended"
  BY <1>1, <1>2 DEF TimerFire, LoopResume
<1>3. ASSUME NEW c \in Calls, Dispatch(c) PROVE pc[w] = "suspended"
  <2>1. w = target[c] /\ ~Posts(w, at[c]) /\ pc[c] = "handing"
    BY <1>3 DEF Dispatch
  <2>2. CASE LoopOf[w] = NoLoop
    BY <1>1, <2>2
  <2>3. CASE LoopOf[w] = at[c]
    BY <1>1, <2>1, <2>3 DEF OneActivity, Active
  <2> QED BY <2>1, <2>2, <2>3 DEF Posts
<1>4. ASSUME NEW c \in Calls, NEW t \in Threads, Release(c, t) PROVE FALSE
  <2>1. pc[c] = "holding" /\ (pc' = [pc EXCEPT ![c] = "released"] \/ pc' = [pc EXCEPT ![c] = "handing"])
    BY <1>4 DEF Release
  <2> QED BY <2>1
<1>5. ASSUME NEW c \in Calls, TryAcquire(c) \/ SuspendUntimed(c) \/ SuspendTimed(c) PROVE FALSE
  BY <1>5 DEF TryAcquire, SuspendUntimed, SuspendTimed
<1>6. ASSUME NEW c \in Calls, RunAfter(c) \/ CommitTimer(c) \/ TimerCancelled(c) PROVE FALSE
  BY <1>6 DEF RunAfter, CommitTimer, TimerCancelled
<1>7. ~UNCHANGED vars
  BY DEF vars
<1> QED BY <1>2, <1>3, <1>4, <1>5, <1>6, <1>7 DEF Next

\* h.resume() only ever meets a coroutine whose await_suspend has returned, on
\* whichever thread release() runs.
THEOREM SafeResume == Spec => ResumeOnlySuspended
<1>1. Init => OneActivity
  BY SemaphoreAssumption DEF Init, OneActivity, Active
<1>2. Structure /\ OneActivity /\ [Next]_vars => OneActivity'
  BY OneActivityStep
<1>3. Structure /\ OneActivity /\ [Next]_vars =>
        [\A c \in Calls : (pc[c] \in Waiting /\ pc'[c] \notin Waiting) => pc[c] = "suspended"]_vars
  BY ResumeStep
<1> QED BY <1>1, <1>2, <1>3, Invariance, PTL DEF Spec, ResumeOnlySuspended

LEMMA TimerStep == Structure /\ OneActivity /\ TimerInv /\ [Next]_vars => TimerInv'
<1> SUFFICES ASSUME Structure, OneActivity, TimerInv, [Next]_vars, NEW w \in Calls, timer'[w] = "pending"
             PROVE  \/ pc'[w] = "timer_set"
                    \/ /\ pc'[w] = "suspended"
                       /\ timerId'[w]
                       /\ \/ ~acquired'[w] /\ ~timedOut'[w]
                          \/ \E d \in Calls : pc'[d] = "handing" /\ target'[d] = w
  BY DEF TimerInv, Undone
<1> DEFINE Goal == \/ pc'[w] = "timer_set"
                   \/ /\ pc'[w] = "suspended"
                      /\ timerId'[w]
                      /\ \/ ~acquired'[w] /\ ~timedOut'[w]
                         \/ \E d \in Calls : pc'[d] = "handing" /\ target'[d] = w
<1> USE SemaphoreAssumption DEF Structure, TypeOK, PC, Waiting, Threads, Become, Undone
<1>1. ASSUME NEW c \in Calls, TryAcquire(c) PROVE Goal
  BY <1>1 DEF TryAcquire, TimerInv
<1>2. ASSUME NEW c \in Calls, SuspendUntimed(c) \/ SuspendTimed(c) PROVE Goal
  BY <1>2 DEF SuspendUntimed, SuspendTimed, TimerInv
<1>3. ASSUME NEW c \in Calls, RunAfter(c) \/ CommitTimer(c) PROVE Goal
  BY <1>3 DEF RunAfter, CommitTimer, TimerInv
<1>4. ASSUME NEW c \in Calls, TimerFire(c) \/ TimerCancelled(c) PROVE Goal
  <2>1. /\ timer' = [timer EXCEPT ![c] = "gone"]
        /\ \A d \in Calls : d # c => pc'[d] = pc[d] /\ timedOut'[d] = timedOut[d]
        /\ pc[c] # "handing" \/ pc' = pc
        /\ UNCHANGED <<timerId, acquired, target>>
    BY <1>4 DEF TimerFire, TimerCancelled, CallInv
  <2>2. w # c /\ timer[w] = "pending"
    BY <2>1
  <2> QED BY <2>1, <2>2 DEF TimerInv
<1>5. ASSUME NEW c \in Calls, LoopResume(c) PROVE Goal
  BY <1>5 DEF LoopResume, ResumedAs, TimerInv, HandInv, LoopBusy, CallInv
<1>6. ASSUME NEW c \in Calls, NEW t \in Threads, Release(c, t) PROVE Goal
  <2>1. /\ pc[c] = "holding" /\ UNCHANGED <<timer, timerId, timedOut>>
        /\ \/ pc' = [pc EXCEPT ![c] = "released"] /\ UNCHANGED <<acquired, target>>
           \/ /\ pc' = [pc EXCEPT ![c] = "handing"]
              /\ \E v \in Calls : /\ acquired' = [acquired EXCEPT ![v] = TRUE]
                                  /\ target' = [target EXCEPT ![c] = v]
    BY <1>6 DEF Release
  <2> QED BY <2>1 DEF TimerInv
<1>7. ASSUME NEW c \in Calls, Dispatch(c) PROVE Goal
  <2>1. pc[c] = "handing" /\ target[c] # c /\ UNCHANGED <<timerId, acquired, timedOut, target>>
    BY <1>7 DEF Dispatch, HandInv
  <2>2. CASE w = target[c]
    <3>1. timer[w] = "pending" /\ ~timerId[w]
      BY <1>7, <2>2 DEF Dispatch
    <3>2. pc[w] = "timer_set"
      BY <3>1 DEF TimerInv
    <3>3. Posts(w, at[c])
      BY <1>7, <2>1, <2>2, <3>2 DEF Posts, OneActivity, Active, CallInv
    <3> QED BY <1>7, <2>1, <2>2, <3>2, <3>3 DEF Dispatch
  <2>3. CASE w # target[c]
    <3>1. timer[w] = "pending" /\ w # c
      BY <1>7, <2>1, <2>3 DEF Dispatch, TimerInv
    <3>2. pc'[w] = pc[w] /\ \A d \in Calls : d # c /\ pc[d] = "handing" /\ target[d] = w => pc'[d] = "handing"
      BY <1>7, <2>3, <3>1 DEF Dispatch, HandInv
    <3> QED BY <2>1, <2>3, <3>1, <3>2 DEF TimerInv
  <2> QED BY <2>2, <2>3
<1>8. CASE UNCHANGED vars
  BY <1>8 DEF vars, TimerInv
<1> QED BY <1>1, <1>2, <1>3, <1>4, <1>5, <1>6, <1>7, <1>8 DEF Next

\* A call that got its permit leaves no live timer behind.
THEOREM TimersCancelled == Spec => []NoStrayTimer
<1>1. Init => OneActivity /\ TimerInv
  BY SemaphoreAssumption DEF Init, OneActivity, Active, TimerInv
<1>2. Structure /\ OneActivity /\ TimerInv /\ [Next]_vars => (OneActivity /\ TimerInv)'
  BY OneActivityStep, TimerStep
<1>3. TimerInv => NoStrayTimer
  BY DEF TimerInv, NoStrayTimer
<1> QED BY <1>1, <1>2, <1>3, Invariance, PTL DEF Spec

\* A decided call only moves on by giving its permit back.
THEOREM SingleResume == Spec => ResumeOnce
<1> DEFINE Once == \A c \in Calls :
                     /\ pc[c] = "refused" => pc'[c] = "refused"
                     /\ pc[c] = "holding" => pc'[c] \in {"holding", "handing", "released"}
                     /\ pc[c] \in {"handing", "released"} => pc'[c] \in {"handing", "released"}
<1>1. Structure /\ [Next]_vars => [Once]_vars
  <2> SUFFICES ASSUME Structure, Next PROVE Once
    OBVIOUS
  <2> USE DEF Structure, TypeOK, PC, Waiting, Become, Undone
  <2>1. ASSUME NEW c \in Calls, TryAcquire(c) \/ SuspendUntimed(c) \/ SuspendTimed(c) PROVE Once
    BY <2>1 DEF TryAcquire, SuspendUntimed, SuspendTimed
  <2>2. ASSUME NEW c \in Calls, RunAfter(c) \/ CommitTimer(c) \/ TimerCancelled(c) PROVE Once
    BY <2>2 DEF RunAfter, CommitTimer, TimerCancelled
  <2>3. ASSUME NEW c \in Calls, TimerFire(c) PROVE Once
    BY <2>3 DEF TimerFire, CallInv
  <2>4. ASSUME NEW c \in Calls, LoopResume(c) PROVE Once
    BY <2>4 DEF LoopResume, HandInv
  <2>5. ASSUME NEW c \in Calls, NEW t \in Threads, Release(c, t) PROVE Once
    <3>1. pc[c] = "holding" /\ (pc' = [pc EXCEPT ![c] = "released"] \/ pc' = [pc EXCEPT ![c] = "handing"])
      BY <2>5 DEF Release
    <3> QED BY <3>1
  <2>6. ASSUME NEW c \in Calls, Dispatch(c) PROVE Once
    BY <2>6 DEF Dispatch, HandInv
  <2> QED BY <2>1, <2>2, <2>3, <2>4, <2>5, <2>6 DEF Next
<1> QED BY <1>1, Invariance, PTL DEF Spec, ResumeOnce
===============================================================================
