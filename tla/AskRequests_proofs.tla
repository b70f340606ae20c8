--------------------------- MODULE AskRequests_proofs ---------------------------
(***************************************************************************)
(* Proofs about AskRequests for any finite set of requests of any kind, any*)
(* addresses and sessions, and any limits.                                 *)
(***************************************************************************)
EXTENDS AskRequests, FiniteSetTheorems, SequenceTheorems, TLAPS

\* The types of what is not a sequence.  That no count is negative follows from
\* IpAccounted.
Shape ==
  /\ server \in {"tenancy", "consents"}
  /\ timed \in BOOLEAN
  /\ pc \in [Requests -> PC]
  /\ onLoop \in [Requests -> BOOLEAN]
  /\ counts \in [Ips -> Int] /\ \A i \in Ips : counts[i] <= IpMax
  /\ answer \in [Requests -> 0 .. MaxTokens]
  /\ gone \in [Requests -> BOOLEAN]
  /\ dead \in [Requests -> BOOLEAN]
  /\ outcome \in [Requests -> {"none", "ok", "malformed", "busy", "unavailable"}]
  /\ logs \subseteq {"question", "route"} \X Requests

LEMMA ShapeInit == Init => Shape
  BY AskAssumption DEF Init, Shape, PC

LEMMA DropIpCounts ==
  ASSUME Shape, NEW r \in Requests, DropIp(r)
  PROVE  counts' \in [Ips -> Int] /\ \A i \in Ips : counts'[i] <= IpMax
  BY AskAssumption DEF Shape, DropIp

LEMMA SendDead ==
  ASSUME Shape, NEW r \in Requests, NEW events, Send(r, events)
  PROVE  dead' \in [Requests -> BOOLEAN]
  BY DEF Shape, Send

LEMMA DecideOutcome ==
  ASSUME Shape, NEW r \in Requests, NEW what \in {"ok", "malformed", "busy", "unavailable"}, Decide(r, what)
  PROVE  outcome' \in [Requests -> {"none", "ok", "malformed", "busy", "unavailable"}]
  BY DEF Shape, Decide

LEMMA GotoPc ==
  ASSUME Shape, NEW r \in Requests, NEW where \in PC, Goto(r, where)
  PROVE  pc' \in [Requests -> PC]
  BY DEF Shape, Goto

LEMMA FailShape ==
  ASSUME Shape, NEW r \in Requests, Fail(r)
  PROVE  /\ pc' \in [Requests -> PC]
         /\ counts' \in [Ips -> Int] /\ \A i \in Ips : counts'[i] <= IpMax
         /\ outcome' \in [Requests -> {"none", "ok", "malformed", "busy", "unavailable"}]
<1>1. "repin_fail" \in PC /\ "done" \in PC
  BY DEF PC
<1>2. Decide(r, "unavailable")
  BY DEF Fail
<1>3. outcome' \in [Requests -> {"none", "ok", "malformed", "busy", "unavailable"}]
  BY <1>2, DecideOutcome
<1>4. CASE Goto(r, "repin_fail") /\ UNCHANGED counts
  BY <1>1, <1>3, <1>4, GotoPc DEF Shape
<1>5. CASE Goto(r, "done") /\ DropIp(r)
  BY <1>1, <1>3, <1>5, GotoPc, DropIpCounts
<1> QED BY <1>4, <1>5 DEF Fail

LEMMA LeaveShape ==
  ASSUME Shape, NEW r \in Requests, Leave(r)
  PROVE  /\ pc' \in [Requests -> PC]
         /\ counts' \in [Ips -> Int] /\ \A i \in Ips : counts'[i] <= IpMax
<1>1. "done" \in PC /\ Goto(r, "done") /\ DropIp(r)
  BY DEF PC, Leave
<1> QED BY <1>1, GotoPc, DropIpCounts

LEMMA ShapeNext ==
  ASSUME Shape, [Next]_vars
  PROVE  Shape'
<1> USE AskAssumption DEF Shape
<1>1. ASSUME NEW r \in Requests, Malformed(r)
      PROVE  Shape'
  BY <1>1 DEF Malformed, Arrives, Decide, PC, Goto
<1>2. ASSUME NEW r \in Requests, Locate(r)
      PROVE  Shape'
  BY <1>2 DEF Locate, Arrives, PC, Goto
<1>3. ASSUME NEW r \in Requests, Call(r)
      PROVE  Shape'
  BY <1>3 DEF Call, Arrives, PC, Goto
<1>4. ASSUME NEW r \in Requests, TooMany(r)
      PROVE  Shape'
  BY <1>4 DEF TooMany, Decide, PC, Goto
<1>5. ASSUME NEW r \in Requests, Admit(r)
      PROVE  Shape'
  BY <1>5 DEF Admit, AtLimiter, Log, PC, Goto
<1>6. ASSUME NEW r \in Requests, Probed(r)
      PROVE  Shape'
  <2>1. onLoop' \in [Requests -> BOOLEAN]
    BY <1>6 DEF Probed, Drift
  <2>2. CASE Fail(r)
    BY <1>6, <2>1, <2>2, FailShape DEF Probed
  <2>3. CASE ~Fail(r)
    BY <1>6, <2>1, <2>3 DEF Probed, Goto, PC
  <2> QED BY <2>2, <2>3
<1>7. ASSUME NEW r \in Requests, Located(r)
      PROVE  Shape'
  BY <1>7 DEF Located, Drift, PC, Goto
<1>8. ASSUME NEW r \in Requests, Assembled(r)
      PROVE  Shape'
  <2>1. onLoop' \in [Requests -> BOOLEAN]
    BY <1>8 DEF Assembled, Drift
  <2>2. CASE Fail(r)
    BY <1>8, <2>1, <2>2, FailShape DEF Assembled
  <2>3. CASE ~Fail(r)
    <3>1. AfterSources(r) \in PC
      BY DEF AfterSources, PC
    <3>2. pc' \in [Requests -> PC]
      BY <1>8, <2>3, <3>1, GotoPc DEF Assembled
    <3> QED BY <1>8, <2>1, <2>3, <3>2 DEF Assembled
  <2> QED BY <2>2, <2>3
<1>9. ASSUME NEW r \in Requests, Pin(r)
      PROVE  Shape'
  BY <1>9 DEF Pin, AfterPin, PC, Goto
<1>10. ASSUME NEW r \in Requests, FailStream(r)
      PROVE  Shape'
  BY <1>10, LeaveShape, SendDead DEF FailStream
<1>11. ASSUME NEW r \in Requests, Load(r)
      PROVE  Shape'
  BY <1>11 DEF Load, Log, PC, Goto
<1>12. ASSUME NEW r \in Requests, Announce(r)
      PROVE  Shape'
  <2>1. dead' \in [Requests -> BOOLEAN]
    BY <1>12, SendDead DEF Announce
  <2>2. pc' \in [Requests -> PC]
    <3>1. "repin_generate" \in PC /\ "acquiring" \in PC
      BY DEF PC
    <3> QED BY <1>12, <3>1, GotoPc DEF Announce
  <2> QED BY <1>12, <2>1, <2>2 DEF Announce
<1>13. ASSUME NEW r \in Requests, Acquire(r)
      PROVE  Shape'
  <2>1. pc' \in [Requests -> PC]
    <3>1. {"repin_generate", "generating", "waiting"} \subseteq PC
      BY DEF PC
    <3> QED BY <1>13, <3>1, GotoPc DEF Acquire, ToGenerate
  <2> QED BY <1>13, <2>1 DEF Acquire
<1>14. ASSUME NEW r \in Requests, Granted(r)
      PROVE  Shape'
  BY <1>14 DEF Granted, ToGenerate, PC, Goto
<1>15. ASSUME NEW r \in Requests, Generated(r)
      PROVE  Shape'
  BY <1>15 DEF Generated, Decide, PC, Goto
<1>16. ASSUME NEW r \in Requests, Replied(r)
      PROVE  Shape'
  BY <1>16, LeaveShape DEF Replied, Decide
<1>17. ASSUME NEW r \in Requests, GenerationFailed(r)
      PROVE  Shape'
  <2>1. outcome' \in [Requests -> {"none", "ok", "malformed", "busy", "unavailable"}]
    BY <1>17, DecideOutcome DEF GenerationFailed
  <2>2. CASE r \in Streams
    <3>1. dead' \in [Requests -> BOOLEAN]
      BY <1>17, <2>2, SendDead DEF GenerationFailed
    <3>2. pc' \in [Requests -> PC]
      BY <1>17, <2>2 DEF GenerationFailed, Goto, PC
    <3> QED BY <1>17, <2>1, <2>2, <3>1, <3>2 DEF GenerationFailed
  <2>3. CASE r \notin Streams
    BY <1>17, <2>1, <2>3, LeaveShape DEF GenerationFailed
  <2> QED BY <2>2, <2>3
<1>18. ASSUME NEW r \in Requests, Save(r)
      PROVE  Shape'
  BY <1>18 DEF Save, PC, Goto
<1>19. ASSUME NEW r \in Requests, Finish(r)
      PROVE  Shape'
  <2>1. dead' \in [Requests -> BOOLEAN]
    BY <1>19, SendDead DEF Finish
  <2>2. logs' \subseteq {"question", "route"} \X Requests
    BY <1>19 DEF Finish, Log
  <2> QED BY <1>19, <2>1, <2>2, LeaveShape DEF Finish
<1>20. ASSUME NEW r \in Requests, Token(r)
      PROVE  Shape'
  BY <1>20 DEF Token, Send
<1>21. ASSUME NEW r \in Requests, TimedOut(r)
      PROVE  Shape'
  BY <1>21, FailShape DEF TimedOut
<1>22. ASSUME NEW r \in Requests, PeerLeaves(r)
      PROVE  Shape'
  BY <1>22 DEF PeerLeaves
<1>23. ASSUME NEW s \in Sessions, Expire(s)
      PROVE  Shape'
  BY <1>23 DEF Expire
<1>24. CASE UNCHANGED vars
  BY <1>24 DEF vars, handlerVars
<1> QED BY <1>1, <1>2, <1>3, <1>4, <1>5, <1>6, <1>7, <1>8, <1>9, <1>10, <1>11, <1>12, <1>13, <1>14, <1>15, <1>16, <1>17, <1>18, <1>19, <1>20, <1>21, <1>22, <1>23, <1>24 DEF Next, Proceed, Arrive, Enter

-------------------------------------------------------------------------------
(* The LLM permits                                                         *)

PoolCalls == Requests \X {"probe", "wait"}
Queued(c) == \E i \in DOMAIN line : line[i] = c

\* A call queues once, and not while it owns a permit.
PoolInv ==
  /\ free \in Nat
  /\ line \in Seq(PoolCalls)
  /\ owner \subseteq PoolCalls
  /\ \A i, j \in DOMAIN line : line[i] = line[j] => i = j
  /\ \A c \in owner : ~Queued(c)

Generating == {"repin_generate", "generating", "saving", "finishing"}

\* Where a request is says what it has of the pool.
CallInv ==
  \A r \in Requests :
    /\ ~Queued(ProbeCall(r))
    /\ Queued(MainCall(r)) => pc[r] = "waiting"
    /\ ProbeCall(r) \in owner => pc[r] \in Generating
    /\ MainCall(r) \in owner => pc[r] \in Generating \union {"waiting"}
    /\ pc[r] = "waiting" => Queued(MainCall(r)) \/ MainCall(r) \in owner
    /\ pc[r] \in Generating => ~(ProbeCall(r) \in owner <=> MainCall(r) \in owner)

LEMMA RemoveAtFacts ==
  ASSUME NEW S, NEW q \in Seq(S), NEW i \in DOMAIN q
  PROVE  /\ RemoveAt(q, i) \in Seq(S)
         /\ DOMAIN RemoveAt(q, i) = 1 .. Len(q) - 1
         /\ \A j \in 1 .. Len(q) - 1 : RemoveAt(q, i)[j] = IF j < i THEN q[j] ELSE q[j + 1]
<1> DEFINE front == SubSeq(q, 1, i - 1)
           back  == SubSeq(q, i + 1, Len(q))
<1>1. front \in Seq(S) /\ Len(front) = i - 1 /\ \A j \in 1 .. i - 1 : front[j] = q[j]
  BY SubSeqProperties
<1>2. back \in Seq(S) /\ Len(back) = Len(q) - i /\ \A j \in 1 .. Len(q) - i : back[j] = q[i + j]
  BY SubSeqProperties
<1>3. RemoveAt(q, i) = front \o back
  BY DEF RemoveAt
<1> HIDE DEF front, back
<1>4. /\ front \o back \in Seq(S)
      /\ Len(front \o back) = Len(q) - 1
      /\ \A j \in 1 .. Len(q) - 1 : (front \o back)[j] = IF j < i THEN q[j] ELSE q[j + 1]
  <2>1. front \o back \in Seq(S) /\ Len(front \o back) = Len(front) + Len(back)
    BY <1>1, <1>2, ConcatProperties
  <2>2. \A j \in 1 .. Len(front) + Len(back) :
          (front \o back)[j] = IF j <= Len(front) THEN front[j] ELSE back[j - Len(front)]
    BY <1>1, <1>2, ConcatProperties
  <2>3. ASSUME NEW j \in 1 .. Len(q) - 1, ~(j < i)
        PROVE  (front \o back)[j] = q[j + 1]
    <3>1. (front \o back)[j] = back[j - (i - 1)] /\ j - (i - 1) \in 1 .. Len(q) - i
      BY <1>1, <1>2, <2>2, <2>3
    <3>2. back[j - (i - 1)] = q[i + (j - (i - 1))]
      BY <1>2, <3>1
    <3> QED BY <3>1, <3>2
  <2>4. ASSUME NEW j \in 1 .. Len(q) - 1, j < i
        PROVE  (front \o back)[j] = q[j]
    <3>1. j \in 1 .. i - 1
      BY <2>4
    <3> QED BY <1>1, <1>2, <2>2, <3>1
  <2>5. Len(front \o back) = Len(q) - 1
    BY <1>1, <1>2, <2>1
  <2> QED BY <2>1, <2>3, <2>4, <2>5
<1> DEFINE rest == front \o back
<1>5. DOMAIN rest = 1 .. Len(q) - 1
  BY <1>4
<1> HIDE DEF rest
<1> QED BY <1>3, <1>4, <1>5, Zenon DEF rest

\* What each operation of the pool does to who queues and who owns.
LEMMA TakeFacts ==
  ASSUME PoolInv, NEW c \in PoolCalls, Pool!Take(c)
  PROVE  /\ PoolInv'
         /\ c \notin owner /\ owner' = owner \union {c}
         /\ \A d \in PoolCalls : ~Queued(d) /\ ~Queued(d)'
  BY DEF PoolInv, Queued, Pool!Take, Pool!Outside

LEMMA WaitFacts ==
  ASSUME PoolInv, NEW c \in PoolCalls, Pool!Wait(c)
  PROVE  /\ PoolInv'
         /\ owner' = owner
         /\ \A d \in PoolCalls : Queued(d)' <=> Queued(d) \/ d = c
<1>1. c \notin owner /\ ~Queued(c) /\ owner' = owner /\ free' = free /\ line' = Append(line, c)
  BY DEF Pool!Wait, Pool!Outside, Queued
<1>2. /\ line' \in Seq(PoolCalls) /\ DOMAIN line' = 1 .. Len(line) + 1
      /\ \A i \in 1 .. Len(line) : line'[i] = line[i]
      /\ line'[Len(line) + 1] = c
      /\ DOMAIN line = 1 .. Len(line) /\ Len(line) \in Nat
  BY <1>1 DEF PoolInv
<1>3. \A d \in PoolCalls : Queued(d)' <=> Queued(d) \/ d = c
  BY <1>2 DEF Queued
<1>4. \A i, j \in DOMAIN line' : line'[i] = line'[j] => i = j
  BY <1>1, <1>2 DEF PoolInv, Queued
<1> QED BY <1>1, <1>2, <1>3, <1>4 DEF PoolInv

LEMMA RefuseFacts ==
  ASSUME PoolInv, NEW c \in PoolCalls, Pool!Refuse(c)
  PROVE  /\ PoolInv'
         /\ owner' = owner /\ c \notin owner
         /\ \A d \in PoolCalls : Queued(d)' <=> Queued(d) /\ d # c
<1>1. CASE Pool!Outside(c) /\ UNCHANGED line
  BY <1>1 DEF PoolInv, Queued, Pool!Refuse, Pool!Outside
<1>2. ASSUME NEW i \in DOMAIN line, line[i] = c, line' = RemoveAt(line, i)
      PROVE  /\ PoolInv'
             /\ owner' = owner /\ c \notin owner
             /\ \A d \in PoolCalls : Queued(d)' <=> Queued(d) /\ d # c
  <2>1. /\ line' \in Seq(PoolCalls)
        /\ DOMAIN line' = 1 .. Len(line) - 1
        /\ \A j \in 1 .. Len(line) - 1 : line'[j] = IF j < i THEN line[j] ELSE line[j + 1]
        /\ DOMAIN line = 1 .. Len(line) /\ Len(line) \in Nat
    BY <1>2, RemoveAtFacts DEF PoolInv
  <2>2. owner' = owner /\ free' = free /\ c \notin owner
    BY <1>2 DEF PoolInv, Queued, Pool!Refuse
  <2>3. ASSUME NEW j \in DOMAIN line', NEW k \in DOMAIN line', line'[j] = line'[k]
        PROVE  j = k
    <3> DEFINE Old(x) == IF x < i THEN x ELSE x + 1
    <3>1. /\ Old(j) \in DOMAIN line /\ line'[j] = line[Old(j)]
          /\ Old(k) \in DOMAIN line /\ line'[k] = line[Old(k)]
      BY <2>1
    <3>2. Old(j) = Old(k)
      BY <2>3, <3>1 DEF PoolInv
    <3> QED BY <2>1, <3>2
  <2>4. ASSUME NEW d \in PoolCalls
        PROVE  Queued(d)' <=> Queued(d) /\ d # c
    <3>1. ASSUME Queued(d)' PROVE Queued(d) /\ d # c
      <4>1. PICK j \in DOMAIN line' : line'[j] = d
        BY <3>1 DEF Queued
      <4> DEFINE old == IF j < i THEN j ELSE j + 1
      <4>2. old # i /\ old \in DOMAIN line /\ line[old] = d
        BY <2>1, <4>1
      <4> HIDE DEF old
      <4>3. PICK k \in DOMAIN line : k # i /\ line[k] = d
        BY <4>2
      <4> QED BY <1>2, <4>3 DEF PoolInv, Queued
    <3>2. ASSUME Queued(d), d # c PROVE Queued(d)'
      <4>1. PICK j \in DOMAIN line : line[j] = d
        BY <3>2 DEF Queued
      <4>2. CASE j < i
        BY <1>2, <2>1, <4>1, <4>2 DEF Queued
      <4>3. CASE j > i
        <5>1. j - 1 \in DOMAIN line' /\ line'[j - 1] = d
          BY <2>1, <4>1, <4>3
        <5> QED BY <5>1 DEF Queued
      <4> QED BY <1>2, <2>1, <3>2, <4>1, <4>2, <4>3
    <3> QED BY <3>1, <3>2
  <2> QED BY <2>1, <2>2, <2>3, <2>4 DEF PoolInv
<1>3. \/ Pool!Outside(c) /\ UNCHANGED line
      \/ \E i \in DOMAIN line : line[i] = c /\ line' = RemoveAt(line, i)
  BY DEF Pool!Refuse, Pool!RemoveAt, RemoveAt
<1> QED BY <1>1, <1>2, <1>3

LEMMA ReturnFacts ==
  ASSUME PoolInv, NEW c \in PoolCalls, Pool!Return(c)
  PROVE  /\ PoolInv' /\ c \in owner
         /\ \/ /\ owner' = owner \ {c}
               /\ \A d \in PoolCalls : Queued(d)' <=> Queued(d)
            \/ \E h \in PoolCalls :
                 /\ Queued(h) /\ owner' = (owner \ {c}) \union {h}
                 /\ \A d \in PoolCalls : Queued(d)' <=> Queued(d) /\ d # h
<1>1. CASE line = <<>>
  BY <1>1 DEF PoolInv, Queued, Pool!Return
<1>2. CASE line # <<>>
  <2> DEFINE h == Head(line)
  <2>1. /\ DOMAIN line = 1 .. Len(line) /\ Len(line) \in Nat \ {0}
        /\ h = line[1] /\ h \in PoolCalls /\ Queued(h)
    BY <1>2 DEF PoolInv, Queued
  <2>2. /\ line' = Tail(line) /\ owner' = (owner \ {c}) \union {h} /\ free' = free
        /\ c \in owner
    BY <1>2 DEF Pool!Return
  <2>3. /\ line' \in Seq(PoolCalls) /\ DOMAIN line' = 1 .. Len(line) - 1
        /\ \A i \in 1 .. Len(line) - 1 : line'[i] = line[i + 1]
    BY <1>2, <2>2 DEF PoolInv
  <2> HIDE DEF h
  <2>4. ASSUME NEW d \in PoolCalls
        PROVE  Queued(d)' <=> Queued(d) /\ d # h
    <3>1. Queued(d)' => Queued(d) /\ d # h
      BY <2>1, <2>3 DEF PoolInv, Queued
    <3>2. ASSUME Queued(d), d # h PROVE Queued(d)'
      <4>1. PICK j \in DOMAIN line : line[j] = d
        BY <3>2 DEF Queued
      <4>2. j - 1 \in DOMAIN line' /\ line'[j - 1] = d
        BY <2>1, <2>3, <3>2, <4>1
      <4> QED BY <4>2 DEF Queued
    <3> QED BY <3>1, <3>2
  <2>5. ASSUME NEW i \in DOMAIN line', NEW j \in DOMAIN line', line'[i] = line'[j]
        PROVE  i = j
    <3>1. /\ i + 1 \in DOMAIN line /\ line'[i] = line[i + 1]
          /\ j + 1 \in DOMAIN line /\ line'[j] = line[j + 1]
      BY <2>1, <2>3
    <3>2. i + 1 = j + 1
      BY <2>5, <3>1 DEF PoolInv
    <3> QED BY <2>3, <3>2
  <2>6. \A d \in owner' : ~Queued(d)'
    BY <2>1, <2>2, <2>4 DEF PoolInv
  <2>7. owner' \subseteq PoolCalls
    BY <2>1, <2>2 DEF PoolInv
  <2>8. PoolInv'
    BY <2>2, <2>3, <2>5, <2>6, <2>7 DEF PoolInv
  <2> QED BY <2>1, <2>2, <2>4, <2>8
<1> QED BY <1>1, <1>2

LEMMA PoolInvInit == Init => PoolInv /\ CallInv
  BY AskAssumption DEF Init, Pool!PoolInit, PoolInv, CallInv, Queued, Generating

\* A step that leaves the permits alone and does not enter or leave generation.
LEMMA ElsewhereCalls ==
  ASSUME Shape, PoolInv, CallInv, UNCHANGED poolVars, NEW r \in Requests, NEW where, Goto(r, where),
         pc[r] # "waiting", where # "waiting", pc[r] \in Generating <=> where \in Generating
  PROVE  PoolInv' /\ CallInv'
<1>1. UNCHANGED <<free, line, owner>>
  BY DEF poolVars
<1>2. PoolInv' /\ \A c : Queued(c)' <=> Queued(c)
  BY <1>1 DEF PoolInv, Queued
<1>3. CallInv'
  BY <1>1, <1>2 DEF Shape, CallInv, Goto
<1> QED BY <1>2, <1>3

LEMMA FailCalls ==
  ASSUME Shape, PoolInv, CallInv, UNCHANGED poolVars, NEW r \in Requests, Fail(r),
         pc[r] # "waiting", pc[r] \notin Generating
  PROVE  PoolInv' /\ CallInv'
<1>1. Goto(r, "repin_fail") \/ Goto(r, "done")
  BY DEF Fail
<1> QED BY <1>1, ElsewhereCalls DEF Generating

\* The end of a request that is not in the line.
LEMMA LeaveCalls ==
  ASSUME Shape, PoolInv, CallInv, NEW r \in Requests, Leave(r), pc[r] # "waiting"
  PROVE  PoolInv' /\ CallInv'
<1>1. pc' = [pc EXCEPT ![r] = "done"]
  BY DEF Leave, Goto
<1>2. CASE Owned(r) = {} /\ UNCHANGED poolVars
  <2>1. UNCHANGED <<free, line, owner>>
    BY <1>2 DEF poolVars
  <2>2. PoolInv' /\ \A c : Queued(c)' <=> Queued(c)
    BY <2>1 DEF PoolInv, Queued
  <2>3. ProbeCall(r) \notin owner /\ MainCall(r) \notin owner
    BY <1>2 DEF Owned, ProbeCall, MainCall
  <2>4. CallInv'
    BY <1>1, <2>1, <2>2, <2>3 DEF Shape, CallInv, Generating
  <2> QED BY <2>2, <2>4
<1>3. ASSUME NEW c \in Owned(r), Pool!Return(c)
      PROVE  PoolInv' /\ CallInv'
  <2>1. c \in PoolCalls /\ (c = ProbeCall(r) \/ c = MainCall(r)) /\ c \in owner
    BY <1>3 DEF Owned, PoolInv, PoolCalls, ProbeCall, MainCall
  <2>2. PoolInv'
    BY <1>3, <2>1, ReturnFacts
  <2>3. \A q \in Requests : ProbeCall(q) \in PoolCalls /\ MainCall(q) \in PoolCalls
    BY DEF PoolCalls, ProbeCall, MainCall
  <2>4. \A q \in Requests : q # r => ProbeCall(q) # c /\ MainCall(q) # c
    BY <2>1 DEF ProbeCall, MainCall
  <2>5. pc[r] \in Generating /\ ~(ProbeCall(r) \in owner /\ MainCall(r) \in owner)
    BY <2>1 DEF CallInv
  <2>6. ~Queued(ProbeCall(r)) /\ ~Queued(MainCall(r))
    BY DEF CallInv
  <2>7. CASE /\ owner' = owner \ {c}
             /\ \A d \in PoolCalls : Queued(d)' <=> Queued(d)
    <3>1. ASSUME NEW q \in Requests, q # r
          PROVE  /\ ProbeCall(q) \in owner' <=> ProbeCall(q) \in owner
                 /\ MainCall(q) \in owner' <=> MainCall(q) \in owner
                 /\ pc'[q] = pc[q]
      BY <1>1, <2>4, <2>7, <3>1 DEF Shape
    <3>2. ProbeCall(r) \notin owner' /\ MainCall(r) \notin owner' /\ pc'[r] = "done"
      BY <1>1, <2>1, <2>5, <2>7 DEF Shape
    <3> QED BY <2>2, <2>3, <2>6, <2>7, <3>1, <3>2 DEF CallInv, Generating
  <2>8. ASSUME NEW h \in PoolCalls, Queued(h), owner' = (owner \ {c}) \union {h},
               \A d \in PoolCalls : Queued(d)' <=> Queued(d) /\ d # h
        PROVE  CallInv'
    <3>1. PICK p \in Requests : h = MainCall(p)
      <4>1. PICK p \in Requests : h = ProbeCall(p) \/ h = MainCall(p)
        BY DEF PoolCalls, ProbeCall, MainCall
      <4> QED BY <2>8, <4>1 DEF CallInv
    <3>2. p # r /\ pc[p] = "waiting" /\ pc'[p] = "waiting"
      BY <1>1, <2>6, <2>8, <3>1 DEF CallInv, Shape
    <3>0. \A q \in Requests : ProbeCall(q) # h /\ (q # p => MainCall(q) # h)
      BY <3>1 DEF ProbeCall, MainCall
    <3>3. ASSUME NEW q \in Requests, q # r, q # p
          PROVE  /\ ProbeCall(q) \in owner' <=> ProbeCall(q) \in owner
                 /\ MainCall(q) \in owner' <=> MainCall(q) \in owner
                 /\ Queued(MainCall(q))' <=> Queued(MainCall(q))
                 /\ pc'[q] = pc[q]
      BY <1>1, <2>3, <2>4, <2>8, <3>0, <3>3 DEF Shape
    <3>4. ProbeCall(r) \notin owner' /\ MainCall(r) \notin owner' /\ pc'[r] = "done"
      BY <1>1, <2>1, <2>5, <2>8, <3>0, <3>2 DEF Shape
    <3>5. ProbeCall(p) \notin owner' /\ MainCall(p) \in owner'
      BY <2>1, <2>4, <2>8, <3>1, <3>2 DEF CallInv, Generating
    <3>6. \A q \in Requests : ~Queued(ProbeCall(q))' /\ ~Queued(MainCall(r))' /\ ~Queued(MainCall(p))'
      BY <2>3, <2>6, <2>8, <3>1 DEF CallInv
    <3> QED BY <3>2, <3>3, <3>4, <3>5, <3>6 DEF CallInv, Generating
  <2> QED BY <1>3, <2>1, <2>2, <2>7, <2>8, ReturnFacts
<1> QED BY <1>2, <1>3 DEF Leave

LEMMA CallsNext ==
  ASSUME Shape, PoolInv, CallInv, [Next]_vars
  PROVE  PoolInv' /\ CallInv'
<1>0. \A q \in Requests : ProbeCall(q) \in PoolCalls /\ MainCall(q) \in PoolCalls
  BY DEF PoolCalls, ProbeCall, MainCall
<1>1. ASSUME NEW r \in Requests, Malformed(r)
      PROVE  PoolInv' /\ CallInv'
  BY <1>1, ElsewhereCalls DEF Malformed, Arrives, Generating
<1>2. ASSUME NEW r \in Requests, Locate(r)
      PROVE  PoolInv' /\ CallInv'
  BY <1>2, ElsewhereCalls DEF Locate, Arrives, Generating
<1>3. ASSUME NEW r \in Requests, Call(r)
      PROVE  PoolInv' /\ CallInv'
  BY <1>3, ElsewhereCalls DEF Call, Arrives, Generating
<1>4. ASSUME NEW r \in Requests, TooMany(r)
      PROVE  PoolInv' /\ CallInv'
  BY <1>4, ElsewhereCalls DEF TooMany, AtLimiter, Arrives, Generating
<1>5. ASSUME NEW r \in Requests, Admit(r)
      PROVE  PoolInv' /\ CallInv'
  BY <1>5, ElsewhereCalls DEF Admit, AtLimiter, Arrives, Generating
<1>6. ASSUME NEW r \in Requests, Probed(r)
      PROVE  PoolInv' /\ CallInv'
  BY <1>6, ElsewhereCalls, FailCalls DEF Probed, Generating
<1>7. ASSUME NEW r \in Requests, Located(r)
      PROVE  PoolInv' /\ CallInv'
  BY <1>7, ElsewhereCalls DEF Located, Generating
<1>8. ASSUME NEW r \in Requests, Assembled(r)
      PROVE  PoolInv' /\ CallInv'
  BY <1>8, ElsewhereCalls, FailCalls DEF Assembled, AfterSources, Generating
<1>9. ASSUME NEW r \in Requests, Pin(r)
      PROVE  PoolInv' /\ CallInv'
  BY <1>9, ElsewhereCalls DEF Pin, AfterPin, Generating
<1>10. ASSUME NEW r \in Requests, FailStream(r)
      PROVE  PoolInv' /\ CallInv'
  BY <1>10, LeaveCalls DEF FailStream
<1>11. ASSUME NEW r \in Requests, Load(r)
      PROVE  PoolInv' /\ CallInv'
  BY <1>11, ElsewhereCalls DEF Load, Generating
<1>12. ASSUME NEW r \in Requests, Announce(r)
      PROVE  PoolInv' /\ CallInv'
  <2>1. CASE Pool!Take(ProbeCall(r)) /\ Goto(r, "repin_generate")
    <3>1. PoolInv' /\ owner' = owner \union {ProbeCall(r)} /\ \A d \in PoolCalls : ~Queued(d) /\ ~Queued(d)'
      BY <1>0, <2>1, TakeFacts
    <3>2. \A q \in Requests : ProbeCall(r) # MainCall(q) /\ (q # r => ProbeCall(q) # ProbeCall(r))
      BY DEF ProbeCall, MainCall
    <3> QED BY <1>0, <1>12, <2>1, <3>1, <3>2 DEF Announce, Goto, Shape, CallInv, Generating
  <2>2. CASE Pool!Refuse(ProbeCall(r)) /\ Goto(r, "acquiring")
    BY <1>0, <1>12, <2>2, RefuseFacts DEF Announce, Goto, Shape, CallInv, Generating
  <2> QED BY <1>12, <2>1, <2>2 DEF Announce
<1>13. ASSUME NEW r \in Requests, Acquire(r)
      PROVE  PoolInv' /\ CallInv'
  <2>1. CASE Pool!Take(MainCall(r)) /\ ToGenerate(r)
    <3>1. PoolInv' /\ owner' = owner \union {MainCall(r)} /\ \A d \in PoolCalls : ~Queued(d) /\ ~Queued(d)'
      BY <1>0, <2>1, TakeFacts
    <3>2. \A q \in Requests : ProbeCall(q) # MainCall(r) /\ (q # r => MainCall(q) # MainCall(r))
      BY DEF ProbeCall, MainCall
    <3> QED BY <1>0, <1>13, <2>1, <3>1, <3>2 DEF Acquire, ToGenerate, Goto, Shape, CallInv, Generating
  <2>2. CASE Pool!Wait(MainCall(r)) /\ Goto(r, "waiting")
    <3>1. PoolInv' /\ owner' = owner /\ \A d \in PoolCalls : Queued(d)' <=> Queued(d) \/ d = MainCall(r)
      BY <1>0, <2>2, WaitFacts
    <3>2. \A q \in Requests : ProbeCall(q) # MainCall(r) /\ (q # r => MainCall(q) # MainCall(r))
      BY DEF ProbeCall, MainCall
    <3> QED BY <1>0, <1>13, <2>2, <3>1, <3>2 DEF Acquire, Goto, Shape, CallInv, Generating
  <2> QED BY <1>13, <2>1, <2>2 DEF Acquire
<1>14. ASSUME NEW r \in Requests, Granted(r)
      PROVE  PoolInv' /\ CallInv'
  <2>1. UNCHANGED <<free, line, owner>>
    BY <1>14 DEF Granted, poolVars
  <2>2. PoolInv' /\ \A c : Queued(c)' <=> Queued(c)
    BY <2>1 DEF PoolInv, Queued
  <2>3. ~Queued(MainCall(r))
    BY <1>0, <1>14 DEF Granted, PoolInv
  <2> QED BY <1>14, <2>1, <2>2, <2>3 DEF Granted, ToGenerate, Goto, Shape, CallInv, Generating
<1>15. ASSUME NEW r \in Requests, Generated(r)
      PROVE  PoolInv' /\ CallInv'
  BY <1>15, ElsewhereCalls DEF Generated, Generating
<1>16. ASSUME NEW r \in Requests, Replied(r)
      PROVE  PoolInv' /\ CallInv'
  BY <1>16, LeaveCalls DEF Replied
<1>17. ASSUME NEW r \in Requests, GenerationFailed(r)
      PROVE  PoolInv' /\ CallInv'
  BY <1>17, LeaveCalls, ElsewhereCalls DEF GenerationFailed, Generating
<1>18. ASSUME NEW r \in Requests, Save(r)
      PROVE  PoolInv' /\ CallInv'
  BY <1>18, ElsewhereCalls DEF Save, Generating
<1>19. ASSUME NEW r \in Requests, Finish(r)
      PROVE  PoolInv' /\ CallInv'
  BY <1>19, LeaveCalls DEF Finish
<1>20. ASSUME NEW r \in Requests, TimedOut(r)
      PROVE  PoolInv' /\ CallInv'
  <2>1. Goto(r, "repin_fail") \/ Goto(r, "done")
    BY <1>20 DEF TimedOut, Fail
  <2>2. /\ PoolInv' /\ owner' = owner /\ MainCall(r) \notin owner /\ pc[r] = "waiting"
        /\ \A d \in PoolCalls : Queued(d)' <=> Queued(d) /\ d # MainCall(r)
    BY <1>0, <1>20, RefuseFacts DEF TimedOut
  <2>3. \A q \in Requests : ProbeCall(q) # MainCall(r) /\ (q # r => MainCall(q) # MainCall(r))
    BY DEF ProbeCall, MainCall
  <2>4. CallInv'
    BY <1>0, <2>1, <2>2, <2>3 DEF Goto, Shape, CallInv, Generating
  <2> QED BY <2>2, <2>4
<1>21. CASE UNCHANGED <<pc, poolVars>>
  <2>1. UNCHANGED <<pc, free, line, owner>>
    BY <1>21 DEF poolVars
  <2>2. PoolInv' /\ \A c : Queued(c)' <=> Queued(c)
    BY <2>1 DEF PoolInv, Queued
  <2> QED BY <2>1, <2>2 DEF CallInv
<1>22. \A r \in Requests : Token(r) \/ PeerLeaves(r) => UNCHANGED <<pc, poolVars>>
  BY DEF Token, PeerLeaves
<1>23. \A s \in Sessions : Expire(s) => UNCHANGED <<pc, poolVars>>
  BY DEF Expire
<1>24. UNCHANGED vars => UNCHANGED <<pc, poolVars>>
  BY DEF vars, handlerVars
<1> QED BY <1>1, <1>2, <1>3, <1>4, <1>5, <1>6, <1>7, <1>8, <1>9, <1>10, <1>11, <1>12, <1>13, <1>14, <1>15, <1>16, <1>17, <1>18, <1>19, <1>20, <1>21, <1>22, <1>23, <1>24 DEF Next, Proceed, Arrive, Enter

\* A request talks to the LLM, and stores its answer, with one permit, and no
\* request that has ended owns or waits for one (the guards held by the three
\* handlers), for any requests and any number of permits.
THEOREM OnePermitEach == Spec => []GeneratesWithPermit
<1>1. Shape /\ PoolInv /\ CallInv => GeneratesWithPermit
  <2> SUFFICES ASSUME Shape, PoolInv, CallInv, NEW r \in Requests
               PROVE  /\ pc[r] \in Generating => Cardinality(Owned(r)) = 1
                      /\ ~InFlight(r) => Owned(r) = {} /\ \A i \in DOMAIN line : line[i][1] # r
    BY DEF GeneratesWithPermit, Generating
  <2>1. /\ Owned(r) \subseteq {ProbeCall(r), MainCall(r)}
        /\ ProbeCall(r) \in Owned(r) <=> ProbeCall(r) \in owner
        /\ MainCall(r) \in Owned(r) <=> MainCall(r) \in owner
    BY DEF Owned, PoolInv, PoolCalls, ProbeCall, MainCall
  <2>2. CASE pc[r] \in Generating
    <3>1. Owned(r) = {ProbeCall(r)} \/ Owned(r) = {MainCall(r)}
      BY <2>1, <2>2 DEF CallInv
    <3> QED BY <2>2, <3>1, FS_Singleton DEF InFlight, Generating
  <2>3. CASE pc[r] \notin Generating
    <3>1. ASSUME ~InFlight(r)
          PROVE  Owned(r) = {} /\ \A i \in DOMAIN line : line[i][1] # r
      <4>1. Owned(r) = {}
        BY <2>1, <2>3, <3>1 DEF CallInv, InFlight
      <4>2. ASSUME NEW i \in DOMAIN line, line[i][1] = r
            PROVE  FALSE
        <5>1. line[i] = ProbeCall(r) \/ line[i] = MainCall(r)
          BY <4>2 DEF PoolInv, PoolCalls, ProbeCall, MainCall
        <5>2. Queued(line[i])
          BY <4>2 DEF Queued
        <5> QED BY <3>1, <5>1, <5>2 DEF CallInv, InFlight
      <4> QED BY <4>1, <4>2
    <3> QED BY <2>3, <3>1
  <2> QED BY <2>2, <2>3
<1>2. Init => Shape /\ PoolInv /\ CallInv
  BY ShapeInit, PoolInvInit
<1>3. Shape /\ PoolInv /\ CallInv /\ [Next]_vars => (Shape /\ PoolInv /\ CallInv)'
  BY ShapeNext, CallsNext
<1> QED BY <1>1, <1>2, <1>3, PTL DEF Spec

-------------------------------------------------------------------------------
(* The permits of the addresses                                            *)

Holders(i) == {r \in Requests : IpOf[r] = i /\ Admitted(r)}

LEMMA HoldersFinite == \A i : IsFiniteSet(Holders(i)) /\ Cardinality(Holders(i)) \in Nat
<1> SUFFICES ASSUME NEW i PROVE IsFiniteSet(Holders(i)) /\ Cardinality(Holders(i)) \in Nat
  OBVIOUS
<1>1. Holders(i) \subseteq Requests
  BY DEF Holders
<1> QED BY <1>1, AskAssumption, FS_Subset, FS_CardinalityType

LEMMA IpInit == Init => IpAccounted
<1> SUFFICES ASSUME Init, NEW i \in Ips PROVE counts[i] = Cardinality(Holders(i))
  BY DEF IpAccounted, Holders
<1>1. Holders(i) = {}
  BY DEF Init, Holders, Admitted, InFlight
<1> QED BY <1>1, FS_EmptySet DEF Init

\* A step that is not about the permits of the addresses.
LEMMA IpKept ==
  ASSUME Shape, IpAccounted, NEW r \in Requests, NEW where, Goto(r, where), UNCHANGED counts,
         where # "idle", Admitted(r) <=> r \notin Tools /\ where # "done" /\ (where = "locating" => r \in Streams)
  PROVE  IpAccounted'
<1>1. pc' = [pc EXCEPT ![r] = where]
  BY DEF Goto
<1>2. \A q \in Requests : Admitted(q)' <=> Admitted(q)
  BY <1>1 DEF Shape, Admitted, InFlight
<1>3. \A i : Holders(i)' = Holders(i)
  BY <1>2 DEF Holders
<1>4. \A i \in Ips : Cardinality(Holders(i)') = Cardinality(Holders(i))
  BY <1>3
<1>5. \A i \in Ips : counts[i] = Cardinality(Holders(i))
  BY DEF IpAccounted, Holders
<1>6. \A i \in Ips : counts'[i] = Cardinality(Holders(i)')
  BY <1>4, <1>5
<1> QED BY <1>6 DEF IpAccounted, Holders

\* A request that was let in ends.
LEMMA IpDropped ==
  ASSUME Shape, IpAccounted, NEW r \in Requests, Goto(r, "done"), DropIp(r), InFlight(r),
         pc[r] = "locating" => r \in Streams
  PROVE  IpAccounted'
<1>1. pc' = [pc EXCEPT ![r] = "done"]
  BY DEF Goto
<1>2. /\ \A q \in Requests : q # r => (Admitted(q)' <=> Admitted(q))
      /\ ~Admitted(r)'
      /\ Admitted(r) <=> r \notin Tools
  BY <1>1 DEF Shape, Admitted, InFlight
<1>3. \A i \in Ips : Holders(i)' = Holders(i) \ {r}
  BY <1>2 DEF Holders
<1>4. \A i \in Ips : r \in Holders(i) <=> r \notin Tools /\ IpOf[r] = i
  BY <1>2 DEF Holders
<1>5. ASSUME NEW i \in Ips PROVE Cardinality(Holders(i) \ {r}) = IF r \in Holders(i) THEN Cardinality(Holders(i)) - 1 ELSE Cardinality(Holders(i))
  BY HoldersFinite, FS_RemoveElement
<1>6. \A i \in Ips : counts[i] = Cardinality(Holders(i))
  BY DEF IpAccounted, Holders
<1>7. IpOf[r] \in Ips
  BY AskAssumption
<1>8. ASSUME NEW i \in Ips PROVE counts'[i] = IF r \in Holders(i) THEN counts[i] - 1 ELSE counts[i]
  BY <1>4, <1>7 DEF DropIp, Shape
<1>9. \A i \in Ips : counts'[i] = Cardinality(Holders(i)')
  BY <1>3, <1>5, <1>6, <1>8
<1> QED BY <1>9 DEF IpAccounted, Holders

LEMMA IpFail ==
  ASSUME Shape, IpAccounted, NEW r \in Requests, Fail(r), InFlight(r), pc[r] = "locating" => r \in Streams
  PROVE  IpAccounted'
<1>1. CASE r \in Streams /\ Goto(r, "repin_fail") /\ UNCHANGED counts
  BY <1>1, AskAssumption, IpKept DEF Admitted
<1>2. CASE Goto(r, "done") /\ DropIp(r)
  BY <1>2, IpDropped
<1> QED BY <1>1, <1>2 DEF Fail

LEMMA IpLeave ==
  ASSUME Shape, IpAccounted, NEW r \in Requests, Leave(r), InFlight(r), pc[r] # "locating"
  PROVE  IpAccounted'
  BY IpDropped DEF Leave

LEMMA IpAdmit ==
  ASSUME Shape, IpAccounted, NEW r \in Requests, Admit(r)
  PROVE  IpAccounted'
<1>1. pc' = [pc EXCEPT ![r] = "probing"] /\ r \notin Tools
  BY DEF Admit, AtLimiter, Goto
<1>2. ~Admitted(r)
  BY DEF Admit, AtLimiter, Arrives, Admitted, InFlight
<1>3. (\A q \in Requests : q # r => (Admitted(q)' <=> Admitted(q))) /\ Admitted(r)'
  BY <1>1 DEF Shape, Admitted, InFlight
<1>4. \A i \in Ips : /\ r \notin Holders(i)
                     /\ IpOf[r] = i => Holders(i)' = Holders(i) \union {r}
                     /\ IpOf[r] # i => Holders(i)' = Holders(i)
  BY <1>2, <1>3 DEF Holders
<1>5. ASSUME NEW i \in Ips PROVE Cardinality(Holders(i) \union {r}) = Cardinality(Holders(i)) + 1
  BY <1>4, HoldersFinite, FS_AddElement
<1>6. \A i \in Ips : counts[i] = Cardinality(Holders(i))
  BY DEF IpAccounted, Holders
<1>7. ASSUME NEW i \in Ips PROVE counts'[i] = IF IpOf[r] = i THEN counts[i] + 1 ELSE counts[i]
  BY AskAssumption DEF Admit, Shape
<1>8. \A i \in Ips : counts'[i] = Cardinality(Holders(i)')
  BY <1>4, <1>5, <1>6, <1>7
<1> QED BY <1>8 DEF IpAccounted, Holders

LEMMA IpNext ==
  ASSUME Shape, IpAccounted, [Next]_vars
  PROVE  IpAccounted'
<1>1. ASSUME NEW r \in Requests, Malformed(r)
      PROVE  IpAccounted'
  BY <1>1, IpKept DEF Malformed, Arrives, Admitted, InFlight
<1>2. ASSUME NEW r \in Requests, Locate(r)
      PROVE  IpAccounted'
  BY <1>2, IpKept DEF Locate, Arrives, Admitted, InFlight
<1>3. ASSUME NEW r \in Requests, Call(r)
      PROVE  IpAccounted'
  BY <1>3, IpKept DEF Call, Arrives, Admitted, InFlight
<1>4. ASSUME NEW r \in Requests, TooMany(r)
      PROVE  IpAccounted'
  BY <1>4, IpKept DEF TooMany, AtLimiter, Arrives, Admitted, InFlight
<1>5. ASSUME NEW r \in Requests, Admit(r)
      PROVE  IpAccounted'
  BY <1>5, IpAdmit
<1>6. ASSUME NEW r \in Requests, Probed(r)
      PROVE  IpAccounted'
  BY <1>6, IpKept, IpFail DEF Probed, Admitted, InFlight
<1>7. ASSUME NEW r \in Requests, Located(r)
      PROVE  IpAccounted'
  BY <1>7, IpKept DEF Located, Admitted, InFlight
<1>8. ASSUME NEW r \in Requests, Assembled(r)
      PROVE  IpAccounted'
  BY <1>8, IpKept, IpFail DEF Assembled, AfterSources, Admitted, InFlight
<1>9. ASSUME NEW r \in Requests, Pin(r)
      PROVE  IpAccounted'
  BY <1>9, IpKept DEF Pin, AfterPin, Admitted, InFlight
<1>10. ASSUME NEW r \in Requests, FailStream(r)
      PROVE  IpAccounted'
  BY <1>10, IpLeave DEF FailStream, InFlight
<1>11. ASSUME NEW r \in Requests, Load(r)
      PROVE  IpAccounted'
  BY <1>11, IpKept DEF Load, Admitted, InFlight
<1>12. ASSUME NEW r \in Requests, Announce(r)
      PROVE  IpAccounted'
  BY <1>12, IpKept DEF Announce, Admitted, InFlight
<1>13. ASSUME NEW r \in Requests, Acquire(r)
      PROVE  IpAccounted'
  BY <1>13, IpKept DEF Acquire, ToGenerate, Admitted, InFlight
<1>14. ASSUME NEW r \in Requests, Granted(r)
      PROVE  IpAccounted'
  BY <1>14, IpKept DEF Granted, ToGenerate, Admitted, InFlight
<1>15. ASSUME NEW r \in Requests, Generated(r)
      PROVE  IpAccounted'
  BY <1>15, IpKept DEF Generated, Admitted, InFlight
<1>16. ASSUME NEW r \in Requests, Replied(r)
      PROVE  IpAccounted'
  BY <1>16, IpLeave DEF Replied, InFlight
<1>17. ASSUME NEW r \in Requests, GenerationFailed(r)
      PROVE  IpAccounted'
  BY <1>17, IpKept, IpLeave DEF GenerationFailed, Admitted, InFlight
<1>18. ASSUME NEW r \in Requests, Save(r)
      PROVE  IpAccounted'
  BY <1>18, IpKept DEF Save, Admitted, InFlight
<1>19. ASSUME NEW r \in Requests, Finish(r)
      PROVE  IpAccounted'
  BY <1>19, IpLeave DEF Finish, InFlight
<1>20. ASSUME NEW r \in Requests, TimedOut(r)
      PROVE  IpAccounted'
  BY <1>20, IpFail DEF TimedOut, InFlight
<1>21. CASE UNCHANGED <<pc, counts>>
  BY <1>21 DEF IpAccounted, Admitted, InFlight
<1>22. \A r \in Requests : Token(r) \/ PeerLeaves(r) => UNCHANGED <<pc, counts>>
  BY DEF Token, PeerLeaves
<1>23. \A s \in Sessions : Expire(s) => UNCHANGED <<pc, counts>>
  BY DEF Expire
<1>24. UNCHANGED vars => UNCHANGED <<pc, counts>>
  BY DEF vars, handlerVars
<1> QED BY <1>1, <1>2, <1>3, <1>4, <1>5, <1>6, <1>7, <1>8, <1>9, <1>10, <1>11, <1>12, <1>13, <1>14, <1>15, <1>16, <1>17, <1>18, <1>19, <1>20, <1>21, <1>22, <1>23, <1>24 DEF Next, Proceed, Arrive, Enter

\* The limiter's count of an address is the number of its requests that were let
\* in and have not ended (IpLimiter::Permit), whichever of their exits requests
\* take, for any requests, addresses and limit.
THEOREM CountsAreRequests == Spec => []IpAccounted
<1>1. Init => Shape /\ IpAccounted
  BY ShapeInit, IpInit
<1>2. Shape /\ IpAccounted /\ [Next]_vars => (Shape /\ IpAccounted)'
  BY ShapeNext, IpNext
<1> QED BY <1>1, <1>2, PTL DEF Spec

\* No address ever has more than IP_MAX_CONCURRENCY requests in work, and its
\* count is never negative.
THEOREM AddressCapHolds ==
  Spec => [](\A i \in Ips : counts[i] \in 0 .. IpMax /\ Cardinality(Holders(i)) <= IpMax)
<1>1. Shape /\ IpAccounted => \A i \in Ips : counts[i] \in 0 .. IpMax /\ Cardinality(Holders(i)) <= IpMax
  <2> SUFFICES ASSUME Shape, IpAccounted, NEW i \in Ips
               PROVE  counts[i] \in 0 .. IpMax /\ Cardinality(Holders(i)) <= IpMax
    OBVIOUS
  <2>1. counts[i] = Cardinality(Holders(i)) /\ Cardinality(Holders(i)) \in Nat
    BY HoldersFinite DEF IpAccounted, Holders
  <2>2. counts[i] <= IpMax /\ IpMax \in Nat
    BY AskAssumption DEF Shape
  <2> QED BY <2>1, <2>2
<1>2. Init => Shape
  BY ShapeInit
<1>3. Shape /\ [Next]_vars => Shape'
  BY ShapeNext
<1> QED BY <1>1, <1>2, <1>3, CountsAreRequests, PTL DEF Spec

-------------------------------------------------------------------------------
(* What a stream sends                                                     *)

OutShape == out \in [Requests -> Seq(Events)]

\* A coroutine leaves its client's loop only between a call of the HTTP client
\* and the re-pin that follows it.
OnLoopInv ==
  \A r \in Requests :
    r \notin Streams \/ pc[r] \notin {"locating", "assembling", "repin", "repin_fail"} => onLoop[r]

\* What a client that is still there has been told.
Told(r) ==
  CASE pc[r] \in {"repin_fail", "failing"} -> outcome[r] = "unavailable" /\ ~Contains(out[r], "error")
    [] pc[r] \in {"saving", "finishing"} ->
         /\ outcome[r] \in {"ok", "unavailable"}
         /\ outcome[r] = "unavailable" <=> Contains(out[r], "error")
    [] pc[r] = "done" ->
         /\ outcome[r] \in {"ok", "unavailable"} => out[r] # <<>> /\ Last(out[r]) = "done"
         /\ outcome[r] = "unavailable" <=> Contains(out[r], "error")
    [] OTHER -> outcome[r] = "none" /\ ~Contains(out[r], "error")

ToldInv == \A r \in Streams : (dead[r] => gone[r]) /\ (~gone[r] => Told(r))

LEMMA AppendedEvents ==
  ASSUME NEW s \in Seq(Events), NEW t \in Seq(Events)
  PROVE  /\ s \o t \in Seq(Events)
         /\ \A e : Contains(s \o t, e) <=> Contains(s, e) \/ Contains(t, e)
         /\ t # <<>> => s \o t # <<>> /\ Last(s \o t) = Last(t)
<1>1. /\ s \o t \in Seq(Events) /\ Len(s \o t) = Len(s) + Len(t)
      /\ \A i \in 1 .. Len(s) + Len(t) : (s \o t)[i] = IF i <= Len(s) THEN s[i] ELSE t[i - Len(s)]
      /\ Len(s) \in Nat /\ Len(t) \in Nat
  BY ConcatProperties
<1> DEFINE st == s \o t
<1> HIDE DEF st
<1>2. ASSUME NEW e PROVE Contains(st, e) <=> Contains(s, e) \/ Contains(t, e)
  <2>1. Contains(st, e) => Contains(s, e) \/ Contains(t, e)
    <3>1. SUFFICES ASSUME NEW i \in 1 .. Len(s) + Len(t), st[i] = e PROVE Contains(s, e) \/ Contains(t, e)
      BY <1>1 DEF Contains, st
    <3>2. CASE i <= Len(s)
      BY <1>1, <3>1, <3>2 DEF Contains, st
    <3>3. CASE i > Len(s)
      <4>1. i - Len(s) \in 1 .. Len(t) /\ t[i - Len(s)] = e
        BY <1>1, <3>1, <3>3 DEF st
      <4> QED BY <4>1 DEF Contains
    <3> QED BY <1>1, <3>2, <3>3
  <2>2. Contains(s, e) => Contains(st, e)
    BY <1>1 DEF Contains, st
  <2>3. ASSUME Contains(t, e) PROVE Contains(st, e)
    <3>1. PICK i \in 1 .. Len(t) : t[i] = e
      BY <2>3 DEF Contains
    <3>2. i + Len(s) \in 1 .. Len(st) /\ st[i + Len(s)] = e
      BY <1>1, <3>1 DEF st
    <3> QED BY <3>2 DEF Contains
  <2> QED BY <2>1, <2>2, <2>3
<1>3. ASSUME t # <<>> PROVE st # <<>> /\ Last(st) = Last(t)
  <2>1. Len(t) > 0
    BY <1>1, <1>3
  <2>2. st[Len(st)] = t[Len(t)] /\ Len(st) > 0
    BY <1>1, <2>1 DEF st
  <2> QED BY <1>1, <2>2 DEF Last, st
<1> QED BY <1>1, <1>2, <1>3 DEF st

\* safe_send, seen from its caller and from everybody else.
LEMMA SendFacts ==
  ASSUME Shape, OutShape, ToldInv, NEW r \in Requests, NEW events \in Seq(Events), Send(r, events)
  PROVE  /\ OutShape'
         /\ \A q \in Requests : q # r => out'[q] = out[q] /\ dead'[q] = dead[q]
         /\ r \in Streams => (dead'[r] => gone[r])
         /\ r \in Streams /\ ~gone[r] => out'[r] = out[r] \o events
<1>1. out[r] \o events \in Seq(Events)
  BY AppendedEvents DEF OutShape
<1> QED BY <1>1 DEF Send, Shape, OutShape, ToldInv

TalkInv == OutShape /\ OnLoopInv /\ ToldInv

SentOnLoop == \A r \in Requests : out'[r] # out[r] \/ dead'[r] # dead[r] => onLoop[r]

LEMMA TalkInit == Init => TalkInv
<1>1. \A e : ~Contains(<<>>, e)
  BY DEF Contains
<1> QED BY <1>1, AskAssumption DEF Init, TalkInv, OutShape, OnLoopInv, ToldInv, Told

\* A step of r, given what it does to r.
LEMMA TalkOfOthers ==
  ASSUME Shape, TalkInv, NEW r \in Requests, NEW where, Goto(r, where), UNCHANGED gone, OutShape',
         \A q \in Requests : q # r =>
           out'[q] = out[q] /\ dead'[q] = dead[q] /\ onLoop'[q] = onLoop[q] /\ outcome'[q] = outcome[q],
         r \notin Streams \/ where \notin {"locating", "assembling", "repin", "repin_fail"} => onLoop'[r],
         r \in Streams => (dead'[r] => gone[r]) /\ (~gone[r] => Told(r)'),
         out'[r] # out[r] \/ dead'[r] # dead[r] => onLoop[r]
  PROVE  TalkInv' /\ SentOnLoop
<1>1. pc' = [pc EXCEPT ![r] = where]
  BY DEF Goto
<1>2. \A q \in Streams : q \in Requests
  BY AskAssumption
<1>3. OnLoopInv'
  BY <1>1 DEF Shape, TalkInv, OnLoopInv
<1>4. ASSUME NEW q \in Streams, q # r PROVE (dead'[q] => gone[q]) /\ (~gone[q] => Told(q)')
  <2>1. out'[q] = out[q] /\ dead'[q] = dead[q] /\ outcome'[q] = outcome[q] /\ pc'[q] = pc[q]
    BY <1>1, <1>2, <1>4 DEF Shape
  <2>2. Told(q)' <=> Told(q)
    BY <2>1 DEF Told
  <2> QED BY <2>1, <2>2 DEF TalkInv, ToldInv
<1>5. ToldInv'
  BY <1>4 DEF ToldInv
<1>6. SentOnLoop
  BY DEF SentOnLoop
<1> QED BY <1>3, <1>5, <1>6 DEF TalkInv

\* A step that sends nothing.
LEMMA TalkQuiet ==
  ASSUME Shape, TalkInv, NEW r \in Requests, NEW where, Goto(r, where), UNCHANGED <<gone, dead, out>>,
         \A q \in Requests : q # r => onLoop'[q] = onLoop[q] /\ outcome'[q] = outcome[q],
         r \notin Streams \/ where \notin {"locating", "assembling", "repin", "repin_fail"} => onLoop'[r],
         r \in Streams /\ ~gone[r] /\ Told(r) => Told(r)'
  PROVE  TalkInv' /\ SentOnLoop
<1>1. OutShape'
  BY DEF TalkInv, OutShape
<1>2. r \in Streams => (dead'[r] => gone[r]) /\ (~gone[r] => Told(r)')
  BY DEF TalkInv, ToldInv
<1> QED BY <1>1, <1>2, TalkOfOthers

\* A step that sends events.
LEMMA TalkSent ==
  ASSUME Shape, TalkInv, NEW r \in Requests, NEW where, Goto(r, where), UNCHANGED <<gone, onLoop>>,
         NEW events \in Seq(Events), Send(r, events), onLoop[r],
         \A q \in Requests : q # r => outcome'[q] = outcome[q],
         r \in Streams /\ ~gone[r] /\ Told(r) /\ out'[r] = out[r] \o events => Told(r)'
  PROVE  TalkInv' /\ SentOnLoop
<1>1. /\ OutShape'
      /\ \A q \in Requests : q # r => out'[q] = out[q] /\ dead'[q] = dead[q]
      /\ r \in Streams => (dead'[r] => gone[r])
      /\ r \in Streams /\ ~gone[r] => out'[r] = out[r] \o events
  BY SendFacts DEF TalkInv
<1>2. r \in Streams /\ ~gone[r] => Told(r)
  BY DEF TalkInv, ToldInv
<1> QED BY <1>1, <1>2, TalkOfOthers

LEMMA TalkFail ==
  ASSUME Shape, TalkInv, NEW r \in Requests, Fail(r), UNCHANGED <<gone, dead, out>>,
         pc[r] \notin {"repin_fail", "failing", "saving", "finishing", "done"},
         r \notin Streams => onLoop'[r],
         \A q \in Requests : q # r => onLoop'[q] = onLoop[q]
  PROVE  TalkInv' /\ SentOnLoop
<1>1. outcome' = [outcome EXCEPT ![r] = "unavailable"]
  BY DEF Fail, Decide
<1>2. CASE r \in Streams /\ Goto(r, "repin_fail")
  <2>1. ~gone[r] /\ Told(r) => Told(r)'
    BY <1>1, <1>2 DEF Told, Goto, Shape
  <2> QED BY <1>1, <1>2, <2>1, TalkQuiet DEF Shape
<1>3. CASE r \notin Streams /\ Goto(r, "done")
  BY <1>1, <1>3, TalkQuiet DEF Shape
<1> QED BY <1>2, <1>3 DEF Fail

LEMMA TalkNext ==
  ASSUME Shape, TalkInv, [Next]_vars
  PROVE  TalkInv' /\ SentOnLoop
<1>0. \A q \in Streams : q \in Requests
  BY AskAssumption
<1> DEFINE Done == TalkInv' /\ SentOnLoop
<1> HIDE DEF Done
<1>1. ASSUME NEW r \in Requests, Malformed(r)
      PROVE  Done
  <2>1. Told(r) => Told(r)'
    BY <1>1 DEF Malformed, Arrives, Told, Goto, Decide, Shape
  <2> QED BY <1>1, <2>1, TalkQuiet DEF Malformed, Arrives, Decide, Shape, TalkInv, OnLoopInv, Done
<1>2. ASSUME NEW r \in Requests, Locate(r)
      PROVE  Done
  BY <1>2, TalkQuiet DEF Locate, Arrives, TalkInv, OnLoopInv, Done
<1>3. ASSUME NEW r \in Requests, Call(r)
      PROVE  Done
  BY <1>3, AskAssumption, TalkQuiet DEF Call, Arrives, TalkInv, OnLoopInv, Done
<1>4. ASSUME NEW r \in Requests, TooMany(r)
      PROVE  Done
  <2>1. r \in Streams => pc[r] = "idle"
    BY <1>4 DEF TooMany, AtLimiter, Arrives
  <2>2. r \in Streams => (Told(r) => Told(r)')
    BY <1>4, <2>1 DEF TooMany, Told, Goto, Decide, Shape
  <2> QED BY <1>4, <2>1, <2>2, TalkQuiet DEF TooMany, Decide, Shape, TalkInv, OnLoopInv, Done
<1>5. ASSUME NEW r \in Requests, Admit(r)
      PROVE  Done
  <2>1. r \in Streams => pc[r] = "idle"
    BY <1>5 DEF Admit, AtLimiter, Arrives
  <2>2. r \in Streams => (Told(r) => Told(r)')
    BY <1>5, <2>1 DEF Admit, Told, Goto, Shape
  <2> QED BY <1>5, <2>1, <2>2, TalkQuiet DEF Admit, TalkInv, OnLoopInv, Done
<1>6. ASSUME NEW r \in Requests, Probed(r)
      PROVE  Done
  <2>1. r \notin Streams => onLoop'[r]
    BY <1>6 DEF Probed, Drift, Shape
  <2>2. \A q \in Requests : q # r => onLoop'[q] = onLoop[q]
    BY <1>6 DEF Probed, Drift, Shape
  <2>3. CASE Fail(r)
    BY <1>6, <2>1, <2>2, <2>3, TalkFail DEF Probed, Done
  <2>4. ASSUME NEW where \in {"locating", "assembling"}, Goto(r, where), UNCHANGED outcome
        PROVE  Done
    <3>1. Told(r) => Told(r)'
      BY <1>6, <2>4 DEF Probed, Told, Goto, Shape
    <3> QED BY <1>6, <2>1, <2>2, <2>4, <3>1, TalkQuiet DEF Probed, Done
  <2> QED BY <1>6, <2>3, <2>4 DEF Probed
<1>7. ASSUME NEW r \in Requests, Located(r)
      PROVE  Done
  <2>1. \A q \in Requests : q # r => onLoop'[q] = onLoop[q]
    BY <1>7 DEF Located, Drift, Shape
  <2>2. Told(r) => Told(r)'
    BY <1>7 DEF Located, Told, Goto, Shape
  <2> QED BY <1>7, <2>1, <2>2, TalkQuiet DEF Located, Done
<1>8. ASSUME NEW r \in Requests, Assembled(r)
      PROVE  Done
  <2>1. r \notin Streams => onLoop'[r]
    BY <1>8 DEF Assembled, Drift, Shape
  <2>2. \A q \in Requests : q # r => onLoop'[q] = onLoop[q]
    BY <1>8 DEF Assembled, Drift, Shape
  <2>3. CASE Fail(r)
    BY <1>8, <2>1, <2>2, <2>3, TalkFail DEF Assembled, Done
  <2>4. CASE Goto(r, AfterSources(r)) /\ UNCHANGED outcome
    <3>1. Told(r) /\ r \in Streams => Told(r)'
      BY <1>8, <2>4 DEF Assembled, AfterSources, Told, Goto, Shape
    <3>2. r \notin Streams \/ AfterSources(r) = "repin"
      BY DEF AfterSources
    <3> QED BY <1>8, <2>1, <2>2, <2>4, <3>1, <3>2, TalkQuiet DEF Assembled, Done
  <2> QED BY <1>8, <2>3, <2>4 DEF Assembled
<1>9. ASSUME NEW r \in Requests, Pin(r)
      PROVE  Done
  <2>1. onLoop'[r] /\ \A q \in Requests : q # r => onLoop'[q] = onLoop[q]
    BY <1>9 DEF Pin, Shape
  <2>2. Told(r) => Told(r)'
    BY <1>9 DEF Pin, AfterPin, Told, Goto, Shape
  <2> QED BY <1>9, <2>1, <2>2, TalkQuiet DEF Pin, Done
<1>10. ASSUME NEW r \in Requests, FailStream(r)
      PROVE  Done
  <2>1. <<"error", "done">> \in Seq(Events) /\ Contains(<<"error", "done">>, "error")
        /\ Last(<<"error", "done">>) = "done" /\ <<"error", "done">> # <<>>
    BY DEF Events, Contains, Last
  <2>2. onLoop[r] /\ out[r] \in Seq(Events)
    BY <1>10 DEF FailStream, TalkInv, OnLoopInv, OutShape
  <2>3. out'[r] = out[r] \o <<"error", "done">> =>
          Contains(out'[r], "error") /\ out'[r] # <<>> /\ Last(out'[r]) = "done"
    <3> DEFINE told == <<"error", "done">>
    <3>1. told \in Seq(Events) /\ Contains(told, "error") /\ Last(told) = "done" /\ told # <<>>
      BY <2>1
    <3> HIDE DEF told
    <3>2. Contains(out[r] \o told, "error") /\ out[r] \o told # <<>> /\ Last(out[r] \o told) = "done"
      BY <2>2, <3>1, AppendedEvents
    <3> QED BY <3>2 DEF told
  <2>4. Told(r) /\ out'[r] = out[r] \o <<"error", "done">> => Told(r)'
    BY <1>10, <2>3 DEF FailStream, Leave, Goto, Told, Shape
  <2> QED BY <1>10, <2>1, <2>2, <2>4, TalkSent DEF FailStream, Leave, Done
<1>11. ASSUME NEW r \in Requests, Load(r)
      PROVE  Done
  <2>1. Told(r) => Told(r)'
    BY <1>11 DEF Load, Told, Goto, Shape
  <2> QED BY <1>11, <2>1, TalkQuiet DEF Load, TalkInv, OnLoopInv, Done
<1>12. ASSUME NEW r \in Requests, Announce(r)
      PROVE  Done
  <2>1. onLoop[r] /\ out[r] \in Seq(Events)
    BY <1>12 DEF Announce, TalkInv, OnLoopInv, OutShape
  <2>2. ASSUME NEW events \in Seq(Events), ~Contains(events, "error"), Send(r, events),
               NEW where \in {"repin_generate", "acquiring"}, Goto(r, where)
        PROVE  Done
    <3>1. Told(r) /\ out'[r] = out[r] \o events => Told(r)'
      <4>1. out'[r] = out[r] \o events => (Contains(out'[r], "error") <=> Contains(out[r], "error"))
        BY <2>1, <2>2, AppendedEvents
      <4> QED BY <1>12, <2>2, <4>1 DEF Announce, Goto, Told, Shape
    <3> QED BY <1>12, <2>1, <2>2, <3>1, TalkSent DEF Announce, Done
  <2>3. <<"sources">> \in Seq(Events) /\ ~Contains(<<"sources">>, "error")
    BY DEF Events, Contains
  <2>4. <<"sources", "queue">> \in Seq(Events) /\ ~Contains(<<"sources", "queue">>, "error")
    BY DEF Events, Contains
  <2> QED BY <1>12, <2>2, <2>3, <2>4 DEF Announce
<1>13. ASSUME NEW r \in Requests, Acquire(r)
      PROVE  Done
  <2>1. ASSUME NEW where \in {"repin_generate", "generating", "waiting"}, Goto(r, where)
        PROVE  Done
    <3>1. Told(r) => Told(r)'
      BY <1>13, <2>1 DEF Acquire, Told, Goto, Shape
    <3> QED BY <1>13, <2>1, <3>1, TalkQuiet DEF Acquire, TalkInv, OnLoopInv, Done
  <2> QED BY <1>13, <2>1 DEF Acquire, ToGenerate
<1>14. ASSUME NEW r \in Requests, Granted(r)
      PROVE  Done
  <2>1. ASSUME NEW where \in {"repin_generate", "generating"}, Goto(r, where)
        PROVE  Done
    <3>1. Told(r) => Told(r)'
      BY <1>14, <2>1 DEF Granted, Told, Goto, Shape
    <3> QED BY <1>14, <2>1, <3>1, TalkQuiet DEF Granted, TalkInv, OnLoopInv, Done
  <2> QED BY <1>14, <2>1 DEF Granted, ToGenerate
<1>15. ASSUME NEW r \in Requests, Generated(r)
      PROVE  Done
  <2>1. Told(r) => Told(r)'
    BY <1>15 DEF Generated, Told, Goto, Decide, Shape
  <2> QED BY <1>15, <2>1, TalkQuiet DEF Generated, Decide, Shape, TalkInv, OnLoopInv, Done
<1>16. ASSUME NEW r \in Requests, Replied(r)
      PROVE  Done
  <2>1. r \notin Streams
    BY <1>16, AskAssumption DEF Replied
  <2> QED BY <1>16, <2>1, TalkQuiet DEF Replied, Leave, Decide, Shape, TalkInv, OnLoopInv, Done
<1>17. ASSUME NEW r \in Requests, GenerationFailed(r)
      PROVE  Done
  <2>1. outcome' = [outcome EXCEPT ![r] = "unavailable"] /\ UNCHANGED <<gone, onLoop>>
        /\ onLoop[r] /\ out[r] \in Seq(Events)
    BY <1>17 DEF GenerationFailed, Decide, TalkInv, OnLoopInv, OutShape
  <2>2. CASE r \in Streams
    <3>1. <<"error">> \in Seq(Events) /\ Contains(<<"error">>, "error")
      BY DEF Events, Contains
    <3>2. out'[r] = out[r] \o <<"error">> => Contains(out'[r], "error")
      BY <2>1, <3>1, AppendedEvents
    <3>3. Send(r, <<"error">>) /\ Goto(r, "saving")
      BY <1>17, <2>2 DEF GenerationFailed
    <3>4. Told(r) /\ out'[r] = out[r] \o <<"error">> => Told(r)'
      BY <1>17, <2>1, <3>2, <3>3 DEF Goto, Told, Shape
    <3> QED BY <2>1, <3>1, <3>3, <3>4, TalkSent DEF Shape, Done
  <2>3. CASE r \notin Streams
    BY <1>17, <2>1, <2>3, TalkQuiet DEF GenerationFailed, Leave, Shape, Done
  <2> QED BY <2>2, <2>3
<1>18. ASSUME NEW r \in Requests, Save(r)
      PROVE  Done
  <2>1. Told(r) => Told(r)'
    BY <1>18 DEF Save, Told, Goto, Shape
  <2> QED BY <1>18, <2>1, TalkQuiet DEF Save, TalkInv, OnLoopInv, Done
<1>19. ASSUME NEW r \in Requests, Finish(r)
      PROVE  Done
  <2>1. UNCHANGED <<gone, onLoop, outcome>> /\ onLoop[r] /\ out[r] \in Seq(Events) /\ Goto(r, "done")
    BY <1>19 DEF Finish, Leave, TalkInv, OnLoopInv, OutShape
  <2>2. CASE r \in Streams
    <3>1. /\ <<"done">> \in Seq(Events) /\ ~Contains(<<"done">>, "error")
          /\ Last(<<"done">>) = "done" /\ <<"done">> # <<>>
      BY DEF Events, Contains, Last
    <3>2. out'[r] = out[r] \o <<"done">> =>
            /\ Contains(out'[r], "error") <=> Contains(out[r], "error")
            /\ out'[r] # <<>> /\ Last(out'[r]) = "done"
      <4>1. Contains(out[r] \o <<"done">>, "error") <=> Contains(out[r], "error") \/ Contains(<<"done">>, "error")
        BY <2>1, <3>1, AppendedEvents
      <4>2. out[r] \o <<"done">> # <<>> /\ Last(out[r] \o <<"done">>) = Last(<<"done">>)
        BY <2>1, <3>1, AppendedEvents
      <4> QED BY <3>1, <4>1, <4>2
    <3>3. Told(r) /\ out'[r] = out[r] \o <<"done">> => Told(r)'
      BY <1>19, <2>1, <3>2 DEF Finish, Goto, Told, Shape
    <3> QED BY <1>19, <2>1, <2>2, <3>1, <3>3, TalkSent DEF Finish, Done
  <2>3. CASE r \notin Streams
    BY <1>19, <2>1, <2>3, TalkQuiet DEF Finish, Done
  <2> QED BY <2>2, <2>3
<1>20. ASSUME NEW r \in Requests, TimedOut(r)
      PROVE  Done
  BY <1>20, TalkFail DEF TimedOut, TalkInv, OnLoopInv, Done
<1>21. ASSUME NEW r \in Requests, Token(r)
      PROVE  Done
  <2>1. <<"token">> \in Seq(Events) /\ ~Contains(<<"token">>, "error")
    BY DEF Events, Contains
  <2>2. onLoop[r] /\ out[r] \in Seq(Events) /\ Goto(r, "generating")
    BY <1>21 DEF Token, TalkInv, OnLoopInv, OutShape, Goto, Shape
  <2>3. out'[r] = out[r] \o <<"token">> => (Contains(out'[r], "error") <=> Contains(out[r], "error"))
    <3>1. Contains(out[r] \o <<"token">>, "error") <=> Contains(out[r], "error") \/ Contains(<<"token">>, "error")
      BY <2>1, <2>2, AppendedEvents
    <3> QED BY <2>1, <3>1
  <2>4. Told(r) /\ out'[r] = out[r] \o <<"token">> => Told(r)'
    BY <1>21, <2>3 DEF Token, Told
  <2> QED BY <1>21, <2>1, <2>2, <2>4, TalkSent DEF Token, Done
<1>22. ASSUME NEW r \in Requests, PeerLeaves(r)
      PROVE  Done
  BY <1>22, <1>0 DEF PeerLeaves, Shape, TalkInv, OutShape, OnLoopInv, ToldInv, Told, SentOnLoop, Done
<1>23. ASSUME NEW s \in Sessions, Expire(s)
       PROVE  Done
  BY <1>23 DEF Expire, TalkInv, OutShape, OnLoopInv, ToldInv, Told, SentOnLoop, Done
<1>24. CASE UNCHANGED vars
  BY <1>24 DEF vars, handlerVars, TalkInv, OutShape, OnLoopInv, ToldInv, Told, SentOnLoop, Done
<1>25. ASSUME NEW r \in Requests, Arrive(r) \/ Enter(r)
       PROVE  Done
  BY <1>25, <1>1, <1>2, <1>3, <1>4, <1>5 DEF Arrive, Enter
<1>26. ASSUME NEW r \in Requests, Proceed(r)
       PROVE  Done
  BY <1>26, <1>25, <1>6, <1>7, <1>8, <1>9, <1>10, <1>11, <1>12, <1>13, <1>14, <1>15, <1>16, <1>17, <1>18, <1>19 DEF Proceed
<1>27. Done
  BY <1>20, <1>21, <1>22, <1>23, <1>24, <1>25, <1>26 DEF Next, Done
<1> QED BY <1>27 DEF Done

\* Events are sent only from the loop that owns the client's connection, wherever
\* the HTTP calls of a stream ended: what its two re-pins are there for.
THEOREM AlwaysOnClientLoop == Spec => SendsOnClientLoop
<1>1. Init => Shape /\ TalkInv
  BY ShapeInit, TalkInit
<1>2. Shape /\ TalkInv /\ [Next]_vars => (Shape /\ TalkInv)'
  BY ShapeNext, TalkNext
<1>3. Shape /\ TalkInv /\ [Next]_vars =>
        [\A r \in Requests : out'[r] # out[r] \/ dead'[r] # dead[r] => onLoop[r]]_vars
  BY TalkNext DEF SentOnLoop
<1> QED BY <1>1, <1>2, <1>3, PTL DEF Spec, SendsOnClientLoop

\* A client that stays until the end gets "done" last, and an error event exactly
\* if its request failed, whichever way the stream ended.
THEOREM ClientAlwaysTold == Spec => []ClientIsTold
<1>1. TalkInv => ClientIsTold
  BY DEF TalkInv, ToldInv, Told, ClientIsTold
<1>2. Init => Shape /\ TalkInv
  BY ShapeInit, TalkInit
<1>3. Shape /\ TalkInv /\ [Next]_vars => (Shape /\ TalkInv)'
  BY ShapeNext, TalkNext
<1> QED BY <1>1, <1>2, <1>3, PTL DEF Spec

-------------------------------------------------------------------------------
(* The sessions                                                            *)

\* At most max_turns whole turns, each once.
Whole(messages) ==
  \E turns \in Seq(Turns) : Len(turns) <= MaxTurns /\ IsInjective(turns) /\ messages = Transcript(turns)

Mentions(messages, t) == \E k \in DOMAIN messages : messages[k][2] = t

\* A request's turn is in nobody's messages before the request saves it.
SessionInv ==
  /\ history \in [Requests -> Seq(Messages)]
  /\ stored \in [Sessions -> Seq(Messages)]
  /\ \A r \in Requests : Whole(history[r])
  /\ \A s \in Sessions : Whole(stored[s])
  /\ \A r \in Requests : pc[r] \notin {"finishing", "done"} =>
       /\ \A q \in Requests : ~Mentions(history[q], r)
       /\ \A s \in Sessions : ~Mentions(stored[s], r)

LEMMA TranscriptFacts ==
  ASSUME NEW turns \in Seq(Turns)
  PROVE  /\ Transcript(turns) \in Seq(Messages)
         /\ Len(Transcript(turns)) = 2 * Len(turns)
         /\ \A k \in 1 .. 2 * Len(turns) :
              Transcript(turns)[k] = <<IF k % 2 = 1 THEN "user" ELSE "assistant", turns[(k + 1) \div 2]>>
         /\ \A i \in 1 .. Len(turns) : /\ Transcript(turns)[2 * i - 1] = <<"user", turns[i]>>
                                       /\ Transcript(turns)[2 * i] = <<"assistant", turns[i]>>
         /\ \A t : Mentions(Transcript(turns), t) <=> \E i \in 1 .. Len(turns) : turns[i] = t
<1>1. Len(turns) \in Nat /\ DOMAIN turns = 1 .. Len(turns) /\ \A i \in 1 .. Len(turns) : turns[i] \in Turns
  OBVIOUS
<1>2. \A k \in 1 .. 2 * Len(turns) : (k + 1) \div 2 \in 1 .. Len(turns)
  BY <1>1
<1>3. ASSUME NEW k \in 1 .. 2 * Len(turns)
      PROVE  <<IF k % 2 = 1 THEN "user" ELSE "assistant", turns[(k + 1) \div 2]>> \in Messages
  BY <1>1, <1>2 DEF Messages
<1>4. Transcript(turns) \in [1 .. 2 * Len(turns) -> Messages]
  BY <1>3 DEF Transcript
<1>5. Transcript(turns) \in Seq(Messages) /\ Len(Transcript(turns)) = 2 * Len(turns)
  BY <1>1, <1>4
<1>6. \A k \in 1 .. 2 * Len(turns) :
        Transcript(turns)[k] = <<IF k % 2 = 1 THEN "user" ELSE "assistant", turns[(k + 1) \div 2]>>
  BY DEF Transcript
<1>7. ASSUME NEW i \in 1 .. Len(turns)
      PROVE  /\ Transcript(turns)[2 * i - 1] = <<"user", turns[i]>>
             /\ Transcript(turns)[2 * i] = <<"assistant", turns[i]>>
  <2>1. \A k \in 1 .. 2 * Len(turns) :
          /\ k % 2 = 1 => Transcript(turns)[k] = <<"user", turns[(k + 1) \div 2]>>
          /\ k % 2 # 1 => Transcript(turns)[k] = <<"assistant", turns[(k + 1) \div 2]>>
    BY <1>6
  <2>2. ASSUME NEW k, k = 2 * i - 1 PROVE Transcript(turns)[k] = <<"user", turns[i]>>
    <3>1. k \in 1 .. 2 * Len(turns) /\ k % 2 = 1 /\ (k + 1) \div 2 = i
      BY <1>1, <2>2
    <3> QED BY <2>1, <3>1
  <2>3. ASSUME NEW k, k = 2 * i PROVE Transcript(turns)[k] = <<"assistant", turns[i]>>
    <3>1. k \in 1 .. 2 * Len(turns) /\ k % 2 = 0 /\ (k + 1) \div 2 = i
      BY <1>1, <2>3
    <3> QED BY <2>1, <3>1
  <2> QED BY <2>2, <2>3
<1>8. ASSUME NEW t PROVE Mentions(Transcript(turns), t) <=> \E i \in 1 .. Len(turns) : turns[i] = t
  <2>1. ASSUME Mentions(Transcript(turns), t) PROVE \E i \in 1 .. Len(turns) : turns[i] = t
    <3>1. PICK k \in 1 .. 2 * Len(turns) : Transcript(turns)[k][2] = t
      BY <1>4, <2>1 DEF Mentions
    <3>2. turns[(k + 1) \div 2] = t
      BY <1>6, <3>1
    <3> QED BY <1>2, <3>2
  <2>2. ASSUME NEW i \in 1 .. Len(turns), turns[i] = t PROVE Mentions(Transcript(turns), t)
    <3>1. 2 * i \in DOMAIN Transcript(turns) /\ Transcript(turns)[2 * i][2] = t
      BY <1>1, <1>4, <1>7, <2>2
    <3> QED BY <3>1 DEF Mentions
  <2> QED BY <2>1, <2>2
<1> QED BY <1>5, <1>6, <1>7, <1>8

LEMMA PairAppends ==
  ASSUME NEW turns \in Seq(Turns), NEW t \in Turns
  PROVE  Transcript(turns) \o Pair(t) = Transcript(Append(turns, t))
<1> DEFINE u == Append(turns, t)
           m == Transcript(turns)
           w == Transcript(u)
           p == Pair(t)
           n == Len(turns)
<1>1. n \in Nat /\ u \in Seq(Turns) /\ Len(u) = n + 1 /\ u[n + 1] = t /\ \A i \in 1 .. n : u[i] = turns[i]
  OBVIOUS
<1>2. p \in Seq(Messages) /\ Len(p) = 2 /\ p[1] = <<"user", t>> /\ p[2] = <<"assistant", t>>
  BY DEF Pair, Messages
<1>3. /\ m \in Seq(Messages) /\ Len(m) = 2 * n
      /\ \A k \in 1 .. 2 * n : m[k] = <<IF k % 2 = 1 THEN "user" ELSE "assistant", turns[(k + 1) \div 2]>>
  BY TranscriptFacts
<1>4. /\ w \in Seq(Messages) /\ Len(w) = 2 * n + 2
      /\ \A k \in 1 .. 2 * n + 2 : w[k] = <<IF k % 2 = 1 THEN "user" ELSE "assistant", u[(k + 1) \div 2]>>
      /\ w[2 * n + 1] = <<"user", t>> /\ w[2 * n + 2] = <<"assistant", t>>
  <2>1. /\ Transcript(u) \in Seq(Messages) /\ Len(Transcript(u)) = 2 * (n + 1)
        /\ \A k \in 1 .. 2 * (n + 1) :
             Transcript(u)[k] = <<IF k % 2 = 1 THEN "user" ELSE "assistant", u[(k + 1) \div 2]>>
        /\ \A i \in 1 .. n + 1 : /\ Transcript(u)[2 * i - 1] = <<"user", u[i]>>
                                 /\ Transcript(u)[2 * i] = <<"assistant", u[i]>>
    BY <1>1, TranscriptFacts
  <2>2. n + 1 \in 1 .. n + 1 /\ 2 * (n + 1) - 1 = 2 * n + 1 /\ 2 * (n + 1) = 2 * n + 2
    BY <1>1
  <2> QED BY <1>1, <2>1, <2>2
<1> HIDE DEF u, m, w, p, n
<1>5. /\ m \o p \in Seq(Messages) /\ Len(m \o p) = 2 * n + 2
      /\ \A k \in 1 .. 2 * n + 2 : (m \o p)[k] = IF k <= 2 * n THEN m[k] ELSE p[k - 2 * n]
  <2>1. /\ m \o p \in Seq(Messages) /\ Len(m \o p) = Len(m) + Len(p)
        /\ \A k \in 1 .. Len(m) + Len(p) : (m \o p)[k] = IF k <= Len(m) THEN m[k] ELSE p[k - Len(m)]
    BY <1>2, <1>3, ConcatProperties
  <2>2. Len(m) + Len(p) = 2 * n + 2
    BY <1>1, <1>2, <1>3
  <2> QED BY <1>3, <2>1, <2>2
<1>6. ASSUME NEW k \in 1 .. 2 * n + 2
      PROVE  (m \o p)[k] = w[k]
  <2>1. CASE k <= 2 * n
    <3>1. (k + 1) \div 2 \in 1 .. n /\ k \in 1 .. 2 * n
      BY <1>1, <2>1
    <3>2. u[(k + 1) \div 2] = turns[(k + 1) \div 2]
      BY <1>1, <3>1
    <3>3. m[k] = w[k]
      BY <1>3, <1>4, <3>1, <3>2
    <3> QED BY <1>5, <2>1, <3>3
  <2>2. CASE k = 2 * n + 1
    <3>1. ~(k <= 2 * n) /\ k - 2 * n = 1
      BY <1>1, <2>2
    <3> QED BY <1>2, <1>4, <1>5, <2>2, <3>1
  <2>3. CASE k = 2 * n + 2
    <3>1. ~(k <= 2 * n) /\ k - 2 * n = 2
      BY <1>1, <2>3
    <3> QED BY <1>2, <1>4, <1>5, <2>3, <3>1
  <2>4. n \in Nat
    BY <1>1
  <2>5. k <= 2 * n \/ k = 2 * n + 1 \/ k = 2 * n + 2
    BY <2>4
  <2> QED BY <2>1, <2>2, <2>3, <2>5
<1>7. m \o p = w
  BY <1>1, <1>4, <1>5, <1>6, SeqEqual
<1> QED BY <1>7 DEF u, m, w, p

LEMMA OldestTurnGoes ==
  ASSUME NEW u \in Seq(Turns), u # <<>>
  PROVE  SubSeq(Transcript(u), 3, 2 * Len(u)) = Transcript(Tail(u))
<1> DEFINE w == Transcript(u)
           v == Transcript(Tail(u))
           n == Len(u)
           x == SubSeq(w, 3, 2 * n)
<1>1. /\ n \in Nat \ {0} /\ Tail(u) \in Seq(Turns) /\ Len(Tail(u)) = n - 1
      /\ \A i \in 1 .. n - 1 : Tail(u)[i] = u[i + 1]
  OBVIOUS
<1>2. /\ w \in Seq(Messages) /\ Len(w) = 2 * n
      /\ \A k \in 1 .. 2 * n : w[k] = <<IF k % 2 = 1 THEN "user" ELSE "assistant", u[(k + 1) \div 2]>>
  BY TranscriptFacts
<1>3. /\ v \in Seq(Messages) /\ Len(v) = 2 * n - 2
      /\ \A k \in 1 .. 2 * n - 2 : v[k] = <<IF k % 2 = 1 THEN "user" ELSE "assistant", Tail(u)[(k + 1) \div 2]>>
  <2>1. /\ Transcript(Tail(u)) \in Seq(Messages) /\ Len(Transcript(Tail(u))) = 2 * (n - 1)
        /\ \A k \in 1 .. 2 * (n - 1) :
             Transcript(Tail(u))[k] = <<IF k % 2 = 1 THEN "user" ELSE "assistant", Tail(u)[(k + 1) \div 2]>>
    BY <1>1, TranscriptFacts
  <2>2. 2 * (n - 1) = 2 * n - 2
    BY <1>1
  <2> QED BY <2>1, <2>2
<1> HIDE DEF w, v, n
<1>4. /\ x \in Seq(Messages) /\ Len(x) = 2 * n - 2
      /\ \A k \in 1 .. 2 * n - 2 : x[k] = w[k + 2]
  <2>1. \A k \in 3 .. 2 * n : w[k] \in Messages
    BY <1>1, <1>2
  <2>2. /\ SubSeq(w, 3, 2 * n) \in Seq(Messages)
        /\ Len(SubSeq(w, 3, 2 * n)) = 2 * n - 2
        /\ \A k \in 1 .. 2 * n - 2 : SubSeq(w, 3, 2 * n)[k] = w[3 + k - 1]
    BY <1>1, <1>2, <2>1, SubSeqProperties
  <2> QED BY <1>1, <2>2
<1>5. ASSUME NEW k \in 1 .. 2 * n - 2
      PROVE  x[k] = v[k]
  <2>1. (k + 1) \div 2 \in 1 .. n - 1 /\ (k + 2 + 1) \div 2 = (k + 1) \div 2 + 1 /\ (k + 2) % 2 = k % 2
        /\ k + 2 \in 1 .. 2 * n
    BY <1>1
  <2>2. Tail(u)[(k + 1) \div 2] = u[(k + 2 + 1) \div 2]
    BY <1>1, <2>1
  <2>3. x[k] = <<IF k % 2 = 1 THEN "user" ELSE "assistant", u[(k + 2 + 1) \div 2]>>
    BY <1>2, <1>4, <2>1
  <2> QED BY <1>3, <2>2, <2>3
<1>6. x = v
  BY <1>1, <1>3, <1>4, <1>5, SeqEqual
<1> QED BY <1>6 DEF w, v, n

\* A request that saves what it loaded and its own turn leaves whole turns, each once.
LEMMA SavedIsWhole ==
  ASSUME NEW messages, Whole(messages), NEW r \in Requests, ~Mentions(messages, r)
  PROVE  LET kept == Evict(messages \o Pair(r))
         IN  /\ kept \in Seq(Messages)
             /\ Whole(kept)
             /\ \A t : Mentions(kept, t) => Mentions(messages, t) \/ t = r
<1>1. PICK turns \in Seq(Turns) : /\ Len(turns) <= MaxTurns /\ IsInjective(turns)
                                  /\ messages = Transcript(turns)
  BY DEF Whole
<1> DEFINE u == Append(turns, r)
           n == Len(turns)
<1>2. r \in Turns
  BY DEF Turns
<1>3. /\ n \in Nat /\ MaxTurns \in Nat \ {0} /\ n <= MaxTurns
      /\ u \in Seq(Turns) /\ Len(u) = n + 1 /\ DOMAIN u = 1 .. n + 1 /\ DOMAIN turns = 1 .. n
      /\ u[n + 1] = r /\ \A i \in 1 .. n : u[i] = turns[i]
  BY <1>1, <1>2, AskAssumption
<1>4. \A t : Mentions(messages, t) <=> \E i \in 1 .. n : turns[i] = t
  BY <1>1, TranscriptFacts
<1>5. messages \o Pair(r) = Transcript(u) /\ Len(Transcript(u)) = 2 * (n + 1)
  BY <1>1, <1>2, <1>3, PairAppends, TranscriptFacts
<1> HIDE DEF u, n
<1>6. \A i, j \in 1 .. n + 1 : u[i] = u[j] => i = j
  <2>1. \A i, j \in 1 .. n : turns[i] = turns[j] => i = j
    BY <1>1, <1>3 DEF IsInjective
  <2>2. \A i \in 1 .. n : turns[i] # r
    BY <1>4
  <2>3. \A i \in 1 .. n + 1 : i \in 1 .. n \/ i = n + 1
    BY <1>3
  <2> QED BY <1>3, <2>1, <2>2, <2>3
<1>7. \A i \in 1 .. n + 1 : u[i] = r \/ \E j \in 1 .. n : turns[j] = u[i]
  BY <1>3
<1>8. ASSUME NEW v \in Seq(Turns), Len(v) <= MaxTurns, NEW d \in Nat, d + Len(v) <= n + 1,
             \A i \in 1 .. Len(v) : v[i] = u[i + d]
      PROVE  /\ Transcript(v) \in Seq(Messages)
             /\ Whole(Transcript(v))
             /\ \A t : Mentions(Transcript(v), t) => Mentions(messages, t) \/ t = r
  <2>1. DOMAIN v = 1 .. Len(v) /\ Len(v) \in Nat /\ \A i \in 1 .. Len(v) : i + d \in 1 .. n + 1
    BY <1>3, <1>8
  <2>2. IsInjective(v)
    <3>1. SUFFICES ASSUME NEW i \in 1 .. Len(v), NEW j \in 1 .. Len(v), v[i] = v[j] PROVE i = j
      BY <2>1 DEF IsInjective
    <3>2. i + d = j + d
      BY <1>6, <1>8, <2>1, <3>1
    <3> QED BY <2>1, <3>2
  <2>3. \A t : Mentions(Transcript(v), t) <=> \E i \in 1 .. Len(v) : v[i] = t
    BY TranscriptFacts
  <2>4. \A t : Mentions(Transcript(v), t) => Mentions(messages, t) \/ t = r
    BY <1>4, <1>7, <1>8, <2>1, <2>3
  <2> QED BY <1>8, <2>2, <2>4, TranscriptFacts DEF Whole
<1>9. CASE n < MaxTurns
  <2>1. Evict(messages \o Pair(r)) = Transcript(u)
    BY <1>3, <1>5, <1>9 DEF Evict
  <2>2. Len(u) <= MaxTurns /\ 0 + Len(u) <= n + 1 /\ \A i \in 1 .. Len(u) : u[i] = u[i + 0]
    BY <1>3, <1>9
  <2>3. /\ Transcript(u) \in Seq(Messages)
        /\ Whole(Transcript(u))
        /\ \A t : Mentions(Transcript(u), t) => Mentions(messages, t) \/ t = r
    BY <1>3, <1>8, <2>2
  <2> QED BY <2>1, <2>3
<1>10. CASE n = MaxTurns
  <2>1. Len(Transcript(u)) > 2 * MaxTurns /\ Len(Transcript(u)) - 2 * MaxTurns + 1 = 3
    BY <1>3, <1>5, <1>10
  <2>2. Evict(messages \o Pair(r)) = SubSeq(Transcript(u), 3, 2 * Len(u))
    BY <1>3, <1>5, <2>1 DEF Evict
  <2>3. u # <<>>
    BY <1>3
  <2>4. Evict(messages \o Pair(r)) = Transcript(Tail(u))
    BY <1>3, <2>2, <2>3, OldestTurnGoes
  <2>5. /\ Tail(u) \in Seq(Turns) /\ Len(Tail(u)) = n /\ \A i \in 1 .. n : Tail(u)[i] = u[i + 1]
    BY <1>3, <2>3
  <2>6. /\ Transcript(Tail(u)) \in Seq(Messages)
        /\ Whole(Transcript(Tail(u)))
        /\ \A t : Mentions(Transcript(Tail(u)), t) => Mentions(messages, t) \/ t = r
    <3>1. /\ Len(Tail(u)) <= MaxTurns /\ 1 \in Nat /\ 1 + Len(Tail(u)) <= n + 1
          /\ \A i \in 1 .. Len(Tail(u)) : Tail(u)[i] = u[i + 1]
      BY <1>3, <1>10, <2>5
    <3> QED BY <1>8, <2>5, <3>1
  <2> QED BY <2>4, <2>6
<1> QED BY <1>3, <1>9, <1>10

LEMMA NothingIsWhole == Whole(<<>>) /\ (\A t : ~Mentions(<<>>, t)) /\ <<>> \in Seq(Messages)
<1>1. <<>> \in Seq(Turns) /\ Len(<<>>) = 0 /\ 0 <= MaxTurns
  BY AskAssumption
<1>2. IsInjective(<<>>)
  BY DEF IsInjective
<1>3. Transcript(<<>>) = <<>>
  <2>1. Transcript(<<>>) \in Seq(Messages) /\ Len(Transcript(<<>>)) = 2 * 0
    BY <1>1, TranscriptFacts
  <2> QED BY <2>1
<1>4. Whole(<<>>)
  BY <1>1, <1>2, <1>3 DEF Whole
<1>5. \A t : ~Mentions(<<>>, t)
  BY DEF Mentions
<1>6. <<>> \in Seq(Messages)
  OBVIOUS
<1> QED BY <1>4, <1>5, <1>6

LEMMA SessionInit == Init => SessionInv
<1> SUFFICES ASSUME Init PROVE SessionInv
  OBVIOUS
<1>1. /\ Earlier \in Seq(Turns) /\ Len(Earlier) <= MaxTurns /\ IsInjective(Earlier)
      /\ \A i \in 1 .. Len(Earlier) : Earlier[i] \notin Requests
  BY AskAssumption DEF Turns
<1>2. Whole(Transcript(Earlier)) /\ Transcript(Earlier) \in Seq(Messages)
  BY <1>1, TranscriptFacts DEF Whole
<1>3. \A r \in Requests : ~Mentions(Transcript(Earlier), r)
  <2>1. \A t : Mentions(Transcript(Earlier), t) <=> \E i \in 1 .. Len(Earlier) : Earlier[i] = t
    BY <1>1, TranscriptFacts
  <2> QED BY <1>1, <2>1
<1> QED BY <1>2, <1>3, NothingIsWhole DEF Init, SessionInv

LEMMA SessionKept ==
  ASSUME SessionInv, UNCHANGED <<history, stored>>,
         \A q \in Requests : pc[q] \in {"finishing", "done"} => pc'[q] \in {"finishing", "done"}
  PROVE  SessionInv'
  BY DEF SessionInv, Whole, Mentions

\* One request goes on, and not from its end.
LEMMA SessionGoto ==
  ASSUME Shape, SessionInv, UNCHANGED <<history, stored>>, NEW r \in Requests, NEW where, Goto(r, where),
         pc[r] \in {"finishing", "done"} => where = "done"
  PROVE  SessionInv'
<1>1. \A q \in Requests : pc[q] \in {"finishing", "done"} => pc'[q] \in {"finishing", "done"}
  BY DEF Goto, Shape
<1> QED BY <1>1, SessionKept

LEMMA SessionLoad ==
  ASSUME Shape, SessionInv, NEW r \in Requests, Load(r)
  PROVE  SessionInv'
<1>1. CASE UNCHANGED history
  BY <1>1, SessionGoto DEF Load
<1>2. CASE HasSession(r) /\ history' = [history EXCEPT ![r] = stored[SessionOf[r]]]
  <2>1. SessionOf[r] \in Sessions
    BY <1>2, AskAssumption DEF HasSession
  <2>2. stored' = stored /\ \A q \in Requests : pc[q] \in {"finishing", "done"} <=> pc'[q] \in {"finishing", "done"}
    BY DEF Load, Goto, Shape
  <2>3. history' \in [Requests -> Seq(Messages)]
    BY <1>2, <2>1 DEF SessionInv
  <2>4. \A q \in Requests : history'[q] = history[q] \/ history'[q] = stored[SessionOf[r]]
    BY <1>2 DEF SessionInv
  <2>5. ASSUME NEW q \in Requests PROVE Whole(history'[q])
    BY <2>1, <2>4 DEF SessionInv
  <2>6. ASSUME NEW q \in Requests, NEW p \in Requests, pc'[p] \notin {"finishing", "done"}
        PROVE  ~Mentions(history'[q], p)
    BY <2>1, <2>2, <2>4, <2>6 DEF SessionInv
  <2>7. \A q \in Requests : Whole(history[q])'
    BY <2>5 DEF Whole
  <2>8. \A q, p \in Requests : pc'[p] \notin {"finishing", "done"} => ~Mentions(history[q], p)'
    BY <2>6 DEF Mentions
  <2>9. \A s \in Sessions : Whole(stored[s])'
    BY <2>2 DEF SessionInv, Whole
  <2>10. \A s \in Sessions, p \in Requests : pc'[p] \notin {"finishing", "done"} => ~Mentions(stored[s], p)'
    BY <2>2 DEF SessionInv, Mentions
  <2> QED BY <2>2, <2>3, <2>7, <2>8, <2>9, <2>10 DEF SessionInv
<1> QED BY <1>1, <1>2 DEF Load

LEMMA SessionSave ==
  ASSUME Shape, SessionInv, NEW r \in Requests, Save(r)
  PROVE  SessionInv'
<1> DEFINE kept == Evict(history[r] \o Pair(r))
<1>1. /\ pc[r] = "saving" /\ pc' = [pc EXCEPT ![r] = "finishing"] /\ history' = [history EXCEPT ![r] = <<>>]
      /\ stored' = stored \/ (SessionOf[r] \in Sessions /\ stored' = [stored EXCEPT ![SessionOf[r]] = kept])
  BY AskAssumption DEF Save, Wanted, HasSession, Goto
<1>2. Whole(history[r]) /\ ~Mentions(history[r], r)
  BY <1>1 DEF SessionInv
<1>3. kept \in Seq(Messages) /\ Whole(kept) /\ \A t : Mentions(kept, t) => Mentions(history[r], t) \/ t = r
  BY <1>2, SavedIsWhole
<1> HIDE DEF kept
<1>4. \A q \in Requests : pc'[q] \notin {"finishing", "done"} => pc[q] \notin {"finishing", "done"} /\ q # r
  BY <1>1 DEF Shape
<1>5. history' \in [Requests -> Seq(Messages)] /\ \A q \in Requests : history'[q] = history[q] \/ history'[q] = <<>>
  BY <1>1, NothingIsWhole DEF SessionInv
<1>6. stored' \in [Sessions -> Seq(Messages)] /\ \A s \in Sessions : stored'[s] = stored[s] \/ stored'[s] = kept
  BY <1>1, <1>3 DEF SessionInv
<1>7. \A q \in Requests : Whole(history'[q])
  BY <1>5, NothingIsWhole DEF SessionInv
<1>8. \A s \in Sessions : Whole(stored'[s])
  BY <1>3, <1>6 DEF SessionInv
<1>9. \A p, q \in Requests : pc'[p] \notin {"finishing", "done"} => ~Mentions(history'[q], p)
  BY <1>4, <1>5, NothingIsWhole DEF SessionInv
<1>10. \A p \in Requests, s \in Sessions : pc'[p] \notin {"finishing", "done"} => ~Mentions(stored'[s], p)
  BY <1>3, <1>4, <1>6 DEF SessionInv
<1>11. \A q \in Requests : Whole(history[q])'
  BY <1>7 DEF Whole
<1>12. \A s \in Sessions : Whole(stored[s])'
  BY <1>8 DEF Whole
<1>13. \A p, q \in Requests : pc'[p] \notin {"finishing", "done"} => ~Mentions(history[q], p)'
  BY <1>9 DEF Mentions
<1>14. \A p \in Requests, s \in Sessions : pc'[p] \notin {"finishing", "done"} => ~Mentions(stored[s], p)'
  BY <1>10 DEF Mentions
<1> QED BY <1>5, <1>6, <1>11, <1>12, <1>13, <1>14 DEF SessionInv

LEMMA SessionExpire ==
  ASSUME Shape, SessionInv, NEW s \in Sessions, Expire(s)
  PROVE  SessionInv'
<1>1. stored' = [stored EXCEPT ![s] = <<>>] /\ pc' = pc /\ history' = history
  BY DEF Expire
<1>2. stored' \in [Sessions -> Seq(Messages)] /\ \A z \in Sessions : stored'[z] = stored[z] \/ stored'[z] = <<>>
  BY <1>1, NothingIsWhole DEF SessionInv
<1>3. \A z \in Sessions : Whole(stored'[z])
  BY <1>2, NothingIsWhole DEF SessionInv
<1>4. \A p \in Requests, z \in Sessions : pc'[p] \notin {"finishing", "done"} => ~Mentions(stored'[z], p)
  BY <1>1, <1>2, NothingIsWhole DEF SessionInv
<1>5. \A z \in Sessions : Whole(stored[z])'
  BY <1>3 DEF Whole
<1>6. \A p \in Requests, z \in Sessions : pc'[p] \notin {"finishing", "done"} => ~Mentions(stored[z], p)'
  BY <1>4 DEF Mentions
<1>7. \A q \in Requests : Whole(history[q])'
  BY <1>1 DEF SessionInv, Whole
<1>8. \A p, q \in Requests : pc'[p] \notin {"finishing", "done"} => ~Mentions(history[q], p)'
  BY <1>1 DEF SessionInv, Mentions
<1> QED BY <1>1, <1>2, <1>5, <1>6, <1>7, <1>8 DEF SessionInv

LEMMA SessionNext ==
  ASSUME Shape, SessionInv, [Next]_vars
  PROVE  SessionInv'
<1>1. ASSUME NEW r \in Requests, Arrive(r)
      PROVE  SessionInv'
  BY <1>1, SessionGoto DEF Arrive, Malformed, Locate, Call, Arrives
<1>2. ASSUME NEW r \in Requests, Enter(r)
      PROVE  SessionInv'
  BY <1>2, SessionGoto DEF Enter, TooMany, Admit, AtLimiter, Arrives
<1>3. ASSUME NEW r \in Requests, Fail(r), UNCHANGED <<history, stored>>, pc[r] # "finishing", pc[r] # "done"
      PROVE  SessionInv'
  BY <1>3, SessionGoto DEF Fail
<1>4. ASSUME NEW r \in Requests, Probed(r)
      PROVE  SessionInv'
  BY <1>4, <1>3, SessionGoto DEF Probed
<1>5. ASSUME NEW r \in Requests, Located(r)
      PROVE  SessionInv'
  BY <1>5, SessionGoto DEF Located
<1>6. ASSUME NEW r \in Requests, Assembled(r)
      PROVE  SessionInv'
  BY <1>6, <1>3, SessionGoto DEF Assembled
<1>7. ASSUME NEW r \in Requests, Pin(r)
      PROVE  SessionInv'
  BY <1>7, SessionGoto DEF Pin, AfterPin
<1>8. ASSUME NEW r \in Requests, FailStream(r)
      PROVE  SessionInv'
  BY <1>8, SessionGoto DEF FailStream, Leave
<1>9. ASSUME NEW r \in Requests, Announce(r)
      PROVE  SessionInv'
  BY <1>9, SessionGoto DEF Announce
<1>10. ASSUME NEW r \in Requests, Acquire(r)
      PROVE  SessionInv'
  BY <1>10, SessionGoto DEF Acquire, ToGenerate
<1>11. ASSUME NEW r \in Requests, Granted(r)
      PROVE  SessionInv'
  BY <1>11, SessionGoto DEF Granted, ToGenerate
<1>12. ASSUME NEW r \in Requests, Generated(r)
      PROVE  SessionInv'
  BY <1>12, SessionGoto DEF Generated
<1>13. ASSUME NEW r \in Requests, Replied(r)
      PROVE  SessionInv'
  BY <1>13, SessionGoto DEF Replied, Leave
<1>14. ASSUME NEW r \in Requests, GenerationFailed(r)
      PROVE  SessionInv'
  BY <1>14, SessionGoto DEF GenerationFailed, Leave
<1>15. ASSUME NEW r \in Requests, Finish(r)
      PROVE  SessionInv'
  BY <1>15, SessionGoto DEF Finish, Leave
<1>16. ASSUME NEW r \in Requests, TimedOut(r)
      PROVE  SessionInv'
  BY <1>16, <1>3 DEF TimedOut
<1>17. ASSUME NEW r \in Requests, Token(r) \/ PeerLeaves(r)
      PROVE  SessionInv'
  BY <1>17, SessionKept DEF Token, PeerLeaves
<1>18. CASE UNCHANGED vars
  BY <1>18, SessionKept DEF vars, handlerVars
<1>19. ASSUME NEW r \in Requests, Proceed(r)
       PROVE  SessionInv'
  BY <1>19, <1>2, <1>4, <1>5, <1>6, <1>7, <1>8, <1>9, <1>10, <1>11, <1>12, <1>13, <1>14, <1>15, SessionLoad, SessionSave DEF Proceed
<1> QED BY <1>1, <1>2, <1>16, <1>17, <1>18, <1>19, SessionExpire DEF Next

\* What Redis has of a session is whole turns, at most max_turns of them, each
\* once, however the requests of the session overlap, fail and expire.
THEOREM SessionsStayWhole == Spec => []SessionPaired
<1>1. SessionInv => SessionPaired
  <2> SUFFICES ASSUME SessionInv, NEW s \in Sessions
               PROVE  \E n \in 0 .. MaxTurns : \E turns \in [1 .. n -> Turns] :
                        IsInjective(turns) /\ stored[s] = Transcript(turns)
    BY DEF SessionPaired
  <2>1. PICK turns \in Seq(Turns) : /\ Len(turns) <= MaxTurns /\ IsInjective(turns)
                                    /\ stored[s] = Transcript(turns)
    BY DEF SessionInv, Whole
  <2>2. Len(turns) \in 0 .. MaxTurns /\ turns \in [1 .. Len(turns) -> Turns]
    BY <2>1, AskAssumption
  <2> QED BY <2>1, <2>2
<1>2. Init => Shape /\ SessionInv
  BY ShapeInit, SessionInit
<1>3. Shape /\ SessionInv /\ [Next]_vars => (Shape /\ SessionInv)'
  BY ShapeNext, SessionNext
<1> QED BY <1>1, <1>2, <1>3, PTL DEF Spec

\* Every variable of the handlers always has its type.
THEOREM TypeCorrect == Spec => []TypeOK
<1>1. Shape /\ OutShape /\ SessionInv /\ (\A i \in Ips : counts[i] \in 0 .. IpMax) => TypeOK
  BY DEF Shape, OutShape, SessionInv, TypeOK
<1>2. Init => Shape /\ TalkInv /\ SessionInv
  BY ShapeInit, TalkInit, SessionInit
<1>3. Shape /\ TalkInv /\ SessionInv /\ [Next]_vars => (Shape /\ TalkInv /\ SessionInv)'
  BY ShapeNext, TalkNext, SessionNext
<1>4. TalkInv => OutShape
  BY DEF TalkInv
<1>5. (\A i \in Ips : counts[i] \in 0 .. IpMax /\ Cardinality(Holders(i)) <= IpMax)
        => \A i \in Ips : counts[i] \in 0 .. IpMax
  OBVIOUS
<1> QED BY <1>1, <1>2, <1>3, <1>4, <1>5, AddressCapHolds, PTL DEF Spec

-------------------------------------------------------------------------------
(* The handlers and the pool of permits                                    *)

LEMMA LeavePool ==
  ASSUME PoolInv, NEW r \in Requests, Leave(r)
  PROVE  Pool!PoolNext \/ UNCHANGED poolVars
<1>1. \A c \in Owned(r) : c \in Requests \X {"probe", "wait"}
  BY DEF Owned, PoolInv, PoolCalls
<1> QED BY <1>1 DEF Leave, Pool!PoolNext

LEMMA PoolStep ==
  ASSUME PoolInv, [Next]_vars
  PROVE  Pool!PoolNext \/ UNCHANGED poolVars
<1>0. \A r \in Requests : /\ ProbeCall(r) \in Requests \X {"probe", "wait"}
                          /\ MainCall(r) \in Requests \X {"probe", "wait"}
  BY DEF ProbeCall, MainCall
<1>1. ASSUME NEW r \in Requests, Arrive(r) \/ Enter(r)
      PROVE  UNCHANGED poolVars
  BY <1>1 DEF Arrive, Enter, Malformed, Locate, Call, TooMany, Admit
<1>2. ASSUME NEW r \in Requests, Probed(r) \/ Located(r) \/ Assembled(r) \/ Pin(r) \/ Load(r) \/ Granted(r)
      PROVE  UNCHANGED poolVars
  BY <1>2 DEF Probed, Located, Assembled, Pin, Load, Granted
<1>3. ASSUME NEW r \in Requests, Generated(r) \/ Save(r) \/ Token(r) \/ PeerLeaves(r)
      PROVE  UNCHANGED poolVars
  BY <1>3 DEF Generated, Save, Token, PeerLeaves
<1>4. ASSUME NEW r \in Requests, FailStream(r) \/ Replied(r) \/ GenerationFailed(r) \/ Finish(r)
      PROVE  Pool!PoolNext \/ UNCHANGED poolVars
  BY <1>4, LeavePool DEF FailStream, Replied, GenerationFailed, Finish
<1>5. ASSUME NEW r \in Requests, Announce(r) \/ Acquire(r) \/ TimedOut(r)
      PROVE  Pool!PoolNext
  BY <1>0, <1>5 DEF Announce, Acquire, TimedOut, Pool!PoolNext
<1>6. ASSUME NEW r \in Requests, Proceed(r)
      PROVE  Pool!PoolNext \/ UNCHANGED poolVars
  BY <1>6, <1>1, <1>2, <1>3, <1>4, <1>5 DEF Proceed
<1>7. ASSUME NEW s \in Sessions, Expire(s)
      PROVE  UNCHANGED poolVars
  BY <1>7 DEF Expire
<1>8. CASE UNCHANGED vars
  BY <1>8 DEF vars
<1> QED BY <1>1, <1>3, <1>5, <1>6, <1>7, <1>8 DEF Next

\* What the handlers do to the permits is what PermitPool allows its callers: they
\* return no permit that they do not own and make no call twice.
THEOREM HandlersUsePool == Spec => Pool!PoolSpec
<1>1. Init => Shape /\ PoolInv /\ CallInv /\ Pool!PoolInit
  BY ShapeInit, PoolInvInit DEF Init
<1>2. Shape /\ PoolInv /\ CallInv /\ [Next]_vars => (Shape /\ PoolInv /\ CallInv)'
  BY ShapeNext, CallsNext
<1>3. PoolInv /\ [Next]_vars => [Pool!PoolNext]_(Pool!poolVars)
  BY PoolStep DEF poolVars, Pool!poolVars
<1> QED BY <1>1, <1>2, <1>3, PTL DEF Spec, Pool!PoolSpec

\* The permits are those in the pool and those owned.
PoolCount == IsFiniteSet(owner) /\ free + Cardinality(owner) = Permits

LEMMA PoolCountNext ==
  ASSUME PoolInv, PoolCount, Pool!PoolNext \/ UNCHANGED poolVars
  PROVE  PoolCount'
<1>0. Cardinality(owner) \in Nat
  BY FS_CardinalityType DEF PoolCount
<1>1. CASE UNCHANGED poolVars
  BY <1>1 DEF poolVars, PoolCount
<1>2. ASSUME NEW c \in PoolCalls, Pool!Take(c)
      PROVE  PoolCount'
  <2>1. owner' = owner \union {c} /\ c \notin owner /\ free' = free - 1
    BY <1>2 DEF Pool!Take, Pool!Outside
  <2>2. IsFiniteSet(owner') /\ Cardinality(owner') = Cardinality(owner) + 1
    BY <2>1, FS_AddElement DEF PoolCount
  <2> QED BY <1>0, <2>1, <2>2 DEF PoolCount, PoolInv
<1>3. ASSUME NEW c \in PoolCalls, Pool!Wait(c) \/ Pool!Refuse(c)
      PROVE  PoolCount'
  BY <1>3 DEF Pool!Wait, Pool!Refuse, PoolCount
<1>4. ASSUME NEW c \in PoolCalls, Pool!Return(c)
      PROVE  PoolCount'
  <2>1. c \in owner /\ IsFiniteSet(owner \ {c}) /\ Cardinality(owner \ {c}) = Cardinality(owner) - 1
    BY <1>4, FS_RemoveElement DEF Pool!Return, PoolCount
  <2>2. CASE free' = free + 1 /\ owner' = owner \ {c}
    BY <1>0, <2>1, <2>2 DEF PoolCount, PoolInv
  <2>3. CASE line # <<>> /\ owner' = (owner \ {c}) \union {Head(line)} /\ free' = free
    <3>1. Head(line) \notin owner
      <4>1. 1 \in DOMAIN line /\ line[1] = Head(line)
        BY <2>3 DEF PoolInv
      <4> QED BY <4>1 DEF PoolInv, Queued
    <3>2. IsFiniteSet(owner') /\ Cardinality(owner') = Cardinality(owner \ {c}) + 1
      BY <2>1, <2>3, <3>1, FS_AddElement
    <3> QED BY <1>0, <2>1, <2>3, <3>2 DEF PoolCount, PoolInv
  <2> QED BY <1>4, <2>2, <2>3 DEF Pool!Return
<1> QED BY <1>1, <1>2, <1>3, <1>4 DEF Pool!PoolNext, PoolCalls

\* At most LLM_GLOBAL_CONCURRENCY requests talk to the LLM at a time, however they
\* came by their permits.
THEOREM FewGenerate ==
  Spec => [](Cardinality({r \in Requests : pc[r] \in Generating}) <= Permits)
<1>1. ASSUME Shape, PoolInv, CallInv, PoolCount
      PROVE  Cardinality({r \in Requests : pc[r] \in Generating}) <= Permits
  <2> DEFINE G == {r \in Requests : pc[r] \in Generating}
             mine == [r \in G |-> IF ProbeCall(r) \in owner THEN ProbeCall(r) ELSE MainCall(r)]
  <2>1. \A r \in G : mine[r] \in owner /\ mine[r][1] = r
    BY <1>1 DEF CallInv, ProbeCall, MainCall
  <2>2. mine \in [G -> owner]
    BY <2>1
  <2>3. \A a, b \in G : mine[a] = mine[b] => a = b
    BY <2>1
  <2>4. mine \in Injection(G, owner)
    BY <2>2, <2>3 DEF Injection, IsInjective
  <2>5. Cardinality(G) <= Cardinality(owner)
    BY <1>1, <2>4, FS_Injection DEF PoolCount
  <2>6. free \in Nat /\ Cardinality(owner) \in Nat /\ Permits \in Nat
    BY <1>1, AskAssumption, FS_CardinalityType DEF PoolInv, PoolCount
  <2>7. Cardinality(G) \in Nat
    BY AskAssumption, FS_Subset, FS_CardinalityType
  <2> HIDE DEF G
  <2>8. Cardinality(G) <= Permits
    BY <1>1, <2>5, <2>6, <2>7 DEF PoolCount
  <2> QED BY <2>8 DEF G
<1>2. Init => Shape /\ PoolInv /\ CallInv /\ PoolCount
  <2>1. Init => PoolCount
    BY AskAssumption, FS_EmptySet DEF Init, Pool!PoolInit, PoolCount
  <2> QED BY <2>1, ShapeInit, PoolInvInit
<1>3. Shape /\ PoolInv /\ CallInv /\ PoolCount /\ [Next]_vars => (Shape /\ PoolInv /\ CallInv /\ PoolCount)'
  BY ShapeNext, CallsNext, PoolStep, PoolCountNext
<1> QED BY <1>1, <1>2, <1>3, PTL DEF Spec

===============================================================================
