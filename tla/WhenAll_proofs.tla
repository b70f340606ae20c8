---------------------------- MODULE WhenAll_proofs ----------------------------
(***************************************************************************)
(* Proofs about WhenAll for any finite set of tasks.                       *)
(***************************************************************************)
EXTENDS WhenAll, FiniteSetTheorems, TLAPS

\* The tasks that have not counted down.
Left == {t \in Tasks : stage[t] \in {"idle", "running", "settled"}}

\* The counter counts them.
Counter == remaining = Cardinality(Left)

\* At most one task carries the resume, after everybody has counted down.
Carrier ==
  /\ \A t \in Tasks : stage[t] \in {"last", "resuming"} =>
       /\ remaining = 0
       /\ \A u \in Tasks : stage[u] \in {"last", "resuming"} => u = t
  /\ \A t \in Tasks : stage[t] = "resuming" => caller = "suspended"

\* Where the caller can be, given the handle and the counter.
Caller ==
  /\ caller = "suspended" => waiter
  /\ waiter => caller \in {"suspended", "resumed", "done"}
  /\ waiter => \A t \in Tasks : stage[t] = "last" => caller = "suspended"
  /\ caller = "registering" /\ remaining = 0 => \E t \in Tasks : stage[t] = "last"
  /\ caller = "suspended" /\ remaining = 0 => \E t \in Tasks : stage[t] \in {"last", "resuming"}
  /\ caller \in {"resumed", "done"} => remaining = 0
  /\ answer = IF caller = "done" THEN Rethrown ELSE Nothing

\* Only tasks that have ended have stored an exception.
Errors == Stored \subseteq Ended

Inv == TypeOK /\ Counter /\ Carrier /\ Caller /\ Errors

LEMMA LeftFinite ==
  ASSUME NEW S \in SUBSET Tasks
  PROVE  /\ IsFiniteSet(S)
         /\ Cardinality(S) \in Nat /\ Cardinality(S) <= Cardinality(Tasks)
         /\ Cardinality(S) = 0 <=> S = {}
  BY FS_Subset, FS_CardinalityType, FS_EmptySet, WhenAllAssumption

LEMMA RethrownType ==
  ASSUME TypeOK
  PROVE  /\ Rethrown \in Tasks \union {Values}
         /\ Stored = {} => Rethrown = Values
         /\ Stored # {} => Rethrown \in Stored
         /\ First \in Stored => Rethrown = First
<1>1. errors \in Seq(Tasks) /\ Len(errors) \in Nat /\ \A i \in 1 .. Len(errors) : errors[i] \in Tasks
  BY DEF TypeOK
<1>2. CASE errors = <<>>
  BY <1>2 DEF Rethrown, Stored
<1>3. CASE errors # <<>>
  <2>1. Len(errors) > 0 /\ 1 \in 1 .. Len(errors) /\ Head(errors) = errors[1]
    BY <1>1, <1>3
  <2>2. Head(errors) \in Stored /\ Stored \subseteq Tasks
    BY <1>1, <2>1 DEF Stored
  <2>3. Rethrown = IF First \in Stored THEN First ELSE Head(errors)
    BY <1>3 DEF Rethrown
  <2> QED BY <2>2, <2>3
<1> QED BY <1>2, <1>3

LEMMA InvInit == Init => Inv
<1> SUFFICES ASSUME Init PROVE Inv OBVIOUS
<1>1. Left = Tasks /\ Stored = {}
  BY DEF Init, Left, Stored
<1>2. Cardinality(Tasks) \in Nat /\ Cardinality(Tasks) # 0
  BY LeftFinite, WhenAllAssumption
<1>3. TypeOK
  <2>1. remaining \in 0 .. Cardinality(Tasks)
    BY <1>2 DEF Init
  <2>2. stage \in [Tasks -> Stages]
    BY DEF Init, Stages
  <2>3. errors \in Seq(Tasks)
    BY DEF Init
  <2>6. waiter \in BOOLEAN
    BY DEF Init
  <2>5. answer \in Tasks \union {Values, Nothing}
    BY DEF Init
  <2>4. holder = "free" /\ caller = "launching"
    BY DEF Init
  <2> QED BY <2>1, <2>2, <2>3, <2>4, <2>5, <2>6 DEF TypeOK
<1> QED BY <1>1, <1>2, <1>3 DEF Init, Inv, Counter, Carrier, Caller, Errors

\* A task that does not count down leaves the counter right.
LEMMA SameLeft ==
  ASSUME Counter, NEW t \in Tasks, UNCHANGED remaining, stage \in [Tasks -> Stages],
         NEW s, stage' = [stage EXCEPT ![t] = s],
         stage[t] \in {"idle", "running", "settled"} <=> s \in {"idle", "running", "settled"}
  PROVE  Counter' /\ Left' = Left
<1>1. Left' = Left
  BY DEF Left
<1> QED BY <1>1 DEF Counter

LEMMA TaskStep ==
  ASSUME Inv, NEW t \in Tasks, TaskNext(t)
  PROVE  Inv'
<1> USE DEF Inv
<1>1. CASE Launch(t)
  <2>1. Counter'
    BY <1>1, SameLeft DEF Launch, StageTo, TypeOK
  <2>2. TypeOK'
    BY <1>1 DEF Launch, StageTo, TypeOK, Stages
  <2>3. Carrier' /\ Caller'
    BY <1>1 DEF Launch, StageTo, TypeOK, Carrier, Caller, Rethrown, Stored
  <2>4. Errors'
    BY <1>1 DEF Launch, StageTo, TypeOK, Errors, Stored, Ended
  <2> QED BY <2>1, <2>2, <2>3, <2>4
<1>2. CASE Return(t)
  <2>1. Counter'
    BY <1>2, SameLeft DEF Return, StageTo, TypeOK
  <2>2. TypeOK'
    BY <1>2 DEF Return, StageTo, TypeOK, Stages
  <2>3. Carrier' /\ Caller'
    BY <1>2 DEF Return, StageTo, TypeOK, Carrier, Caller, Rethrown, Stored
  <2>4. Errors'
    BY <1>2 DEF Return, StageTo, TypeOK, Errors, Stored, Ended
  <2> QED BY <2>1, <2>2, <2>3, <2>4
<1>3. CASE Throw(t)
  <2>1. Counter' /\ Left' = Left
    BY <1>3, SameLeft DEF Throw, StageTo, TypeOK
  <2>2. TypeOK'
    BY <1>3 DEF Throw, Keep, StageTo, TypeOK, Stages
  <2>3. Carrier'
    BY <1>3 DEF Throw, StageTo, TypeOK, Carrier
  <2>4. remaining # 0
    <3>1. t \in Left
      BY <1>3 DEF Throw, Left
    <3> QED BY <3>1, LeftFinite DEF Counter, Left
  <2>5. Caller'
    BY <1>3, <2>4 DEF Throw, StageTo, TypeOK, Caller
  <2>6. Errors'
    <3>1. Len(errors') = Len(errors) + 1 /\ errors'[Len(errors) + 1] = t
          /\ \A i \in 1 .. Len(errors) : errors'[i] = errors[i]
      BY <1>3 DEF Throw, Keep, TypeOK
    <3>2. Stored' \subseteq Stored \union {t}
      BY <3>1 DEF Stored, TypeOK
    <3>3. t \in Ended' /\ Ended \subseteq Ended'
      BY <1>3 DEF Throw, StageTo, TypeOK, Ended
    <3> QED BY <3>2, <3>3 DEF Errors
  <2> QED BY <2>1, <2>2, <2>3, <2>5, <2>6
<1>4. CASE CountOut(t)
  <2>1. t \in Left /\ Left \in SUBSET Tasks
    BY <1>4 DEF CountOut, Left
  <2>2. Left' = Left \ {t}
    BY <1>4 DEF CountOut, StageTo, TypeOK, Left
  <2>3. Cardinality(Left \ {t}) = Cardinality(Left) - 1
    BY <2>1, LeftFinite, FS_RemoveElement
  <2>4. Counter'
    BY <1>4, <2>2, <2>3 DEF CountOut, Counter
  <2>5. remaining \in Nat /\ remaining # 0
    BY <2>1, LeftFinite DEF Counter
  <2>6. TypeOK'
    BY <1>4, <2>5, LeftFinite DEF CountOut, StageTo, TypeOK, Stages
  <2>7. Carrier'
    BY <1>4, <2>5 DEF CountOut, StageTo, TypeOK, Carrier
  <2>8. \A u \in Tasks : stage[u] \in {"last", "resuming"} => FALSE
    BY <2>5 DEF Carrier
  <2>9. remaining' = 0 => stage'[t] = "last"
    BY <1>4 DEF CountOut, StageTo, TypeOK
  <2>10. Caller'
    BY <1>4, <2>5, <2>9 DEF CountOut, Caller, Rethrown, Stored
  <2>11. Errors'
    BY <1>4 DEF CountOut, StageTo, TypeOK, Errors, Stored, Ended
  <2> QED BY <2>4, <2>6, <2>7, <2>10, <2>11
<1>5. CASE TakeHandle(t)
  <2>1. Counter'
    BY <1>5, SameLeft DEF TakeHandle, StageTo, TypeOK
  <2>2. TypeOK'
    BY <1>5 DEF TakeHandle, StageTo, TypeOK, Stages
  <2>3. remaining = 0 /\ caller # "registering"
    BY <1>5 DEF TakeHandle, Carrier, TypeOK
  <2>4. waiter => caller = "suspended"
    BY <1>5 DEF TakeHandle, Caller, TypeOK, Carrier
  <2>5. Carrier'
    BY <1>5, <2>4 DEF TakeHandle, StageTo, TypeOK, Carrier
  <2>6. Caller'
    BY <1>5, <2>3 DEF TakeHandle, StageTo, TypeOK, Caller, Rethrown, Stored
  <2>7. Errors'
    BY <1>5 DEF TakeHandle, StageTo, TypeOK, Errors, Stored, Ended
  <2> QED BY <2>1, <2>2, <2>5, <2>6, <2>7
<1>6. CASE Resume(t)
  <2>1. Counter'
    BY <1>6, SameLeft DEF Resume, StageTo, TypeOK
  <2>2. caller = "suspended" /\ remaining = 0 /\ waiter
    BY <1>6 DEF Resume, Carrier, Caller
  <2>3. TypeOK'
    BY <1>6, <2>2 DEF Resume, StageTo, TypeOK, Stages
  <2>4. Carrier'
    BY <1>6 DEF Resume, StageTo, TypeOK, Carrier
  <2>5. Caller'
    <3>1. \A u \in Tasks : stage'[u] # "last"
      BY <1>6 DEF Resume, StageTo, TypeOK, Carrier
    <3> QED BY <1>6, <2>2, <3>1 DEF Resume, Caller, Rethrown, Stored
  <2>6. Errors'
    BY <1>6 DEF Resume, StageTo, TypeOK, Errors, Stored, Ended
  <2> QED BY <2>1, <2>3, <2>4, <2>5, <2>6
<1> QED BY <1>1, <1>2, <1>3, <1>4, <1>5, <1>6 DEF TaskNext

LEMMA CallerStep ==
  ASSUME Inv, CallerNext
  PROVE  Inv'
<1> USE DEF Inv
<1>1. UNCHANGED <<stage, remaining, errors>>
  BY DEF CallerNext, Launched, Ask, Lock, Recheck, Register, Finish
<1>2. Counter' /\ Errors'
  BY <1>1 DEF Counter, Left, Errors, Stored, Ended
<1>3. Rethrown' = Rethrown
  BY <1>1 DEF Rethrown, Stored
<1>4. TypeOK'
  BY RethrownType DEF CallerNext, Launched, Ask, Lock, Recheck, Register, Finish, CallerTo, TypeOK
<1>5. Carrier'
  BY DEF CallerNext, Launched, Ask, Lock, Recheck, Register, Finish, CallerTo, TypeOK, Carrier
<1>6. Caller'
  BY <1>3 DEF CallerNext, Launched, Ask, Lock, Recheck, Register, Finish, CallerTo, TypeOK, Caller
<1> QED BY <1>2, <1>4, <1>5, <1>6

\* Inv is an invariant of every behaviour.
THEOREM WhenAllInvariance == Spec => []Inv
<1>1. Inv /\ [Next]_vars => Inv'
  <2> SUFFICES ASSUME Inv, [Next]_vars PROVE Inv' OBVIOUS
  <2>1. CASE UNCHANGED vars
    BY <2>1 DEF vars, Inv, TypeOK, Counter, Left, Carrier, Caller, Errors, Rethrown, Stored, Ended
  <2>2. CASE Next
    BY <2>2, TaskStep, CallerStep DEF Next
  <2> QED BY <2>1, <2>2
<1> QED BY <1>1, InvInit, PTL DEF Spec

\* The state keeps its type: the counter never goes below zero.
THEOREM WhenAllTypeCorrect == Spec => []TypeOK
<1>1. Inv => TypeOK
  BY DEF Inv
<1> QED BY <1>1, WhenAllInvariance, PTL

\* A suspended caller is always going to be resumed.
THEOREM WhenAllNoLostWakeup == Spec => []NoLostWakeup
<1>1. Inv => NoLostWakeup
  <2> SUFFICES ASSUME Inv, caller = "suspended" PROVE \E t \in Tasks : stage[t] # "out"
    BY DEF NoLostWakeup
  <2>1. CASE remaining = 0
    BY <2>1 DEF Inv, Caller
  <2>2. CASE remaining # 0
    <3>1. Left # {}
      BY <2>2, LeftFinite DEF Inv, Counter, Left
    <3> QED BY <3>1 DEF Left
  <2> QED BY <2>1, <2>2
<1> QED BY <1>1, WhenAllInvariance, PTL

\* The caller is resumed by one task, and only while it is suspended.
THEOREM WhenAllSingleResume == Spec => []ResumeOnlySuspended
<1>1. Inv => ResumeOnlySuspended
  BY DEF Inv, Carrier, ResumeOnlySuspended
<1> QED BY <1>1, WhenAllInvariance, PTL

LEMMA AllCounted ==
  ASSUME Inv, remaining = 0
  PROVE  /\ Left = {} /\ Ended = Tasks
         /\ \A t \in Tasks : stage[t] \notin {"idle", "running", "settled"}
<1>1. Left = {}
  BY LeftFinite DEF Inv, Counter, Left
<1> QED BY <1>1 DEF Left, Ended

\* The results are read after every task has stored its own.
THEOREM WhenAllResumedAfterAll == Spec => []ResumedAfterAll
<1>1. Inv => ResumedAfterAll
  BY AllCounted DEF Inv, Caller, ResumedAfterAll
<1> QED BY <1>1, WhenAllInvariance, PTL

\* Task A's exception wins when both throw.
THEOREM WhenAllPriority == Spec => []FirstHasPriority
<1>1. Inv => FirstHasPriority
  BY RethrownType, WhenAllAssumption DEF Inv, Caller, FirstHasPriority
<1> QED BY <1>1, WhenAllInvariance, PTL

\* Every step of the fan-out is a step of the contract or changes nothing of it.
LEMMA ContractStep ==
  ASSUME Inv, Inv', [Next]_vars
  PROVE  [Contract!Next]_<<Ended, Stored, answer>>
<1>1. CASE UNCHANGED vars
  BY <1>1 DEF vars, Ended, Stored
<1>2. ASSUME NEW t \in Tasks, TaskNext(t) PROVE [Contract!Next]_<<Ended, Stored, answer>>
  <2> USE DEF Inv
  <2>1. CASE Throw(t) \/ Return(t)
    <3>1. t \notin Ended /\ Ended' = Ended \union {t} /\ UNCHANGED answer
      BY <2>1 DEF Throw, Return, StageTo, TypeOK, Ended
    <3>2. CASE Return(t)
      <4>1. Stored' = Stored
        BY <3>2 DEF Return, Stored
      <4> QED BY <3>1, <4>1 DEF Contract!Next, Contract!End
    <3>3. CASE Throw(t)
      <4>1. Len(errors') = Len(errors) + 1 /\ errors'[Len(errors) + 1] = t
            /\ Len(errors) \in Nat /\ \A i \in 1 .. Len(errors) : errors'[i] = errors[i]
        BY <3>3 DEF Throw, Keep, TypeOK
      <4>2. Stored' = Stored \union {t}
        BY <4>1 DEF Stored
      <4> QED BY <3>1, <4>2 DEF Contract!Next, Contract!End
    <3> QED BY <2>1, <3>2, <3>3
  <2>2. CASE Launch(t) \/ CountOut(t) \/ TakeHandle(t) \/ Resume(t)
    <3>1. UNCHANGED <<answer, errors>>
      BY <2>2 DEF Launch, CountOut, TakeHandle, Resume
    <3>2. Ended' = Ended
      BY <2>2 DEF Launch, CountOut, TakeHandle, Resume, StageTo, TypeOK, Ended
    <3> QED BY <3>1, <3>2 DEF Stored
  <2> QED BY <1>2, <2>1, <2>2 DEF TaskNext
<1>3. ASSUME CallerNext PROVE [Contract!Next]_<<Ended, Stored, answer>>
  <2> USE DEF Inv
  <2>1. UNCHANGED <<Ended, Stored>>
    BY <1>3 DEF CallerNext, Launched, Ask, Lock, Recheck, Register, Finish, Ended, Stored
  <2>2. CASE Finish
    <3>1. answer = Nothing /\ answer' = Rethrown /\ remaining = 0
      BY <2>2 DEF Finish, Caller
    <3>2. Ended = Tasks
      BY <3>1, AllCounted
    <3>3. IF Stored = {} THEN answer' = Values ELSE answer' \in Stored
      BY <3>1, RethrownType
    <3> QED BY <2>1, <3>1, <3>2, <3>3 DEF Contract!Next, Contract!Answer, Contract!Nothing, Contract!Values, Nothing, Values
  <2>3. CASE ~Finish
    BY <1>3, <2>1, <2>3 DEF CallerNext, Launched, Ask, Lock, Recheck, Register
  <2> QED BY <2>2, <2>3
<1> QED BY <1>1, <1>2, <1>3 DEF Next

\* The fan-out implements the contract: one answer, after all tasks, with an
\* error exactly when a task threw one.
THEOREM WhenAllImplementation == Spec => ImplementsFanout
<1>1. Init => Contract!Init
  BY DEF Init, Contract!Init, Contract!Nothing, Nothing, Ended, Stored
<1>2. Inv /\ Inv' /\ [Next]_vars => [Contract!Next]_<<Ended, Stored, answer>>
  BY ContractStep
<1> QED BY <1>1, <1>2, WhenAllInvariance, PTL DEF Spec, ImplementsFanout, Contract!Spec
===============================================================================
