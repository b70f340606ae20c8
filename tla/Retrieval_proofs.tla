---- MODULE Retrieval_proofs ----
\* Proofs about retrieval: the start-up check of the routes, the single flight of the embedder, what
\* retrieve_anchor puts into the context, and the second pass over case law.
EXTENDS Retrieval, FiniteSetTheorems, FunctionTheorems, TLAPS

-----------------------------------------------------------------------------
\* The kinds of values that the proofs rest on.

Calls == {Idle} \cup [pc : {"look", "claim", "own", "wait", "alone", "ok", "threw"}, key : DOMAIN Routes, polls : Nat]

TypeInv == /\ corpus \subseteq Ids
           /\ hits \subseteq Terms
           /\ todo \subseteq DOMAIN Routes
           /\ probe \in [Probed -> {"none", "found", "absent", "unclear"}]
           /\ call \in [Callers -> Calls]

\* Matched routes are routes of the table, and what they force was probed.
LEMMA DecisionOfRoutes ==
  ASSUME TypeInv
  PROVE  /\ Decision.matched \subseteq DOMAIN Routes
         /\ Decision.legSynth = Decision.matched
         /\ Decision.forced = UNION {Routes[i].forced : i \in Decision.matched}
         /\ Decision.forced \subseteq Probed
         /\ Decision.triggered <=> Decision.matched # {}
         /\ Decision.allow = AllowList(Routes, Decision.matched)
<1>1. \A h \in hits : h[1] \in DOMAIN Routes
  BY DEF TypeInv, Terms
<1>2. Matched(Routes, hits) \subseteq DOMAIN Routes
  BY <1>1 DEF Matched
<1>3. Decision.matched = Matched(Routes, hits)
  BY DEF Decision, RouteDecision
<1>4. Decision.legSynth = Matched(Routes, hits)
  BY DEF Decision, RouteDecision
<1>5. Decision.forced = Forced(Routes, Matched(Routes, hits))
  BY DEF Decision, RouteDecision
<1>6. Decision.triggered <=> Matched(Routes, hits) # {}
  BY DEF Decision, RouteDecision
<1>7. Decision.allow = AllowList(Routes, Matched(Routes, hits))
  BY DEF Decision, RouteDecision
<1> QED BY <1>2, <1>3, <1>4, <1>5, <1>6, <1>7 DEF Forced, Probed

\* One step of one coroutine in embed_synth, as the request and the other callers take it.
Released(c) == (At(c, "ok") \/ At(c, "threw")) /\ call' = [call EXCEPT ![c] = Idle] /\ UNCHANGED <<cache, inflight>>
Embeds(c) == (\E k \in DOMAIN Routes : EmbedSynth(c, k)) \/ EmbedStep(c) \/ Released(c)

LEMMA CallsStayCalls ==
  ASSUME call \in [Callers -> Calls], NEW c \in Callers, Embeds(c)
  PROVE  call' \in [Callers -> Calls]
<1>1. ASSUME NEW k \in DOMAIN Routes, EmbedSynth(c, k)
      PROVE  call' \in [Callers -> Calls]
  BY <1>1 DEF EmbedSynth, Calls
<1>2. ASSUME NEW p \in {"ok", "claim", "own", "wait", "alone", "threw"}, Go(c, p), call[c].pc # "idle"
      PROVE  call' \in [Callers -> Calls]
  <2>1. call[c] \in [pc : {"look", "claim", "own", "wait", "alone", "ok", "threw"}, key : DOMAIN Routes, polls : Nat]
    BY <1>2 DEF Calls, Idle
  <2>2. [call[c] EXCEPT !.pc = p] \in Calls
    BY <2>1 DEF Calls
  <2> QED BY <1>2, <2>2 DEF Go
<1>3. ASSUME At(c, "wait"), call' = [call EXCEPT ![c].polls = @ + 1]
      PROVE  call' \in [Callers -> Calls]
  <2>1. call[c] \in [pc : {"look", "claim", "own", "wait", "alone", "ok", "threw"}, key : DOMAIN Routes, polls : Nat]
    BY <1>3 DEF Calls, Idle, At
  <2>2. [call[c] EXCEPT !.polls = @ + 1] \in Calls
    BY <2>1 DEF Calls
  <2> QED BY <1>3, <2>2
<1>4. CASE FastPath(c) \/ Claim(c)
  BY <1>2, <1>4 DEF FastPath, Claim, At
<1>5. CASE OwnerFetched(c) \/ OwnerFailed(c)
  BY <1>2, <1>5 DEF OwnerFetched, OwnerFailed, At
<1>6. CASE Poll(c)
  BY <1>2, <1>3, <1>6 DEF Poll, At
<1>7. CASE GiveUp(c) \/ FetchedAlone(c)
  BY <1>2, <1>7 DEF GiveUp, FetchedAlone, At
<1>8. CASE Released(c)
  BY <1>8 DEF Released, Calls
<1> QED BY <1>1, <1>4, <1>5, <1>6, <1>7, <1>8 DEF Embeds, EmbedStep

\* What each step of the request does to the embedder and to the start-up check.
LEMMA RequestFrame ==
  ASSUME TypeInv, Request
  PROVE  /\ UNCHANGED <<bootVars, corpus>>
         /\ Embeds(Main) \/ UNCHANGED embedVars
         /\ hits' = hits \/ hits' = {}
         /\ todo' \subseteq DOMAIN Routes
<1>1. CASE EmbedQuestion
  BY <1>1 DEF EmbedQuestion, TypeInv
<1>2. CASE AnchorThrows
  BY <1>2 DEF AnchorThrows
<1>3. CASE SearchSources
  BY <1>3, DecisionOfRoutes DEF SearchSources
<1>4. CASE EmbedSynthetic
  <2>1. UNCHANGED <<bootVars, corpus, hits>>
    BY <1>4 DEF EmbedSynthetic
  <2>2. todo' \subseteq DOMAIN Routes
    BY <1>4 DEF EmbedSynthetic, TypeInv
  <2>3. Embeds(Main) \/ UNCHANGED embedVars
    BY <1>4 DEF EmbedSynthetic, Embeds, Released, TypeInv
  <2> QED BY <2>1, <2>2, <2>3
<1>5. CASE InjectSynthetic \/ FetchMissed
  BY <1>5 DEF InjectSynthetic, FetchMissed, TypeInv
<1>6. CASE GateAndCap
  BY <1>6 DEF GateAndCap
<1>7. CASE RetrieveCases \/ Augment \/ CheckConfidence \/ Refine
  BY <1>7 DEF RetrieveCases, Augment, CheckConfidence, Refine, CasesOnly, TypeInv
<1>8. CASE Guide \/ GuideThrows \/ Answer
  BY <1>8 DEF Guide, GuideThrows, Answer, TypeInv
<1> QED BY <1>1, <1>2, <1>3, <1>4, <1>5, <1>6, <1>7, <1>8 DEF Request

LEMMA OtherFrame ==
  ASSUME NEW c \in Callers, Other(c)
  PROVE  Embeds(c) /\ UNCHANGED <<bootVars, corpus, reqVars>>
BY DEF Other, Embeds, Released

LEMMA TypeStep == TypeInv /\ [Next]_vars => TypeInv'
<1> SUFFICES ASSUME TypeInv, [Next]_vars
             PROVE  TypeInv'
  OBVIOUS
<1>1. CASE Boot
  <2>1. probe' \in [Probed -> {"none", "found", "absent", "unclear"}]
    BY <1>1 DEF Boot, ProbeAnswers, ProbeFails, Validate, TypeInv
  <2> QED BY <1>1, <2>1 DEF Boot, TypeInv, embedVars, reqVars
<1>2. CASE Assemble
  BY <1>2 DEF Assemble, TypeInv, bootVars, embedVars
<1>3. CASE Request
  <2>1. call' \in [Callers -> Calls]
    BY <1>3, RequestFrame, CallsStayCalls, RetrievalAssumption DEF TypeInv, embedVars
  <2> QED BY <1>3, <2>1, RequestFrame DEF TypeInv, bootVars
<1>4. ASSUME NEW c \in Callers, Other(c)
      PROVE  TypeInv'
  BY <1>4, OtherFrame, CallsStayCalls DEF TypeInv, bootVars, reqVars
<1>5. CASE UNCHANGED vars
  BY <1>5 DEF TypeInv, vars, bootVars, embedVars, reqVars
<1> QED BY <1>1, <1>2, <1>3, <1>4, <1>5 DEF Next

LEMMA TypeStart == Init => TypeInv
BY DEF Init, BootInit, EmbedInit, TypeInv, Calls, Probed

-----------------------------------------------------------------------------
\* The start-up check. A probe that answered told the truth, and the verdict rests on the answers.
BootInv == /\ \A s \in Probed : /\ probe[s] = "found" => s \in Indexed
                                /\ probe[s] = "absent" => s \notin Indexed
           /\ boot = "up" /\ conclusive => Probed \subseteq Indexed
           /\ RefusedForCause

\* The report is empty exactly when no probe came back with "absent".
LEMMA ReportIsAbsent == Report = {} <=> \A s \in Probed : probe[s] # "absent"
<1> DEFINE exists == {s \in Probed : probe[s] # "absent"}
<1>1. ASSUME NEW s \in Probed, probe[s] = "absent"
      PROVE  Report # {}
  <2>1. CASE s \in LowPriority
    <3>1. <<s, 0>> \in Report
      BY <1>1, <2>1 DEF Report, MissingSections
    <3> QED BY <3>1
  <2>2. CASE s \notin LowPriority
    <3>1. PICK i \in DOMAIN Routes : s \in Routes[i].forced
      BY <2>2 DEF Probed
    <3>2. <<s, i>> \in Report
      BY <1>1, <3>1 DEF Report, MissingSections
    <3> QED BY <3>2
  <2> QED BY <2>1, <2>2
<1>2. ASSUME \A s \in Probed : probe[s] # "absent"
      PROVE  Report = {}
  <2>1. exists = Probed
    BY <1>2
  <2>2. LowPriority \ exists = {}
    BY <2>1 DEF Probed
  <2>3. \A i \in DOMAIN Routes : Routes[i].forced \subseteq exists
    BY <2>1 DEF Probed
  <2> QED BY <2>2, <2>3 DEF Report, MissingSections
<1> QED BY <1>1, <1>2

LEMMA BootStep == TypeInv /\ BootInv /\ [Next]_vars => BootInv'
<1> SUFFICES ASSUME TypeInv, BootInv, [Next]_vars
             PROVE  BootInv'
  OBVIOUS
<1>1. ASSUME UNCHANGED <<bootVars, corpus>>
      PROVE  BootInv'
  BY <1>1 DEF BootInv, bootVars, Indexed, RefusedForCause
<1>2. CASE Boot
  <2>1. Indexed' = Indexed
    BY <1>2 DEF Boot, Indexed
  <2>2. ASSUME NEW s \in Probed, ProbeAnswers(s, Indexed)
        PROVE  BootInv'
    BY <2>1, <2>2 DEF ProbeAnswers, BootInv, RefusedForCause, TypeInv
  <2>3. ASSUME NEW s \in Probed, ProbeFails(s)
        PROVE  BootInv'
    BY <2>1, <2>3 DEF ProbeFails, BootInv, RefusedForCause, TypeInv
  <2>4. CASE Validate
    <3>1. \A s \in Probed : probe'[s] = "none"
      BY <2>4 DEF Validate
    <3>2. boot' = "refused" => \E s \in Probed : s \notin Indexed
      BY <2>4, ReportIsAbsent DEF Validate, BootInv
    <3>3. boot' = "up" /\ conclusive' => Probed \subseteq Indexed
      BY <2>4, ReportIsAbsent DEF Validate, BootInv
    <3> QED BY <2>1, <3>1, <3>2, <3>3 DEF BootInv, RefusedForCause
  <2> QED BY <1>2, <2>2, <2>3, <2>4 DEF Boot
<1>3. CASE Assemble
  BY <1>1, <1>3 DEF Assemble
<1>4. CASE Request
  BY <1>1, <1>4, RequestFrame
<1>5. ASSUME NEW c \in Callers, Other(c)
      PROVE  BootInv'
  BY <1>1, <1>5, OtherFrame
<1>6. CASE UNCHANGED vars
  BY <1>1, <1>6 DEF vars
<1> QED BY <1>2, <1>3, <1>4, <1>5, <1>6 DEF Next

LEMMA BootStart == Init => BootInv
BY DEF Init, BootInit, BootInv, RefusedForCause

-----------------------------------------------------------------------------
\* The single flight. That every mark has an owner is not inductive: a second coroutine could claim a key
\* that an owner is fetching, if the owner's mark were missing. So each owner's key is marked as well.
FlightInv == /\ InflightOwned
             /\ \A c \in Callers : At(c, "own") => call[c].key \in inflight

LEMMA FlightStarts == EmbedInit => FlightInv
BY DEF EmbedInit, FlightInv, InflightOwned, At, Idle

\* A step of c that moves neither to nor from "own" leaves the owners what they were.
LEMMA OwnersStay ==
  ASSUME FlightInv, call \in [Callers -> Calls], NEW c \in Callers, NEW r, ~At(c, "own"), r.pc # "own",
         call' = [call EXCEPT ![c] = r], inflight' = inflight
  PROVE  FlightInv'
<1>1. \A d \in Callers : At(d, "own")' <=> At(d, "own")
  BY DEF At
<1>2. \A d \in Callers : At(d, "own") => call'[d] = call[d]
  BY DEF At
<1> QED BY <1>1, <1>2 DEF FlightInv, InflightOwned

LEMMA FlightKept ==
  ASSUME FlightInv, call \in [Callers -> Calls], NEW c \in Callers, Embeds(c)
  PROVE  FlightInv'
<1> DEFINE r(p) == [call[c] EXCEPT !.pc = p]
<1>1. call[c].pc # "idle" => \A p : r(p).pc = p /\ r(p).key = call[c].key
  BY DEF Calls, Idle
<1>2. \A p : Go(c, p) => call' = [call EXCEPT ![c] = r(p)]
  BY DEF Go
<1> HIDE DEF r
<1>3. ASSUME NEW k \in DOMAIN Routes, EmbedSynth(c, k)
      PROVE  FlightInv'
  BY <1>3, OwnersStay DEF EmbedSynth, At
<1>4. CASE FastPath(c) \/ GiveUp(c) \/ FetchedAlone(c)
  <2>1. PICK p \in {"ok", "claim", "alone", "threw"} : Go(c, p)
    BY <1>4 DEF FastPath, GiveUp, FetchedAlone
  <2>2. ~At(c, "own") /\ call[c].pc # "idle" /\ inflight' = inflight
    BY <1>4 DEF FastPath, GiveUp, FetchedAlone, At
  <2>3. r(p).pc # "own" /\ call' = [call EXCEPT ![c] = r(p)]
    BY <1>1, <1>2, <2>1, <2>2
  <2> QED BY <2>2, <2>3, OwnersStay
<1>5. CASE Poll(c)
  <2>1. ~At(c, "own") /\ call[c].pc = "wait" /\ inflight' = inflight
    BY <1>5 DEF Poll, At
  <2>2. CASE Go(c, "ok")
    BY <1>1, <1>2, <2>1, <2>2, OwnersStay
  <2>3. CASE call' = [call EXCEPT ![c].polls = @ + 1]
    <3> DEFINE q == [call[c] EXCEPT !.polls = @ + 1]
    <3>1. q.pc = "wait" /\ call' = [call EXCEPT ![c] = q]
      BY <2>1, <2>3 DEF Calls, Idle
    <3> QED BY <2>1, <3>1, OwnersStay
  <2> QED BY <1>5, <2>2, <2>3 DEF Poll
<1>6. CASE Released(c)
  BY <1>6, OwnersStay DEF Released, At, Idle
<1>7. CASE Claim(c)
  <2> DEFINE k == call[c].key
  <2>1. ~At(c, "own") /\ call[c].pc # "idle"
    BY <1>7 DEF Claim, At
  <2>2. CASE k \in cache \/ k \in inflight
    <3>1. PICK p \in {"ok", "wait"} : Go(c, p)
      BY <1>7, <2>2 DEF Claim
    <3>2. inflight' = inflight
      BY <1>7, <2>2 DEF Claim
    <3> QED BY <1>1, <1>2, <2>1, <3>1, <3>2, OwnersStay
  <2>3. CASE k \notin cache /\ k \notin inflight
    <3>1. call' = [call EXCEPT ![c] = r("own")] /\ inflight' = inflight \cup {k}
      BY <1>2, <1>7, <2>3 DEF Claim
    <3>2. call'[c].pc = "own" /\ call'[c].key = k
      BY <1>1, <2>1, <3>1
    <3>3. \A d \in Callers \ {c} : call'[d] = call[d]
      BY <3>1
    <3>4. \A d \in Callers \ {c} : At(d, "own")' => call'[d].key \in inflight
      BY <3>3 DEF FlightInv, At
    <3>5. \A q \in inflight : \E d \in Callers \ {c} : At(d, "own") /\ call[d].key = q
      BY <2>1 DEF FlightInv, InflightOwned
    <3>6. \A q \in inflight : \E d \in Callers : At(d, "own")' /\ call'[d].key = q
      BY <3>3, <3>5 DEF At
    <3>7. At(c, "own")'
      BY <3>2 DEF At
    <3>8. \A q \in inflight' : \E d \in Callers : At(d, "own")' /\ call'[d].key = q
      BY <3>1, <3>2, <3>6, <3>7
    <3>9. \A d, e \in Callers : At(d, "own")' /\ At(e, "own")' /\ d # e => call'[d].key # call'[e].key
      BY <2>3, <3>2, <3>3, <3>4 DEF FlightInv, InflightOwned, At
    <3>10. \A d \in Callers : At(d, "own")' => call'[d].key \in inflight'
      BY <3>1, <3>2, <3>4
    <3> QED BY <3>8, <3>9, <3>10 DEF FlightInv, InflightOwned
  <2> QED BY <2>2, <2>3
<1>8. CASE OwnerFetched(c) \/ OwnerFailed(c)
  <2> DEFINE k == call[c].key
  <2>1. At(c, "own") /\ call[c].pc # "idle" /\ inflight' = inflight \ {k}
    BY <1>8 DEF OwnerFetched, OwnerFailed, At
  <2>2. PICK p \in {"ok", "threw"} : Go(c, p)
    BY <1>8 DEF OwnerFetched, OwnerFailed
  <2>3. ~At(c, "own")' /\ \A d \in Callers \ {c} : call'[d] = call[d]
    BY <1>1, <1>2, <2>1, <2>2 DEF At
  <2>4. \A d \in Callers : At(d, "own")' => d # c /\ At(d, "own") /\ call'[d].key = call[d].key
    BY <2>3 DEF At
  <2>5. \A d \in Callers : At(d, "own")' => call'[d].key \in inflight'
    BY <2>1, <2>4 DEF FlightInv, InflightOwned
  <2>6. \A q \in inflight' : \E d \in Callers : At(d, "own")' /\ call'[d].key = q
    <3> SUFFICES ASSUME NEW q \in inflight'
                 PROVE  \E d \in Callers : At(d, "own")' /\ call'[d].key = q
      OBVIOUS
    <3>1. PICK d \in Callers : At(d, "own") /\ call[d].key = q
      BY <2>1 DEF FlightInv, InflightOwned
    <3>2. d # c
      BY <2>1, <3>1
    <3> QED BY <2>3, <3>1, <3>2 DEF At
  <2> QED BY <2>4, <2>5, <2>6 DEF FlightInv, InflightOwned
<1> QED BY <1>3, <1>4, <1>5, <1>6, <1>7, <1>8 DEF Embeds, EmbedStep

LEMMA FlightStep == TypeInv /\ FlightInv /\ [Next]_vars => FlightInv'
<1> SUFFICES ASSUME TypeInv, FlightInv, [Next]_vars
             PROVE  FlightInv'
  OBVIOUS
<1>1. ASSUME UNCHANGED embedVars
      PROVE  FlightInv'
  BY <1>1 DEF FlightInv, InflightOwned, At, embedVars
<1>2. CASE Boot \/ Assemble
  BY <1>1, <1>2 DEF Boot, Assemble
<1>3. CASE Request
  BY <1>1, <1>3, RequestFrame, FlightKept, RetrievalAssumption DEF TypeInv
<1>4. ASSUME NEW c \in Callers, Other(c)
      PROVE  FlightInv'
  BY <1>4, OtherFrame, FlightKept DEF TypeInv
<1>5. CASE UNCHANGED vars
  BY <1>1, <1>5 DEF vars
<1> QED BY <1>2, <1>3, <1>4, <1>5 DEF Next

-----------------------------------------------------------------------------
\* Counting by rank, of the candidates in their order and of cases by their score: how many members of a
\* finite set come before a given one.
Rank(S, p, a) == Cardinality({o \in S : p[o] < p[a]})

\* A rank is less than the number of members.
LEMMA RankInRange ==
  ASSUME NEW S, IsFiniteSet(S), NEW p \in [S -> Int], NEW a \in S
  PROVE  /\ Cardinality(S) \in Nat
         /\ Rank(S, p, a) \in 0..(Cardinality(S) - 1)
<1> DEFINE A == {o \in S : p[o] < p[a]}
<1>1. A \subseteq S /\ a \notin A
  OBVIOUS
<1>2. IsFiniteSet(A) /\ Cardinality(A) <= Cardinality(S) /\ (Cardinality(A) = Cardinality(S) => A = S)
  BY <1>1, FS_Subset
<1>3. Cardinality(A) \in Nat /\ Cardinality(S) \in Nat
  BY <1>2, FS_CardinalityType
<1> HIDE DEF A
<1>4. Cardinality(A) # Cardinality(S)
  BY <1>1, <1>2
<1>5. Cardinality(A) \in 0..(Cardinality(S) - 1)
  BY <1>2, <1>3, <1>4
<1> QED BY <1>3, <1>5 DEF A, Rank

\* Who comes before has the lower rank.
LEMMA RankRises ==
  ASSUME NEW S, IsFiniteSet(S), NEW p \in [S -> Int], NEW a \in S, NEW b \in S, p[a] < p[b]
  PROVE  Rank(S, p, a) < Rank(S, p, b)
<1> DEFINE A == {o \in S : p[o] < p[a]}
           B == {o \in S : p[o] < p[b]}
<1>1. A \subseteq B /\ a \in B /\ a \notin A
  OBVIOUS
<1>2. IsFiniteSet(A) /\ IsFiniteSet(B)
  BY FS_Subset
<1>3. Cardinality(A) <= Cardinality(B) /\ (Cardinality(A) = Cardinality(B) => A = B)
  BY <1>1, <1>2, FS_Subset
<1>4. Cardinality(A) \in Nat /\ Cardinality(B) \in Nat
  BY <1>2, FS_CardinalityType
<1> HIDE DEF A, B
<1>5. Cardinality(A) < Cardinality(B)
  BY <1>1, <1>3, <1>4
<1> QED BY <1>5 DEF A, B, Rank

\* With no ties, different members have different ranks.
LEMMA RanksDiffer ==
  ASSUME NEW S, IsFiniteSet(S), NEW p \in [S -> Int], \A a, b \in S : p[a] = p[b] => a = b,
         NEW a \in S, NEW b \in S, Rank(S, p, a) = Rank(S, p, b)
  PROVE  a = b
<1>1. Rank(S, p, a) \in Nat
  BY RankInRange
<1>2. ~(p[a] < p[b]) /\ ~(p[b] < p[a])
  BY <1>1, RankRises
<1>3. p[a] \in Int /\ p[b] \in Int
  OBVIOUS
<1>4. p[a] = p[b]
  BY <1>2, <1>3
<1> QED BY <1>4

\* So the members of rank less than n are at most n.
LEMMA CutBounded ==
  ASSUME NEW S, IsFiniteSet(S), NEW p \in [S -> Int], \A a, b \in S : p[a] = p[b] => a = b, NEW n \in Nat
  PROVE  /\ IsFiniteSet({a \in S : Rank(S, p, a) < n})
         /\ Cardinality({a \in S : Rank(S, p, a) < n}) <= n
<1> DEFINE C == {a \in S : Rank(S, p, a) < n}
           f == [a \in C |-> Rank(S, p, a)]
<1>1. \A a \in C : Rank(S, p, a) \in 0..(n - 1)
  BY RankInRange
<1>2. f \in [C -> 0..(n - 1)]
  BY <1>1
<1>3. \A a, b \in C : f[a] = f[b] => a = b
  BY RanksDiffer
<1>4. f \in Injection(C, 0..(n - 1))
  BY <1>2, <1>3, Fun_IsInj
<1>5. IsFiniteSet(0..(n - 1)) /\ Cardinality(0..(n - 1)) = n
  BY FS_Interval
<1> HIDE DEF C, f
<1>6. IsFiniteSet(C) /\ Cardinality(C) <= n
  BY <1>4, <1>5, FS_Injection
<1> QED BY <1>6 DEF C

\* And every rank below the number of members is somebody's.
LEMMA RankOnto ==
  ASSUME NEW S, IsFiniteSet(S), NEW p \in [S -> Int], \A a, b \in S : p[a] = p[b] => a = b,
         NEW i \in 0..(Cardinality(S) - 1)
  PROVE  \E a \in S : Rank(S, p, a) = i
<1> DEFINE n == Cardinality(S)
           f == [a \in S |-> Rank(S, p, a)]
<1>1. n \in Nat
  BY FS_CardinalityType
<1>2. f \in [S -> 0..(n - 1)]
  BY RankInRange
<1>3. \A a, b \in S : f[a] = f[b] => a = b
  BY RanksDiffer
<1>4. f \in Injection(S, 0..(n - 1))
  BY <1>2, <1>3, Fun_IsInj
<1>5. IsFiniteSet(0..(n - 1)) /\ Cardinality(0..(n - 1)) = n
  BY <1>1, FS_Interval
<1>6. f \in Surjection(S, 0..(n - 1))
  BY <1>4, <1>5, FS_Injection
<1> HIDE DEF f
<1>7. \A t \in 0..(n - 1) : \E a \in S : f[a] = t
  BY <1>6, Fun_SurjectionProperties
<1> QED BY <1>7 DEF f

-----------------------------------------------------------------------------
\* The candidates have an order: two chunks of sources that are searched never share a place.
LEMMA NextRow == \A n, u, v \in Nat : u < v => n * u + n <= n * v
<1> SUFFICES ASSUME NEW n \in Nat, NEW u \in Nat, NEW v \in Nat, u < v
             PROVE  n * u + n <= n * v
  OBVIOUS
<1> DEFINE w == v - (u + 1)
<1>1. w \in Nat /\ v = (u + 1) + w
  OBVIOUS
<1>2. n * w \in Nat
  BY <1>1
<1>3. n * v = n * u + n + n * w
  BY <1>1
<1>4. n * u \in Nat
  OBVIOUS
<1> QED BY <1>2, <1>3, <1>4

Placed(id) == \E i \in DOMAIN Sources : Sources[i].act = Act(id)

LEMMA PositionsDiffer ==
  ASSUME NEW a \in Ids, NEW b \in Ids, Placed(a), Placed(b)
  PROVE  Position(a) \in Int /\ (Position(a) = Position(b) => a = b)
<1> DEFINE n == Len(Similar)
           I(x) == CHOOSE i \in DOMAIN Sources : Sources[i].act = Act(x)
           J(x) == CHOOSE j \in DOMAIN Similar : Similar[j] = x
<1>1. n \in Nat /\ DOMAIN Similar = 1..n
  BY RetrievalAssumption
<1>2. \A x \in Ids : \E j \in DOMAIN Similar : Similar[j] = x
  BY RetrievalAssumption DEF ToSet
<1>3. \A x \in Ids : J(x) \in 1..n /\ Similar[J(x)] = x
  BY <1>1, <1>2
<1>4. I(a) \in Nat /\ I(b) \in Nat
  BY RetrievalAssumption DEF Placed
<1>5. Position(a) = n * I(a) + J(a) /\ Position(b) = n * I(b) + J(b)
  BY DEF Position
<1> HIDE DEF I, J
<1>6. PICK i \in Nat, k \in Nat, j \in 1..n, l \in 1..n : i = I(a) /\ k = I(b) /\ j = J(a) /\ l = J(b)
  BY <1>3, <1>4
<1> HIDE DEF n
<1>7. Position(a) = n * i + j /\ Position(b) = n * k + l
  BY <1>5, <1>6
<1>8. Position(a) \in Int
  BY <1>1, <1>6, <1>7
<1>9. ASSUME Position(a) = Position(b)
      PROVE  a = b
  <2>1. PICK r \in Nat, q \in Nat : r = n * i /\ q = n * k
    BY <1>1, <1>6
  <2>2. r + j = q + l
    BY <1>7, <1>9, <2>1
  <2>3. (i < k => r + n <= q) /\ (k < i => q + n <= r)
    BY <1>1, <1>6, <2>1, NextRow
  <2>4. n \in Nat /\ j \in 1..n /\ l \in 1..n /\ i \in Nat /\ k \in Nat
    BY <1>1, <1>6
  <2>5. i = k
    BY <2>2, <2>3, <2>4
  <2>6. r = q
    BY <2>1, <2>5
  <2>7. j = l
    BY <2>2, <2>4, <2>6
  <2> QED BY <1>3, <1>6, <2>7
<1> QED BY <1>8, <1>9

\* The first n of a set of candidates are at most n of them.
LEMMA FirstBounded ==
  ASSUME NEW S \in SUBSET Ids, \A id \in S : Placed(id), NEW n \in Nat
  PROVE  /\ First(S, n) \subseteq S
         /\ IsFiniteSet(First(S, n))
         /\ Cardinality(First(S, n)) <= n
<1> DEFINE p == [id \in S |-> Position(id)]
<1>1. IsFiniteSet(S)
  BY RetrievalAssumption, FS_Subset
<1>2. p \in [S -> Int] /\ \A a, b \in S : p[a] = p[b] => a = b
  BY PositionsDiffer
<1>3. \A id \in S : Rank(S, p, id) = Cardinality({o \in S : Position(o) < Position(id)})
  BY DEF Rank
<1>4. First(S, n) = {id \in S : Rank(S, p, id) < n}
  BY <1>3 DEF First
<1> HIDE DEF p
<1>5. /\ IsFiniteSet({id \in S : Rank(S, p, id) < n})
      /\ Cardinality({id \in S : Rank(S, p, id) < n}) <= n
  BY <1>1, <1>2, CutBounded
<1> QED BY <1>4, <1>5

-----------------------------------------------------------------------------
\* What retrieve_anchor puts into the context. The injected chunks are of forced sections, one of each; before
\* the cut every forced section the corpus has is among them, and the cut never drops one. An answer exists,
\* and legislation in the context, only until the cases are retrieved.
AnchorInv ==
    /\ inj \subseteq {id \in corpus : Sec(id) \in Decision.forced}
    /\ \A a, b \in inj : Sec(a) = Sec(b) => a = b
    /\ inj # {} => pc \in {"miss", "gate"}
    /\ pc = "gate" => Decision.forced \cap Indexed \subseteq {Sec(id) : id \in inj}
    /\ leg # {} \/ anchorOk => pc = "cases"
    /\ anchorOk => Decision.forced \cap Indexed \subseteq {Sec(id) : id \in leg}
    /\ ContextClean

LEMMA ForcedFinite ==
  ASSUME NEW h \in SUBSET Terms
  PROVE  /\ Matched(Routes, h) \subseteq DOMAIN Routes
         /\ Cardinality(Forced(Routes, Matched(Routes, h))) \in Nat
         /\ Cardinality(AllowList(Routes, Matched(Routes, h))) \in Nat
         /\ IsFiniteSet(Forced(Routes, Matched(Routes, h)))
<1> DEFINE m == Matched(Routes, h)
<1>1. \A g \in h : g[1] \in DOMAIN Routes
  BY DEF Terms
<1>2. m \subseteq DOMAIN Routes
  BY <1>1 DEF Matched
<1>3. ASSUME NEW F, \A i \in DOMAIN Routes : IsFiniteSet(F[i]), NEW n \in SUBSET DOMAIN Routes
      PROVE  IsFiniteSet(UNION {F[i] : i \in n})
  <2>1. IsFiniteSet(n)
    BY RetrievalAssumption, FS_Subset
  <2> DEFINE f == [i \in n |-> F[i]]
             T == {F[i] : i \in n}
  <2>2. f \in Surjection(n, T)
    BY Fun_IsSurj
  <2>3. IsFiniteSet(T)
    BY <2>1, <2>2, FS_Surjection
  <2> QED BY <1>3, <2>3, FS_UNION
<1>4. IsFiniteSet(Forced(Routes, m))
  <2> DEFINE F == [i \in DOMAIN Routes |-> Routes[i].forced]
  <2>1. \A i \in DOMAIN Routes : IsFiniteSet(F[i])
    BY RetrievalAssumption
  <2>2. Forced(Routes, m) = UNION {F[i] : i \in m}
    BY <1>2 DEF Forced
  <2> HIDE DEF F, m
  <2> QED BY <1>2, <1>3, <2>1, <2>2
<1>5. IsFiniteSet(AllowList(Routes, m))
  <2> DEFINE F == [i \in DOMAIN Routes |-> Routes[i].allow]
             n == AllowCandidates(Routes, m)
  <2>1. \A i \in DOMAIN Routes : IsFiniteSet(F[i])
    BY RetrievalAssumption
  <2>2. n \subseteq DOMAIN Routes
    BY <1>2 DEF AllowCandidates
  <2>3. AllowList(Routes, m) = UNION {F[i] : i \in n}
    BY <2>2 DEF AllowList
  <2> HIDE DEF F, m, n
  <2> QED BY <1>3, <2>1, <2>2, <2>3
<1> QED BY <1>2, <1>4, <1>5, FS_CardinalityType

LEMMA MaxOfTwo == \A n \in Nat : Max({3, n}) \in Nat /\ Max({3, n}) >= 3 /\ Max({3, n}) >= n
<1> SUFFICES ASSUME NEW n \in Nat
             PROVE  Max({3, n}) \in Nat /\ Max({3, n}) >= 3 /\ Max({3, n}) >= n
  OBVIOUS
<1>1. \E x \in {3, n} : \A y \in {3, n} : x >= y
  BY n >= 3 \/ 3 >= n
<1>2. Max({3, n}) \in {3, n} /\ \A y \in {3, n} : Max({3, n}) >= y
  BY <1>1 DEF Max
<1> QED BY <1>2

\* The cap never cuts an injected chunk, and without one it is two.
LEMMA CapBounds ==
  ASSUME NEW n \in Nat, NEW a \in Nat
  PROVE  LET cap == ReconcileMaxHits(n, ComputeMaxHits(n, a))
         IN  /\ cap \in Nat /\ cap >= n
             /\ n = 0 => cap = 2
             /\ cap <= 3 \/ cap <= n
BY DEF ReconcileMaxHits, ComputeMaxHits

\* An empty context is a clean one.
LEMMA EmptyAnchor ==
  ASSUME TypeInv', inj' = {}, leg' = {}, ~anchorOk', pc' # "gate"
  PROVE  AnchorInv'
<1>1. hits' \in SUBSET Terms
  BY DEF TypeInv
<1>2. Decision'.forced = Forced(Routes, Matched(Routes, hits'))
  BY DEF Decision, RouteDecision
<1>3. Max({3, Cardinality(Decision'.forced)}) >= 3 /\ Max({3, Cardinality(Decision'.forced)}) \in Nat
  BY <1>1, <1>2, ForcedFinite, MaxOfTwo
<1>4. Cardinality(leg') = 0
  BY FS_EmptySet
<1>5. Cardinality(leg') <= IF Decision'.triggered THEN Max({3, Cardinality(Decision'.forced)}) ELSE 2
  BY <1>3, <1>4
<1> QED BY <1>5 DEF AnchorInv, ContextClean

\* A step that does not touch the context leaves it as it is.
LEMMA AnchorFrame ==
  ASSUME AnchorInv, UNCHANGED <<corpus, hits, inj, leg, anchorOk>>,
         pc' = pc \/ (pc \notin {"miss", "gate", "cases"} /\ pc' \notin {"miss", "gate", "cases"})
  PROVE  AnchorInv'
<1>1. Decision' = Decision /\ Indexed' = Indexed
  BY DEF Decision, Indexed
<1>2. ContextClean'
  BY <1>1 DEF AnchorInv, ContextClean
<1> QED BY <1>1, <1>2 DEF AnchorInv

\* One chunk of a section at most survives the choice among its windows.
LEMMA OneEach ==
  ASSUME NEW S, NEW a \in OnePerSection(S), NEW b \in OnePerSection(S), Sec(a) = Sec(b)
  PROVE  a = b
<1> SUFFICES ASSUME a # b
             PROVE  FALSE
  OBVIOUS
<1>1. First({b, a}, 1) = {a}
  BY DEF OnePerSection
<1>2. First({a, b}, 1) = {b}
  BY DEF OnePerSection
<1>3. {a, b} = {b, a}
  OBVIOUS
<1> QED BY <1>1, <1>2, <1>3

\* There are no more injected chunks than forced sections.
LEMMA InjectedCounted ==
  ASSUME TypeInv, AnchorInv
  PROVE  /\ IsFiniteSet(inj) /\ Cardinality(inj) \in Nat
         /\ Cardinality(Decision.forced) \in Nat /\ Cardinality(inj) <= Cardinality(Decision.forced)
         /\ Cardinality(Decision.allow) \in Nat
<1> DEFINE F == Decision.forced
           f == [id \in inj |-> Sec(id)]
<1>1. F = Forced(Routes, Matched(Routes, hits)) /\ Decision.allow = AllowList(Routes, Matched(Routes, hits))
  BY DEF Decision, RouteDecision
<1>2. IsFiniteSet(F) /\ Cardinality(F) \in Nat /\ Cardinality(Decision.allow) \in Nat
  BY <1>1, ForcedFinite DEF TypeInv
<1>3. f \in [inj -> F] /\ \A a, b \in inj : f[a] = f[b] => a = b
  BY DEF AnchorInv
<1> HIDE DEF F, f
<1>4. f \in Injection(inj, F)
  BY <1>3, Fun_IsInj
<1>5. IsFiniteSet(inj) /\ Cardinality(inj) <= Cardinality(F)
  BY <1>2, <1>4, FS_Injection
<1>6. Cardinality(inj) \in Nat
  BY <1>5, FS_CardinalityType
<1> QED BY <1>2, <1>5, <1>6 DEF F

\* The gate and the cut keep the context clean and drop no injected chunk.
LEMMA GateKeeps ==
  ASSUME TypeInv, AnchorInv, GateAndCap
  PROVE  AnchorInv'
<1> DEFINE n   == Cardinality(inj)
           cap == ReconcileMaxHits(n, ComputeMaxHits(n, Cardinality(Decision.allow)))
<1>a. PICK lowHit \in SUBSET LowPriority :
        \E kept \in SUBSET {id \in corpus \ inj : Passes(id, lowHit)} : WithinQuotas(kept) /\ leg' = Capped(kept)
  BY DEF GateAndCap
<1>1. PICK kept \in SUBSET {id \in corpus \ inj : Passes(id, lowHit)} : WithinQuotas(kept) /\ leg' = Capped(kept)
  BY <1>a
<1> DEFINE free   == {id \in kept : \A f \in inj : Sec(f) # Sec(id)}
           others == OnePerSection(free)
           chosen == First(others, cap - n)
<1>2. leg' = inj \cup chosen
  BY <1>1 DEF Capped
<1>3. /\ pc = "gate" /\ pc' = "cases" /\ inj' = {} /\ anchorOk'
      /\ UNCHANGED <<corpus, hits>>
  BY DEF GateAndCap, Step
<1>4. Decision' = Decision /\ Indexed' = Indexed
  BY <1>3 DEF Decision, Indexed
<1>5. others \subseteq free /\ free \subseteq kept /\ kept \subseteq Ids
  BY DEF OnePerSection, TypeInv
<1>6. \A id \in others : Placed(id)
  BY <1>1, <1>5 DEF WithinQuotas, Placed
<1>7. /\ IsFiniteSet(inj) /\ n \in Nat
      /\ Cardinality(Decision.forced) \in Nat /\ n <= Cardinality(Decision.forced)
      /\ Cardinality(Decision.allow) \in Nat
  BY InjectedCounted
<1>8. cap \in Nat /\ cap >= n /\ (n = 0 => cap = 2) /\ (cap <= 3 \/ cap <= n)
  BY <1>7, CapBounds
<1> HIDE DEF cap, n
<1>9. chosen \subseteq others /\ IsFiniteSet(chosen) /\ Cardinality(chosen) <= cap - n
  <2>1. cap - n \in Nat
    BY <1>7, <1>8
  <2> QED BY <1>5, <1>6, <2>1, FirstBounded
<1> HIDE DEF free, others, chosen
<1>10. \A a, b \in leg' : Sec(a) = Sec(b) => a = b
  <2> SUFFICES ASSUME NEW a \in leg', NEW b \in leg', Sec(a) = Sec(b)
               PROVE  a = b
    OBVIOUS
  <2>1. CASE a \in inj /\ b \in inj
    BY <2>1 DEF AnchorInv
  <2>2. CASE a \in chosen /\ b \in chosen
    BY <1>9, <2>2, OneEach DEF others
  <2>3. \A f \in inj, id \in chosen : Sec(f) # Sec(id)
    BY <1>5, <1>9 DEF free
  <2> QED BY <1>2, <2>1, <2>2, <2>3
<1>11. ASSUME NEW id \in leg'
       PROVE  Chunk[id].leg /\ (Sec(id) \in Decision.forced \/ Decision.allow = {} \/ Sec(id) \in Decision.allow)
  <2>1. CASE id \in inj
    <3>1. id \in Ids /\ Sec(id) \in Decision.forced
      BY <2>1 DEF AnchorInv, TypeInv
    <3>2. PICK i \in DOMAIN Routes : Sec(id) \in Routes[i].forced
      BY <3>1, DecisionOfRoutes
    <3> QED BY <3>1, <3>2, RetrievalAssumption DEF Sec
  <2>2. CASE id \in chosen
    <3>1. Passes(id, lowHit)
      BY <1>1, <1>5, <1>9, <2>2
    <3> QED BY <3>1 DEF Passes
  <2> QED BY <1>2, <2>1, <2>2
<1>12. Cardinality(leg') <= IF Decision.triggered THEN Max({3, Cardinality(Decision.forced)}) ELSE 2
  <2>1. Cardinality(leg') \in Nat /\ Cardinality(leg') <= cap
    <3>1. IsFiniteSet(inj \cup chosen)
      BY <1>7, <1>9, FS_Union
    <3>2. Cardinality(inj \cup chosen) = Cardinality(inj) + Cardinality(chosen) - Cardinality(inj \cap chosen)
      BY <1>7, <1>9, FS_Union
    <3>3. inj \cap chosen = {}
      BY <1>1, <1>5, <1>9
    <3>4. Cardinality(inj \cap chosen) = 0
      BY <3>3, FS_EmptySet
    <3>5. Cardinality(chosen) \in Nat /\ Cardinality(inj \cup chosen) \in Nat
      BY <1>9, <3>1, FS_CardinalityType
    <3> QED BY <1>2, <1>7, <1>8, <1>9, <3>2, <3>4, <3>5 DEF n
  <2>2. Max({3, Cardinality(Decision.forced)}) \in Nat /\ Max({3, Cardinality(Decision.forced)}) >= 3
        /\ Max({3, Cardinality(Decision.forced)}) >= Cardinality(Decision.forced)
    BY <1>7, MaxOfTwo
  <2>3. CASE Decision.triggered
    BY <1>7, <1>8, <2>1, <2>2, <2>3
  <2>4. CASE ~Decision.triggered
    <3>1. Decision.forced = {}
      BY <2>4, DecisionOfRoutes
    <3>2. n = 0
      BY <1>7, <3>1, FS_EmptySet
    <3> QED BY <1>8, <2>1, <2>4, <3>2
  <2> QED BY <2>3, <2>4
<1>13. ContextClean'
  BY <1>4, <1>10, <1>11, <1>12 DEF ContextClean, Sec
<1>14. Decision.forced \cap Indexed \subseteq {Sec(id) : id \in leg'}
  BY <1>2, <1>3 DEF AnchorInv
<1> QED BY <1>3, <1>4, <1>13, <1>14 DEF AnchorInv, Sec

\* The synthetic searches and the fetch by case_id: in the end every forced section that the corpus has.
LEMMA InjectKeeps ==
  ASSUME TypeInv, AnchorInv, InjectSynthetic \/ FetchMissed
  PROVE  AnchorInv'
<1>1. UNCHANGED <<corpus, hits, leg, anchorOk>> /\ leg = {} /\ ~anchorOk
  BY DEF InjectSynthetic, FetchMissed, Step, AnchorInv
<1>2. Decision' = Decision /\ Indexed' = Indexed
  BY <1>1 DEF Decision, Indexed
<1>3. ContextClean'
  BY <1>1, <1>2 DEF AnchorInv, ContextClean
<1>4. CASE InjectSynthetic
  <2>1. PICK S \in SUBSET {id \in corpus : Sec(id) \in Decision.forced} :
          (\A a, b \in S : Sec(a) = Sec(b) => a = b) /\ inj' = S
    BY <1>4 DEF InjectSynthetic
  <2>2. pc' = "miss"
    BY <1>4 DEF InjectSynthetic, Step
  <2> QED BY <1>1, <1>2, <1>3, <2>1, <2>2 DEF AnchorInv, Sec
<1>5. CASE FetchMissed
  <2>1. PICK S \in SUBSET UNION {BestChunks({id \in corpus : Sec(id) = s}) : s \in Missed \cap Indexed} :
          /\ {Sec(id) : id \in S} = Missed \cap Indexed
          /\ \A a, b \in S : Sec(a) = Sec(b) => a = b
          /\ inj' = inj \cup S
    BY <1>5 DEF FetchMissed
  <2>2. pc' = "gate"
    BY <1>5 DEF FetchMissed, Step
  <2>3. S \subseteq corpus
    <3>1. \A c : BestChunks(c) \subseteq c
      BY DEF BestChunks, OrAll
    <3>2. ASSUME NEW id \in S
          PROVE  id \in corpus
      <4>1. PICK s \in Missed \cap Indexed : id \in BestChunks({o \in corpus : Sec(o) = s})
        BY <2>1
      <4>2. id \in {o \in corpus : Sec(o) = s}
        BY <3>1, <4>1
      <4> QED BY <4>2
    <3> QED BY <3>2
  <2>4. \A id \in S : Sec(id) \in Decision.forced /\ \A f \in inj : Sec(f) # Sec(id)
    BY <2>1 DEF Missed
  <2>5. Decision.forced \cap Indexed \subseteq {Sec(id) : id \in inj \cup S}
    <3> SUFFICES ASSUME NEW s \in Decision.forced \cap Indexed
                 PROVE  \E id \in inj \cup S : Sec(id) = s
      OBVIOUS
    <3>1. CASE s \in Missed
      BY <2>1, <3>1
    <3>2. CASE s \notin Missed
      BY <3>2 DEF Missed
    <3> QED BY <3>1, <3>2
  <2>6. \A a, b \in inj \cup S : Sec(a) = Sec(b) => a = b
    BY <2>1, <2>4 DEF AnchorInv
  <2>7. inj' \subseteq {id \in corpus : Sec(id) \in Decision.forced}
    BY <2>1, <2>3, <2>4 DEF AnchorInv
  <2>8. inj' = inj \cup S
    BY <2>1
  <2> QED BY <1>1, <1>2, <1>3, <2>2, <2>5, <2>6, <2>7, <2>8 DEF AnchorInv, Sec
<1> QED BY <1>4, <1>5

LEMMA AnchorStep == TypeInv /\ TypeInv' /\ AnchorInv /\ [Next]_vars => AnchorInv'
<1> SUFFICES ASSUME TypeInv, TypeInv', AnchorInv, [Next]_vars
             PROVE  AnchorInv'
  OBVIOUS
<1>1. CASE Boot
  BY <1>1, AnchorFrame DEF Boot, reqVars
<1>2. CASE Assemble
  <2>1. inj = {} /\ leg = {} /\ ~anchorOk /\ pc' = "embed"
    BY <1>2 DEF Assemble, AnchorInv
  <2> QED BY <1>2, <2>1, EmptyAnchor DEF Assemble
<1>3. CASE EmbedQuestion
  BY <1>3, AnchorFrame DEF EmbedQuestion, Step, Throw
<1>4. CASE AnchorThrows
  BY <1>4, EmptyAnchor DEF AnchorThrows
<1>5. CASE SearchSources
  <2>1. CASE pc' = "synth"
    BY <1>5, <2>1, AnchorFrame DEF SearchSources, Step
  <2>2. CASE pc' = "miss"
    <3>1. inj = {} /\ leg = {} /\ ~anchorOk
      BY <1>5 DEF SearchSources, Step, AnchorInv
    <3> QED BY <1>5, <2>2, <3>1, EmptyAnchor DEF SearchSources
  <2> QED BY <1>5, <2>1, <2>2 DEF SearchSources, Step
<1>6. CASE EmbedSynthetic
  <2>1. pc = "synth" /\ inj = {} /\ leg = {} /\ ~anchorOk /\ UNCHANGED <<corpus, hits>>
    BY <1>6 DEF EmbedSynthetic, AnchorInv
  <2>2. inj' = {} /\ leg' = {} /\ ~anchorOk' /\ pc' # "gate"
    BY <1>6, <2>1 DEF EmbedSynthetic
  <2> QED BY <2>2, EmptyAnchor
<1>7. CASE InjectSynthetic \/ FetchMissed
  BY <1>7, InjectKeeps
<1>8. CASE GateAndCap
  BY <1>8, GateKeeps
<1>9. CASE RetrieveCases
  <2>1. inj' = {} /\ leg' = {} /\ ~anchorOk' /\ pc' # "gate"
    BY <1>9 DEF RetrieveCases, CasesOnly, Step, Throw, AnchorInv
  <2> QED BY <2>1, EmptyAnchor
<1>10. CASE Augment \/ CheckConfidence \/ Refine
  <2>1. UNCHANGED <<corpus, hits, inj, leg, anchorOk>>
    BY <1>10 DEF Augment, CheckConfidence, Refine, CasesOnly, LegKept
  <2>2. pc \notin {"miss", "gate", "cases"} /\ pc' \notin {"miss", "gate", "cases"}
    BY <1>10 DEF Augment, CheckConfidence, Refine, Step, Throw
  <2> QED BY <2>1, <2>2, AnchorFrame
<1>11. CASE Guide \/ GuideThrows
  BY <1>11, AnchorFrame DEF Guide, GuideThrows, Step
<1>12. CASE Answer
  <2>1. inj = {} /\ leg = {} /\ ~anchorOk
    BY <1>12 DEF Answer, AnchorInv
  <2> QED BY <1>12, <2>1, EmptyAnchor DEF Answer
<1>13. ASSUME NEW c \in Callers, Other(c)
       PROVE  AnchorInv'
  BY <1>13, OtherFrame, AnchorFrame DEF reqVars
<1>14. CASE UNCHANGED vars
  BY <1>14, AnchorFrame DEF vars, reqVars
<1> QED
  BY <1>1, <1>2, <1>3, <1>4, <1>5, <1>6, <1>7, <1>8, <1>9, <1>10, <1>11, <1>12, <1>13, <1>14 DEF Next, Request

LEMMA AnchorStart == Init => AnchorInv
<1> SUFFICES ASSUME Init
             PROVE  AnchorInv
  OBVIOUS
<1>1. hits = {} /\ inj = {} /\ leg = {} /\ ~anchorOk /\ pc = "idle"
  BY DEF Init
<1>2. Decision.forced = Forced(Routes, Matched(Routes, {}))
  BY <1>1 DEF Decision, RouteDecision
<1>3. Max({3, Cardinality(Decision.forced)}) >= 3 /\ Max({3, Cardinality(Decision.forced)}) \in Nat
  BY <1>2, ForcedFinite, MaxOfTwo
<1>4. Cardinality(leg) = 0
  BY <1>1, FS_EmptySet
<1>5. Cardinality(leg) <= IF Decision.triggered THEN Max({3, Cardinality(Decision.forced)}) ELSE 2
  BY <1>3, <1>4
<1> QED BY <1>1, <1>5 DEF AnchorInv, ContextClean

-----------------------------------------------------------------------------
\* The inductive invariant.
Inv == TypeInv /\ BootInv /\ FlightInv /\ AnchorInv

THEOREM Invariance == Spec => []Inv
<1>1. Init => Inv
  BY TypeStart, BootStart, FlightStarts, AnchorStart DEF Init, Inv
<1>2. Inv /\ [Next]_vars => Inv'
  BY TypeStep, BootStep, FlightStep, AnchorStep DEF Inv
<1> QED BY <1>1, <1>2, PTL DEF Spec

\* InflightOwned: a key marked as in flight has exactly one owner that will clear the mark.
THEOREM MarksHaveOwners == Spec => []InflightOwned
<1>1. Inv => InflightOwned
  BY DEF Inv, FlightInv
<1> QED BY <1>1, Invariance, PTL

\* RefusedForCause: the server refuses to start only when some named section was counted and is absent.
THEOREM RefusalHasCause == Spec => []RefusedForCause
<1>1. Inv => RefusedForCause
  BY DEF Inv, BootInv
<1> QED BY <1>1, Invariance, PTL

\* MandatoryDelivered: after a start-up check whose every probe answered, a request that no failure cut short
\* has every section in its context that its routes declare mandatory, for any table and any corpus.
THEOREM MandatoryReachesContext == Spec => []MandatoryDelivered
<1>1. Inv => MandatoryDelivered
  <2> SUFFICES ASSUME Inv, anchorOk, boot = "up" /\ conclusive, NEW s \in Decision.forced
               PROVE  \E id \in leg : Sec(id) = s
    BY DEF MandatoryDelivered
  <2>1. s \in Probed
    BY DecisionOfRoutes DEF Inv
  <2>2. s \in Indexed
    BY <2>1 DEF Inv, BootInv
  <2> QED BY <2>2 DEF Inv, AnchorInv
<1> QED BY <1>1, Invariance, PTL

\* ContextClean: one place per section, legislation only, beyond the mandatory sections nothing outside the
\* allow-list, and no more places than the cap gives.
THEOREM ContextStaysClean == Spec => []ContextClean
<1>1. Inv => ContextClean
  BY DEF Inv, AnchorInv
<1> QED BY <1>1, Invariance, PTL

-----------------------------------------------------------------------------
\* Case law. A list of cases names none twice.
Listed(s) == s \in Seq(Cases) /\ \A i, j \in 1..Len(s) : s[i] = s[j] => i = j

\* The highest of finitely many whole numbers is there, and is the highest.
LEMMA MaxIsHighest ==
  ASSUME NEW X \in SUBSET Int, IsFiniteSet(X), X # {}
  PROVE  Max(X) \in X /\ \A x \in X : Max(X) >= x
<1> DEFINE p == [x \in X |-> 0 - x]
<1>1. p \in [X -> Int] /\ \A a, b \in X : p[a] = p[b] => a = b
  OBVIOUS
<1>2. 0 \in 0..(Cardinality(X) - 1)
  BY FS_EmptySet, FS_CardinalityType
<1> HIDE DEF p
<1>3. PICK a \in X : Rank(X, p, a) = 0
  BY <1>1, <1>2, RankOnto
<1>4. {o \in X : p[o] < p[a]} = {}
  BY <1>3, FS_Subset, FS_EmptySet DEF Rank
<1>5. \A x \in X : a >= x
  <2> SUFFICES ASSUME NEW x \in X
               PROVE  a >= x
    OBVIOUS
  <2>1. ~(p[x] < p[a])
    BY <1>4
  <2>2. p[x] = 0 - x /\ p[a] = 0 - a
    BY DEF p
  <2> QED BY <2>1, <2>2
<1> QED BY <1>5 DEF Max

LEMMA MinOfTwo == \A a, b \in Nat : Min({a, b}) \in Nat /\ Min({a, b}) <= a /\ Min({a, b}) <= b
<1> SUFFICES ASSUME NEW a \in Nat, NEW b \in Nat
             PROVE  Min({a, b}) \in Nat /\ Min({a, b}) <= a /\ Min({a, b}) <= b
  OBVIOUS
<1>1. \E x \in {a, b} : \A y \in {a, b} : x <= y
  BY a <= b \/ b <= a
<1>2. Min({a, b}) \in {a, b} /\ \A y \in {a, b} : Min({a, b}) <= y
  BY <1>1 DEF Min
<1> QED BY <1>2

\* The top score of a list is that of one of its cases, or none, and no case of it scores more.
LEMMA TopIsHighest ==
  ASSUME NEW s \in Seq(Cases)
  PROVE  /\ Top(s) \in Nat
         /\ Top(s) = 0 \/ \E i \in 1..Len(s) : Top(s) = Score[s[i]]
         /\ \A i \in 1..Len(s) : Top(s) >= Score[s[i]]
<1> DEFINE R == {Score[s[i]] : i \in DOMAIN s}
           X == {0} \cup R
           f == [i \in 1..Len(s) |-> Score[s[i]]]
<1>1. DOMAIN s = 1..Len(s) /\ Len(s) \in Nat /\ \A i \in 1..Len(s) : s[i] \in Cases
  OBVIOUS
<1>2. \A i \in 1..Len(s) : Score[s[i]] \in Nat
  BY <1>1, RetrievalAssumption
<1>3. f \in Surjection(1..Len(s), R)
  BY <1>1, Fun_IsSurj
<1>4. IsFiniteSet(1..Len(s))
  BY <1>1, FS_Interval
<1> HIDE DEF f
<1>5. IsFiniteSet(R)
  BY <1>3, <1>4, FS_Surjection
<1>6. IsFiniteSet({0})
  BY FS_Singleton
<1>7. IsFiniteSet(X)
  BY <1>5, <1>6, FS_Union
<1>8. X \in SUBSET Int /\ X # {} /\ X \subseteq Nat
  BY <1>1, <1>2
<1>9. Top(s) = Max(X)
  BY DEF Top
<1> HIDE DEF X
<1>10. Top(s) \in X /\ \A x \in X : Top(s) >= x
  BY <1>7, <1>8, <1>9, MaxIsHighest
<1> QED BY <1>1, <1>8, <1>10 DEF X

\* A set of cases, best first: each of them once, and the first is the best.
LEMMA BestFirstLists ==
  ASSUME NEW S \in SUBSET Cases
  PROVE  /\ IsFiniteSet(S) /\ Cardinality(S) \in Nat
         /\ Listed(BestFirst(S)) /\ Len(BestFirst(S)) = Cardinality(S)
         /\ \A i \in 1..Cardinality(S) : BestFirst(S)[i] \in S
         /\ S # {} => Cardinality(S) >= 1 /\ \A c \in S : Score[BestFirst(S)[1]] >= Score[c]
<1> DEFINE p == [c \in S |-> 0 - Score[c]]
           n == Cardinality(S)
           b == BestFirst(S)
<1>1. IsFiniteSet(S) /\ n \in Nat
  BY RetrievalAssumption, FS_Subset, FS_CardinalityType
<1>2. \A c \in S : Score[c] \in Nat
  BY RetrievalAssumption
<1>3. p \in [S -> Int] /\ \A c, d \in S : p[c] = p[d] => c = d
  BY <1>2, RetrievalAssumption
<1>4. \A c \in S : Rank(S, p, c) = Cardinality({d \in S : Score[d] > Score[c]})
  <2> SUFFICES ASSUME NEW c \in S
               PROVE  Rank(S, p, c) = Cardinality({d \in S : Score[d] > Score[c]})
    OBVIOUS
  <2>1. {o \in S : p[o] < p[c]} = {d \in S : Score[d] > Score[c]}
    BY <1>2
  <2> QED BY <2>1 DEF Rank
<1> HIDE DEF p
<1>5. b = [i \in 1..n |-> CHOOSE c \in S : Rank(S, p, c) = i - 1]
  BY <1>4 DEF BestFirst
<1>6. ASSUME NEW i \in 1..n
      PROVE  b[i] \in S /\ Rank(S, p, b[i]) = i - 1
  <2>1. i - 1 \in 0..(n - 1)
    BY <1>1
  <2>2. \E c \in S : Rank(S, p, c) = i - 1
    BY <1>1, <1>3, <2>1, RankOnto
  <2>3. b[i] = CHOOSE c \in S : Rank(S, p, c) = i - 1
    BY <1>5
  <2> QED BY <2>2, <2>3
<1>7. DOMAIN b = 1..n
  BY <1>5
<1> HIDE DEF b
<1>8. b \in [1..n -> Cases]
  BY <1>5, <1>6, <1>7
<1>9. b \in Seq(Cases) /\ Len(b) = n
  BY <1>1, <1>8
<1>10. \A i, j \in 1..n : b[i] = b[j] => i = j
  <2> SUFFICES ASSUME NEW i \in 1..n, NEW j \in 1..n, b[i] = b[j]
               PROVE  i = j
    OBVIOUS
  <2>1. i - 1 = j - 1
    BY <1>6
  <2> QED BY <1>1, <2>1
<1>11. ASSUME S # {}
       PROVE  n >= 1 /\ \A c \in S : Score[b[1]] >= Score[c]
  <2>1. n >= 1
    BY <1>1, <1>11, FS_EmptySet
  <2>2. b[1] \in S /\ Rank(S, p, b[1]) = 0
    BY <1>1, <1>6, <2>1
  <2> DEFINE A == {d \in S : Score[d] > Score[b[1]]}
  <2>3. Cardinality(A) = 0
    BY <1>4, <2>2
  <2>4. A = {}
    BY <1>1, <2>3, FS_Subset, FS_EmptySet
  <2>5. \A c \in S : ~(Score[c] > Score[b[1]])
    BY <2>4
  <2> QED BY <1>2, <2>1, <2>2, <2>5
<1> QED BY <1>1, <1>6, <1>9, <1>10, <1>11 DEF b, Listed

\* A list has as many cases as places.
LEMMA ListedCount ==
  ASSUME NEW s, Listed(s)
  PROVE  ToSet(s) \in SUBSET Cases /\ Cardinality(ToSet(s)) = Len(s) /\ Len(s) \in Nat
<1>1. DOMAIN s = 1..Len(s) /\ Len(s) \in Nat /\ s \in [1..Len(s) -> Cases]
  BY DEF Listed
<1>2. ToSet(s) = {s[i] : i \in 1..Len(s)}
  BY <1>1 DEF ToSet
<1>3. s \in [1..Len(s) -> ToSet(s)]
  BY <1>1, <1>2
<1>4. s \in Injection(1..Len(s), ToSet(s))
  BY <1>3, Fun_IsInj DEF Listed
<1>5. s \in Surjection(1..Len(s), ToSet(s))
  BY <1>2, <1>3, Fun_IsSurj
<1>6. IsFiniteSet(1..Len(s)) /\ Cardinality(1..Len(s)) = Len(s)
  BY <1>1, FS_Interval
<1>7. Cardinality(ToSet(s)) = Cardinality(1..Len(s))
  BY <1>4, <1>5, <1>6, FS_Surjection
<1> QED BY <1>1, <1>2, <1>6, <1>7

\* The head of a list is a list.
LEMMA HeadListed ==
  ASSUME NEW s, Listed(s), NEW k \in 0..Len(s)
  PROVE  /\ Listed(SubSeq(s, 1, k)) /\ Len(SubSeq(s, 1, k)) = k
         /\ \A i \in 1..k : SubSeq(s, 1, k)[i] = s[i]
<1>1. Len(s) \in Nat /\ s \in Seq(Cases)
  BY DEF Listed
<1>2. Len(SubSeq(s, 1, k)) = k /\ \A i \in 1..k : SubSeq(s, 1, k)[i] = s[i]
  BY <1>1
<1>3. SubSeq(s, 1, k) \in Seq(Cases)
  BY <1>1
<1> QED BY <1>1, <1>2, <1>3 DEF Listed

CasesInv == Listed(cases)

LEMMA CasesStep == CasesInv /\ [Next]_vars => CasesInv'
<1> SUFFICES ASSUME CasesInv, [Next]_vars
             PROVE  CasesInv'
  OBVIOUS
<1>1. ASSUME UNCHANGED cases
      PROVE  CasesInv'
  BY <1>1 DEF CasesInv
<1>2. CASE RetrieveCases
  <2>1. CASE UNCHANGED cases
    BY <1>1, <2>1
  <2>2. CASE \E S \in Retrieved(5, 75, 2) : cases' = BestFirst(S)
    <3>1. PICK S \in Retrieved(5, 75, 2) : cases' = BestFirst(S)
      BY <2>2
    <3>2. S \in SUBSET Cases
      BY DEF Retrieved
    <3> QED BY <3>1, <3>2, BestFirstLists DEF CasesInv
  <2> QED BY <1>2, <2>1, <2>2 DEF RetrieveCases
<1>3. CASE Augment
  <2>1. CASE UNCHANGED cases
    BY <1>1, <2>1
  <2>2. CASE cases' # cases
    <3> DEFINE room == IF Len(cases) >= AugmentCap THEN 0 ELSE AugmentCap - Len(cases)
               new(S) == BestFirst(S \ ToSet(cases))
    <3>1. PICK S \in Retrieved(5, 70, 1) :
            cases' = cases \o SubSeq(new(S), 1, IF Len(new(S)) < room THEN Len(new(S)) ELSE room)
      BY <1>3, <2>2 DEF Augment
    <3> DEFINE T == S \ ToSet(cases)
               k == IF Len(new(S)) < room THEN Len(new(S)) ELSE room
               h == SubSeq(new(S), 1, k)
    <3>2. T \in SUBSET Cases
      BY DEF Retrieved
    <3>3. Listed(new(S)) /\ Len(new(S)) \in Nat /\ \A i \in 1..Len(new(S)) : new(S)[i] \in T
      BY <3>2, BestFirstLists
    <3>4. Len(cases) \in Nat /\ cases \in Seq(Cases) /\ \A i \in 1..Len(cases) : cases[i] \in ToSet(cases)
      BY DEF CasesInv, Listed, ToSet
    <3>5. room \in Nat
      BY <3>4, RetrievalAssumption
    <3> HIDE DEF room, new
    <3>6. k \in 0..Len(new(S))
      BY <3>3, <3>5
    <3>7. Listed(h) /\ Len(h) = k /\ \A i \in 1..k : h[i] = new(S)[i]
      BY <3>3, <3>6, HeadListed
    <3>8. \A i \in 1..Len(h) : h[i] \in T
      BY <3>3, <3>6, <3>7
    <3>9. cases' = cases \o h
      BY <3>1
    <3> HIDE DEF T, k, h
    <3>10. h \in Seq(Cases) /\ Len(h) \in Nat
      BY <3>7 DEF Listed
    <3>11. /\ cases' \in Seq(Cases) /\ Len(cases') = Len(cases) + Len(h)
           /\ \A i \in 1..Len(cases) : cases'[i] = cases[i]
           /\ \A i \in (Len(cases) + 1)..Len(cases') : cases'[i] = h[i - Len(cases)]
      BY <3>4, <3>9, <3>10
    <3>12. ASSUME NEW i \in 1..Len(cases'), NEW j \in 1..Len(cases'), cases'[i] = cases'[j]
           PROVE  i = j
      <4>1. CASE i <= Len(cases) /\ j <= Len(cases)
        BY <3>4, <3>11, <3>12, <4>1 DEF CasesInv, Listed
      <4>2. CASE i > Len(cases) /\ j > Len(cases)
        <5>1. i - Len(cases) \in 1..Len(h) /\ j - Len(cases) \in 1..Len(h)
          BY <3>4, <3>10, <3>11, <4>2
        <5>2. h[i - Len(cases)] = h[j - Len(cases)]
          BY <3>4, <3>11, <3>12, <4>2
        <5>3. i - Len(cases) = j - Len(cases)
          BY <3>7, <5>1, <5>2 DEF Listed
        <5> QED BY <3>4, <5>3
      <4>3. \A u, v \in 1..Len(cases') : u <= Len(cases) /\ v > Len(cases) => cases'[u] # cases'[v]
        <5> SUFFICES ASSUME NEW u \in 1..Len(cases'), NEW v \in 1..Len(cases'),
                            u <= Len(cases), v > Len(cases)
                     PROVE  cases'[u] # cases'[v]
          OBVIOUS
        <5>1. cases'[u] \in ToSet(cases)
          BY <3>4, <3>11
        <5>2. v - Len(cases) \in 1..Len(h)
          BY <3>4, <3>10, <3>11
        <5>3. v \in (Len(cases) + 1)..Len(cases')
          BY <3>4, <3>10, <3>11
        <5>4. cases'[v] = h[v - Len(cases)]
          BY <3>11, <5>3
        <5>5. cases'[v] \in T
          BY <3>8, <5>2, <5>4
        <5> QED BY <5>1, <5>5 DEF T
      <4> QED BY <3>4, <3>12, <4>1, <4>2, <4>3
    <3> QED BY <3>11, <3>12 DEF CasesInv, Listed
  <2> QED BY <2>1, <2>2
<1>4. CASE Refine
  <2>1. CASE UNCHANGED cases
    BY <1>1, <2>1
  <2>2. CASE cases' # cases
    <3>1. PICK S \in Retrieved(2 * 8, 65, 1) :
            LET all == BestFirst(S \cup ToSet(cases))
            IN  cases' = SubSeq(all, 1, IF Len(all) < RefineCap THEN Len(all) ELSE RefineCap)
      BY <1>4, <2>2 DEF Refine
    <3> DEFINE all == BestFirst(S \cup ToSet(cases))
               k == IF Len(all) < RefineCap THEN Len(all) ELSE RefineCap
    <3>2. S \cup ToSet(cases) \in SUBSET Cases
      BY ListedCount DEF Retrieved, CasesInv
    <3>3. Listed(all) /\ Len(all) \in Nat
      BY <3>2, BestFirstLists
    <3>4. k \in 0..Len(all)
      BY <3>3, RetrievalAssumption
    <3> QED BY <3>1, <3>3, <3>4, HeadListed DEF CasesInv
  <2> QED BY <2>1, <2>2
<1>5. CASE Answer
  BY <1>5 DEF Answer, CasesInv, Listed
<1>6. CASE Boot \/ Assemble
  BY <1>1, <1>6 DEF Boot, Assemble, reqVars
<1>7. CASE \/ EmbedQuestion \/ AnchorThrows \/ SearchSources \/ EmbedSynthetic \/ InjectSynthetic \/ FetchMissed
           \/ GateAndCap \/ CheckConfidence \/ Guide \/ GuideThrows
  BY <1>1, <1>7 DEF EmbedQuestion, AnchorThrows, SearchSources, EmbedSynthetic, InjectSynthetic, FetchMissed,
                    GateAndCap, CheckConfidence, Guide, GuideThrows
<1>8. ASSUME NEW c \in Callers, Other(c)
      PROVE  CasesInv'
  BY <1>1, <1>8 DEF Other, reqVars
<1>9. CASE UNCHANGED vars
  BY <1>1, <1>9 DEF vars, reqVars
<1> QED BY <1>2, <1>3, <1>4, <1>5, <1>6, <1>7, <1>8, <1>9 DEF Next, Request

\* RefineNeverWorsens: the second pass never loses the best case, ends with fewer cases than the first (up to
\* its own cap), or leaves a case twice.
THEOREM SecondPassImproves == Spec => RefineNeverWorsens
<1> DEFINE Better == Step("refine", "guide") => /\ Top(cases') >= Top(cases)
                                               /\ Len(cases') >= Min({Len(cases), RefineCap})
                                               /\ Cardinality(ToSet(cases')) = Len(cases')
<1>1. CasesInv /\ CasesInv' /\ Refine => Better
  <2> SUFFICES ASSUME Listed(cases), Listed(cases'), Refine, pc = "refine", pc' = "guide"
               PROVE  /\ Top(cases') >= Top(cases)
                      /\ Len(cases') >= Min({Len(cases), RefineCap})
                      /\ Cardinality(ToSet(cases')) = Len(cases')
    BY DEF CasesInv, Step
  <2>1. Cardinality(ToSet(cases')) = Len(cases')
    BY ListedCount
  <2>2. /\ ToSet(cases) \in SUBSET Cases /\ Cardinality(ToSet(cases)) = Len(cases) /\ Len(cases) \in Nat
        /\ cases \in Seq(Cases) /\ cases' \in Seq(Cases)
    BY ListedCount DEF Listed
  <2>3. Min({Len(cases), RefineCap}) \in Nat /\ Min({Len(cases), RefineCap}) <= Len(cases)
        /\ Min({Len(cases), RefineCap}) <= RefineCap
    BY <2>2, MinOfTwo, RetrievalAssumption
  <2>4. Top(cases) \in Nat /\ Top(cases') \in Nat
    BY <2>2, TopIsHighest
  <2>5. PICK S \in Retrieved(2 * 8, 65, 1) :
          cases' = IF S \subseteq ToSet(cases) THEN cases
                   ELSE LET all == BestFirst(S \cup ToSet(cases))
                        IN  SubSeq(all, 1, IF Len(all) < RefineCap THEN Len(all) ELSE RefineCap)
    BY DEF Refine, Throw, Step
  <2>6. CASE S \subseteq ToSet(cases)
    <3>1. cases' = cases
      BY <2>5, <2>6
    <3> QED BY <2>1, <2>2, <2>3, <2>4, <3>1
  <2>7. CASE ~(S \subseteq ToSet(cases))
    <3> DEFINE U == S \cup ToSet(cases)
               all == BestFirst(U)
               k == IF Len(all) < RefineCap THEN Len(all) ELSE RefineCap
    <3>1. U \in SUBSET Cases /\ U # {} /\ ToSet(cases) \subseteq U
      BY <2>2, <2>7 DEF Retrieved
    <3>2. cases' = SubSeq(all, 1, k)
      BY <2>5, <2>7
    <3> HIDE DEF U
    <3>3. /\ IsFiniteSet(U) /\ Cardinality(U) \in Nat /\ Cardinality(U) >= 1
          /\ Listed(all) /\ Len(all) = Cardinality(U)
          /\ \A c \in U : Score[all[1]] >= Score[c]
      BY <3>1, BestFirstLists
    <3> HIDE DEF all
    <3>4. k \in 0..Len(all) /\ k >= 1 /\ (k = Len(all) \/ k = RefineCap)
      BY <3>3, RetrievalAssumption
    <3> HIDE DEF k
    <3>5. Len(cases') = k /\ cases'[1] = all[1]
      BY <3>2, <3>3, <3>4, HeadListed
    <3>6. Len(cases) <= Cardinality(U)
      BY <2>2, <3>1, <3>3, FS_Subset
    <3>7. Len(cases') >= Min({Len(cases), RefineCap})
      BY <2>2, <2>3, <3>3, <3>4, <3>5, <3>6, RetrievalAssumption
    <3>8. Top(cases') >= Score[all[1]]
      BY <2>2, <3>3, <3>4, <3>5, TopIsHighest
    <3>9. ASSUME NEW i \in 1..Len(cases), Top(cases) = Score[cases[i]]
          PROVE  Score[all[1]] >= Top(cases)
      <4>1. cases[i] \in U
        BY <2>2, <3>1 DEF ToSet
      <4> QED BY <3>3, <3>9, <4>1
    <3>10. all[1] \in Cases
      BY <3>3, <3>4 DEF Listed
    <3>11. Score[all[1]] \in Nat
      BY <3>10, RetrievalAssumption
    <3>12. Top(cases') >= Top(cases)
      <4>1. CASE Top(cases) = 0
        BY <2>4, <4>1
      <4>2. CASE Top(cases) # 0
        <5>1. Score[all[1]] >= Top(cases)
          BY <2>2, <3>9, <4>2, TopIsHighest
        <5> QED BY <2>4, <3>8, <3>11, <5>1
      <4> QED BY <4>1, <4>2
    <3> QED BY <2>1, <3>7, <3>12
  <2> QED BY <2>6, <2>7
<1>2. ASSUME [Next]_vars, Step("refine", "guide")
      PROVE  Refine
  <2>1. pc = "refine" /\ pc' = "guide"
    BY <1>2 DEF Step
  <2>2. ~Boot /\ ~Assemble /\ ~(\E c \in Callers : Other(c)) /\ ~UNCHANGED vars
    BY <2>1 DEF Boot, Assemble, Other, reqVars, vars
  <2>3. ~EmbedQuestion /\ ~AnchorThrows /\ ~SearchSources /\ ~EmbedSynthetic /\ ~InjectSynthetic /\ ~FetchMissed
    BY <2>1 DEF EmbedQuestion, AnchorThrows, SearchSources, EmbedSynthetic, InjectSynthetic, FetchMissed, Step, Throw
  <2>4. /\ ~GateAndCap /\ ~RetrieveCases /\ ~Augment /\ ~CheckConfidence /\ ~Guide /\ ~GuideThrows /\ ~Answer
    BY <2>1 DEF GateAndCap, RetrieveCases, Augment, CheckConfidence, Guide, GuideThrows, Answer, Step, Throw
  <2> QED BY <1>2, <2>2, <2>3, <2>4 DEF Next, Request
<1>3. Init => CasesInv
  BY DEF Init, CasesInv, Listed
<1>4. CasesInv /\ CasesInv' /\ [Next]_vars => [Better]_vars
  BY <1>1, <1>2
<1> QED BY <1>3, <1>4, CasesStep, PTL DEF Spec, RefineNeverWorsens

===============================================================================
