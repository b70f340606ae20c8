---- MODULE Retrieval ----
\* assemble_request (apps/nz_tenancy/main.cpp) and what it awaits: retrieve_anchor, augment_case_retrieval,
\* refine_retrieve and retrieve_manual_guidance (anchor.cpp), RAGPipeline::retrieve_impl (pipeline.cpp), the
\* reranker and the vector store, over a small corpus. One request at a time, next to one other request
\* that asks the embedder for the same synthetic queries; before the first, the start-up check of the
\* routes against the corpus. 
EXTENDS RouteValidator, Embedder, FiniteSetsExt, SequencesExt
CONSTANTS Main,
          Chunk,         \* the legislation store: a record [sec, leg, title, amends, index] per chunk id
          Similar,       \* the chunk ids, most similar to the question first
          Gaps,          \* sets of sections a corpus may lack
          Sources,       \* leg_sources(), in order
          Score,         \* the score of each case of the main store, 0..100
          Manual,        \* guidance documents: point id -> [case, score]
          HighScore, HighN, MediumScore, MediumN, \* ConfidenceConfig
          GuidanceScore, \* GUIDANCE_THRESHOLD
          AugmentCap, RefineCap \* sources after augment_case_retrieval (8) and refine_retrieve (6)

Ids == DOMAIN Chunk
Cases == DOMAIN Score
\* The coroutine of the request is Main; the other ones are other callers.

\* The question ranks every chunk of a finite store; the sections that routes name are statutes, not cases;
\* no two cases score the same (a tie is the order the sort leaves it in: scores and thresholds can be scaled).
ASSUME RetrievalAssumption ==
    /\ Main \in Callers
    /\ Similar \in Seq(Ids) /\ ToSet(Similar) = Ids
    /\ IsFiniteSet(Ids) /\ IsFiniteSet(DOMAIN Routes) /\ DOMAIN Sources \subseteq Nat
    /\ \A i \in DOMAIN Routes : IsFiniteSet(Routes[i].forced) /\ IsFiniteSet(Routes[i].allow)
    /\ \A id \in Ids, i \in DOMAIN Routes : Chunk[id].sec \in Routes[i].forced => Chunk[id].leg
    /\ IsFiniteSet(Cases) /\ \A c \in Cases : Score[c] \in Nat
    /\ \A c, d \in Cases : Score[c] = Score[d] => c = d
    /\ AugmentCap \in Nat /\ RefineCap \in Nat \ {0}

VARIABLES corpus,  \* the chunk ids indexed
          pc, hits, \* where the request is, and the trigger terms of its question
          inj,     \* retrieve_anchor: the chunks injected for forced sections
          todo,    \* synthetic queries still to embed or to search
          leg, anchorOk, \* legislation in the answer's context; whether retrieve_anchor ran to its end
          cases, guidance \* case sources, best first where sorted; the guidance document, if any
reqVars == <<pc, hits, inj, todo, leg, anchorOk, cases, guidance>>
vars == <<bootVars, embedVars, corpus, reqVars>>

Decision == RouteDecision(Routes, hits)
Sec(id) == Chunk[id].sec   \* <<act, section>>
Act(id) == Sec(id)[1]
Indexed == {Sec(id) : id \in corpus}
\* The candidates keep the order of the batch: the sources in turn, each by similarity. The first n of S.
Position(id) == Len(Similar) * (CHOOSE i \in DOMAIN Sources : Sources[i].act = Act(id))
                + (CHOOSE j \in DOMAIN Similar : Similar[j] = id)
First(S, n) == {id \in S : Cardinality({o \in S : Position(o) < Position(id)}) < n}

Init == /\ BootInit /\ EmbedInit
        /\ \E gap \in Gaps : corpus = {id \in Ids : Sec(id) \notin gap}
        /\ pc = "idle" /\ hits = {} /\ inj = {} /\ todo = {}
        /\ leg = {} /\ anchorOk = FALSE /\ cases = <<>> /\ guidance = {}

Boot == /\ \/ \E s \in Probed : ProbeAnswers(s, Indexed) \/ ProbeFails(s)
           \/ Validate
        /\ UNCHANGED <<embedVars, corpus, reqVars>>

-----------------------------------------------------------------------------
\* A request, and its start.

\* rewrite_query never fails: it falls back to the question. The route decision is made once.
Terms == UNION {{<<i, f>> : f \in Routes[i].terms} : i \in DOMAIN Routes}
Assemble == /\ boot \in {"up", "degraded"} /\ pc = "idle"
            /\ hits' \in SUBSET Terms
            /\ pc' = "embed"
            /\ UNCHANGED <<bootVars, embedVars, corpus, inj, todo, leg, anchorOk, cases, guidance>>

Step(from, to) == pc = from /\ pc' = to
Throw(from) == Step(from, "failed")   \* the exception reaches the handler

EmbedQuestion == /\ Step("embed", "search") \/ Throw("embed")
                 /\ UNCHANGED <<bootVars, embedVars, corpus, hits, inj, todo, leg, anchorOk, cases, guidance>>

-----------------------------------------------------------------------------
\* retrieve_anchor. Whatever it awaits may throw: it then returns an empty result.

AnchorThrows == /\ pc \in {"search", "inject", "miss"} /\ pc' = "cases"
                /\ inj' = {} /\ todo' = {} /\ anchorOk' = FALSE /\ leg' = {}
                /\ UNCHANGED <<bootVars, embedVars, corpus, hits, cases, guidance>>

\* One search per source with its quota, in one batch. What it found is first read, and so chosen, by
\* GateAndCap: the store may return any of a source's chunks.
SearchSources ==
    /\ Step("search", IF Decision.legSynth = {} THEN "miss" ELSE "synth")
    /\ todo' = Decision.legSynth
    /\ UNCHANGED <<bootVars, embedVars, corpus, hits, inj, leg, anchorOk, cases, guidance>>
WithinQuotas(S) == /\ \A id \in S : \E i \in DOMAIN Sources : Sources[i].act = Act(id)
                   /\ \A i \in DOMAIN Sources :
                        Cardinality({id \in S : Act(id) = Sources[i].act}) <= Quota(Decision, Sources[i])

\* embed_synth of each synthetic query, in turn.
EmbedSynthetic ==
    /\ pc = "synth"
    /\ \/ \E k \in todo : EmbedSynth(Main, k) /\ UNCHANGED <<pc, todo, inj, anchorOk, leg>>
       \/ EmbedStep(Main) /\ UNCHANGED <<pc, todo, inj, anchorOk, leg>>
       \/ /\ At(Main, "ok") /\ call' = [call EXCEPT ![Main] = Idle]
          /\ todo' = todo \ {call[Main].key} /\ UNCHANGED <<pc, inj, anchorOk, leg, cache, inflight>>
       \/ /\ At(Main, "threw") /\ call' = [call EXCEPT ![Main] = Idle] /\ pc' = "cases"
          /\ inj' = {} /\ todo' = {} /\ anchorOk' = FALSE /\ leg' = {} /\ UNCHANGED <<cache, inflight>>
       \/ todo = {} /\ pc' = "inject" /\ UNCHANGED <<embedVars, todo, inj, anchorOk, leg>>
    /\ UNCHANGED <<bootVars, corpus, hits, cases, guidance>>

\* The synthetic searches: the first chunk they return of a forced section is injected and is no candidate.
InjectSynthetic ==
    /\ Step("inject", "miss")
    /\ \E S \in SUBSET {id \in corpus : Sec(id) \in Decision.forced} :
        /\ \A a, b \in S : Sec(a) = Sec(b) => a = b
        /\ inj' = S
    /\ UNCHANGED <<bootVars, embedVars, corpus, hits, todo, leg, anchorOk, cases, guidance>>

\* Which chunk stands for a section that the synthetic searches missed: the largest group of one title that
\* does not sound transitional, in it the chunks that do not read as an amendment, of these the lowest
\* chunk_index. The search asks the store for the payload fields below only.
PayloadFields == {"text", "title", "case_id", "url", "date", "court_name"}
ChunkIndex(id) == IF "chunk_index" \in PayloadFields THEN Chunk[id].index ELSE 2147483647
OrAll(S, all) == IF S = {} THEN all ELSE S
BestChunks(cands) ==
    LET Group(t) == {id \in cands : Chunk[id].title = t}
        titles   == {Chunk[id].title : id \in cands}
        lasting  == OrAll(titles \ {"transitional"}, titles)
        largest  == {t \in lasting : \A u \in lasting : Cardinality(Group(t)) >= Cardinality(Group(u))}
        Operative(t) == OrAll({id \in Group(t) : ~Chunk[id].amends}, Group(t))
    IN UNION {{id \in Operative(t) : \A o \in Operative(t) : ChunkIndex(id) <= ChunkIndex(o)} : t \in largest}

\* Every forced section not injected yet is searched for by its case_id, in one batch.
Missed == {s \in Decision.forced : \A id \in inj : Sec(id) # s}
FetchMissed ==
    /\ Step("miss", "gate")
    /\ \E S \in SUBSET UNION {BestChunks({id \in corpus : Sec(id) = s}) : s \in Missed \cap Indexed} :
        /\ {Sec(id) : id \in S} = Missed \cap Indexed
        /\ \A a, b \in S : Sec(a) = Sec(b) => a = b
        /\ inj' = inj \cup S
    /\ UNCHANGED <<bootVars, embedVars, corpus, hits, todo, leg, anchorOk, cases, guidance>>

\* The structural filters a candidate passes: the low-priority gate (lowHit: low-priority sections with a
\* word in the question), the allow-list, and legislation only. Injected chunks pass them all.
Passes(id, lowHit) == /\ Sec(id) \notin SuppressedLp(LowPriority, lowHit)
                      /\ (Decision.allow # {} /\ Chunk[id].leg) => Sec(id) \in Decision.allow
                      /\ Chunk[id].leg
\* One chunk per section, injected ones first, the cap last.
\* Mutant: every window of a section takes a place.
EveryWindow(S) == S
OnePerSection(S) == {id \in S : \A o \in S \ {id} : Sec(o) = Sec(id) => First({o, id}, 1) = {id}}
\* Mutant of Capped: the cut before the injected chunks are moved to the front.
CappedInOrder(kept) == First(inj \cup kept, ReconcileMaxHits(Cardinality(inj),
                            ComputeMaxHits(Cardinality(inj), Cardinality(Decision.allow))))

Capped(kept) ==
    LET nForced == Cardinality(inj)
        cap     == ReconcileMaxHits(nForced, ComputeMaxHits(nForced, Cardinality(Decision.allow)))
        others  == OnePerSection({id \in kept : \A f \in inj : Sec(f) # Sec(id)})
    IN inj \cup First(others, cap - nForced)

\* The cross-encoder keeps every injected chunk and what scores enough of the others, or, when it fails,
\* everything: kept is any part of what the searches returned and the filters let pass.
GateAndCap ==
    /\ Step("gate", "cases")
    /\ \E lowHit \in SUBSET LowPriority : \E kept \in SUBSET {id \in corpus \ inj : Passes(id, lowHit)} :
        WithinQuotas(kept) /\ leg' = Capped(kept)
    /\ anchorOk' = TRUE /\ inj' = {} /\ todo' = {}
    /\ UNCHANGED <<bootVars, embedVars, corpus, hits, cases, guidance>>

-----------------------------------------------------------------------------
\* Case law. A retrieval returns cases of at least min, at least atLeast of them or none at all.
Retrieved(topK, min, atLeast) ==
    {S \in SUBSET {c \in Cases : Score[c] >= min} : Cardinality(S) <= topK /\ Cardinality(S) >= atLeast} \cup {{}}
BestFirst(S) == [i \in 1..Cardinality(S) |->
                    CHOOSE c \in S : Cardinality({d \in S : Score[d] > Score[c]}) = i - 1]
Top(s) == Max({0} \cup {Score[s[i]] : i \in DOMAIN s})
High(s) == Top(s) >= HighScore /\ Len(s) >= HighN
Medium(s) == Top(s) >= MediumScore /\ Len(s) >= MediumN

CasesOnly == UNCHANGED <<bootVars, embedVars, corpus, hits, inj, todo, guidance>>
LegKept == UNCHANGED <<leg, anchorOk>>

\* The legislation goes into the messages: no later step reads it.
RetrieveCases == /\ \/ /\ Step("cases", "augment")
                       /\ \E S \in Retrieved(5, 75, 2) : cases' = BestFirst(S)
                    \/ Throw("cases") /\ UNCHANGED cases
                 /\ leg' = {} /\ anchorOk' = FALSE /\ CasesOnly

\* New cases of each synthetic case query go to the end, up to the cap.
Augment == /\ \/ /\ Step("augment", "confidence")
                 /\ IF Decision.caseSynth = {} THEN UNCHANGED cases
                    ELSE \E S \in Retrieved(5, 70, 1) :
                        LET new  == BestFirst(S \ ToSet(cases))
                            room == IF Len(cases) >= AugmentCap THEN 0 ELSE AugmentCap - Len(cases)
                        IN cases' = cases \o SubSeq(new, 1, IF Len(new) < room THEN Len(new) ELSE room)
              \/ Decision.caseSynth # {} /\ Throw("augment") /\ UNCHANGED cases
           /\ LegKept /\ CasesOnly

\* The confidence the answer would have decides whether there is a second pass.
CheckConfidence == /\ Step("confidence", IF cases # <<>> /\ (High(cases) \/ Medium(cases)) THEN "guide" ELSE "refine")
                   /\ UNCHANGED cases /\ LegKept /\ CasesOnly

\* refine_retrieve: a relaxed retrieval of the question and, when the rewrite changed it, of the rewritten
\* one, S being what both return; only when it finds something new is the whole
\* set sorted and cut.
\* Mutant: the second pass replaces the first.
RefineReplaces == /\ Step("refine", "guide")
                  /\ \E S \in Retrieved(2 * 8, 65, 1) :
                        LET all == BestFirst(S)
                        IN cases' = SubSeq(all, 1, IF Len(all) < RefineCap THEN Len(all) ELSE RefineCap)
                  /\ LegKept /\ CasesOnly
Refine == /\ \/ /\ Step("refine", "guide")
                /\ \E S \in Retrieved(2 * 8, 65, 1) :
                    cases' = IF S \subseteq ToSet(cases) THEN cases
                             ELSE LET all == BestFirst(S \cup ToSet(cases))
                                  IN SubSeq(all, 1, IF Len(all) < RefineCap THEN Len(all) ELSE RefineCap)
             \/ Throw("refine") /\ UNCHANGED cases
          /\ LegKept /\ CasesOnly

-----------------------------------------------------------------------------
\* retrieve_manual_guidance: the documents the fired routes name come first, whatever their score: the best
\* of them among the hits, else the first the store has. Then the best hit that reaches the threshold. A
\* route names a document by its case_id, a hit and a fetch go by the point's id.
Wanted == UNION {Routes[i].guidance : i \in Decision.matched}
Highest(D) == IF D = {} THEN {} ELSE {CHOOSE d \in D : \A e \in D : Manual[d].score >= Manual[e].score}
Guide ==
    /\ Step("guide", "done")
    /\ \E H \in SUBSET DOMAIN Manual :
        guidance' = IF Wanted \cap H # {} THEN Highest(Wanted \cap H)
                    ELSE IF Wanted \ DOMAIN Manual # {} THEN {}   \* the store refuses the id: an exception
                    ELSE IF Wanted # {} THEN {CHOOSE d \in Wanted : TRUE}
                    ELSE Highest({d \in H : Manual[d].score >= GuidanceScore})
    /\ UNCHANGED <<bootVars, embedVars, corpus, hits, inj, todo, leg, anchorOk, cases>>
\* Any other exception is caught as well, and leaves no guidance.
GuideThrows == /\ Step("guide", "done") /\ guidance' = {}
               /\ UNCHANGED <<bootVars, embedVars, corpus, hits, inj, todo, leg, anchorOk, cases>>

\* The messages are built, or the exception is answered: the request is over.
Answer == /\ pc \in {"done", "failed"} /\ pc' = "idle"
          /\ hits' = {} /\ cases' = <<>> /\ guidance' = {}
          /\ UNCHANGED <<bootVars, embedVars, corpus, inj, todo, leg, anchorOk>>

\* The other request: any synthetic query, while this one is at its own.
Other(c) == /\ c # Main
            /\ \/ pc = "synth" /\ \E k \in DOMAIN Routes : EmbedSynth(c, k)
               \/ EmbedStep(c)
               \/ (At(c, "ok") \/ At(c, "threw")) /\ call' = [call EXCEPT ![c] = Idle] /\ UNCHANGED <<cache, inflight>>
            /\ UNCHANGED <<bootVars, corpus, reqVars>>

Request == \/ EmbedQuestion \/ AnchorThrows \/ SearchSources \/ EmbedSynthetic \/ InjectSynthetic \/ FetchMissed
           \/ GateAndCap \/ RetrieveCases \/ Augment \/ CheckConfidence \/ Refine \/ Guide \/ GuideThrows \/ Answer
Next == Boot \/ Assemble \/ Request \/ \E c \in Callers : Other(c)

\* Every call a request awaits has a timeout, the polls are counted, and the loops keep running.
Spec == Init /\ [][Next]_vars /\ WF_vars(Request)

-----------------------------------------------------------------------------
\* The start-up check means what it says: when every probe was answered and the server came up, a request
\* that no failure cut short has every section its routes declare mandatory in the context, past the
\* low-priority gate, the allow-list, the cross-encoder, the cap and the one chunk per section.
MandatoryDelivered ==
    anchorOk /\ boot = "up" /\ conclusive
        => \A s \in Decision.forced : \E id \in leg : Sec(id) = s

\* The context never spends two places on one section, holds nothing but legislation, and beyond the
\* mandatory sections nothing outside the allow-list; a question that fired no route gets two sections.
ContextClean ==
    /\ \A a, b \in leg : Sec(a) = Sec(b) => a = b
    /\ \A id \in leg : /\ Chunk[id].leg
                       /\ Sec(id) \in Decision.forced \/ Decision.allow = {} \/ Sec(id) \in Decision.allow
    /\ Cardinality(leg) <= IF Decision.triggered THEN Max({3, Cardinality(Decision.forced)}) ELSE 2

\* A refusal to start has a reason: some named section was counted and is absent; failures alone never
\* keep the server down.
RefusedForCause == boot = "refused" => \E s \in Probed : s \notin Indexed

\* The second pass only improves on the first: it never loses the best case, lowers the confidence, or
\* leaves a case twice.
RefineNeverWorsens ==
    [][Step("refine", "guide") => /\ Top(cases') >= Top(cases)
                                  /\ Len(cases') >= Min({Len(cases), RefineCap})
                                  /\ Cardinality(ToSet(cases')) = Len(cases')]_vars

\* Every request is answered, also when the owner of an embedding it waits for has failed.
AssembleEnds == pc = "embed" ~> pc = "idle"

\* What anchor.hpp promises of guidance: a document that a fired route names is injected regardless of its
\* score, when no call failed.
RouteGuidanceInjected ==
    [][Guide /\ (\E d \in DOMAIN Manual : Manual[d].case \in Wanted) => guidance' # {}]_vars
==============================================================================
