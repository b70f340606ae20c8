---- MODULE RouteTables ----
\* The route tables the servers run with, under every question that hits few of their routes: the scan
\* finds one trigger term after another (in an order the decision does not depend on), then the decision
\* is made. A question may hit terms of any two routes: that over-approximates the questions there are.
\* A third, small table has its terms written out, and its questions are texts the automaton scans.
EXTENDS Routing, ConsentsRoutes, AhoCorasick
CONSTANTS MaxHits,    \* term lists a question hits
          MaxRoutes,  \* routes it hits
          MaxText,    \* characters of a written question
          SmallTable  \* the routes that Terms belong to

\* The jurisdictions with a table of their own (JurisdictionBase::routes and its neighbours).
Jurisdictions == {"nz_tenancy", "nz_building", "small"}
Table == [nz_tenancy |-> TenancyTable, nz_building |-> ConsentsTable, small |-> SmallTable]

\* The written table: its terms belong to its routes, and none of its routes takes away what another forces.
\* Of the tables the servers run with the same is proved (RouteTables_proofs).
Sections(table) == UNION {table[i].forced \cup table[i].allow : i \in DOMAIN table}
Covers(table) == \A i, j \in DOMAIN table :
                    table[i].allow # {} => table[j].forced \subseteq table[i].allow \cup table[j].allow
ASSUME SmallTableAssumption == /\ \A t \in Terms : t[1] \in DOMAIN SmallTable
                               /\ IsFiniteSet(Sections(SmallTable))
                               /\ Covers(SmallTable)

VARIABLES jur, text, hits, phase
vars == <<jur, text, hits, phase>>

Decision == RouteDecision(Table[jur], hits)

Init == jur \in Jurisdictions /\ text = <<>> /\ hits = {} /\ phase = "scan"

\* One hit of the scan of a question that is not written out.
ScanHit(i, f) ==
    /\ phase = "scan" /\ jur # "small"
    /\ Cardinality(hits) < MaxHits
    /\ Cardinality({h[1] : h \in hits} \cup {i}) <= MaxRoutes
    /\ hits' = hits \cup {<<i, f>>}
    /\ UNCHANGED <<jur, text, phase>>

\* One more character of a question that is.
Write(c) == /\ phase = "scan" /\ jur = "small"
            /\ Len(text) < MaxText
            /\ text' = Append(text, c)
            /\ UNCHANGED <<jur, hits, phase>>

\* build_route_decision: the scan, then the decision.
Decide == /\ phase = "scan" /\ phase' = "decided"
          /\ hits' = IF jur = "small" THEN Summary(Search(NormalizeQuery(text))) ELSE hits
          /\ UNCHANGED <<jur, text>>

NextQuestion == phase = "decided" /\ phase' = "scan" /\ hits' = {} /\ text' = <<>> /\ UNCHANGED jur

Next == \/ \E i \in DOMAIN Table[jur] : \E f \in Table[jur][i].terms : ScanHit(i, f)
        \/ \E c \in Alphabet : Write(c)
        \/ Decide
        \/ NextQuestion
Spec == Init /\ [][Next]_vars

-----------------------------------------------------------------------------
\* However many of the forced sections retrieval finds, the cap has room for each: the invariant
\* retrieve_anchor logs as an error (anchor.cpp "Invariant 2") is kept by the tables themselves, for
\* every pair of routes that fire together.
CapCoversForced == phase = "decided" =>
    \A n \in 0..Cardinality(Decision.forced) : ComputeMaxHits(n, Cardinality(Decision.allow)) >= n

\* A section some fired route declares mandatory is never outside the allow-list that another route
\* brings, so that it stays visible to the vector search even when its injection fails.
AllowCoversForced == phase = "decided" /\ Decision.allow # {} => Decision.forced \subseteq Decision.allow

\* Another trigger term in the question never takes a section away: what was forced stays forced, and an
\* allow-list only grows, whichever of the routes dominates. Only an exclusion may.
MoreTermsKeepSections ==
    [][hits \subseteq hits' /\ (\A h \in hits' \ hits : h[2] # "Exclude")
        => /\ Decision.forced \subseteq Decision'.forced
           /\ Decision.allow \subseteq Decision'.allow]_vars

\* One pass of the automaton finds what a search for each term on its own would: a term that overlaps
\* another, ends inside it or is its suffix is not lost, and nothing is found inside a word.
ScanIsExact == phase = "decided" /\ jur = "small" =>
    hits = Summary({t \in Terms : ContainsRouteToken(NormalizeQuery(text), t[3])})
==============================================================================
