---- MODULE Routing ----
\* Which statute routes a question fires and what they ask of retrieval: build_route_decision (routing.cpp)
\* over a route table (a sequence of records as in TenancyRoutes) and the hits of its trigger terms. A hit
\* <<i, f>> says that a term of list f of route i occurs in the question as a token; <<i, "All">> says
\* that every term of include_all does. What the scan finds is AhoCorasick's part.
EXTENDS Naturals, FiniteSets, Sequences

HitsOf(hits, i) == {h[2] : h \in {g \in hits : g[1] = i}}

\* A route with precise or broad terms ignores its flat list; one without ignores its context words.
TwoTier(r) == r.terms \cap {"Precise", "Broad"} # {}
\* Mutant of Path: broad words first.
PathBroadFirst(r, f) ==
    CASE TwoTier(r) /\ "Broad" \in f -> IF "Context" \in f THEN "broad+context" ELSE "none"
      [] TwoTier(r) /\ "Broad" \notin f /\ "Precise" \in f -> "precise"
      [] ~TwoTier(r) /\ "Legacy" \in f -> "legacy"
      [] OTHER -> "none"
Path(r, f) ==
    CASE TwoTier(r) /\ "Precise" \in f -> "precise"
      [] TwoTier(r) /\ "Precise" \notin f /\ {"Broad", "Context"} \subseteq f -> "broad+context"
      [] ~TwoTier(r) /\ "Legacy" \in f -> "legacy"
      [] OTHER -> "none"
Fires(r, f) == /\ "Exclude" \notin f
               /\ Path(r, f) # "none"
               /\ "All" \in r.terms => "All" \in f

Matched(table, hits) == {i \in {h[1] : h \in hits} : Fires(table[i], HitsOf(hits, i))}

\* Broad words without context; an exclusion does not clear it.
NearMisses(table, hits) ==
    {i \in {h[1] : h \in hits} : /\ i \notin Matched(table, hits)
                                 /\ "Broad" \in HitsOf(hits, i)
                                 /\ "Context" \notin HitsOf(hits, i)}

Forced(table, m) == UNION {table[i].forced : i \in m}
\* The Act of each forced section, to raise its quota.
Boosted(table, m) == {s[1] : s \in Forced(table, m)}

\* A route that defines an allow-list comes before one that does not; among them the highest priority,
\* the first in the table on a tie (std::max_element). 0 stands for none.
AllowCandidates(table, m) == {i \in m : table[i].allow # {}}
FirstHighest(table, pool) ==
    CHOOSE i \in pool : \A j \in pool : \/ table[i].priority > table[j].priority
                                        \/ table[i].priority = table[j].priority /\ i <= j
Dominant(table, m) == IF m = {} THEN 0
                      ELSE IF AllowCandidates(table, m) # {} THEN FirstHighest(table, AllowCandidates(table, m))
                      ELSE FirstHighest(table, m)

\* The allow-list is the union over every matched route.
\* Mutant: the dominant route's alone.
AllowDominant(table, m) == IF Dominant(table, m) = 0 THEN {} ELSE table[Dominant(table, m)].allow
AllowList(table, m) == UNION {table[i].allow : i \in AllowCandidates(table, m)}

\* A matched route that did not win, and why.
Ignored(table, m) == {<<i, IF AllowCandidates(table, m) = {} THEN "lower priority"
                           ELSE IF table[i].allow = {} THEN "no allow-list" ELSE "allow-list unioned">>
                        : i \in m \ {Dominant(table, m)}}

RouteDecision(table, hits) ==
    LET m == Matched(table, hits)
    IN [triggered |-> m # {}, matched |-> m, paths |-> {<<i, Path(table[i], HitsOf(hits, i))>> : i \in m},
        forced |-> Forced(table, m), allow |-> AllowList(table, m), boosted |-> Boosted(table, m),
        legSynth |-> m, caseSynth |-> {i \in m : table[i].caseSynth}, dominant |-> Dominant(table, m),
        ignored |-> Ignored(table, m), near |-> NearMisses(table, hits), cards |-> {i \in m : table[i].card}]

\* The sources a jurisdiction searches one by one, each with its own quota; a boosted Act gets more.
Quota(decision, src) == IF src.act \in decision.boosted THEN src.boost ELSE src.quota

\* The cap on legislation hits (compute_max_hits).
\* Mutant: the floor taken for the cap.
FloorOnly(nForced, allowSize) == IF nForced = 0 THEN 2 ELSE 3
ComputeMaxHits(nForced, allowSize) ==
    LET floor == IF nForced > 3 THEN nForced ELSE 3
    IN IF nForced = 0 THEN 2
       ELSE IF allowSize = 0 \/ allowSize > floor THEN floor ELSE allowSize
\* reconcile_max_hits as a release build runs it: the cap is widened, never the sections truncated.
ReconcileMaxHits(nForced, cap) == IF nForced <= cap THEN cap ELSE nForced

\* Low-priority sections whose words (the sections lowHit have one in the question) do not occur.
SuppressedLp(low, lowHit) == low \ lowHit
AllowSection(low, lowHit, s) == s \in low => s \in lowHit

\* The sections a table names that a corpus lacks, with who named them (validate_forced_sections).
MissingSections(table, low, exists) ==
    {m \in (UNION {table[j].forced : j \in DOMAIN table}) \X DOMAIN table
        : m[1] \in table[m[2]].forced /\ m[1] \notin exists}
    \cup {<<s, 0>> : s \in low \ exists}
==============================================================================
