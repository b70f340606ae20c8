---- MODULE RouteValidator ----
\* The start-up check of a route table against the legislation corpus (route_validator_corpus.cpp, and what
\* main() does with the report): one count probe per section the table names, all in flight at once, and a
\* ceiling on the wait for them. A probe that fails or does not answer says nothing.
EXTENDS Routing
CONSTANTS Routes,       \* the route table
          LowPriority,  \* low_priority_sections
          AllowMissing  \* ASTRAEA_ALLOW_MISSING_FORCED_SECTIONS=1

VARIABLES boot,   \* "probing", "refused", "degraded" or "up"
          probe,  \* what each probe has said: "none", "found", "absent" or "unclear"
          conclusive \* whether all of them had said found or absent when the report was made
bootVars == <<boot, probe, conclusive>>

Probed == (UNION {Routes[i].forced : i \in DOMAIN Routes}) \cup LowPriority
BootInit == boot = "probing" /\ probe = [s \in Probed |-> "none"] /\ conclusive = FALSE

\* indexed: the sections that have a chunk in the corpus.
ProbeAnswers(s, indexed) ==
    /\ boot = "probing" /\ probe[s] = "none"
    /\ probe' = [probe EXCEPT ![s] = IF s \in indexed THEN "found" ELSE "absent"]
    /\ UNCHANGED <<boot, conclusive>>
\* A network error, a status other than 200, or a body without a count.
\* Mutant: a failure counts as zero chunks.
ProbeFailsAbsent(s) == /\ boot = "probing" /\ probe[s] = "none"
                       /\ probe' = [probe EXCEPT ![s] = "absent"]
                       /\ UNCHANGED <<boot, conclusive>>
ProbeFails(s) == /\ boot = "probing" /\ probe[s] = "none"
                 /\ probe' = [probe EXCEPT ![s] = "unclear"]
                 /\ UNCHANGED <<boot, conclusive>>

Report == MissingSections(Routes, LowPriority, {s \in Probed : probe[s] # "absent"})

\* Every probe has answered, or the ceiling fires with some outstanding.
Validate == /\ boot = "probing"
            /\ boot' = IF Report = {} THEN "up" ELSE IF AllowMissing THEN "degraded" ELSE "refused"
            /\ conclusive' = (\A s \in Probed : probe[s] \in {"found", "absent"})
            /\ probe' = [s \in Probed |-> "none"]
==============================================================================
