---- MODULE MCWiki ----
\* Two names of one file, another page, INDEX and CHANGELOG, a name that never becomes a page and one that the
\* index cannot hold; answers that overlap.
EXTENDS Wiki, TLC

MCFile == [bond |-> "bond.md", bond2 |-> "bond.md", rent |-> "rent.md", ghost |-> "ghost.md", odd |-> "odd.md",
           INDEX |-> "INDEX.md", CHANGELOG |-> "CHANGELOG.md"]
MCListed == [n \in DOMAIN MCFile |-> IF n = "odd" THEN {"ghost"} ELSE {n}]
P(page, summary) == [page |-> page, summary |-> summary, more |-> {}, lists |-> {}]
MCAnswers == {<<>>, <<P("bond", TRUE)>>, <<P("bond2", FALSE), [P("rent", TRUE) EXCEPT !.more = {"ghost"}]>>,
              <<[P("INDEX", FALSE) EXCEPT !.lists = {"ghost"}], P("bond", TRUE)>>,
              <<P("odd", TRUE), P("CHANGELOG", FALSE)>>}
Symmetry == Permutations(Ingests)
==============================================================================
