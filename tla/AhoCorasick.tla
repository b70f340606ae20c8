---- MODULE AhoCorasick ----
\* The scan for trigger terms: normalize_query (routing.cpp), the automaton (aho_corasick.cpp) and the
\* boundary rules (term_match.hpp). A text is a sequence of characters; of a letter, a lower-case one is what
\* counts; "~" stands for a byte outside ASCII.
EXTENDS Naturals, Sequences, SequencesExt, FiniteSets
CONSTANTS Terms,   \* the terms of the table: <<route, list, word>>
          Alphabet,
          Lower    \* what normalize_query makes of a character: lower case, and a blank for a dash or a tab

ASSUME ScanAssumption == /\ IsFiniteSet(Terms) /\ \A t \in Terms : t[3] \in Seq(Alphabet)
                         /\ Lower \in [Alphabet -> Alphabet]

IsAscii(c) == c # "~"
IsWordChar(c) == c \notin {" ", "'", "~"}

\* Blanks collapse to one, none at either end.
Emit(out, c) == IF c = " " /\ (out = <<>> \/ Last(out) = " ") THEN out ELSE Append(out, c)
NormalizeQuery(text) ==
    LET out[i \in 0..Len(text)] == IF i = 0 THEN <<>> ELSE Emit(out[i - 1], Lower[text[i]])
        all == out[Len(text)]
    IN IF all # <<>> /\ Last(all) = " " THEN Front(all) ELSE all

HasRouteBoundaries(text, start, end) == /\ start = 1 \/ ~IsWordChar(text[start - 1])
                                        /\ end = Len(text) \/ ~IsWordChar(text[end + 1])

\* The reference: some occurrence of the word is a token.
ContainsRouteToken(text, word) ==
    word # <<>> /\ \E s \in 1..Len(text) : LET e == s + Len(word) - 1
                                           IN /\ e <= Len(text) /\ SubSeq(text, s, e) = word
                                              /\ HasRouteBoundaries(text, s, e)

-----------------------------------------------------------------------------
\* The automaton. A node is the path to it; an empty term, or one outside ASCII, is not inserted.
Inserted == {t \in Terms : t[3] # <<>> /\ \A i \in DOMAIN t[3] : IsAscii(t[3][i])}
Nodes == {<<>>} \cup UNION {{SubSeq(t[3], 1, n) : n \in 1..Len(t[3])} : t \in Inserted}

Depth == CHOOSE d \in {Len(u) : u \in Nodes} : \A u \in Nodes : Len(u) <= d

\* The links in the order of the search by breadth, here of the nodes of depth d and less: they go back to
\* lesser depths. A missing transition is the one of the node the link goes to; the root's stay at the root.
RootLinks == [fail |-> [u \in {<<>>} |-> <<>>],
              next |-> [u \in {<<>>} |-> [c \in Alphabet |-> IF <<c>> \in Nodes THEN <<c>> ELSE <<>>]]]
Deeper(d, up) ==
    LET upto    == {u \in Nodes : Len(u) <= d}
        Link(u) == IF d = 1 THEN <<>> ELSE up.next[up.fail[Front(u)]][Last(u)]
        Step(u) == [c \in Alphabet |-> IF Append(u, c) \in Nodes THEN Append(u, c) ELSE up.next[Link(u)][c]]
    IN [fail |-> [u \in upto |-> IF Len(u) < d THEN up.fail[u] ELSE Link(u)],
        next |-> [u \in upto |-> IF Len(u) < d THEN up.next[u] ELSE Step(u)]]
Links[d \in 0..Depth] == IF d = 0 THEN RootLinks ELSE Deeper(d, Links[d - 1])
Fail == Links[Depth].fail
Goto == Links[Depth].next

\* The terms that end at a node, those of the node its link goes to included. Mutant: only its own.
OwnOut(u) == {t \in Inserted : t[3] = u}
Out(u) == LET f[v \in Nodes] == OwnOut(v) \cup IF v = <<>> THEN {} ELSE f[Fail[v]] IN f[u]

\* A byte outside ASCII sends the scan back to the root. A hit counts at word boundaries only.
Scan(u, c) == IF IsAscii(c) THEN Goto[u][c] ELSE <<>>
Search(text) ==
    LET state[i \in 0..Len(text)] == IF i = 0 THEN <<>> ELSE Scan(state[i - 1], text[i])
    IN {t \in Inserted : \E i \in DOMAIN text : /\ IsAscii(text[i]) /\ t \in Out(state[i])
                                                /\ HasRouteBoundaries(text, i + 1 - Len(t[3]), i)}

\* The hits as build_route_decision sums them up per route: of include_all every term must be there.
Summary(found) ==
    {<<t[1], t[2]>> : t \in {u \in found : u[2] # "All"}}
    \cup {<<i, "All">> : i \in {t[1] : t \in {u \in found : u[2] = "All" /\ \A v \in Terms :
                                                 v[1] = u[1] /\ v[2] = "All" => v \in found}}}
==============================================================================
