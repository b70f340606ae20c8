---- MODULE MCRouteTables ----
\* Terms that are prefixes, suffixes and infixes of each other, and one of two words.
EXTENDS RouteTables

MCAlphabet == {"a", "B", "b", "-", " ", "~"}
MCLower == [c \in MCAlphabet |-> IF c = "B" THEN "b" ELSE IF c = "-" THEN " " ELSE c]
MCTerms == {<<1, "Precise", <<"a", " ", "b">>>>, <<1, "Broad", <<"a">>>>, <<1, "Context", <<"b", "b">>>>,
            <<2, "Legacy", <<"b">>>>, <<2, "Legacy", <<"a", "b">>>>, <<2, "Exclude", <<"a", "a">>>>,
            <<3, "Legacy", <<"b", " ", "b">>>>, <<3, "All", <<"a">>>>, <<3, "All", <<"b">>>>}
Route(terms, forced, allow, priority) ==
    [terms |-> terms, forced |-> forced, allow |-> allow, priority |-> priority,
     guidance |-> {}, caseSynth |-> FALSE, card |-> FALSE]
MCSmallTable == <<Route({"Precise", "Broad", "Context"}, {<<"A", "1">>}, {<<"A", "1">>, <<"A", "2">>}, 1),
                  Route({"Legacy", "Exclude"}, {<<"A", "2">>}, {}, 2),
                  Route({"Legacy", "All"}, {<<"B", "1">>}, {<<"A", "1">>, <<"A", "2">>, <<"B", "1">>}, 0)>>
==============================================================================
