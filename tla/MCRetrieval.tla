---- MODULE MCRetrieval ----
\* Two routes: one with an allow-list, one without; sections of two Acts, one in several windows and under
\* two titles, one that is low-priority, and a case in the legislation store.
EXTENDS Retrieval

MCRoutes == <<[terms |-> {"Legacy"}, forced |-> {<<"A", "1">>, <<"A", "2">>},
               allow |-> {<<"A", "1">>, <<"A", "2">>, <<"A", "3">>, <<"A", "low">>},
               guidance |-> {"bonds"}, caseSynth |-> TRUE, priority |-> 0, card |-> TRUE],
              [terms |-> {"Legacy"}, forced |-> {<<"B", "1">>}, allow |-> {},
               guidance |-> {}, caseSynth |-> FALSE, priority |-> 5, card |-> FALSE]>>
MCLowPriority == {<<"A", "low">>}
Leg(sec, title, amends, index) == [sec |-> sec, leg |-> TRUE, title |-> title, amends |-> amends, index |-> index]
MCChunk == [a1w0 |-> Leg(<<"A", "1">>, "duties", FALSE, 0), a1w1 |-> Leg(<<"A", "1">>, "duties", FALSE, 1),
            a1old |-> Leg(<<"A", "1">>, "transitional", FALSE, 0),
            a2 |-> Leg(<<"A", "2">>, "duties", TRUE, 0), a3 |-> Leg(<<"A", "3">>, "duties", FALSE, 0),
            low |-> Leg(<<"A", "low">>, "duties", FALSE, 0), b1 |-> Leg(<<"B", "1">>, "duties", FALSE, 0),
            case |-> [Leg(<<"A", "case">>, "case", FALSE, 0) EXCEPT !.leg = FALSE]]
MCSimilar == <<"low", "case", "a3", "a1w1", "a1old", "a1w0", "b1", "a2">>
MCGaps == {{}, {<<"A", "2">>}}
MCSources == <<[act |-> "A", quota |-> 2, boost |-> 3], [act |-> "B", quota |-> 1, boost |-> 1]>>
MCScore == [c1 |-> 90, c2 |-> 80, c3 |-> 76, c4 |-> 71, c5 |-> 66]
MCManual == [uuid1 |-> [case |-> "bonds", score |-> 60], uuid2 |-> [case |-> "rent", score |-> 80]]
==============================================================================
