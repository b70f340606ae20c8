-------------------------------- MODULE Fanout --------------------------------
(***************************************************************************)
(* What when_all_pair and when_all_void promise: the caller goes on once,  *)
(* after every task has ended, and it gets an error exactly when a task    *)
(* threw one.                                                              *)
(***************************************************************************)
CONSTANTS Tasks

VARIABLES ended,    \* the tasks that have ended
          thrown,   \* those of them that threw
          answer    \* what the caller has: nothing yet, the values, or the task whose error it sees

Values == "values"
Nothing == "nothing"

Init ==
  /\ ended = {}
  /\ thrown = {}
  /\ answer = Nothing

End(t) ==
  /\ t \notin ended
  /\ ended' = ended \union {t}
  /\ thrown' \in {thrown, thrown \union {t}}
  /\ UNCHANGED answer

Answer ==
  /\ answer = Nothing
  /\ ended = Tasks
  /\ IF thrown = {} THEN answer' = Values ELSE answer' \in thrown
  /\ UNCHANGED <<ended, thrown>>

Next == Answer \/ \E t \in Tasks : End(t)

Spec == Init /\ [][Next]_<<ended, thrown, answer>>
===============================================================================
