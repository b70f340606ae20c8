--------------------------- MODULE MCAsyncSemaphore ---------------------------
(* A small instance of AsyncSemaphore for TLC.                             *)
EXTENDS AsyncSemaphore

CONSTANTS c1, c2, c3, c4, l1, l2

\* Timed calls on two event loops, an untimed call and a non-blocking one on
\* plain threads, where a waiter is resumed in place.
LoopsAndThreads == [c \in Calls |-> CASE c = c1 -> l1 [] c = c3 -> l2 [] OTHER -> NoLoop]
AllModes == [c \in Calls |-> CASE c = c2 -> "untimed"
                               [] c = c4 -> "zero"
                               [] OTHER  -> "timed"]
===============================================================================
