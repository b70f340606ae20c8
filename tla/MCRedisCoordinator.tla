-------------------------- MODULE MCRedisCoordinator --------------------------
(* Small instances of RedisCoordinator for TLC.                            *)
EXTENDS RedisCoordinator

CONSTANTS c1, c2, c3, p1, p2

\* Two clients in one process, one in another.
TwoProcesses == [c \in Clients |-> IF c \in {c1, c2} THEN p1 ELSE p2]
===============================================================================
