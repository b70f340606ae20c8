---------------------------- MODULE MCAskRequests -----------------------------
(* Small instances of AskRequests for TLC.                                 *)
EXTENDS AskRequests

CONSTANTS r1, r2, r3, r4, here, there, s1, t0

\* r1 shares its session with r2, and its address with r3.
Addresses == [r \in Requests |-> IF r = r2 THEN there ELSE here]
Conversations == [r \in Requests |-> IF r \in {r1, r2} THEN s1 ELSE NoSession]
Clientele == [tenancy |-> {r1, r2, r4}, consents |-> {r1, r2, r3}]
OneTurn == <<t0>>
===============================================================================
