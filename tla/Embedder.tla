---- MODULE Embedder ----
\* Embedder::embed_synth (src/embedder.cpp): the cache of synthetic-query embeddings and the single flight
\* that fills it. The first caller to miss becomes the owner and fetches; the others poll the cache every
\* 10 ms, and fetch for themselves when they have polled for too long.
EXTENDS Naturals
CONSTANTS Callers,   \* coroutines that ask for an embedding
          Keys,      \* synthetic queries
          MaxPolls   \* looks at the cache before a waiter gives up (500 in the code)

VARIABLES cache,     \* _cache: keys that have a vector
          inflight,  \* _inflight: keys somebody is fetching
          call       \* each coroutine's place in embed_synth
embedVars == <<cache, inflight, call>>

Idle == [pc |-> "idle"]
EmbedInit == cache = {} /\ inflight = {} /\ call = [c \in Callers |-> Idle]

At(c, pc) == call[c].pc = pc
Go(c, pc) == call' = [call EXCEPT ![c].pc = pc]

EmbedSynth(c, k) == /\ At(c, "idle")
                    /\ call' = [call EXCEPT ![c] = [pc |-> "look", key |-> k, polls |-> 0]]
                    /\ UNCHANGED <<cache, inflight>>

\* The look under the shared lock.
FastPath(c) == /\ At(c, "look")
               /\ Go(c, IF call[c].key \in cache THEN "ok" ELSE "claim")
               /\ UNCHANGED <<cache, inflight>>

\* The second look and the claim, under the exclusive lock.
Claim(c) == /\ At(c, "claim")
            /\ LET k == call[c].key
               IN /\ Go(c, IF k \in cache THEN "ok" ELSE IF k \in inflight THEN "wait" ELSE "own")
                  /\ inflight' = IF k \in cache THEN inflight ELSE inflight \cup {k}
            /\ UNCHANGED cache

\* The owner's fetch answers: the vector is stored and the claim given up, or only the claim is.
OwnerFetched(c) == /\ At(c, "own") /\ Go(c, "ok")
                   /\ cache' = cache \cup {call[c].key}
                   /\ inflight' = inflight \ {call[c].key}
\* Mutant: the claim is kept.
OwnerFailedKeeps(c) == At(c, "own") /\ Go(c, "threw") /\ UNCHANGED <<cache, inflight>>
OwnerFailed(c) == /\ At(c, "own") /\ Go(c, "threw")
                  /\ inflight' = inflight \ {call[c].key}
                  /\ UNCHANGED cache

\* A waiter looks at the cache only: that the owner failed is nothing it can see.
\* Mutant: no limit on the looks.
PollForever(c) == /\ At(c, "wait")
                  /\ IF call[c].key \in cache THEN Go(c, "ok") ELSE UNCHANGED call
                  /\ UNCHANGED <<cache, inflight>>
Poll(c) == /\ At(c, "wait") /\ call[c].polls < MaxPolls
           /\ IF call[c].key \in cache THEN Go(c, "ok")
              ELSE call' = [call EXCEPT ![c].polls = @ + 1]
           /\ UNCHANGED <<cache, inflight>>
GiveUp(c) == /\ At(c, "wait") /\ call[c].polls = MaxPolls /\ Go(c, "alone")
             /\ UNCHANGED <<cache, inflight>>

\* A fetch of one's own; its vector is not stored.
FetchedAlone(c) == /\ At(c, "alone")
                   /\ \E pc \in {"ok", "threw"} : Go(c, pc)
                   /\ UNCHANGED <<cache, inflight>>

EmbedStep(c) == \/ FastPath(c) \/ Claim(c) \/ OwnerFetched(c) \/ OwnerFailed(c)
                \/ Poll(c) \/ GiveUp(c) \/ FetchedAlone(c)

-----------------------------------------------------------------------------
\* A key marked as in flight has exactly one owner that will clear the mark, whichever way its fetch
\* ends: a mark left behind would send every later caller through the full wait, for good.
InflightOwned ==
    /\ \A k \in inflight : \E c \in Callers : At(c, "own") /\ call[c].key = k
    /\ \A c, d \in Callers : At(c, "own") /\ At(d, "own") /\ c # d => call[c].key # call[d].key
==============================================================================
