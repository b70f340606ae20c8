------------------------------ MODULE PermitPool ------------------------------
(***************************************************************************)
(* What a concurrency coordinator promises the request handlers: at most   *)
(* Permits calls own a permit, a permit that is returned goes to the call  *)
(* that has waited longest, and nobody overtakes a call that waits.        *)
(* CoordinatorClient (include/astraea/coordinator.hpp) is the C++          *)
(* interface; AsyncSemaphore implements this specification.                *)
(***************************************************************************)
EXTENDS Integers, Sequences, FiniteSets, SequencesExt

CONSTANTS Calls,    \* the acquire() calls
          Permits,  \* the size of the pool
          Patient   \* the calls that gave no timeout: they are never refused

VARIABLES free,     \* permits nobody owns
          line,     \* calls that wait, longest first
          owner,    \* calls that own a permit
          refused   \* calls that were told no permit was available

poolVars == <<free, line, owner, refused>>

Outside(c) == c \notin owner /\ c \notin refused /\ \A i \in DOMAIN line : line[i] # c

PoolInit ==
  /\ free = Permits
  /\ line = <<>>
  /\ owner = {}
  /\ refused = {}

\* A call finds a permit at once: only when nobody waits.
Take(c) ==
  /\ Outside(c)
  /\ line = <<>>
  /\ free > 0
  /\ free' = free - 1
  /\ owner' = owner \union {c}
  /\ UNCHANGED <<line, refused>>

\* No permit: the call joins the end of the line.
Wait(c) ==
  /\ Outside(c)
  /\ free = 0
  /\ line' = Append(line, c)
  /\ UNCHANGED <<free, owner, refused>>

\* No permit within the call's timeout, which may be zero.
Refuse(c) ==
  /\ c \notin Patient
  /\ free = 0
  /\ \/ Outside(c) /\ UNCHANGED line
     \/ \E i \in DOMAIN line : line[i] = c /\ line' = RemoveAt(line, i)
  /\ refused' = refused \union {c}
  /\ UNCHANGED <<free, owner>>

\* An owner is done: the longest waiting call takes the permit over.
Return(c) ==
  /\ c \in owner
  /\ \/ /\ line = <<>>
        /\ free' = free + 1
        /\ owner' = owner \ {c}
        /\ UNCHANGED line
     \/ /\ line # <<>>
        /\ owner' = (owner \ {c}) \union {Head(line)}
        /\ line' = Tail(line)
        /\ UNCHANGED free
  /\ UNCHANGED refused

PoolNext == \E c \in Calls : Take(c) \/ Wait(c) \/ Refuse(c) \/ Return(c)

PoolSpec == PoolInit /\ [][PoolNext]_poolVars
===============================================================================
