---------------------------- MODULE Streaming_proofs ---------------------------
(* Proofs about LlmStream, for any sessions, answers, closes and cancellations *)
(* and any grouping of an answer into receives; and about HttpStreamParser,    *)
(* for any responses and any reads that cut them.                              *)
EXTENDS LlmStream, HttpStreamParser, FiniteSetTheorems, FunctionTheorems,
        SequenceTheorems, TLAPS

\* A property of 0 that each number below n hands to the next is one of n:
\* otherwise adding one would map the numbers that have it into fewer.
LEMMA CountUp ==
  ASSUME NEW n \in Nat, NEW S \in SUBSET (0 .. n), 0 \in S,
         \A k \in S : k < n => k + 1 \in S
  PROVE  n \in S
<1> SUFFICES ASSUME n \notin S PROVE FALSE
  OBVIOUS
<1> DEFINE f == [k \in S |-> k + 1]
<1>1. IsFiniteSet(S) /\ IsFiniteSet(S \ {0}) /\ Cardinality(S \ {0}) = Cardinality(S) - 1
  <2>1. IsFiniteSet(S)
    <3>1. IsFiniteSet(0 .. n)
      BY FS_Interval
    <3> QED BY <3>1, FS_Subset
  <2> QED BY <2>1, FS_RemoveElement
<1>2. f \in [S -> S \ {0}] /\ \A j, k \in S : f[j] = f[k] => j = k
  OBVIOUS
<1>3. Cardinality(S) <= Cardinality(S \ {0})
  <2> HIDE DEF f
  <2>1. f \in Injection(S, S \ {0})
    BY <1>2 DEF Injection, IsInjective
  <2> QED BY <1>1, <2>1, FS_Injection
<1>4. Cardinality(S) \in Nat
  BY <1>1, FS_CardinalityType
<1> QED BY <1>1, <1>3, <1>4

\* Feeding the items of a receive is parsing them one by one.
LEMMA FeedRuns ==
  ASSUME NEW s, NEW x, NEW items, Len(items) \in Nat
  PROVE  \E g : /\ g[0] = x
                /\ \A k \in 1 .. Len(items) : g[k] = Parse(s, g[k - 1], items[k])
                /\ Feed(s, x, items) = g[Len(items)]
<1> DEFINE n == Len(items)
           Run(g, m) == g = [k \in 0 .. m |-> IF k = 0 THEN x ELSE Parse(s, g[k - 1], items[k])]
           S == {m \in 0 .. n : \E g : Run(g, m)}
<1>1. 0 \in S
  <2>1. Run([k \in 0 .. 0 |-> x], 0)
    OBVIOUS
  <2> HIDE DEF Run
  <2> QED BY <2>1
<1>2. ASSUME NEW m \in S, m < n PROVE m + 1 \in S
  <2>1. PICK g : Run(g, m)
    BY <1>2
  <2> DEFINE h == [k \in 0 .. m + 1 |-> IF k <= m THEN g[k] ELSE Parse(s, g[m], items[m + 1])]
  <2>2. Run(h, m + 1)
    <3>1. \A k \in 0 .. m + 1 : h[k] = IF k = 0 THEN x ELSE Parse(s, h[k - 1], items[k])
      BY <2>1
    <3> QED BY <3>1
  <2> HIDE DEF Run, h
  <2> QED BY <1>2, <2>2
<1>3. n \in S
  <2> HIDE DEF S
  <2>1. S \in SUBSET (0 .. n)
    BY DEF S
  <2> QED BY <1>1, <1>2, <2>1, CountUp
<1>4. PICK g : Run(g, n)
  BY <1>3
<1> DEFINE after == CHOOSE f : f = [k \in 0 .. n |-> IF k = 0 THEN x ELSE Parse(s, f[k - 1], items[k])]
<1>5. Run(after, n)
  BY <1>4
<1>6. Feed(s, x, items) = after[n]
  BY DEF Feed
<1> HIDE DEF after
<1>7. /\ after[0] = x
      /\ \A k \in 1 .. n : after[k] = Parse(s, after[k - 1], items[k])
  BY <1>5
<1> QED BY <1>6, <1>7

\* What holds of the states before the first item and is passed on from item to
\* item holds after the last: R[k] are the states that may follow k items.
LEMMA FeedInduction ==
  ASSUME NEW s, NEW x, NEW items, Len(items) \in Nat,
         NEW R, x \in R[0],
         \A k \in 1 .. Len(items) : \A y \in R[k - 1] : Parse(s, y, items[k]) \in R[k]
  PROVE  Feed(s, x, items) \in R[Len(items)]
<1>1. PICK g : /\ g[0] = x
               /\ \A k \in 1 .. Len(items) : g[k] = Parse(s, g[k - 1], items[k])
               /\ Feed(s, x, items) = g[Len(items)]
  BY FeedRuns
<1> DEFINE n == Len(items)
           S == {k \in 0 .. n : g[k] \in R[k]}
<1>2. 0 \in S
  BY <1>1
<1>3. ASSUME NEW k \in S, k < n PROVE k + 1 \in S
  <2>1. k + 1 \in 1 .. n /\ (k + 1) - 1 = k
    BY <1>3
  <2> QED BY <1>1, <1>3, <2>1
<1>4. S \in SUBSET (0 .. n)
  OBVIOUS
<1> HIDE DEF S
<1>5. n \in S
  BY <1>2, <1>3, <1>4, CountUp
<1> QED BY <1>1, <1>5 DEF S

-------------------------------------------------------------------------------
\* The fields of a session and what its functions do to them.
Reasons == {"", "cancelled", "dns", "refused", "parse", "status", "closed", "timeout"}

Fields ==
  [started : BOOLEAN, finished : BOOLEAN, deferred : BOOLEAN, fate : {"kept", "pooled", "dropped"},
   idle : BOOLEAN, fallback : BOOLEAN, http : {"start", "body", "Done", "Error"},
   status : {"none", "ok", "fail"}, done : {"no", "ok", "error"}, why : Reasons, tokens : Nat]

Items == [of : Sessions, kind : Kinds]

\* A session that has finished waits for the end of the body, under the fallback
\* timer, or has given its connection up.
Shaped(x) ==
  /\ x \in Fields
  /\ x.done = "no" <=> ~x.finished
  /\ x.finished => x.started
  /\ x.deferred => x.done = "ok"
  /\ x.fallback => x.finished
  /\ x.idle => x.started
  /\ ~x.finished => x.fate = "kept"
  /\ x.finished /\ x.fate = "kept" => x.deferred /\ x.fallback

\* A finished session has said what it had to say.
Told(x, y) == x.finished => y.finished /\ y.done = x.done /\ y.why = x.why /\ y.tokens = x.tokens

\* A success keeps the connection for the end of the body.
LEMMA SuccessShaped ==
  ASSUME NEW x, Shaped(x), x.started, NEW why \in Reasons
  PROVE  LET y == Finish(x, "ok", why, TRUE) IN
         /\ Shaped(y) /\ y.started /\ y.finished /\ y.http = x.http /\ y.fate = x.fate
         /\ Told(x, y)
         /\ ~x.finished => y.tokens = x.tokens
<1> DEFINE y == Finish(x, "ok", why, TRUE)
<1>1. CASE x.finished
  <2>1. y = x
    BY <1>1 DEF Finish
  <2> HIDE DEF y
  <2> QED BY <1>1, <2>1 DEF y, Told
<1>2. CASE ~x.finished
  <2>1. y = [x EXCEPT !.finished = TRUE, !.idle = FALSE, !.done = "ok", !.why = why,
                      !.deferred = TRUE, !.fallback = TRUE, !.fate = x.fate]
    BY <1>2 DEF Finish, FinishAlways, Shaped
  <2> HIDE DEF y
  <2>2. /\ y \in Fields /\ y.started /\ y.finished /\ y.http = x.http /\ y.fate = x.fate
        /\ y.done = "ok" /\ y.why = why /\ y.tokens = x.tokens /\ y.deferred /\ y.fallback
    BY <2>1 DEF Shaped, Fields
  <2>3. Shaped(y)
    BY <2>2 DEF Shaped
  <2> QED BY <1>2, <2>2, <2>3 DEF y, Told
<1> QED BY <1>1, <1>2

LEMMA DoneShaped ==
  ASSUME NEW x, Shaped(x), x.started
  PROVE  LET y == Finish(x, "ok", "", TRUE) IN
         /\ Shaped(y) /\ y.started /\ y.finished /\ y.http = x.http /\ y.fate = x.fate
         /\ Told(x, y)
         /\ ~x.finished => y.tokens = x.tokens
<1>1. "" \in Reasons
  BY DEF Reasons
<1> QED BY <1>1, SuccessShaped

LEMMA DisposeShaped ==
  ASSUME NEW x, Shaped(x), x.finished, NEW fate \in {"pooled", "dropped"}
  PROVE  /\ Shaped(Dispose(x, fate)) /\ Dispose(x, fate).fate # "kept"
         /\ Dispose(x, fate).started /\ Dispose(x, fate).finished
         /\ Dispose(x, fate).done = x.done /\ Dispose(x, fate).why = x.why
         /\ Dispose(x, fate).tokens = x.tokens
         /\ Dispose(x, fate).fate \in {x.fate, fate}
  BY DEF Dispose, Shaped, Fields

LEMMA ParseShaped ==
  ASSUME NEW s, NEW x, Shaped(x), x.started, NEW item \in Items
  PROVE  LET y == Parse(s, x, item) IN
         /\ Shaped(y) /\ y.started /\ y.fate = x.fate /\ Told(x, y)
         /\ y.http = "Done" => x.http = "Done" \/ item.kind = "end"
<1> DEFINE y == Parse(s, x, item)
           Kept(v) == /\ Shaped(v) /\ v.started /\ v.fate = x.fate /\ Told(x, v)
                      /\ v.http = "Done" => x.http = "Done" \/ item.kind = "end"
<1>1. Kept(x)
  BY DEF Told
<1>2. ASSUME NEW h \in {"body", "Done", "Error"}, h = "Done" => item.kind = "end",
             NEW t \in {"none", "ok", "fail"}
      PROVE  Kept([x EXCEPT !.http = h, !.status = t])
  <2> DEFINE z == [x EXCEPT !.http = h, !.status = t]
  <2>1. /\ z \in Fields /\ z.http = h /\ z.fate = x.fate /\ z.done = x.done /\ z.finished = x.finished
        /\ z.started = x.started /\ z.deferred = x.deferred /\ z.fallback = x.fallback /\ z.idle = x.idle
        /\ z.why = x.why /\ z.tokens = x.tokens
    BY DEF Shaped, Fields
  <2> HIDE DEF z
  <2>2. Shaped(z)
    BY <2>1 DEF Shaped
  <2> QED BY <1>2, <2>1, <2>2 DEF Told, z
<1>3. x.status \in {"none", "ok", "fail"} /\ [x EXCEPT !.http = "Done"] = [x EXCEPT !.http = "Done", !.status = x.status]
      /\ [x EXCEPT !.http = "Error"] = [x EXCEPT !.http = "Error", !.status = x.status]
  BY DEF Shaped, Fields
<1>4. Kept(Event(s, x, item.kind))
  <2>1. CASE x.finished
    BY <1>1, <2>1 DEF Event
  <2>2. CASE ~x.finished /\ item.kind = "token"
    <3> DEFINE z == [x EXCEPT !.tokens = x.tokens + 1]
               w == Finish(z, "ok", "cancelled", TRUE)
    <3>1. Kept(z)
      BY <2>2 DEF Told, Shaped, Fields
    <3>2. Kept(w)
      <4>1. Shaped(z) /\ z.started /\ z.http = x.http /\ z.fate = x.fate
        BY <3>1 DEF Shaped, Fields
      <4>2. \A v : Shaped(v) /\ v.started =>
              LET u == Finish(v, "ok", "cancelled", TRUE) IN
              Shaped(u) /\ u.started /\ u.http = v.http /\ u.fate = v.fate
        BY SuccessShaped DEF Reasons
      <4>3. Shaped(w) /\ w.started /\ w.http = z.http /\ w.fate = z.fate
        <5> HIDE DEF z
        <5> QED BY <4>1, <4>2
      <4> HIDE DEF w, z
      <4> QED BY <2>2, <4>1, <4>3 DEF Told
    <3>3. Event(s, x, item.kind) = IF s \in cancelled THEN Finish(z, "ok", "cancelled", TRUE) ELSE z
      BY <2>2 DEF Event, EventAlways, Token
    <3> HIDE DEF z, w, Kept
    <3> QED BY <3>1, <3>2, <3>3 DEF w
  <2>3. CASE ~x.finished /\ item.kind = "[DONE]"
    <3>1. Kept(Finish(x, "ok", "", TRUE))
      <4> DEFINE w == Finish(x, "ok", "", TRUE)
      <4>1. Shaped(w) /\ w.started /\ w.http = x.http /\ w.fate = x.fate
        BY SuccessShaped DEF Reasons
      <4> HIDE DEF w
      <4>2. Kept(w)
        BY <2>3, <4>1 DEF Told
      <4> QED BY <4>2 DEF w
    <3> HIDE DEF Kept
    <3> QED BY <2>3, <3>1 DEF Event, EventAlways
  <2>4. CASE ~x.finished /\ item.kind \notin {"token", "[DONE]"}
    <3> HIDE DEF Kept
    <3> QED BY <1>1, <2>4 DEF Event, EventAlways
  <2> QED BY <2>1, <2>2, <2>3, <2>4
<1>5. Kept(y)
  <2> HIDE DEF Kept
  <2>1. CASE x.http \in {"Done", "Error"}
    <3>1. y = x
      BY <2>1 DEF Parse
    <3> HIDE DEF y
    <3> QED BY <1>1, <3>1
  <2>2. CASE x.http \notin {"Done", "Error"} /\ item.kind = "head"
    BY <1>2, <2>2 DEF Parse
  <2>3. CASE x.http \notin {"Done", "Error"} /\ item.kind = "fail"
    BY <1>2, <2>3 DEF Parse
  <2>4. CASE x.http \notin {"Done", "Error"} /\ item.kind = "end"
    <3>1. y = [x EXCEPT !.http = "Done", !.status = x.status]
      BY <1>3, <2>4 DEF Parse
    <3> QED BY <1>2, <1>3, <2>4, <3>1
  <2>5. CASE x.http \notin {"Done", "Error"} /\ item.kind = "bad"
    <3>1. y = [x EXCEPT !.http = "Error", !.status = x.status]
      BY <1>3, <2>5 DEF Parse
    <3> QED BY <1>2, <1>3, <2>5, <3>1
  <2>6. CASE x.http \notin {"Done", "Error"} /\ item.kind \notin {"head", "fail", "end", "bad"}
    BY <1>4, <2>6 DEF Parse
  <2> QED BY <2>1, <2>2, <2>3, <2>4, <2>5, <2>6
<1> QED BY <1>5

\* Between callbacks, a session with a connection has not seen the end of its body.
Sound(x) == Shaped(x) /\ (x.fate = "kept" => x.http # "Done")

LEMMA ErrorSound ==
  ASSUME NEW x, Sound(x), x.started, NEW why \in Reasons, NEW h \in BOOLEAN
  PROVE  LET y == Finish(x, "error", why, h) IN
         /\ Sound(y) /\ y.started /\ y.finished /\ Told(x, y)
         /\ y.fate = "pooled" => x.fate = "pooled"
         /\ ~x.finished => y.done = "error"
<1> DEFINE y == Finish(x, "error", why, h)
<1>1. CASE x.finished
  <2>1. y = x
    BY <1>1 DEF Finish
  <2> HIDE DEF y
  <2> QED BY <1>1, <2>1 DEF y, Told
<1>2. CASE ~x.finished
  <2>1. y = [x EXCEPT !.finished = TRUE, !.idle = FALSE, !.done = "error", !.why = why,
                      !.deferred = FALSE, !.fallback = FALSE, !.fate = "dropped"]
    BY <1>2 DEF Finish, FinishAlways, Sound, Shaped
  <2> HIDE DEF y
  <2>2. /\ y \in Fields /\ y.started /\ y.finished /\ y.fate = "dropped" /\ y.done = "error"
        /\ ~y.deferred /\ ~y.fallback
    BY <2>1 DEF Sound, Shaped, Fields
  <2>3. Sound(y)
    BY <2>2 DEF Sound, Shaped
  <2> QED BY <1>2, <2>2, <2>3 DEF y, Told
<1> QED BY <1>1, <1>2

\* The ways finish() reports an error.
LEMMA Failures ==
  ASSUME NEW x, Sound(x), x.started, NEW h \in BOOLEAN,
         NEW why \in {"dns", "refused", "parse", "status", "closed", "timeout"}
  PROVE  LET y == Finish(x, "error", why, h) IN
         /\ Sound(y) /\ y.started /\ y.finished /\ Told(x, y)
         /\ y.fate = "pooled" => x.fate = "pooled"
         /\ ~x.finished => y.done = "error"
<1>1. why \in Reasons
  BY DEF Reasons
<1> QED BY <1>1, ErrorSound

LEMMA ArmSound ==
  ASSUME NEW x, Sound(x)
  PROVE  /\ Sound(Arm(x)) /\ Arm(x).started /\ Told(x, Arm(x)) /\ (Arm(x).finished <=> x.finished)
         /\ Arm(x).fate = x.fate /\ Arm(x).http = x.http /\ Arm(x).status = x.status
         /\ Arm(x).tokens = x.tokens
  BY DEF Arm, Sound, Shaped, Fields, Told

LEMMA FeedShaped ==
  ASSUME NEW s, NEW x, Sound(x), x.started, x.fate = "kept", NEW items \in Seq(Items)
  PROVE  LET y == Feed(s, x, items) IN
         /\ Shaped(y) /\ y.started /\ y.fate = "kept" /\ Told(x, y)
         /\ y.http = "Done" => \E i \in 1 .. Len(items) : items[i].kind = "end"
<1> DEFINE n == Len(items)
           Good(y, k) == /\ Shaped(y) /\ y.started /\ y.fate = "kept" /\ Told(x, y)
                         /\ y.http = "Done" => \E i \in 1 .. k : items[i].kind = "end"
           R == [k \in 0 .. n |-> {y \in Fields : Good(y, k)}]
<1>1. n \in Nat /\ \A k \in 1 .. n : items[k] \in Items
  OBVIOUS
<1>2. Good(x, 0) /\ x \in Fields
  BY DEF Sound, Shaped, Told
<1>3. ASSUME NEW k \in 1 .. n, NEW y \in R[k - 1]
      PROVE  Parse(s, y, items[k]) \in R[k]
  <2>1. k - 1 \in 0 .. n /\ k \in 0 .. n /\ Good(y, k - 1)
    BY <1>1, <1>3
  <2> DEFINE z == Parse(s, y, items[k])
  <2>2. /\ Shaped(z) /\ z.started /\ z.fate = y.fate /\ Told(y, z)
        /\ z.http = "Done" => y.http = "Done" \/ items[k].kind = "end"
    BY <1>1, <2>1, ParseShaped
  <2> HIDE DEF z
  <2>3. Told(x, z)
    BY <2>1, <2>2 DEF Told
  <2>4. z.http = "Done" => \E i \in 1 .. k : items[i].kind = "end"
    BY <2>1, <2>2
  <2>5. Good(z, k) /\ z \in Fields
    BY <2>1, <2>2, <2>3, <2>4 DEF Shaped
  <2> HIDE DEF Good
  <2> QED BY <2>1, <2>5 DEF z
<1>4. x \in R[0]
  BY <1>1, <1>2
<1>5. Feed(s, x, items) \in R[n]
  <2> HIDE DEF R
  <2> QED BY <1>1, <1>3, <1>4, FeedInduction
<1>6. n \in 0 .. n
  BY <1>1
<1> QED BY <1>5, <1>6

LEMMA AfterFeedSound ==
  ASSUME NEW x, Shaped(x), x.started
  PROVE  LET y == AfterFeed(x) IN
         /\ Sound(y) /\ y.started /\ Told(x, y)
         /\ y.fate = "pooled" => x.fate = "pooled" \/ x.http = "Done"
<1> DEFINE Good(y) == /\ Sound(y) /\ y.started /\ Told(x, y)
                      /\ y.fate = "pooled" => x.fate = "pooled" \/ x.http = "Done"
<1> SUFFICES Good(AfterFeed(x))
  OBVIOUS
<1>0. ASSUME x.http # "Done", NEW why \in {"parse", "status"} PROVE Good(Finish(x, "error", why, TRUE))
  <2>1. Sound(x)
    BY <1>0 DEF Sound
  <2> DEFINE z == Finish(x, "error", why, TRUE)
  <2>2. Sound(z) /\ z.started /\ Told(x, z) /\ (z.fate = "pooled" => x.fate = "pooled")
    <3>1. why \in {"dns", "refused", "parse", "status", "closed", "timeout"} /\ TRUE \in BOOLEAN
      BY <1>0
    <3> QED BY <2>1, <3>1, Failures
  <2> HIDE DEF z
  <2> QED BY <2>2 DEF z
<1>1. CASE x.http = "Error"
  <2>1. AfterFeed(x) = Finish(x, "error", "parse", TRUE)
    BY <1>1 DEF AfterFeed
  <2> HIDE DEF Good
  <2> QED BY <1>0, <1>1, <2>1
<1>2. CASE x.http = "Done" /\ x.deferred
  <2>1. Good(Dispose(x, "pooled"))
    BY <1>2 DEF Dispose, Sound, Shaped, Fields, Told
  <2> HIDE DEF Good
  <2> QED BY <1>2, <2>1 DEF AfterFeed, Good
<1>3. CASE x.http = "Done" /\ ~x.deferred
  <2> DEFINE z == Finish(x, "ok", "", TRUE)
  <2>1. Shaped(z) /\ z.started /\ z.finished /\ Told(x, z) /\ z.fate = x.fate /\ z.http = x.http
    BY DoneShaped
  <2> HIDE DEF z
  <2>2. Good(Dispose(z, "dropped"))
    BY <2>1 DEF Dispose, Sound, Shaped, Fields, Told
  <2> HIDE DEF Good
  <2> QED BY <1>3, <2>2 DEF AfterFeed, Good, z
<1>4. CASE x.http = "body" /\ x.status = "fail"
  <2>1. AfterFeed(x) = Finish(x, "error", "status", TRUE)
    BY <1>4 DEF AfterFeed
  <2> HIDE DEF Good
  <2> QED BY <1>0, <1>4, <2>1
<1>5. CASE x.http = "start" \/ (x.http = "body" /\ x.status # "fail")
  <2>1. Good(x)
    BY <1>5 DEF Sound, Told
  <2> QED BY <1>5, <2>1 DEF AfterFeed
<1>6. x.http \in {"start", "body", "Done", "Error"}
  BY DEF Shaped, Fields
<1> HIDE DEF Good
<1> QED BY <1>1, <1>2, <1>3, <1>4, <1>5, <1>6

LEMMA AfterCloseSound ==
  ASSUME NEW x, Sound(x), x.started
  PROVE  LET y == AfterClose(x) IN
         /\ Sound(y) /\ y.started /\ Told(x, y)
         /\ y.fate = "pooled" => x.fate = "pooled"
         /\ ~x.finished => y.done = "error"
<1> DEFINE Good(y) == /\ Sound(y) /\ y.started /\ Told(x, y)
                      /\ y.fate = "pooled" => x.fate = "pooled"
                      /\ ~x.finished => y.done = "error"
<1> SUFFICES Good(AfterClose(x))
  OBVIOUS
<1>1. ASSUME NEW why \in {"parse", "closed"} PROVE Good(Finish(x, "error", why, TRUE))
  <2> DEFINE y == Finish(x, "error", why, TRUE)
  <2>1. /\ Sound(y) /\ y.started /\ Told(x, y)
        /\ y.fate = "pooled" => x.fate = "pooled"
        /\ ~x.finished => y.done = "error"
    <3>1. why \in {"dns", "refused", "parse", "status", "closed", "timeout"} /\ TRUE \in BOOLEAN
      BY <1>1
    <3> QED BY <3>1, Failures
  <2> HIDE DEF y
  <2> QED BY <2>1 DEF y
<1>2. x.finished => Good(x) /\ Good(Dispose(x, "dropped"))
  BY DisposeShaped DEF Sound, Told
<1>3. x.finished => Finish(x, "ok", "", TRUE) = x
  BY DEF Finish
<1>4. /\ x.http \in {"start", "body", "Done", "Error"}
      /\ x.http = "Done" => x.finished
  BY DEF Sound, Shaped, Fields
<1> HIDE DEF Good
<1> QED BY <1>1, <1>2, <1>3, <1>4 DEF AfterClose

\* The timers: the idle one is switched off before finish(), the fallback disposes.
LEMMA QuietSound ==
  ASSUME NEW x, Sound(x), x.started
  PROVE  LET y == [x EXCEPT !.idle = FALSE] IN
         /\ Sound(y) /\ y.started /\ Told(x, y) /\ y.fate = x.fate /\ (y.finished <=> x.finished)
  BY DEF Sound, Shaped, Fields, Told

LEMMA FallbackSound ==
  ASSUME NEW x, Sound(x), x.started, x.fallback
  PROVE  LET y == Dispose([x EXCEPT !.fallback = FALSE], "dropped") IN
         /\ Sound(y) /\ y.started /\ Told(x, y)
         /\ y.fate = "pooled" => x.fate = "pooled"
<1>1. CASE x.fate = "kept"
  BY <1>1 DEF Dispose, Sound, Shaped, Fields, Told
<1>2. CASE x.fate # "kept"
  <2>1. Dispose([x EXCEPT !.fallback = FALSE], "dropped") = [x EXCEPT !.fallback = FALSE]
    BY <1>2 DEF Dispose, Sound, Shaped, Fields
  <2>2. LET y == [x EXCEPT !.fallback = FALSE] IN
        Sound(y) /\ y.started /\ Told(x, y) /\ (y.fate = "pooled" => x.fate = "pooled")
    BY <1>2 DEF Sound, Shaped, Fields, Told
  <2> QED BY <2>1, <2>2
<1> QED BY <1>1, <1>2

-------------------------------------------------------------------------------
\* What SubSeq leaves of a sequence whose first n items are taken.
LEMMA AfterTake ==
  ASSUME NEW q \in Seq(Items), NEW n \in 1 .. Len(q)
  PROVE  LET rest == SubSeq(q, n + 1, Len(q)) IN
         /\ rest \in Seq(Items) /\ Len(rest) = Len(q) - n
         /\ \A i \in 1 .. Len(rest) : rest[i] = q[i + n]
<1> DEFINE l == Len(q)
           rest == SubSeq(q, n + 1, l)
<1>1. l \in Nat /\ n \in Nat /\ 1 <= n /\ n <= l /\ \A i \in 1 .. l : q[i] \in Items
  OBVIOUS
<1>2. rest = [i \in 1 .. 1 + l - (n + 1) |-> q[i + (n + 1) - 1]]
  BY <1>1
<1> HIDE DEF rest, l
<1>3. 1 + l - (n + 1) = l - n /\ \A i \in 1 .. l - n : i + (n + 1) - 1 = i + n /\ i + n \in 1 .. l
  BY <1>1
<1>4. rest = [i \in 1 .. l - n |-> q[i + n]]
  BY <1>2, <1>3
<1>5. \A i \in 1 .. l - n : q[i + n] \in Items
  BY <1>1, <1>3
<1>6. l - n \in Nat
  BY <1>1
<1>7. rest \in Seq(Items) /\ Len(rest) = l - n /\ \A i \in 1 .. Len(rest) : rest[i] = q[i + n]
  BY <1>4, <1>5, <1>6
<1> QED BY <1>7 DEF rest, l

\* Sessions, connections and the pool.
Nets == {"none", "connecting", "up", "closed"}

Typed ==
  /\ ses \in [Sessions -> Fields]
  /\ resolving \subseteq Sessions
  /\ client \in [Sessions -> Conns \union {NoConn}]
  /\ bound \in [Conns -> Sessions \union {NoSession}]
  /\ net \in [Conns -> Nets]
  /\ fin \subseteq Conns
  /\ pending \in [Conns -> Seq(Items)]
  /\ pool \in Seq(Conns)
  /\ cancelled \subseteq Cancels
  /\ closes \in 0 .. Closes

\* A connection: the session b it serves, its state n and what is unread, q.
Line(b, n, q) ==
  /\ n # "up" => q = <<>>
  /\ n = "none" => b = NoSession
  /\ n = "connecting" => b # NoSession
  /\ b = NoSession => q = <<>>
  /\ \A i \in 1 .. Len(q) : q[i].of = b /\ (q[i].kind = "end" => i = Len(q))

\* A pooled connection is free, and pooled once.
PoolFree ==
  /\ \A i, j \in 1 .. Len(pool) : pool[i] = pool[j] => i = j
  /\ \A i \in 1 .. Len(pool) : bound[pool[i]] = NoSession /\ net[pool[i]] \in {"up", "closed"}

Links ==
  /\ \A s \in Sessions : Sound(ses[s])
  /\ \A s \in Sessions, c \in Conns : client[s] = c <=> bound[c] = s
  /\ \A s \in Sessions : client[s] # NoConn \/ net[s] # "none" \/ s \in resolving => ses[s].started
  /\ \A s \in resolving : client[s] = NoConn /\ net[s] = "none"
  /\ \A c \in Conns : Line(bound[c], net[c], pending[c])
  /\ PoolFree

Inv == Typed /\ Links

LEMMA SettleInv ==
  ASSUME Inv, NEW s \in Sessions, NEW x, Sound(x), x.started,
         NEW netNow \in [Conns -> Nets], NEW pendingNow \in [Conns -> Seq(Items)],
         \A c \in Conns : c # client[s] => netNow[c] = net[c] /\ pendingNow[c] = pending[c],
         client[s] # NoConn => /\ netNow[client[s]] # "none"
                               /\ Line(s, netNow[client[s]], pendingNow[client[s]]),
         client[s] # NoConn /\ x.fate = "pooled" /\ ses[s].fate # "pooled" => pendingNow[client[s]] = <<>>,
         Settle(s, x, netNow, pendingNow), resolving' \subseteq resolving, UNCHANGED <<fin, cancelled, closes>>
  PROVE  Inv'
<1> DEFINE c == client[s]
           gone == c # NoConn /\ x.fate # ses[s].fate
           pooled == gone /\ x.fate = "pooled" /\ netNow[c] = "up"
<1>1. x \in Fields /\ ses' = [ses EXCEPT ![s] = x] /\ ses' \in [Sessions -> Fields]
  BY DEF Inv, Typed, Sound, Shaped, Settle
<1>2. NoSession \notin Sessions /\ Conns = Sessions /\ NoConn = NoSession
  BY StreamAssumption DEF Conns, NoConn
<1>3. c # NoConn => c \in Conns /\ bound[c] = s /\ \A i \in 1 .. Len(pool) : pool[i] # c
  BY <1>2 DEF Inv, Typed, Links, PoolFree
<1>4. \A d \in Conns : d # c => bound[d] # s
  BY DEF Inv, Typed, Links
<1>5. CASE ~gone
  <2>1. UNCHANGED <<client, bound, pool>> /\ net' = netNow /\ pending' = pendingNow
    BY <1>5 DEF Settle
  <2>2. Typed'
    BY <1>1, <2>1 DEF Inv, Typed
  <2>3. \A d \in Conns : Line(bound[d], netNow[d], pendingNow[d])
    <3>1. ASSUME NEW d \in Conns, d = c PROVE Line(bound[d], netNow[d], pendingNow[d])
      BY <1>2, <1>3, <3>1
    <3>2. ASSUME NEW d \in Conns, d # c PROVE Line(bound[d], netNow[d], pendingNow[d])
      BY <3>2 DEF Inv, Links
    <3> QED BY <3>1, <3>2
  <2>4. \A d \in Conns : bound[d] = NoSession => netNow[d] = net[d]
    BY <1>2, <1>3
  <2>5. PoolFree'
    BY <2>1, <2>4 DEF PoolFree, Inv, Links, Typed
  <2>6. \A d \in Conns : netNow[d] = "none" <=> net[d] = "none"
    BY <1>2, <1>3 DEF Inv, Links, Line
  <2>7. \A t \in Sessions : Sound(ses'[t]) /\ (ses[t].started => ses'[t].started)
    BY <1>1 DEF Inv, Links, Typed
  <2>8. Links'
    <3>1. \A t \in Sessions : client'[t] # NoConn \/ net'[t] # "none" \/ t \in resolving' => ses'[t].started
      BY <1>2, <2>1, <2>6, <2>7 DEF Inv, Links
    <3>2. \A t \in resolving' : client'[t] = NoConn /\ net'[t] = "none"
      BY <1>2, <2>1, <2>6 DEF Inv, Links, Typed
    <3>3. \A t \in Sessions, d \in Conns : client'[t] = d <=> bound'[d] = t
      BY <2>1 DEF Inv, Links
    <3>4. \A d \in Conns : Line(bound'[d], net'[d], pending'[d])
      BY <2>1, <2>3
    <3> QED BY <2>5, <2>7, <3>1, <3>2, <3>3, <3>4 DEF Links
  <2> QED BY <2>2, <2>8 DEF Inv
<1>6. CASE gone
  <2>1. /\ client' = [client EXCEPT ![s] = NoConn] /\ bound' = [bound EXCEPT ![c] = NoSession]
        /\ pool' = IF pooled THEN Append(pool, c) ELSE pool
        /\ net' = IF ~pooled THEN [netNow EXCEPT ![c] = "closed"] ELSE netNow
        /\ pending' = IF ~pooled THEN [pendingNow EXCEPT ![c] = <<>>] ELSE pendingNow
    BY <1>6 DEF Settle
  <2>2. c \in Conns /\ bound[c] = s /\ \A i \in 1 .. Len(pool) : pool[i] # c
    BY <1>3, <1>6
  <2>3. /\ net'[c] \in {"up", "closed"} /\ pending'[c] = <<>>
        /\ net' \in [Conns -> Nets] /\ pending' \in [Conns -> Seq(Items)]
        /\ \A d \in Conns : d # c => net'[d] = net[d] /\ pending'[d] = pending[d]
    BY <1>6, <2>1, <2>2 DEF Nets
  <2>4. /\ pool' \in Seq(Conns)
        /\ \A i \in 1 .. Len(pool') : 
             \/ i \in 1 .. Len(pool) /\ pool'[i] = pool[i]
             \/ i = Len(pool) + 1 /\ pool'[i] = c
    BY <2>1, <2>2 DEF Inv, Typed
  <2> HIDE DEF c, gone, pooled
  <2>5. Typed'
    BY <1>1, <1>2, <2>1, <2>2, <2>3, <2>4 DEF Inv, Typed
  <2>6. \A d \in Conns : Line(bound'[d], net'[d], pending'[d])
    <3>1. Line(bound'[c], net'[c], pending'[c])
      <4>1. bound'[c] = NoSession
        BY <2>1, <2>2 DEF Inv, Typed
      <4>2. \A m \in {"up", "closed"} : Line(NoSession, m, <<>>)
        BY DEF Line
      <4> QED BY <2>3, <4>1, <4>2
    <3>2. \A d \in Conns : d # c => Line(bound'[d], net'[d], pending'[d])
      BY <2>1, <2>3 DEF Inv, Typed, Links
    <3> QED BY <3>1, <3>2
  <2>7. PoolFree'
    <3>1. \A i \in 1 .. Len(pool') : bound'[pool'[i]] = NoSession /\ net'[pool'[i]] \in {"up", "closed"}
      BY <2>1, <2>2, <2>3, <2>4 DEF Inv, Typed, Links, PoolFree
    <3>2. \A i, j \in 1 .. Len(pool') : pool'[i] = pool'[j] => i = j
      <4> SUFFICES ASSUME NEW i \in 1 .. Len(pool'), NEW j \in 1 .. Len(pool'), pool'[i] = pool'[j]
                   PROVE  i = j
        OBVIOUS
      <4>1. CASE i \in 1 .. Len(pool) /\ pool'[i] = pool[i]
        <5>1. \A k, l \in 1 .. Len(pool) : pool[k] = pool[l] => k = l
          BY DEF Inv, Links, PoolFree
        <5>2. pool'[j] # c
          BY <2>2, <4>1
        <5>3. j \in 1 .. Len(pool) /\ pool'[j] = pool[j]
          BY <2>4, <5>2
        <5> QED BY <4>1, <5>1, <5>3
      <4>2. CASE i = Len(pool) + 1 /\ pool'[i] = c
        <5>1. pool'[j] = c
          BY <4>2
        <5> QED BY <2>2, <2>4, <4>2, <5>1
      <4> QED BY <2>4, <4>1, <4>2
    <3> QED BY <3>1, <3>2 DEF PoolFree
  <2>8. \A t \in Sessions : Sound(ses'[t]) /\ (ses[t].started => ses'[t].started)
    BY <1>1 DEF Inv, Links, Typed
  <2>9. \A t \in Sessions, d \in Conns : client'[t] = d <=> bound'[d] = t
    BY <1>2, <1>4, <2>1, <2>2 DEF Inv, Typed, Links, c
  <2>10. ses'[s].started /\ net[c] # "none" /\ (c \in Sessions => ses[c].started)
    BY <1>1, <1>2, <2>2 DEF Inv, Typed, Links, Line
  <2>11. \A t \in Sessions : client'[t] # NoConn \/ net'[t] # "none" \/ t \in resolving' => ses'[t].started
    BY <1>2, <2>1, <2>3, <2>8, <2>10 DEF Inv, Typed, Links
  <2>12. \A t \in resolving' : client'[t] = NoConn /\ net'[t] = "none"
    BY <1>2, <2>1, <2>2, <2>3, <2>10 DEF Inv, Typed, Links
  <2>13. Links'
    BY <2>6, <2>7, <2>8, <2>9, <2>11, <2>12 DEF Links
  <2> QED BY <2>5, <2>13 DEF Inv
<1> QED BY <1>5, <1>6

\* What is sent on a connection with nothing unread is one answer to the request.
AnswerTo(s, q) ==
  q = <<>> \/ \E r \in Responses : /\ Len(q) = Len(r)
                                   /\ \A i \in 1 .. Len(r) : q[i] = [of |-> s, kind |-> r[i]]

LEMMA AnsweredLine ==
  ASSUME Inv, NEW s \in Sessions, NEW c \in Conns, pending[c] = <<>>, NEW sent \in Answered(s, c)
  PROVE  sent \in Seq(Items) /\ AnswerTo(s, sent) /\ Line(s, "up", sent)
<1>1. CASE sent = <<>>
  <2>1. s # NoSession
    BY StreamAssumption
  <2> QED BY <1>1, <2>1 DEF AnswerTo, Line
<1>2. CASE sent # <<>>
  <2>1. PICK r \in Responses : sent = <<>> \o [i \in 1 .. Len(r) |-> [of |-> s, kind |-> r[i]]]
    BY <1>2 DEF Answered
  <2>2. r \in Seq(Kinds) /\ EndIsLast(r)
    BY StreamAssumption
  <2>3. [i \in 1 .. Len(r) |-> [of |-> s, kind |-> r[i]]] \in Seq(Items)
    BY <2>2 DEF Items
  <2>4. sent = [i \in 1 .. Len(r) |-> [of |-> s, kind |-> r[i]]]
    BY <2>1, <2>3
  <2>5. Len(sent) = Len(r) /\ \A i \in 1 .. Len(r) : sent[i] = [of |-> s, kind |-> r[i]]
    BY <2>2, <2>3, <2>4
  <2>6. s # NoSession
    BY StreamAssumption
  <2> QED BY <2>2, <2>3, <2>4, <2>5, <2>6 DEF AnswerTo, Line, EndIsLast
<1> QED BY <1>1, <1>2

LEMMA InvInit == Init => Inv
<1> SUFFICES ASSUME Init PROVE Inv
  OBVIOUS
<1>1. Fresh \in Fields /\ Sound(Fresh)
  BY DEF Fresh, Fields, Sound, Shaped, Reasons
<1>2. Typed
  BY <1>1, StreamAssumption DEF Init, Typed, Conns, NoConn, Nets
<1>3. Line(NoSession, "none", <<>>)
  BY DEF Line
<1>4. Links
  BY <1>1, <1>3, StreamAssumption DEF Init, Links, PoolFree, Conns, NoConn
<1> QED BY <1>2, <1>4 DEF Inv

\* What the parsers make of one receive.
LEMMA MessageSound ==
  ASSUME Inv, NEW c \in Conns, bound[c] # NoSession, NEW n \in 1 .. Len(pending[c])
  PROVE  LET x == ses[bound[c]]
             items == SubSeq(pending[c], 1, n)
             fed == Feed(bound[c], Arm(x), items)
             y == IF x.fate # "kept" THEN x ELSE AfterFeed(fed)
         IN /\ Sound(y) /\ y.started /\ Told(x, y)
            /\ y.fate = "pooled" => x.fate = "pooled" \/ n = Len(pending[c])
            /\ items \in Seq(Items) /\ Len(items) = n /\ \A i \in 1 .. n : items[i] = pending[c][i]
            /\ x.fate = "kept" => Shaped(fed) /\ fed.started /\ fed.fate = "kept" /\ Told(Arm(x), fed)
<1> DEFINE s == bound[c]
           x == ses[s]
           q == pending[c]
           items == SubSeq(q, 1, n)
           fed == Feed(s, Arm(x), items)
<1>1. s \in Sessions /\ client[s] = c /\ Sound(x) /\ x.started /\ q \in Seq(Items)
  BY StreamAssumption DEF Inv, Typed, Links, Conns, NoConn
<1>2. items \in Seq(Items) /\ Len(items) = n /\ \A i \in 1 .. n : items[i] = q[i]
  BY <1>1
<1>3. CASE x.fate # "kept"
  BY <1>1, <1>2, <1>3 DEF Told
<1>4. CASE x.fate = "kept"
  <2>1. /\ Sound(Arm(x)) /\ Arm(x).started /\ Told(x, Arm(x)) /\ Arm(x).fate = "kept"
        /\ (Arm(x).finished <=> x.finished)
    BY <1>1, <1>4, ArmSound
  <2>2. /\ Shaped(fed) /\ fed.started /\ fed.fate = "kept" /\ Told(Arm(x), fed)
        /\ fed.http = "Done" => \E i \in 1 .. n : items[i].kind = "end"
    <3> HIDE DEF x, items
    <3> QED BY <1>2, <2>1, FeedShaped
  <2>3. fed.http = "Done" => n = Len(q)
    <3>1. \A i \in 1 .. Len(q) : q[i].kind = "end" => i = Len(q)
      BY DEF Inv, Links, Line
    <3>2. Len(q) \in Nat
      BY <1>1
    <3> HIDE DEF fed, items, q
    <3> SUFFICES ASSUME fed.http = "Done" PROVE n = Len(q)
      OBVIOUS
    <3>3. PICK i \in 1 .. n : items[i].kind = "end"
      BY <2>2
    <3>4. i \in 1 .. Len(q) /\ q[i].kind = "end" /\ n <= Len(q)
      BY <1>2, <3>2, <3>3 DEF q
    <3> QED BY <3>1, <3>2, <3>3, <3>4
  <2> DEFINE y == AfterFeed(fed)
  <2>4. /\ Sound(y) /\ y.started /\ Told(fed, y)
        /\ y.fate = "pooled" => fed.fate = "pooled" \/ fed.http = "Done"
    <3> HIDE DEF fed
    <3> QED BY <2>2, AfterFeedSound
  <2> HIDE DEF y
  <2>5. Told(x, y)
    BY <2>1, <2>2, <2>4 DEF Told
  <2> HIDE DEF fed, items, q
  <2> QED BY <1>2, <1>4, <2>2, <2>3, <2>4, <2>5 DEF fed, y, items, q
<1> QED BY <1>3, <1>4

\* A callback of the connection c, that of session s, leaves x, netNow and
\* pendingNow behind.
Effect(s, c, x, netNow, pendingNow) ==
  /\ bound[c] = s /\ Sound(x) /\ x.started
  /\ netNow \in [Conns -> Nets] /\ pendingNow \in [Conns -> Seq(Items)]
  /\ \A d \in Conns : d # c => netNow[d] = net[d] /\ pendingNow[d] = pending[d]
  /\ netNow[c] # "none" /\ Line(s, netNow[c], pendingNow[c])
  /\ x.fate = "pooled" => ses[s].fate = "pooled" \/ pendingNow[c] = <<>>

LEMMA SettleOn ==
  ASSUME Inv, NEW s \in Sessions, NEW c \in Conns, NEW x, NEW netNow, NEW pendingNow,
         Effect(s, c, x, netNow, pendingNow), Settle(s, x, netNow, pendingNow),
         resolving' = resolving, fin' = fin, cancelled' = cancelled, closes' = closes
  PROVE  Inv'
<1>1. client[s] = c
  BY DEF Inv, Links, Effect
<1>2. /\ Sound(x) /\ x.started /\ netNow \in [Conns -> Nets] /\ pendingNow \in [Conns -> Seq(Items)]
      /\ \A d \in Conns : d # client[s] => netNow[d] = net[d] /\ pendingNow[d] = pending[d]
  BY <1>1 DEF Effect
<1>3. client[s] # NoConn => netNow[client[s]] # "none" /\ Line(s, netNow[client[s]], pendingNow[client[s]])
  BY <1>1 DEF Effect
<1>4. client[s] # NoConn /\ x.fate = "pooled" /\ ses[s].fate # "pooled" => pendingNow[client[s]] = <<>>
  BY <1>1 DEF Effect
<1> QED BY <1>2, <1>3, <1>4, SettleInv

\* A callback that finds the connection as it is and pools nothing.
LEMMA SettleHere ==
  ASSUME Inv, NEW s \in Sessions, NEW x, Sound(x), x.started, x.fate = "pooled" => ses[s].fate = "pooled",
         Settle(s, x, net, pending), resolving' \subseteq resolving, UNCHANGED <<fin, cancelled, closes>>
  PROVE  Inv'
<1>1. net \in [Conns -> Nets] /\ pending \in [Conns -> Seq(Items)]
  BY DEF Inv, Typed
<1>2. client[s] # NoConn => client[s] \in Conns /\ bound[client[s]] = s
  BY DEF Inv, Typed, Links
<1>3. client[s] # NoConn => net[client[s]] # "none" /\ Line(s, net[client[s]], pending[client[s]])
  BY <1>2, StreamAssumption DEF Inv, Links, Line
<1> QED BY <1>1, <1>3, SettleInv

LEMMA InvStep == Inv /\ [Next]_vars => Inv'
<1> SUFFICES ASSUME Inv, [Next]_vars PROVE Inv'
  OBVIOUS
<1>0. NoSession \notin Sessions /\ Conns = Sessions /\ NoConn = NoSession /\ Len(pool) \in Nat
  BY StreamAssumption DEF Conns, NoConn, Inv, Typed
<1>1. ASSUME NEW s \in Sessions, StartPooled(s) PROVE Inv'
  <2>1. PICK i \in Live :
          /\ client' = [client EXCEPT ![s] = pool[i]]
          /\ bound' = [bound EXCEPT ![pool[i]] = s]
          /\ pool' = Popped(i)
          /\ \E sent \in Answered(s, pool[i]) : pending' = [pending EXCEPT ![pool[i]] = sent]
    BY <1>1 DEF StartPooled
  <2> DEFINE c == pool[i]
  <2>2. i \in 1 .. Len(pool) /\ c \in Conns /\ net[c] = "up" /\ bound[c] = NoSession /\ pending[c] = <<>>
    BY DEF Live, Inv, Typed, Links, PoolFree, Line
  <2> HIDE DEF c
  <2>3. PICK sent \in Answered(s, c) : pending' = [pending EXCEPT ![c] = sent]
    BY <2>1 DEF c
  <2>4. sent \in Seq(Items) /\ Line(s, "up", sent)
    BY <2>2, AnsweredLine
  <2>5. ~ses[s].started /\ client[s] = NoConn /\ s \notin resolving
        /\ \A d \in Conns : bound[d] # s
    BY <1>0, <1>1 DEF StartPooled, Inv, Links
  <2>6. /\ ses' = [ses EXCEPT ![s] = Arm(ses[s])] /\ Arm(ses[s]) \in Fields /\ Sound(Arm(ses[s]))
        /\ Arm(ses[s]).started /\ UNCHANGED <<resolving, net, fin, cancelled, closes>>
    BY <1>1, ArmSound DEF StartPooled, Inv, Links, Sound, Shaped
  <2>7. /\ pool' \in Seq(Conns) /\ Len(pool') = i - 1 /\ \A j \in 1 .. i - 1 : pool'[j] = pool[j]
    <3>1. pool \in Seq(Conns) /\ i \in Nat /\ i <= Len(pool)
      BY <1>0, <2>2 DEF Inv, Typed
    <3>2. pool' = SubSeq(pool, 1, i - 1)
      BY <2>1 DEF Popped
    <3>3. 1 <= i
      BY <2>2, <3>1
    <3>4. SubSeq(pool, 1, i - 1) = [j \in 1 .. i - 1 |-> pool[j]]
      BY <3>1, <3>3
    <3>5. \A j \in 1 .. i - 1 : pool[j] \in Conns
      BY <3>1
    <3> QED BY <3>1, <3>2, <3>3, <3>4, <3>5
  <2>8. Typed'
    BY <2>1, <2>2, <2>3, <2>4, <2>6, <2>7 DEF Inv, Typed, c
  <2>9. \A d \in Conns : Line(bound'[d], net'[d], pending'[d])
    <3>1. Line(bound'[c], net'[c], pending'[c])
      BY <2>1, <2>2, <2>3, <2>4, <2>6 DEF Inv, Typed, c
    <3>2. \A d \in Conns : d # c => Line(bound'[d], net'[d], pending'[d])
      BY <2>1, <2>3, <2>6 DEF Inv, Typed, Links, c
    <3> QED BY <3>1, <3>2
  <2>10. PoolFree'
    <3>1. \A j, k \in 1 .. Len(pool) : pool[j] = pool[k] => j = k
      BY DEF Inv, Links, PoolFree
    <3>2. \A j \in 1 .. i - 1 : j \in 1 .. Len(pool) /\ pool[j] # c
      BY <1>0, <2>2, <3>1 DEF c
    <3>3. \A j \in 1 .. i - 1 : bound'[pool[j]] = NoSession /\ net'[pool[j]] \in {"up", "closed"}
      BY <2>1, <2>6, <3>2 DEF Inv, Typed, Links, PoolFree, c
    <3> QED BY <2>7, <3>1, <3>2, <3>3 DEF PoolFree
  <2>11. \A t \in Sessions, d \in Conns : client'[t] = d <=> bound'[d] = t
    BY <1>0, <2>1, <2>2, <2>5 DEF Inv, Typed, Links, c
  <2>12. \A t \in Sessions : Sound(ses'[t]) /\ (ses[t].started => ses'[t].started)
    BY <2>6 DEF Inv, Typed, Links
  <2>13. \A t \in Sessions : client'[t] # NoConn \/ net'[t] # "none" \/ t \in resolving' => ses'[t].started
    BY <2>1, <2>6, <2>12 DEF Inv, Typed, Links
  <2>14. \A t \in resolving' : client'[t] = NoConn /\ net'[t] = "none"
    BY <2>1, <2>5, <2>6 DEF Inv, Typed, Links
  <2> QED BY <2>8, <2>9, <2>10, <2>11, <2>12, <2>13, <2>14 DEF Inv, Links
<1>2. ASSUME NEW s \in Sessions, StartFresh(s) PROVE Inv'
  <2>1. ~ses[s].started /\ client[s] = NoConn /\ net[s] = "none"
    BY <1>0, <1>2 DEF StartFresh, Inv, Links
  <2>2. /\ ses' = [ses EXCEPT ![s] = Arm(ses[s])] /\ Arm(ses[s]) \in Fields /\ Sound(Arm(ses[s]))
        /\ Arm(ses[s]).started
    BY <1>2, ArmSound DEF StartFresh, Inv, Links, Sound, Shaped
  <2>3. Typed'
    BY <1>2, <2>2 DEF StartFresh, Inv, Typed
  <2>4. \A t \in Sessions : Sound(ses'[t]) /\ (ses[t].started => ses'[t].started) /\ ses'[s].started
    BY <2>2 DEF Inv, Typed, Links
  <2>5. Links'
    BY <1>2, <2>1, <2>4 DEF StartFresh, Inv, Links, PoolFree
  <2> QED BY <2>3, <2>5 DEF Inv
<1>3. ASSUME NEW s \in Sessions, Resolved(s) PROVE Inv'
  <2>1. /\ client[s] = NoConn /\ net[s] = "none" /\ ses[s].started /\ bound[s] = NoSession /\ pending[s] = <<>>
        /\ \A i \in 1 .. Len(pool) : pool[i] # s
    BY <1>0, <1>3 DEF Resolved, Inv, Typed, Links, Line, PoolFree
  <2>2. Typed'
    BY <1>0, <1>3 DEF Resolved, Inv, Typed, Nets
  <2>3. \A d \in Conns : Line(bound'[d], net'[d], pending'[d])
    <3>1. Line(s, "connecting", <<>>)
      BY <1>0 DEF Line
    <3>2. bound'[s] = s /\ net'[s] = "connecting" /\ pending'[s] = <<>>
      BY <1>0, <1>3, <2>1 DEF Resolved, Inv, Typed
    <3>3. \A d \in Conns : d # s => Line(bound'[d], net'[d], pending'[d])
      BY <1>3 DEF Resolved, Inv, Typed, Links
    <3> QED BY <3>1, <3>2, <3>3
  <2>4. PoolFree'
    BY <1>0, <1>3, <2>1 DEF Resolved, Inv, Typed, Links, PoolFree
  <2>5. \A t \in Sessions, d \in Conns : client'[t] = d <=> bound'[d] = t
    BY <1>0, <1>3, <2>1 DEF Resolved, Inv, Typed, Links
  <2>6. \A t \in resolving' : client'[t] = NoConn /\ net'[t] = "none"
    BY <1>0, <1>3, <2>1 DEF Resolved, Inv, Typed, Links
  <2>7. \A t \in Sessions : client'[t] # NoConn \/ net'[t] # "none" \/ t \in resolving' => ses'[t].started
    BY <1>0, <1>3, <2>1 DEF Resolved, Inv, Typed, Links
  <2>8. \A t \in Sessions : Sound(ses'[t])
    BY <1>3 DEF Resolved, Inv, Links
  <2> QED BY <2>2, <2>3, <2>4, <2>5, <2>6, <2>7, <2>8 DEF Inv, Links
<1>4. ASSUME NEW s \in Sessions, Unresolved(s) PROVE Inv'
  <2> DEFINE x == Finish(ses[s], "error", "dns", FALSE)
  <2>1. s \in resolving /\ client[s] = NoConn /\ Sound(ses[s]) /\ ses[s].started
    BY <1>4 DEF Unresolved, Inv, Links
  <2>2. Sound(x) /\ x.started /\ (x.fate = "pooled" => ses[s].fate = "pooled")
    BY <2>1, Failures
  <2>3. Settle(s, x, net, pending) /\ resolving' \subseteq resolving /\ UNCHANGED <<fin, cancelled, closes>>
    BY <1>4 DEF Unresolved
  <2> HIDE DEF x
  <2> QED BY <2>2, <2>3, SettleHere
<1>5. ASSUME NEW s \in Sessions, IdleTimeout(s) PROVE Inv'
  <2> DEFINE x == Finish([ses[s] EXCEPT !.idle = FALSE], "error", "timeout", Has(s))
  <2>1. Sound(x) /\ x.started /\ (x.fate = "pooled" => ses[s].fate = "pooled")
    <3>1. Sound(ses[s]) /\ ses[s].started
      BY <1>5 DEF IdleTimeout, Inv, Links, Sound, Shaped
    <3> DEFINE quiet == [ses[s] EXCEPT !.idle = FALSE]
    <3>2. Sound(quiet) /\ quiet.started /\ quiet.fate = ses[s].fate
      BY <3>1, QuietSound
    <3>3. Has(s) \in BOOLEAN
      BY DEF Has
    <3> HIDE DEF quiet
    <3> QED BY <3>2, <3>3, Failures DEF quiet
  <2>2. Settle(s, x, net, pending) /\ UNCHANGED <<resolving, fin, cancelled, closes>>
    BY <1>5 DEF IdleTimeout
  <2> HIDE DEF x
  <2> QED BY <2>1, <2>2, SettleHere
<1>6. ASSUME NEW s \in Sessions, Fallback(s) PROVE Inv'
  <2> DEFINE x == Dispose([ses[s] EXCEPT !.fallback = FALSE], "dropped")
  <2>1. Sound(x) /\ x.started /\ (x.fate = "pooled" => ses[s].fate = "pooled")
    <3>1. Sound(ses[s]) /\ ses[s].started /\ ses[s].fallback
      BY <1>6 DEF Fallback, Inv, Links, Sound, Shaped
    <3> QED BY <3>1, FallbackSound
  <2>2. Settle(s, x, net, pending) /\ UNCHANGED <<resolving, fin, cancelled, closes>>
    BY <1>6 DEF Fallback
  <2> HIDE DEF x
  <2> QED BY <2>1, <2>2, SettleHere
<1>7. ASSUME NEW s \in Sessions, Cancel(s) PROVE Inv'
  BY <1>7 DEF Cancel, Inv, Typed, Links, PoolFree
<1>8. ASSUME NEW c \in Conns, Connected(c) PROVE Inv'
  <2>1. net[c] = "connecting" /\ bound[c] \in Sessions /\ pending[c] = <<>>
    BY <1>0, <1>8 DEF Connected, Inv, Typed, Links, Line
  <2>2. PICK sent \in Answered(bound[c], c) : pending' = [pending EXCEPT ![c] = sent]
    BY <1>8 DEF Connected
  <2>3. sent \in Seq(Items) /\ Line(bound[c], "up", sent)
    BY <2>1, AnsweredLine
  <2>4. Typed'
    BY <1>8, <2>2, <2>3 DEF Connected, Inv, Typed, Nets
  <2>5. \A d \in Conns : Line(bound'[d], net'[d], pending'[d])
    BY <1>8, <2>2, <2>3 DEF Connected, Inv, Typed, Links
  <2>6. PoolFree'
    BY <1>8, <2>1 DEF Connected, Inv, Typed, Links, PoolFree
  <2>7. Links'
    BY <1>8, <2>1, <2>5, <2>6 DEF Connected, Inv, Typed, Links
  <2> QED BY <2>4, <2>7 DEF Inv
<1>9. ASSUME NEW c \in Conns, Refused(c) PROVE Inv'
  <2>1. PICK s \in Sessions : s = bound[c]
    BY <1>0, <1>9 DEF Refused, Inv, Typed, Links, Line
  <2> DEFINE x == Finish(ses[s], "error", "refused", Has(s))
             netNow == [net EXCEPT ![c] = "closed"]
  <2>2. pending[c] = <<>> /\ ses[s].started /\ Sound(ses[s])
    BY <1>0, <1>9, <2>1 DEF Refused, Inv, Links, Line
  <2>3. Sound(x) /\ x.started /\ (x.fate = "pooled" => ses[s].fate = "pooled")
    <3>1. Has(s) \in BOOLEAN
      BY DEF Has
    <3> QED BY <2>2, <3>1, Failures
  <2>4. Settle(s, x, netNow, pending) /\ UNCHANGED <<resolving, fin, cancelled, closes>>
    BY <1>9, <2>1 DEF Refused
  <2>5. /\ netNow \in [Conns -> Nets] /\ pending \in [Conns -> Seq(Items)]
        /\ netNow[c] = "closed" /\ \A d \in Conns : d # c => netNow[d] = net[d]
    BY DEF Inv, Typed, Nets
  <2>6. Line(s, "closed", <<>>)
    BY <1>0 DEF Line
  <2> HIDE DEF x, netNow
  <2>7. Effect(s, c, x, netNow, pending)
    BY <2>1, <2>2, <2>3, <2>5, <2>6 DEF Effect
  <2> QED BY <2>4, <2>7, SettleOn
<1>10. ASSUME NEW c \in Conns, Message(c) PROVE Inv'
  <2>0. PICK s \in Sessions : s = bound[c]
    BY <1>0, <1>10 DEF Message, Inv, Typed
  <2> DEFINE x == ses[s]
             Y(n) == IF x.fate # "kept" THEN x ELSE AfterFeed(Feed(s, Arm(x), SubSeq(pending[c], 1, n)))
             rest(n) == [pending EXCEPT ![c] = SubSeq(pending[c], n + 1, Len(pending[c]))]
  <2>1. /\ net[c] = "up" /\ bound[c] # NoSession
        /\ pending[c] \in Seq(Items) /\ Len(pending[c]) \in Nat
    BY <1>0, <1>10 DEF Message, Inv, Typed, Links
  <2>2. PICK n \in 1 .. Batch : /\ n <= Len(pending[c]) /\ Settle(s, Y(n), net, rest(n))
                                /\ UNCHANGED <<resolving, fin, cancelled, closes>>
    BY <1>10, <2>0 DEF Message
  <2>3. n \in 1 .. Len(pending[c])
    BY <2>1, <2>2, StreamAssumption
  <2>4. Sound(Y(n)) /\ Y(n).started /\ (Y(n).fate = "pooled" => x.fate = "pooled" \/ n = Len(pending[c]))
    BY <2>0, <2>1, <2>3, MessageSound
  <2> DEFINE q == SubSeq(pending[c], n + 1, Len(pending[c]))
  <2>5. /\ q \in Seq(Items) /\ Len(q) = Len(pending[c]) - n
        /\ \A i \in 1 .. Len(q) : q[i] = pending[c][i + n]
    BY <2>1, <2>3, AfterTake
  <2>6. Line(s, "up", q) /\ (n = Len(pending[c]) => q = <<>>)
    <3>1. \A i \in 1 .. Len(pending[c]) :
            pending[c][i].of = s /\ (pending[c][i].kind = "end" => i = Len(pending[c]))
      BY <2>0 DEF Inv, Links, Line
    <3> DEFINE l == Len(pending[c])
    <3>2. l \in Nat /\ n \in Nat /\ 1 <= n /\ n <= l
      BY <2>1, <2>3
    <3> HIDE DEF q, l
    <3>3. Len(q) = l - n /\ \A i \in 1 .. Len(q) : q[i] = pending[c][i + n]
      BY <2>5 DEF l
    <3>4. \A i \in 1 .. Len(q) : i + n \in 1 .. l /\ (i + n = l <=> i = Len(q))
      BY <3>2, <3>3
    <3>5. \A i \in 1 .. Len(q) : q[i].of = s /\ (q[i].kind = "end" => i = Len(q))
      <4> TAKE i \in 1 .. Len(q)
      <4> DEFINE j == i + n
      <4>1. j \in 1 .. l /\ (j = l <=> i = Len(q)) /\ q[i] = pending[c][j]
        BY <3>3, <3>4
      <4> HIDE DEF j
      <4>2. pending[c][j].of = s /\ (pending[c][j].kind = "end" => j = l)
        BY <3>1, <4>1 DEF l
      <4> QED BY <4>1, <4>2
    <3>6. n = l => q = <<>>
      <4>1. ASSUME n = l PROVE Len(q) = 0
        BY <3>2, <3>3, <4>1
      <4> QED BY <2>5, <4>1
    <3> QED BY <1>0, <2>1, <3>5, <3>6 DEF Line, l
  <2>7. /\ rest(n) \in [Conns -> Seq(Items)] /\ rest(n)[c] = q /\ net \in [Conns -> Nets]
        /\ \A d \in Conns : d # c => rest(n)[d] = pending[d]
    BY <2>5 DEF Inv, Typed
  <2>8. Line(s, net[c], rest(n)[c]) /\ net[c] # "none"
    BY <2>1, <2>6, <2>7
  <2>9. Y(n).fate = "pooled" => ses[s].fate = "pooled" \/ rest(n)[c] = <<>>
    BY <2>4, <2>6, <2>7
  <2> HIDE DEF Y, rest, q, x
  <2>10. Effect(s, c, Y(n), net, rest(n))
    BY <2>0, <2>4, <2>7, <2>8, <2>9 DEF Effect
  <2> QED BY <2>2, <2>10, SettleOn
<1>11. ASSUME NEW c \in Conns, Disconnected(c) PROVE Inv'
  <2> DEFINE down == [net EXCEPT ![c] = "closed"]
             lost == [pending EXCEPT ![c] = <<>>]
  <2>1. /\ down \in [Conns -> Nets] /\ lost \in [Conns -> Seq(Items)] /\ down[c] = "closed" /\ lost[c] = <<>>
        /\ \A d \in Conns : d # c => down[d] = net[d] /\ lost[d] = pending[d]
        /\ bound[c] \in Sessions \union {NoSession}
    BY DEF Inv, Typed, Nets
  <2>2. net[c] = "up" /\ Line(bound[c], "closed", <<>>)
    BY <1>11 DEF Disconnected, Line
  <2>3. CASE bound[c] = NoSession
    <3>1. net' = down /\ pending' = lost /\ UNCHANGED <<ses, client, bound, pool, resolving, fin, cancelled, closes>>
      BY <1>11, <2>3 DEF Disconnected
    <3> HIDE DEF down, lost
    <3>2. Typed'
      BY <2>1, <3>1 DEF Inv, Typed
    <3>3. \A d \in Conns : Line(bound'[d], net'[d], pending'[d])
      <4>1. \A d \in Conns : d # c => Line(bound'[d], net'[d], pending'[d])
        BY <2>1, <3>1 DEF Inv, Links
      <4> QED BY <2>1, <2>2, <3>1, <4>1
    <3>4. PoolFree'
      BY <2>1, <3>1 DEF Inv, Typed, Links, PoolFree
    <3>5. Links'
      <4>1. \A d \in Conns : net'[d] = "none" <=> net[d] = "none"
        BY <2>1, <2>2, <3>1
      <4>2. \A t \in Sessions : client'[t] # NoConn \/ net'[t] # "none" \/ t \in resolving' => ses'[t].started
        BY <1>0, <3>1, <4>1 DEF Inv, Links
      <4>3. \A t \in resolving' : client'[t] = NoConn /\ net'[t] = "none"
        BY <1>0, <3>1, <4>1 DEF Inv, Links, Typed
      <4>4. \A t \in Sessions : Sound(ses'[t])
        BY <3>1 DEF Inv, Links
      <4>5. \A t \in Sessions, d \in Conns : client'[t] = d <=> bound'[d] = t
        BY <3>1 DEF Inv, Links
      <4> QED BY <3>3, <3>4, <4>2, <4>3, <4>4, <4>5 DEF Links
    <3> QED BY <3>2, <3>5 DEF Inv
  <2>4. CASE bound[c] \in Sessions
    <3>0. PICK s \in Sessions : s = bound[c]
      BY <2>4
    <3> DEFINE x == AfterClose(ses[s])
    <3>1. ses[s].started /\ Sound(ses[s])
      BY <1>0, <3>0 DEF Inv, Links
    <3>2. Sound(x) /\ x.started /\ (x.fate = "pooled" => ses[s].fate = "pooled")
      BY <3>1, AfterCloseSound
    <3>3. Settle(s, x, down, lost) /\ UNCHANGED <<resolving, fin, cancelled, closes>>
      BY <1>0, <1>11, <3>0 DEF Disconnected
    <3> HIDE DEF x, down, lost
    <3>4. Effect(s, c, x, down, lost)
      BY <2>1, <2>2, <3>0, <3>2 DEF Effect
    <3> QED BY <3>3, <3>4, SettleOn
  <2> QED BY <2>1, <2>3, <2>4
<1>12. ASSUME NEW c \in Conns, ServerClose(c) PROVE Inv'
  BY <1>12, StreamAssumption DEF ServerClose, Inv, Typed, Links, PoolFree
<1>13. CASE UNCHANGED vars
  BY <1>13 DEF vars, Inv, Typed, Links, PoolFree
<1> QED BY <1>1, <1>2, <1>3, <1>4, <1>5, <1>6, <1>7, <1>8, <1>9, <1>10, <1>11, <1>12, <1>13 DEF Next

\* TypeOK, with what a session's fields say of each other, in every reachable
\* state (llm_stream.hpp:50-77, llm_tcp_pool.hpp:20-60).
THEOREM StreamTypeCorrect == Spec => []TypeOK
<1>1. Inv => TypeOK
  <2> SUFFICES ASSUME Inv PROVE TypeOK
    OBVIOUS
  <2>1. ASSUME NEW s \in Sessions
        PROVE  LET x == ses[s] IN
               /\ x.http \in {"start", "body", "Done", "Error"}
               /\ x.status \in {"none", "ok", "fail"}
               /\ x.fate \in {"kept", "pooled", "dropped"}
               /\ x.done = "no" <=> ~x.finished
               /\ x.deferred => x.done = "ok"
    BY DEF Inv, Links, Sound, Shaped, Fields
  <2>2. \A s \in Sessions : client[s] # NoConn => bound[client[s]] = s
    BY DEF Inv, Typed, Links
  <2> QED BY <2>1, <2>2 DEF Inv, Typed, TypeOK, Nets
<1> QED BY <1>1, InvInit, InvStep, PTL DEF Spec

\* Whatever the order of the callbacks, and however connections go back to the
\* pool and out again, what a session has still to parse is its own answer
\* (llm_tcp_pool.cpp:21-60, llm_stream.cpp:150-180).
THEOREM OwnAnswer == Spec => []OwnAnswerOnly
<1>1. Inv => OwnAnswerOnly
  <2> SUFFICES ASSUME Inv, NEW s \in Sessions, Has(s),
                      NEW i \in 1 .. Len(pending[client[s]])
               PROVE  pending[client[s]][i].of = s
    BY DEF OwnAnswerOnly
  <2>1. client[s] \in Conns /\ bound[client[s]] = s
    BY DEF Has, Inv, Typed, Links
  <2> QED BY <2>1 DEF Inv, Links, Line
<1> QED BY <1>1, InvInit, InvStep, PTL DEF Spec

-------------------------------------------------------------------------------
\* A session keeps the connection it has, and no timer ends one whose name is
\* being resolved.
Bonded ==
  /\ \A s \in Sessions : client[s] # NoConn => ses[s].fate = "kept"
  /\ \A s \in resolving : ~ses[s].finished

LEMMA SettleBonded ==
  ASSUME Inv, Bonded, NEW s \in Sessions, NEW x, NEW netNow, NEW pendingNow,
         Settle(s, x, netNow, pendingNow), resolving' \subseteq resolving, s \notin resolving'
  PROVE  Bonded'
<1>1. ses' = [ses EXCEPT ![s] = x] /\ ses \in [Sessions -> Fields] /\ client \in [Sessions -> Conns \union {NoConn}]
  BY DEF Settle, Inv, Typed
<1>2. \A t \in Sessions : client'[t] # NoConn => client[t] # NoConn
  BY <1>1 DEF Settle
<1>3. client'[s] # NoConn => x.fate = ses[s].fate
  BY <1>1 DEF Settle
<1>4. \A t \in Sessions : client'[t] # NoConn => ses'[t].fate = "kept"
  BY <1>1, <1>2, <1>3 DEF Bonded
<1>5. \A t \in resolving' : ~ses'[t].finished
  BY <1>1 DEF Bonded, Inv, Typed
<1> QED BY <1>4, <1>5 DEF Bonded

LEMMA BondedStep ==
  ASSUME ~SlowDns, Inv, Bonded, [Next]_vars
  PROVE  Bonded'
<1>0. /\ NoSession \notin Sessions /\ Conns = Sessions /\ NoConn = NoSession
      /\ \A s \in Sessions : s \in resolving => client[s] = NoConn
  BY StreamAssumption DEF Conns, NoConn, Inv, Links
<1>1. ASSUME NEW s \in Sessions, ses' = [ses EXCEPT ![s] = Arm(ses[s])], ~ses[s].started
      PROVE  /\ ~ses'[s].finished /\ ses'[s].fate = "kept"
             /\ \A t \in Sessions : t # s => ses'[t] = ses[t]
  <2>1. Sound(ses[s]) /\ ses \in [Sessions -> Fields]
    BY DEF Inv, Links, Typed
  <2> QED BY <1>1, <2>1 DEF Sound, Shaped, Fields, Arm
<1>2. ASSUME NEW s \in Sessions, StartPooled(s) PROVE Bonded'
  <2>1. /\ \A t \in Sessions : t # s => client'[t] = client[t]
        /\ resolving' = resolving /\ ses' = [ses EXCEPT ![s] = Arm(ses[s])] /\ ~ses[s].started
    BY <1>2 DEF StartPooled, Inv, Typed
  <2> QED BY <1>1, <2>1 DEF Bonded, Inv, Typed
<1>3. ASSUME NEW s \in Sessions, StartFresh(s) PROVE Bonded'
  BY <1>1, <1>3 DEF StartFresh, Bonded, Inv, Typed
<1>4. ASSUME NEW s \in Sessions, Resolved(s) PROVE Bonded'
  <2>1. ses[s].fate = "kept"
    BY <1>4 DEF Resolved, Bonded, Inv, Links, Sound, Shaped
  <2> QED BY <1>4, <2>1 DEF Resolved, Bonded, Inv, Typed
<1>5. ASSUME NEW s \in Sessions, Unresolved(s) PROVE Bonded'
  BY <1>5, SettleBonded DEF Unresolved
<1>6. ASSUME NEW s \in Sessions, IdleTimeout(s) PROVE Bonded'
  BY <1>6, SettleBonded DEF IdleTimeout
<1>7. ASSUME NEW s \in Sessions, Fallback(s) PROVE Bonded'
  <2>1. s \notin resolving
    BY <1>7 DEF Fallback, Bonded, Inv, Links, Sound, Shaped
  <2> QED BY <1>7, <2>1, SettleBonded DEF Fallback
<1>8. ASSUME NEW c \in Conns, bound[c] # NoSession PROVE bound[c] \in Sessions /\ bound[c] \notin resolving
  BY <1>0, <1>8 DEF Inv, Typed, Links
<1>9. ASSUME NEW c \in Conns, Refused(c) PROVE Bonded'
  <2>1. bound[c] # NoSession
    BY <1>9 DEF Refused, Inv, Links, Line
  <2> QED BY <1>8, <1>9, <2>1, SettleBonded DEF Refused
<1>10. ASSUME NEW c \in Conns, Message(c) PROVE Bonded'
  <2> DEFINE s == bound[c]
  <2>1. bound[c] # NoSession /\ resolving' = resolving
    BY <1>10 DEF Message
  <2>2. PICK n \in 1 .. Batch :
          Settle(s, IF ses[s].fate # "kept" THEN ses[s]
                    ELSE AfterFeed(Feed(s, Arm(ses[s]), SubSeq(pending[c], 1, n))),
                 net, [pending EXCEPT ![c] = SubSeq(@, n + 1, Len(@))])
    BY <1>10 DEF Message
  <2> HIDE DEF s
  <2>3. s \in Sessions /\ s \notin resolving'
    BY <1>8, <2>1 DEF s
  <2> QED BY <2>1, <2>2, <2>3, SettleBonded
<1>11. ASSUME NEW c \in Conns, Disconnected(c) PROVE Bonded'
  <2>1. CASE bound[c] = NoSession
    BY <1>11, <2>1 DEF Disconnected, Bonded
  <2>2. CASE bound[c] # NoSession
    BY <1>8, <1>11, <2>2, SettleBonded DEF Disconnected
  <2> QED BY <2>1, <2>2
<1>12. ASSUME UNCHANGED <<ses, client, resolving>> PROVE Bonded'
  BY <1>12 DEF Bonded
<1> QED BY <1>2, <1>3, <1>4, <1>5, <1>6, <1>7, <1>9, <1>10, <1>11, <1>12
        DEF Next, vars, Connected, ServerClose, Cancel

\* Unless a name takes longer to resolve than a session may stay idle, a session
\* that has finished holds a connection only while its fallback timer runs
\* (llm_stream.cpp:282-372).
THEOREM ReleasedAtEnd ==
  ASSUME ~SlowDns
  PROVE  Spec => []Released
<1>1. Init => Bonded
  BY DEF Init, Bonded
<1>2. Inv /\ Bonded => Released
  <2> SUFFICES ASSUME Inv, Bonded, NEW s \in Sessions, ses[s].finished, NEW c \in Conns, bound[c] = s
               PROVE  ses[s].fallback
    BY DEF Released
  <2>1. client[s] # NoConn
    BY StreamAssumption DEF Inv, Links, Conns, NoConn
  <2> QED BY <2>1 DEF Inv, Bonded, Links, Sound, Shaped
<1> QED BY <1>1, <1>2, InvInit, InvStep, BondedStep, PTL DEF Spec

-------------------------------------------------------------------------------
\* What a session has counted, and what it has still to read.

\* A success that no cancellation explains had both tokens.
Complete(x) == x.done = "ok" /\ x.why # "cancelled" => x.tokens = 2

Step(kind) == IF kind = "token" THEN 1 ELSE 0

\* g counts the tokens along q, and both have come before q says it is over.
Counts(g, q) ==
  /\ g \in [0 .. Len(q) -> Nat]
  /\ \A i \in 1 .. Len(q) : /\ g[i] = g[i - 1] + Step(q[i].kind)
                            /\ q[i].kind \in {"[DONE]", "end"} => g[i - 1] = 2

Plain(q, m) == \A i \in m .. Len(q) : q[i].kind \notin {"head", "fail"}

\* q is nothing or a whole answer of which nothing is read; the rest of one of
\* which t tokens are.
Opening(q) ==
  Len(q) > 0 =>
    /\ q[1].kind \in {"head", "fail", "bad"} /\ Plain(q, 2)
    /\ q[1].kind = "fail" => \A i \in 1 .. Batch : i <= Len(q) => q[i].kind \notin {"[DONE]", "end"}
    /\ q[1].kind = "head" => \E g : Counts(g, q) /\ g[0] = 0

Remainder(q, t) == Plain(q, 1) /\ \E g : Counts(g, q) /\ g[0] = t

Honest(x, q) ==
  /\ Complete(x)
  /\ ~x.finished => \/ x.http = "start" /\ x.tokens = 0 /\ Opening(q)
                    \/ x.http = "body" /\ x.status = "ok" /\ Remainder(q, x.tokens)

\* Within a receive of an answer that began with mode: t tokens were sent.
Phase(x, t, mode) ==
  /\ Complete(x)
  /\ ~x.finished => \/ x.http = "Error"
                    \/ x.http = "Done" /\ x.tokens = 2
                    \/ x.http = "body" /\ x.status = "ok" /\ mode = "head" /\ x.tokens = t
                    \/ x.http = "body" /\ x.status = "fail" /\ mode = "fail"

LEMMA ParseFirst ==
  ASSUME NEW s, NEW x, Shaped(x), ~x.finished, x.http = "start", x.tokens = 0,
         NEW item \in Items, item.kind \in {"head", "fail", "bad"}
  PROVE  Phase(Parse(s, x, item), 0, item.kind)
  BY DEF Parse, Phase, Complete, Shaped, Fields

LEMMA ParsePhase ==
  ASSUME NEW s, NEW x, Shaped(x), x.started, NEW item \in Items, item.kind \notin {"head", "fail"},
         NEW mode \in {"head", "fail", "bad"}, NEW t \in Nat, Phase(x, t, mode),
         item.kind \in {"[DONE]", "end"} => mode # "fail" /\ (mode = "head" => t = 2)
  PROVE  Phase(Parse(s, x, item), t + Step(item.kind), mode)
<1> DEFINE y == Parse(s, x, item)
           t2 == t + Step(item.kind)
<1>1. Shaped(y) /\ Told(x, y)
  BY ParseShaped
<1>2. CASE x.finished
  <2> HIDE DEF y, t2
  <2> QED BY <1>1, <1>2 DEF Told, Phase, Complete, y
<1>3. CASE ~x.finished /\ x.http \in {"Done", "Error"}
  BY <1>3 DEF Parse, Phase
<1>4. CASE ~x.finished /\ x.http \notin {"Done", "Error"} /\ item.kind = "end"
  <2>1. y = [x EXCEPT !.http = "Done"] /\ x.http = "body" /\ x.tokens = 2
    BY <1>4 DEF Parse, Phase
  <2> HIDE DEF y, t2
  <2> QED BY <1>4, <2>1 DEF Phase, Complete, Shaped, Fields, y
<1>5. CASE ~x.finished /\ x.http \notin {"Done", "Error"} /\ item.kind = "bad"
  <2>1. y = [x EXCEPT !.http = "Error"]
    BY <1>5 DEF Parse
  <2> HIDE DEF y, t2
  <2> QED BY <1>5, <2>1 DEF Phase, Complete, Shaped, Fields, y
<1>6. CASE ~x.finished /\ x.http \notin {"Done", "Error"} /\ item.kind = "[DONE]"
  <2>1. y = Finish(x, "ok", "", TRUE) /\ x.tokens = 2
    BY <1>6 DEF Parse, Event, EventAlways, Phase
  <2>2. LET z == Finish(x, "ok", "", TRUE) IN z.finished /\ z.tokens = x.tokens
    BY <1>6, DoneShaped
  <2> HIDE DEF y, t2
  <2> QED BY <2>1, <2>2 DEF Phase, Complete, y
<1>7. CASE ~x.finished /\ x.http \notin {"Done", "Error"} /\ item.kind = "token"
  <2> DEFINE z == [x EXCEPT !.tokens = x.tokens + 1]
             w == Finish(z, "ok", "cancelled", TRUE)
  <2>1. y = IF s \in cancelled THEN w ELSE z
    BY <1>7 DEF Parse, Event, EventAlways, Token
  <2>2. /\ Shaped(z) /\ z.started /\ ~z.finished /\ z.done = "no" /\ z.http = x.http
        /\ z.status = x.status /\ z.tokens = x.tokens + 1
    BY <1>7 DEF Shaped, Fields
  <2>3. w.finished /\ w.why = "cancelled"
    <3>1. \A v : Shaped(v) /\ v.started /\ ~v.finished =>
            LET u == Finish(v, "ok", "cancelled", TRUE) IN u.finished /\ u.why = "cancelled"
      BY DEF Finish, FinishAlways, Shaped, Fields
    <3> HIDE DEF z
    <3> QED BY <2>2, <3>1
  <2>4. t2 = t + 1
    BY <1>7 DEF Step
  <2>5. Phase(z, t2, mode)
    <3> HIDE DEF z, t2
    <3> QED BY <1>7, <2>2, <2>4 DEF Phase, Complete
  <2>6. Phase(w, t2, mode)
    <3> HIDE DEF w, t2
    <3> QED BY <2>3 DEF Phase, Complete
  <2> HIDE DEF y, z, w, t2
  <2> QED BY <2>1, <2>5, <2>6 DEF y, t2
<1>8. CASE ~x.finished /\ x.http \notin {"Done", "Error"} /\ item.kind \notin {"end", "bad", "[DONE]", "token"}
  <2>1. y = x
    BY <1>8 DEF Parse, Event, EventAlways
  <2>2. t2 = t
    BY <1>8 DEF Step
  <2> HIDE DEF y, t2
  <2> QED BY <2>1, <2>2 DEF y, t2
<1> QED BY <1>2, <1>3, <1>4, <1>5, <1>6, <1>7, <1>8

\* The items of one receive and the count g along them, in an answer that began
\* with mode; the first of them begins the answer, or goes on with it.
Along(items, g, mode) ==
  /\ g \in [0 .. Len(items) -> Nat]
  /\ \A i \in 1 .. Len(items) :
       /\ mode = "head" => g[i] = g[i - 1] + Step(items[i].kind)
       /\ items[i].kind \in {"[DONE]", "end"} => mode # "fail" /\ (mode = "head" => g[i - 1] = 2)
       /\ i > 1 => items[i].kind \notin {"head", "fail"}

Begins(x, kind, t, mode) ==
  \/ Phase(x, t, mode) /\ kind \notin {"head", "fail"}
  \/ /\ ~x.finished /\ x.http = "start" /\ x.tokens = 0 /\ kind = mode
     /\ mode = "head" => t = 0

LEMMA FeedPhase ==
  ASSUME NEW s, NEW x, Shaped(x), x.started, NEW items \in Seq(Items), Len(items) > 0,
         NEW mode \in {"head", "fail", "bad"}, NEW g, Along(items, g, mode),
         Begins(x, items[1].kind, g[0], mode)
  PROVE  Phase(Feed(s, x, items), g[Len(items)], mode)
<1> DEFINE n == Len(items)
           Stage(y, k) == /\ Shaped(y) /\ y.started
                          /\ IF k = 0 THEN y = x ELSE Phase(y, g[k], mode)
           R == [k \in 0 .. n |-> {y \in Fields : Stage(y, k)}]
<1>1. n \in Nat /\ n \in 1 .. n /\ \A k \in 1 .. n : items[k] \in Items /\ g[k] \in Nat /\ g[k - 1] \in Nat
  <2>1. n \in Nat /\ n > 0 /\ n \in 1 .. n
    OBVIOUS
  <2>2. \A k \in 1 .. n : items[k] \in Items /\ k \in 0 .. n /\ k - 1 \in 0 .. n
    BY <2>1
  <2>3. g \in [0 .. n -> Nat]
    BY DEF Along
  <2> QED BY <2>1, <2>2, <2>3
<1>2. ASSUME NEW y, NEW t \in Nat, NEW u \in Nat, mode # "head", Phase(y, t, mode)
      PROVE  Phase(y, u, mode)
  BY <1>2 DEF Phase
<1>3. ASSUME NEW k \in 1 .. n, NEW y, Shaped(y), y.started, Phase(y, g[k - 1], mode),
             items[k].kind \notin {"head", "fail"}
      PROVE  Phase(Parse(s, y, items[k]), g[k], mode)
  <2> DEFINE z == Parse(s, y, items[k])
  <2>1. items[k].kind \in {"[DONE]", "end"} => mode # "fail" /\ (mode = "head" => g[k - 1] = 2)
    BY DEF Along
  <2>2. Phase(z, g[k - 1] + Step(items[k].kind), mode)
    BY <1>1, <1>3, <2>1, ParsePhase
  <2>3. g[k - 1] + Step(items[k].kind) \in Nat /\ g[k] \in Nat
    BY <1>1 DEF Step
  <2>4. mode = "head" => g[k] = g[k - 1] + Step(items[k].kind)
    BY DEF Along
  <2> HIDE DEF z
  <2>5. CASE mode = "head"
    BY <2>2, <2>4, <2>5 DEF z
  <2>6. CASE mode # "head"
    BY <1>2, <2>2, <2>3, <2>6 DEF z
  <2> QED BY <2>5, <2>6
<1>4. ASSUME ~x.finished, x.http = "start", x.tokens = 0, items[1].kind = mode, mode = "head" => g[0] = 0
      PROVE  Phase(Parse(s, x, items[1]), g[1], mode)
  <2> DEFINE z == Parse(s, x, items[1])
  <2>1. 1 \in 1 .. n
    BY <1>1
  <2>2. Phase(z, 0, mode)
    BY <1>1, <1>4, <2>1, ParseFirst
  <2>3. mode = "head" => g[1] = 0
    BY <1>1, <1>4, <2>1 DEF Step, Along
  <2>4. g[1] \in Nat
    BY <1>1, <2>1
  <2> HIDE DEF z
  <2>5. CASE mode = "head"
    BY <2>2, <2>3, <2>5 DEF z
  <2>6. CASE mode # "head"
    BY <1>2, <2>2, <2>4, <2>6 DEF z
  <2> QED BY <2>5, <2>6
<1>5. ASSUME NEW k \in 1 .. n, NEW y \in R[k - 1]
      PROVE  Parse(s, y, items[k]) \in R[k]
  <2> DEFINE z == Parse(s, y, items[k])
  <2>1. k - 1 \in 0 .. n /\ k \in 0 .. n /\ k # 0 /\ Stage(y, k - 1)
    BY <1>1, <1>5
  <2>2. Shaped(y) /\ y.started /\ IF k = 1 THEN y = x ELSE Phase(y, g[k - 1], mode)
    BY <1>1, <2>1
  <2>3. Shaped(z) /\ z.started
    BY <1>1, <2>2, ParseShaped
  <2>4. Phase(z, g[k], mode)
    <3>1. CASE k = 1
      <4>1. y = x /\ k - 1 = 0
        BY <2>2, <3>1
      <4>2. CASE Phase(x, g[0], mode) /\ items[1].kind \notin {"head", "fail"}
        BY <1>3, <2>2, <3>1, <4>1, <4>2
      <4>3. CASE ~(Phase(x, g[0], mode) /\ items[1].kind \notin {"head", "fail"})
        BY <1>4, <3>1, <4>1, <4>3 DEF Begins
      <4> QED BY <4>2, <4>3
    <3>2. CASE k # 1
      <4>1. k > 1 /\ items[k].kind \notin {"head", "fail"}
        BY <1>1, <3>2 DEF Along
      <4> QED BY <1>3, <2>2, <3>2, <4>1
    <3> QED BY <3>1, <3>2
  <2> HIDE DEF z
  <2>5. Stage(z, k) /\ z \in Fields
    BY <2>1, <2>3, <2>4 DEF Shaped
  <2> HIDE DEF Stage
  <2> QED BY <2>1, <2>5 DEF z
<1>6. x \in R[0]
  BY <1>1 DEF Shaped
<1>7. Feed(s, x, items) \in R[n]
  <2> HIDE DEF R
  <2> QED BY <1>1, <1>5, <1>6, FeedInduction
<1>8. n \in 0 .. n /\ n # 0
  BY <1>1
<1> QED BY <1>7, <1>8

\* The rest of on_message() reports what is over and keeps what is not.
LEMMA AfterFeedHonest ==
  ASSUME NEW x, Shaped(x), x.started, NEW t, NEW mode \in {"head", "fail", "bad"}, Phase(x, t, mode)
  PROVE  LET y == AfterFeed(x) IN
         /\ Complete(y)
         /\ ~y.finished => y.http = "body" /\ y.status = "ok" /\ mode = "head" /\ y.tokens = t
<1> DEFINE y == AfterFeed(x)
           Good(v) == /\ Complete(v)
                      /\ ~v.finished => v.http = "body" /\ v.status = "ok" /\ mode = "head" /\ v.tokens = t
<1>1. CASE x.finished
  <2>1. Told(x, y)
    BY AfterFeedSound
  <2> HIDE DEF y
  <2> QED BY <1>1, <2>1 DEF Told, Phase, Complete, y
<1>2. ASSUME ~x.finished, NEW why \in Reasons PROVE Good(Finish(x, "error", why, TRUE))
  <2> DEFINE z == Finish(x, "error", why, TRUE)
  <2>1. z.finished /\ z.done = "error"
    BY <1>2 DEF Finish, FinishAlways, Shaped, Fields
  <2> HIDE DEF z
  <2> QED BY <2>1 DEF Complete, z
<1>3. CASE ~x.finished /\ x.http = "Error"
  BY <1>2, <1>3 DEF AfterFeed, Reasons
<1>4. CASE ~x.finished /\ x.http = "Done"
  <2> DEFINE z == Finish(x, "ok", "", TRUE)
  <2>1. Shaped(z) /\ z.finished /\ z.tokens = 2
    <3>1. x.tokens = 2
      BY <1>4 DEF Phase
    <3> QED BY <1>4, <3>1, DoneShaped
  <2> HIDE DEF z
  <2>2. Dispose(z, "dropped").finished /\ Dispose(z, "dropped").tokens = 2
    BY <2>1, DisposeShaped
  <2>3. ~x.deferred
    BY <1>4 DEF Shaped
  <2>4. y = Dispose(z, "dropped")
    BY <1>4, <2>3 DEF AfterFeed, z
  <2> HIDE DEF y
  <2> QED BY <2>2, <2>4 DEF Complete, y
<1>5. CASE ~x.finished /\ x.http = "body" /\ x.status = "fail"
  <2>1. y = Finish(x, "error", "status", TRUE)
    BY <1>5 DEF AfterFeed
  <2> HIDE DEF y, Good
  <2> QED BY <1>2, <1>5, <2>1 DEF Reasons, Good, y
<1>6. CASE ~x.finished /\ x.http = "body" /\ x.status # "fail"
  <2>1. y = x
    BY <1>6 DEF AfterFeed
  <2> HIDE DEF y
  <2> QED BY <1>6, <2>1 DEF Phase, y
<1> QED BY <1>1, <1>3, <1>4, <1>5, <1>6 DEF Phase

\* One receive, given the count along what is unread.
LEMMA ReceiveHonest ==
  ASSUME NEW s, NEW x, Shaped(x), x.started, NEW q \in Seq(Items), NEW n \in 1 .. Len(q), n <= Batch,
         NEW mode \in {"head", "fail", "bad"}, NEW g \in [0 .. Len(q) -> Nat],
         Plain(q, 2), mode = "head" => Counts(g, q),
         mode = "fail" => \A i \in 1 .. Batch : i <= Len(q) => q[i].kind \notin {"[DONE]", "end"},
         Begins(x, q[1].kind, g[0], mode)
  PROVE  Honest(AfterFeed(Feed(s, x, SubSeq(q, 1, n))), SubSeq(q, n + 1, Len(q)))
<1> DEFINE items == SubSeq(q, 1, n)
           rest == SubSeq(q, n + 1, Len(q))
           l == Len(q)
           part == [i \in 0 .. n |-> g[i]]
           later == [i \in 0 .. l - n |-> g[i + n]]
           y == AfterFeed(Feed(s, x, items))
<1>1. /\ items \in Seq(Items) /\ Len(items) = n /\ \A i \in 1 .. n : items[i] = q[i]
      /\ rest \in Seq(Items) /\ Len(rest) = l - n /\ \A i \in 1 .. Len(rest) : rest[i] = q[i + n]
      /\ l \in Nat /\ n \in Nat /\ 1 <= n /\ n <= l
  <2>1. l \in Nat /\ n \in Nat /\ 1 <= n /\ n <= l
    OBVIOUS
  <2>2. items = [i \in 1 .. n |-> q[i]] /\ \A i \in 1 .. n : q[i] \in Items
    BY <2>1
  <2>3. rest \in Seq(Items) /\ Len(rest) = l - n /\ \A i \in 1 .. Len(rest) : rest[i] = q[i + n]
    BY AfterTake
  <2> HIDE DEF items, rest, l
  <2>4. items \in Seq(Items) /\ Len(items) = n /\ \A i \in 1 .. n : items[i] = q[i]
    BY <2>1, <2>2
  <2> QED BY <2>1, <2>3, <2>4
<1> HIDE DEF items, rest, l
<1>2. \A i \in 0 .. n : i \in 0 .. l /\ part[i] = g[i]
  BY <1>1
<1>3. part \in [0 .. n -> Nat]
  BY <1>2 DEF l
<1>4. \A i \in 1 .. n : i \in 1 .. l /\ i - 1 \in 0 .. n /\ i \in 0 .. n /\ i \in Nat /\ i <= n
  BY <1>1
<1> HIDE DEF part
<1>5. ASSUME NEW i \in 1 .. n
      PROVE  /\ mode = "head" => part[i] = part[i - 1] + Step(items[i].kind)
             /\ items[i].kind \in {"[DONE]", "end"} => mode # "fail" /\ (mode = "head" => part[i - 1] = 2)
             /\ i > 1 => items[i].kind \notin {"head", "fail"}
  <2>1. items[i] = q[i] /\ part[i] = g[i] /\ part[i - 1] = g[i - 1]
    BY <1>1, <1>2, <1>4
  <2>2. i \in 1 .. Batch /\ i <= Len(q) /\ (i > 1 => i \in 2 .. Len(q))
    BY <1>1, <1>4, StreamAssumption DEF l
  <2>3. mode = "head" => /\ g[i] = g[i - 1] + Step(q[i].kind)
                         /\ q[i].kind \in {"[DONE]", "end"} => g[i - 1] = 2
    BY <1>4 DEF Counts, l
  <2>4. mode = "fail" => q[i].kind \notin {"[DONE]", "end"}
    BY <2>2
  <2>5. i > 1 => q[i].kind \notin {"head", "fail"}
    BY <2>2 DEF Plain
  <2> QED BY <2>1, <2>3, <2>4, <2>5
<1>6. Begins(x, items[1].kind, part[0], mode)
  <2>1. part[0] = g[0] /\ items[1] = q[1]
    BY <1>1, <1>2
  <2> QED BY <2>1
<1>7. Phase(Feed(s, x, items), part[n], mode)
  <2>1. items \in Seq(Items) /\ Len(items) > 0 /\ Len(items) = n
    BY <1>1
  <2>2. Along(items, part, mode)
    BY <1>1, <1>3, <1>5 DEF Along
  <2> QED BY <1>6, <2>1, <2>2, FeedPhase
<1>8. Shaped(Feed(s, x, items)) /\ Feed(s, x, items).started
  <2> DEFINE R == [k \in 0 .. n |-> {z \in Fields : Shaped(z) /\ z.started}]
  <2>1. x \in R[0]
    BY <1>1 DEF Shaped
  <2>2. ASSUME NEW k \in 1 .. Len(items), NEW z \in R[k - 1] PROVE Parse(s, z, items[k]) \in R[k]
    <3>1. k - 1 \in 0 .. n /\ k \in 0 .. n /\ Shaped(z) /\ z.started /\ items[k] \in Items
      BY <1>1
    <3>2. Shaped(Parse(s, z, items[k])) /\ Parse(s, z, items[k]).started
      BY <3>1, ParseShaped
    <3> QED BY <3>1, <3>2 DEF Shaped
  <2>3. Feed(s, x, items) \in R[n]
    <3> HIDE DEF R
    <3> QED BY <1>1, <2>1, <2>2, FeedInduction
  <2> QED BY <1>1, <2>3
<1>9. Complete(y) /\ (~y.finished => y.http = "body" /\ y.status = "ok" /\ mode = "head" /\ y.tokens = part[n])
  <2> DEFINE fed == Feed(s, x, items)
  <2> HIDE DEF fed
  <2>1. Phase(fed, part[n], mode) /\ Shaped(fed) /\ fed.started
    BY <1>7, <1>8 DEF fed
  <2>2. LET z == AfterFeed(fed) IN
        Complete(z) /\ (~z.finished => z.http = "body" /\ z.status = "ok" /\ mode = "head" /\ z.tokens = part[n])
    BY <2>1, AfterFeedHonest
  <2> QED BY <2>2 DEF fed
<1>10. mode = "head" => Remainder(rest, part[n])
  <2> SUFFICES ASSUME mode = "head" PROVE Remainder(rest, part[n])
    OBVIOUS
  <2>1. \A i \in 1 .. Len(rest) : i + n \in 2 .. l /\ i + n \in 1 .. l /\ i - 1 \in 0 .. l - n /\ i \in 0 .. l - n
    BY <1>1
  <2>2. Plain(rest, 1)
    <3>1. \A i \in 2 .. l : q[i].kind \notin {"head", "fail"}
      BY DEF Plain, l
    <3> QED BY <1>1, <2>1, <3>1 DEF Plain
  <2>3. \A i \in 0 .. l - n : i + n \in 0 .. l /\ later[i] = g[i + n]
    BY <1>1
  <2>4. later \in [0 .. Len(rest) -> Nat]
    BY <1>1, <2>3 DEF l
  <2> HIDE DEF later
  <2>5. ASSUME NEW i \in 1 .. Len(rest)
        PROVE  /\ later[i] = later[i - 1] + Step(rest[i].kind)
               /\ rest[i].kind \in {"[DONE]", "end"} => later[i - 1] = 2
    <3>1. i + n \in 1 .. l /\ later[i] = g[i + n] /\ later[i - 1] = g[(i - 1) + n] /\ rest[i] = q[i + n]
      BY <1>1, <2>1, <2>3
    <3>2. (i - 1) + n = (i + n) - 1
      BY <1>1
    <3>3. \A j \in 1 .. l : /\ g[j] = g[j - 1] + Step(q[j].kind)
                            /\ q[j].kind \in {"[DONE]", "end"} => g[j - 1] = 2
      BY DEF Counts, l
    <3>4. /\ g[i + n] = g[(i + n) - 1] + Step(q[i + n].kind)
          /\ q[i + n].kind \in {"[DONE]", "end"} => g[(i + n) - 1] = 2
      BY <3>1, <3>3
    <3> QED BY <3>1, <3>2, <3>4
  <2>6. later[0] = part[n]
    BY <1>1, <1>2, <2>3
  <2> QED BY <2>2, <2>4, <2>5, <2>6 DEF Remainder, Counts
<1> HIDE DEF y
<1> QED BY <1>9, <1>10 DEF Honest, y, items, rest

\* A receive by a session that has not finished.
LEMMA MessageHonest ==
  ASSUME NEW s, NEW x, Sound(x), x.started, ~x.finished, NEW q \in Seq(Items), Honest(x, q),
         NEW n \in 1 .. Len(q), n <= Batch
  PROVE  Honest(AfterFeed(Feed(s, Arm(x), SubSeq(q, 1, n))), SubSeq(q, n + 1, Len(q)))
<1> DEFINE a == Arm(x)
<1>1. /\ Shaped(a) /\ a.started /\ ~a.finished /\ a.http = x.http /\ a.status = x.status
      /\ a.tokens = x.tokens /\ a.done = "no" /\ a.tokens \in Nat
  <2>1. Sound(a) /\ a.started /\ ~a.finished /\ a.http = x.http /\ a.status = x.status /\ a.tokens = x.tokens
    BY ArmSound
  <2> HIDE DEF a
  <2> QED BY <2>1 DEF Sound, Shaped, Fields
<1> HIDE DEF a
<1>2. Len(q) \in Nat /\ Len(q) > 0 /\ 1 \in 1 .. Len(q)
  OBVIOUS
<1>3. CASE x.http = "start" /\ x.tokens = 0 /\ Opening(q)
  <2> DEFINE mode == q[1].kind
  <2>1. /\ mode \in {"head", "fail", "bad"} /\ Plain(q, 2)
        /\ mode = "fail" => \A i \in 1 .. Batch : i <= Len(q) => q[i].kind \notin {"[DONE]", "end"}
        /\ mode = "head" => \E g : Counts(g, q) /\ g[0] = 0
    BY <1>2, <1>3 DEF Opening
  <2>2. PICK g \in [0 .. Len(q) -> Nat] : mode = "head" => Counts(g, q) /\ g[0] = 0
    <3>1. CASE mode = "head"
      BY <2>1, <3>1 DEF Counts
    <3>2. CASE mode # "head"
      <4>1. [i \in 0 .. Len(q) |-> 0] \in [0 .. Len(q) -> Nat]
        OBVIOUS
      <4> QED BY <3>2, <4>1
    <3> QED BY <3>1, <3>2
  <2>3. Begins(a, q[1].kind, g[0], mode)
    BY <1>1, <1>3, <2>2 DEF Begins
  <2> HIDE DEF mode
  <2> QED BY <1>1, <2>1, <2>2, <2>3, ReceiveHonest DEF a
<1>4. CASE x.http = "body" /\ x.status = "ok" /\ Remainder(q, x.tokens)
  <2>1. PICK g : Counts(g, q) /\ g[0] = x.tokens
    BY <1>4 DEF Remainder
  <2>2. g \in [0 .. Len(q) -> Nat]
    BY <2>1 DEF Counts
  <2>3. Plain(q, 2) /\ q[1].kind \notin {"head", "fail"}
    <3>1. \A i \in 1 .. Len(q) : q[i].kind \notin {"head", "fail"}
      BY <1>4 DEF Remainder, Plain
    <3>2. \A i \in 2 .. Len(q) : i \in 1 .. Len(q)
      BY <1>2
    <3> QED BY <1>2, <3>1, <3>2 DEF Plain
  <2>4. Phase(a, g[0], "head")
    BY <1>1, <1>4, <2>1 DEF Phase, Complete
  <2>5. Begins(a, q[1].kind, g[0], "head")
    BY <2>3, <2>4 DEF Begins
  <2> QED BY <1>1, <2>1, <2>2, <2>3, <2>5, ReceiveHonest DEF a
<1> QED BY <1>3, <1>4 DEF Honest

-------------------------------------------------------------------------------
\* No session has reported a part of its answer as the whole.
Unread(s) == IF Has(s) THEN pending[client[s]] ELSE <<>>

Waiting(s) == Has(s) => net[client[s]] = "connecting"

Faithful ==
  \A s \in Sessions :
    /\ Honest(ses[s], Unread(s))
    /\ Waiting(s) /\ ~ses[s].finished => ses[s].http = "start" /\ ses[s].tokens = 0

LEMMA SettleHonest ==
  ASSUME Inv, Faithful, NEW s \in Sessions, NEW x, Sound(x), Told(ses[s], x),
         NEW netNow \in [Conns -> Nets], NEW pendingNow \in [Conns -> Seq(Items)],
         \A c \in Conns : c # client[s] => netNow[c] = net[c] /\ pendingNow[c] = pending[c],
         ~ses[s].finished => \/ x.finished /\ Complete(x)
                             \/ Has(s) /\ netNow[client[s]] = "up" /\ Honest(x, pendingNow[client[s]]),
         Settle(s, x, netNow, pendingNow)
  PROVE  Faithful'
<1> DEFINE c == client[s]
           gone == c # NoConn /\ x.fate # ses[s].fate
<1>1. /\ ses' = [ses EXCEPT ![s] = x] /\ ses \in [Sessions -> Fields] /\ client \in [Sessions -> Conns \union {NoConn}]
      /\ NoConn \notin Conns
  BY StreamAssumption DEF Settle, Inv, Typed, Conns, NoConn
<1>2. /\ client' = IF gone THEN [client EXCEPT ![s] = NoConn] ELSE client
      /\ pending' = pendingNow \/ (gone /\ pending' = [pendingNow EXCEPT ![c] = <<>>])
      /\ net' = netNow \/ (gone /\ net' = [netNow EXCEPT ![c] = "closed"])
  BY DEF Settle
<1>3. ASSUME NEW t \in Sessions, t # s
      PROVE  /\ Honest(ses'[t], Unread(t)')
             /\ Waiting(t)' /\ ~ses'[t].finished => ses'[t].http = "start" /\ ses'[t].tokens = 0
  <2>1. ses'[t] = ses[t] /\ client'[t] = client[t]
    BY <1>1, <1>2, <1>3
  <2>2. Has(t) => client[t] \in Conns /\ client[t] # c
    BY <1>1, <1>3 DEF Inv, Links, Has
  <2>3. \A d \in Conns : d # c => pending'[d] = pending[d] /\ net'[d] = net[d]
    BY <1>2
  <2>4. Unread(t)' = Unread(t) /\ (Waiting(t)' <=> Waiting(t))
    BY <2>1, <2>2, <2>3 DEF Unread, Has, Waiting
  <2> QED BY <2>1, <2>4 DEF Faithful
<1>4. /\ Honest(ses'[s], Unread(s)')
      /\ Waiting(s)' /\ ~ses'[s].finished => ses'[s].http = "start" /\ ses'[s].tokens = 0
  <2>1. ses'[s] = x
    BY <1>1
  <2>2. CASE x.finished
    <3>1. Complete(x)
      <4>1. CASE ses[s].finished
        BY <4>1 DEF Told, Faithful, Honest, Complete
      <4>2. CASE ~ses[s].finished
        BY <2>2, <4>2 DEF Honest
      <4> QED BY <4>1, <4>2
    <3> QED BY <2>1, <2>2, <3>1 DEF Honest
  <2>3. CASE ~x.finished
    <3>1. ~ses[s].finished
      BY <2>3 DEF Told
    <3>2. x.fate = "kept" /\ ses[s].fate = "kept"
      BY <2>3, <3>1 DEF Inv, Links, Sound, Shaped
    <3>3. client' = client /\ pending' = pendingNow /\ net' = netNow
      BY <1>2, <3>2
    <3>4. Has(s) /\ netNow[client[s]] = "up" /\ Honest(x, pendingNow[client[s]])
      BY <2>3, <3>1
    <3> QED BY <2>1, <3>3, <3>4 DEF Unread, Has, Waiting
  <2> QED BY <2>2, <2>3
<1> QED BY <1>3, <1>4 DEF Faithful

\* The errors and the timers end a session without a success.
LEMMA SettleEnds ==
  ASSUME Inv, Faithful, NEW s \in Sessions, NEW x, Sound(x), Told(ses[s], x),
         NEW netNow \in [Conns -> Nets], NEW pendingNow \in [Conns -> Seq(Items)],
         \A c \in Conns : c # client[s] => netNow[c] = net[c] /\ pendingNow[c] = pending[c],
         ~ses[s].finished => x.done = "error",
         Settle(s, x, netNow, pendingNow)
  PROVE  Faithful'
<1>1. ~ses[s].finished => x.finished /\ Complete(x)
  BY DEF Sound, Shaped, Complete
<1> QED BY <1>1, SettleHonest

LEMMA AnsweredHonest ==
  ASSUME \A r \in Responses : WholeAnswer(r),
         Inv, NEW s \in Sessions, NEW c \in Conns, pending[c] = <<>>, NEW sent \in Answered(s, c)
  PROVE  Opening(sent)
<1>1. CASE sent = <<>>
  BY <1>1 DEF Opening
<1>2. CASE sent # <<>>
  <2>1. PICK r \in Responses : /\ Len(sent) = Len(r)
                               /\ \A i \in 1 .. Len(r) : sent[i] = [of |-> s, kind |-> r[i]]
    BY <1>2, AnsweredLine DEF AnswerTo
  <2>2. \A i \in 1 .. Len(r) : sent[i].kind = r[i]
    <3>1. \A v : [of |-> s, kind |-> v].kind = v
      OBVIOUS
    <3> QED BY <2>1, <3>1
  <2>3. Len(r) \in Nat /\ WholeAnswer(r)
    BY StreamAssumption
  <2>4. ASSUME Len(r) > 0
        PROVE  /\ sent[1].kind \in {"head", "fail", "bad"} /\ Plain(sent, 2)
               /\ sent[1].kind = "fail" =>
                    \A i \in 1 .. Batch : i <= Len(sent) => sent[i].kind \notin {"[DONE]", "end"}
               /\ sent[1].kind = "head" => \E g : Counts(g, sent) /\ g[0] = 0
    <3>1. 1 \in 1 .. Len(r) /\ \A i \in 2 .. Len(r) : i \in 1 .. Len(r)
      BY <2>3, <2>4
    <3>2. sent[1].kind = r[1] /\ r[1] \in {"head", "fail", "bad"}
      BY <2>2, <2>3, <2>4, <3>1 DEF WholeAnswer
    <3>3. Plain(sent, 2)
      BY <2>1, <2>2, <2>3, <2>4, <3>1 DEF WholeAnswer, Plain
    <3>4. \A i \in 1 .. Batch : i <= Len(r) => i \in 1 .. Len(r)
      BY <2>3, StreamAssumption
    <3>5. r[1] = "fail" => \A i \in 1 .. Batch : i <= Len(sent) => sent[i].kind \notin {"[DONE]", "end"}
      BY <2>1, <2>2, <2>3, <2>4, <3>4 DEF WholeAnswer
    <3>6. ASSUME r[1] = "head" PROVE \E g : Counts(g, sent) /\ g[0] = 0
      <4>1. PICK g \in [0 .. Len(r) -> 0 .. Len(r)] :
              /\ g[0] = 0
              /\ \A i \in 1 .. Len(r) : /\ g[i] = g[i - 1] + (IF r[i] = "token" THEN 1 ELSE 0)
                                        /\ r[i] \in {"[DONE]", "end"} => g[i - 1] = 2
        BY <2>3, <2>4, <3>6 DEF WholeAnswer
      <4>2. g \in [0 .. Len(sent) -> Nat]
        BY <2>1, <2>3
      <4>3. Counts(g, sent)
        BY <2>1, <2>2, <4>1, <4>2 DEF Counts, Step
      <4> QED BY <4>1, <4>3
    <3> QED BY <3>2, <3>3, <3>5, <3>6
  <2> QED BY <2>1, <2>4 DEF Opening
<1> QED BY <1>1, <1>2

LEMMA FaithfulStep ==
  ASSUME \A r \in Responses : WholeAnswer(r), Inv, Faithful, [Next]_vars
  PROVE  Faithful'
<1>0. /\ NoSession \notin Sessions /\ Conns = Sessions /\ NoConn = NoSession
      /\ net \in [Conns -> Nets] /\ pending \in [Conns -> Seq(Items)] /\ ses \in [Sessions -> Fields]
      /\ client \in [Sessions -> Conns \union {NoConn}] /\ bound \in [Conns -> Sessions \union {NoSession}]
      /\ \A s \in Sessions, c \in Conns : client[s] = c <=> bound[c] = s
      /\ \A s \in Sessions : Sound(ses[s])
  BY StreamAssumption DEF Conns, NoConn, Inv, Typed, Links
<1>1. Opening(<<>>)
  BY DEF Opening
\* Only the connection c and the session s are touched.
<1>2. ASSUME NEW s \in Sessions, NEW c \in Conns, bound[c] \in {s, NoSession},
             \A t \in Sessions : t # s => ses'[t] = ses[t] /\ client'[t] = client[t],
             \A d \in Conns : d # c => net'[d] = net[d] /\ pending'[d] = pending[d],
             Honest(ses'[s], Unread(s)'),
             Waiting(s)' /\ ~ses'[s].finished => ses'[s].http = "start" /\ ses'[s].tokens = 0
      PROVE  Faithful'
  <2>1. ASSUME NEW t \in Sessions, t # s
        PROVE  /\ Honest(ses'[t], Unread(t)')
               /\ Waiting(t)' /\ ~ses'[t].finished => ses'[t].http = "start" /\ ses'[t].tokens = 0
    <3>1. ses'[t] = ses[t] /\ client'[t] = client[t]
      BY <1>2, <2>1
    <3>2. Has(t) => client[t] \in Conns /\ client[t] # c
      BY <1>0, <1>2, <2>1 DEF Has
    <3>3. Unread(t)' = Unread(t) /\ (Waiting(t)' <=> Waiting(t))
      BY <1>2, <3>1, <3>2 DEF Unread, Has, Waiting
    <3> QED BY <3>1, <3>3 DEF Faithful
  <2> QED BY <1>2, <2>1 DEF Faithful
<1>3. ASSUME NEW s \in Sessions, ~ses[s].started, ~Has(s)
      PROVE  LET x == Arm(ses[s]) IN
             /\ Complete(x) /\ ~x.finished /\ x.http = "start" /\ x.tokens = 0
  <2>1. ses[s].http = "start" /\ ses[s].tokens = 0 /\ ~ses[s].finished
    BY <1>0, <1>3 DEF Faithful, Waiting, Sound, Shaped
  <2> QED BY <1>0, <2>1 DEF Arm, Complete, Sound, Shaped, Fields
<1>4. ASSUME NEW s \in Sessions, StartPooled(s) PROVE Faithful'
  <2>1. PICK i \in Live :
          /\ client' = [client EXCEPT ![s] = pool[i]]
          /\ \E sent \in Answered(s, pool[i]) : pending' = [pending EXCEPT ![pool[i]] = sent]
    BY <1>4 DEF StartPooled
  <2> DEFINE c == pool[i]
  <2>2. c \in Conns /\ net[c] = "up" /\ bound[c] = NoSession /\ pending[c] = <<>>
    BY DEF Live, Inv, Typed, Links, PoolFree, Line
  <2> HIDE DEF c
  <2>3. PICK sent \in Answered(s, c) : pending' = [pending EXCEPT ![c] = sent]
    BY <2>1 DEF c
  <2>4. Opening(sent)
    BY <2>2, AnsweredHonest
  <2>5. ~ses[s].started /\ ~Has(s)
    BY <1>4 DEF StartPooled, Inv, Links, Has
  <2>6. /\ \A t \in Sessions : t # s => ses'[t] = ses[t] /\ client'[t] = client[t]
        /\ \A d \in Conns : d # c => net'[d] = net[d] /\ pending'[d] = pending[d]
        /\ ses'[s] = Arm(ses[s]) /\ client'[s] = c /\ pending'[c] = sent /\ net'[c] = "up"
    BY <1>0, <1>4, <2>1, <2>2, <2>3 DEF StartPooled, c
  <2>7. Unread(s)' = sent /\ ~Waiting(s)'
    BY <1>0, <2>2, <2>6 DEF Unread, Waiting, Has
  <2>8. Honest(ses'[s], Unread(s)')
    BY <1>3, <2>4, <2>5, <2>6, <2>7 DEF Honest
  <2> QED BY <1>2, <2>2, <2>6, <2>7, <2>8
<1>5. ASSUME NEW s \in Sessions, StartFresh(s) PROVE Faithful'
  <2>1. ~ses[s].started /\ ~Has(s) /\ ses'[s] = Arm(ses[s]) /\ net[s] = "none" /\ bound[s] = NoSession
    BY <1>0, <1>5 DEF StartFresh, Inv, Links, Line, Has
  <2>2. UNCHANGED <<client, net, pending>> /\ \A t \in Sessions : t # s => ses'[t] = ses[t]
    BY <1>0, <1>5 DEF StartFresh
  <2>3. Unread(s)' = <<>>
    BY <2>1, <2>2 DEF Unread, Has
  <2>4. Honest(ses'[s], Unread(s)') /\ ses'[s].http = "start" /\ ses'[s].tokens = 0
    BY <1>1, <1>3, <2>1, <2>3 DEF Honest
  <2> QED BY <1>0, <1>2, <2>1, <2>2, <2>4
<1>6. ASSUME NEW s \in Sessions, Resolved(s) PROVE Faithful'
  <2>1. ~Has(s) /\ net[s] = "none" /\ bound[s] = NoSession /\ pending[s] = <<>>
    BY <1>0, <1>6 DEF Resolved, Inv, Links, Line, Has
  <2>2. /\ \A t \in Sessions : t # s => ses'[t] = ses[t] /\ client'[t] = client[t]
        /\ \A d \in Conns : d # s => net'[d] = net[d] /\ pending'[d] = pending[d]
        /\ ses' = ses /\ client'[s] = s /\ pending' = pending
    BY <1>0, <1>6 DEF Resolved
  <2>3. Unread(s)' = <<>> /\ Has(s)'
    BY <1>0, <2>1, <2>2 DEF Unread, Has
  <2>4. Complete(ses[s]) /\ (~ses[s].finished => ses[s].http = "start" /\ ses[s].tokens = 0)
    BY <2>1 DEF Faithful, Honest, Waiting
  <2>5. Honest(ses'[s], Unread(s)')
    BY <1>1, <2>2, <2>3, <2>4 DEF Honest
  <2> QED BY <1>0, <1>2, <2>1, <2>2, <2>4, <2>5
<1>7. ASSUME NEW s \in Sessions, Unresolved(s) PROVE Faithful'
  <2> DEFINE x == Finish(ses[s], "error", "dns", FALSE)
  <2>1. ses[s].started
    BY <1>7 DEF Unresolved, Inv, Links
  <2>2. Sound(x) /\ Told(ses[s], x) /\ (~ses[s].finished => x.done = "error")
    BY <1>0, <2>1, Failures
  <2>3. Settle(s, x, net, pending)
    BY <1>7 DEF Unresolved
  <2> HIDE DEF x
  <2> QED BY <1>0, <2>2, <2>3, SettleEnds
<1>8. ASSUME NEW s \in Sessions, IdleTimeout(s) PROVE Faithful'
  <2> DEFINE quiet == [ses[s] EXCEPT !.idle = FALSE]
             x == Finish(quiet, "error", "timeout", Has(s))
  <2>1. ses[s].started /\ Sound(ses[s])
    BY <1>0, <1>8 DEF IdleTimeout, Sound, Shaped
  <2>2. Sound(quiet) /\ quiet.started /\ Told(ses[s], quiet) /\ (quiet.finished <=> ses[s].finished)
    BY <2>1, QuietSound
  <2>3. Settle(s, x, net, pending)
    BY <1>8 DEF IdleTimeout
  <2>4. Sound(x) /\ Told(quiet, x) /\ (~quiet.finished => x.done = "error")
    <3>1. Has(s) \in BOOLEAN
      BY DEF Has
    <3> HIDE DEF quiet
    <3> QED BY <2>2, <3>1, Failures
  <2> HIDE DEF x, quiet
  <2>5. Told(ses[s], x) /\ (~ses[s].finished => x.done = "error")
    BY <2>2, <2>4 DEF Told
  <2> QED BY <1>0, <2>3, <2>4, <2>5, SettleEnds
<1>9. ASSUME NEW s \in Sessions, Fallback(s) PROVE Faithful'
  <2> DEFINE x == Dispose([ses[s] EXCEPT !.fallback = FALSE], "dropped")
  <2>1. ses[s].started /\ Sound(ses[s]) /\ ses[s].fallback /\ ses[s].finished
    BY <1>0, <1>9 DEF Fallback, Sound, Shaped
  <2>2. Sound(x) /\ Told(ses[s], x)
    BY <2>1, FallbackSound
  <2>3. Settle(s, x, net, pending)
    BY <1>9 DEF Fallback
  <2> HIDE DEF x
  <2> QED BY <1>0, <2>1, <2>2, <2>3, SettleEnds
<1>10. ASSUME NEW c \in Conns, Connected(c) PROVE Faithful'
  <2>0. PICK s \in Sessions : s = bound[c]
    BY <1>0, <1>10 DEF Connected, Inv, Links, Line
  <2>1. client[s] = c /\ pending[c] = <<>> /\ net[c] = "connecting" /\ c # NoConn
    BY <1>0, <1>10, <2>0 DEF Connected, Inv, Links, Line
  <2>2. PICK sent \in Answered(s, c) : pending' = [pending EXCEPT ![c] = sent]
    BY <1>10, <2>0 DEF Connected
  <2>3. Opening(sent)
    BY <2>1, <2>2, AnsweredHonest
  <2>4. /\ ses' = ses /\ client' = client /\ pending'[c] = sent /\ net'[c] = "up"
        /\ \A d \in Conns : d # c => net'[d] = net[d] /\ pending'[d] = pending[d]
    BY <1>0, <1>10, <2>2 DEF Connected
  <2>5. Has(s) /\ Unread(s)' = sent /\ ~Waiting(s)'
    <3>1. Has(s) /\ Has(s)' /\ client'[s] = c
      BY <2>1, <2>4 DEF Has
    <3> QED BY <2>4, <3>1 DEF Unread, Waiting
  <2>6. Complete(ses[s]) /\ (~ses[s].finished => ses[s].http = "start" /\ ses[s].tokens = 0)
    BY <2>1 DEF Faithful, Honest, Waiting
  <2>7. Honest(ses'[s], Unread(s)')
    BY <2>3, <2>4, <2>5, <2>6 DEF Honest
  <2> QED BY <1>2, <2>0, <2>4, <2>5, <2>7
<1>11. ASSUME NEW c \in Conns, Refused(c) PROVE Faithful'
  <2>0. PICK s \in Sessions : s = bound[c]
    BY <1>0, <1>11 DEF Refused, Inv, Links, Line
  <2> DEFINE x == Finish(ses[s], "error", "refused", Has(s))
             netNow == [net EXCEPT ![c] = "closed"]
  <2>1. client[s] = c /\ ses[s].started /\ Sound(ses[s])
    BY <1>0, <2>0 DEF Inv, Links
  <2>2. Sound(x) /\ Told(ses[s], x) /\ (~ses[s].finished => x.done = "error")
    <3>1. Has(s) \in BOOLEAN
      BY DEF Has
    <3> QED BY <2>1, <3>1, Failures
  <2>3. Settle(s, x, netNow, pending)
    BY <1>11, <2>0 DEF Refused
  <2>4. netNow \in [Conns -> Nets] /\ \A d \in Conns : d # c => netNow[d] = net[d]
    BY <1>0 DEF Nets
  <2>5. pending \in [Conns -> Seq(Items)] /\ \A d \in Conns : d # client[s] => netNow[d] = net[d] /\ pending[d] = pending[d]
    BY <1>0, <2>1, <2>4
  <2> HIDE DEF x, netNow
  <2> QED BY <2>2, <2>3, <2>4, <2>5, SettleEnds
<1>12. ASSUME NEW c \in Conns, Message(c) PROVE Faithful'
  <2>0. PICK s \in Sessions : s = bound[c]
    BY <1>0, <1>12 DEF Message
  <2> DEFINE x == ses[s]
             q == pending[c]
             Y(n) == IF x.fate # "kept" THEN x ELSE AfterFeed(Feed(s, Arm(x), SubSeq(q, 1, n)))
             rest(n) == [pending EXCEPT ![c] = SubSeq(q, n + 1, Len(q))]
  <2>1. /\ client[s] = c /\ net[c] = "up" /\ bound[c] # NoSession
        /\ q \in Seq(Items) /\ Len(q) \in Nat /\ Sound(x) /\ x.started
    BY <1>0, <1>12, <2>0 DEF Message, Inv, Links
  <2>2. PICK n \in 1 .. Batch : n <= Len(q) /\ Settle(s, Y(n), net, rest(n))
    BY <1>12, <2>0 DEF Message
  <2>3. n \in 1 .. Len(q) /\ n <= Batch
    BY <2>1, <2>2, StreamAssumption
  <2>4. Sound(Y(n)) /\ Told(x, Y(n))
    BY <2>0, <2>1, <2>3, MessageSound
  <2>5. rest(n)[c] = SubSeq(q, n + 1, Len(q)) /\ SubSeq(q, n + 1, Len(q)) \in Seq(Items)
    BY <1>0, <2>1, <2>3
  <2>6. rest(n) \in [Conns -> Seq(Items)] /\ \A d \in Conns : d # c => rest(n)[d] = pending[d]
    BY <1>0, <2>5
  <2>7. ~x.finished => Honest(Y(n), rest(n)[c])
    <3> SUFFICES ASSUME ~x.finished PROVE Honest(Y(n), rest(n)[c])
      OBVIOUS
    <3>1. Honest(x, q)
      <4>1. Unread(s) = q
        BY <1>0, <2>1 DEF Unread, Has
      <4>2. Honest(ses[s], Unread(s))
        BY DEF Faithful
      <4> QED BY <4>1, <4>2
    <3>2. Y(n) = AfterFeed(Feed(s, Arm(x), SubSeq(q, 1, n)))
      BY <2>1 DEF Sound, Shaped
    <3> HIDE DEF x, q, Y, rest
    <3>3. Honest(AfterFeed(Feed(s, Arm(x), SubSeq(q, 1, n))), SubSeq(q, n + 1, Len(q)))
      BY <2>1, <2>3, <3>1, MessageHonest
    <3> QED BY <2>5, <3>2, <3>3
  <2>8. Has(s)
    BY <1>0, <2>1 DEF Has
  <2>9. ~ses[s].finished => \/ Y(n).finished /\ Complete(Y(n))
                            \/ Has(s) /\ net[client[s]] = "up" /\ Honest(Y(n), rest(n)[client[s]])
    <3> HIDE DEF Y, rest
    <3> QED BY <2>1, <2>7, <2>8
  <2>10. \A d \in Conns : d # client[s] => net[d] = net[d] /\ rest(n)[d] = pending[d]
    BY <2>1, <2>6
  <2>11. Told(ses[s], Y(n)) /\ Sound(Y(n)) /\ Settle(s, Y(n), net, rest(n))
    BY <2>2, <2>4
  <2>12. net \in [Conns -> Nets] /\ rest(n) \in [Conns -> Seq(Items)]
    BY <1>0, <2>6
  <2> HIDE DEF Y, rest, x, q
  <2> QED BY <2>9, <2>10, <2>11, <2>12, SettleHonest
<1>13. ASSUME NEW c \in Conns, Disconnected(c) PROVE Faithful'
  <2> DEFINE down == [net EXCEPT ![c] = "closed"]
             lost == [pending EXCEPT ![c] = <<>>]
  <2>1. /\ down \in [Conns -> Nets] /\ lost \in [Conns -> Seq(Items)]
        /\ \A d \in Conns : d # c => down[d] = net[d] /\ lost[d] = pending[d]
        /\ bound[c] \in Sessions \union {NoSession}
    BY <1>0 DEF Nets
  <2>2. CASE bound[c] = NoSession
    <3>1. net' = down /\ pending' = lost /\ UNCHANGED <<ses, client>>
      BY <1>13, <2>2 DEF Disconnected
    <3>2. ASSUME NEW t \in Sessions
          PROVE  /\ Honest(ses'[t], Unread(t)')
                 /\ Waiting(t)' /\ ~ses'[t].finished => ses'[t].http = "start" /\ ses'[t].tokens = 0
      <4>1. Has(t) => client[t] \in Conns /\ client[t] # c
        BY <1>0, <2>2 DEF Has
      <4> HIDE DEF down, lost
      <4>2. Unread(t)' = Unread(t) /\ (Waiting(t)' <=> Waiting(t))
        BY <2>1, <3>1, <4>1 DEF Unread, Has, Waiting
      <4> QED BY <3>1, <4>2 DEF Faithful
    <3> QED BY <3>2 DEF Faithful
  <2>3. CASE bound[c] \in Sessions
    <3>0. PICK s \in Sessions : s = bound[c]
      BY <2>3
    <3> DEFINE x == AfterClose(ses[s])
    <3>1. client[s] = c /\ ses[s].started /\ Sound(ses[s])
      BY <1>0, <3>0 DEF Inv, Links
    <3>2. Sound(x) /\ Told(ses[s], x) /\ (~ses[s].finished => x.done = "error")
      BY <3>1, AfterCloseSound
    <3>3. Settle(s, x, down, lost)
      BY <1>0, <1>13, <3>0 DEF Disconnected
    <3> HIDE DEF x, down, lost
    <3>4. \A d \in Conns : d # client[s] => down[d] = net[d] /\ lost[d] = pending[d]
      BY <2>1, <3>1
    <3> QED BY <2>1, <3>2, <3>3, <3>4, SettleEnds
  <2> QED BY <2>1, <2>2, <2>3
<1>14. ASSUME UNCHANGED <<ses, client, net, pending>> PROVE Faithful'
  BY <1>14 DEF Faithful, Unread, Waiting, Has
<1> QED BY <1>4, <1>5, <1>6, <1>7, <1>8, <1>9, <1>10, <1>11, <1>12, <1>13, <1>14
        DEF Next, vars, ServerClose, Cancel

\* If the server's answers are whole ones, a session reports success only when
\* every token of its answer reached on_token or its client went away: whatever
\* the receives it comes in, and whichever connection closes, stalls or breaks
\* (llm_stream.cpp:174-199, 225-253).
THEOREM SuccessIsWhole ==
  ASSUME \A r \in Responses : WholeAnswer(r)
  PROVE  Spec => []NoTruncatedSuccess
<1>1. Init => Faithful
  <2> SUFFICES ASSUME Init PROVE Faithful
    OBVIOUS
  <2>1. Complete(Fresh) /\ Fresh.http = "start" /\ Fresh.tokens = 0 /\ Opening(<<>>)
    BY DEF Complete, Fresh, Opening
  <2>2. \A s \in Sessions : ses[s] = Fresh /\ Unread(s) = <<>>
    BY DEF Init, Unread, Has
  <2> QED BY <2>1, <2>2 DEF Faithful, Honest
<1>2. Faithful => NoTruncatedSuccess
  BY DEF Faithful, Honest, Complete, NoTruncatedSuccess
<1> QED BY <1>1, <1>2, InvInit, InvStep, FaithfulStep, PTL DEF Spec


-----------------------------------------------------------------------------
\* The parser of a streamed response.

Bytes == Seq(Symbols)

-----------------------------------------------------------------------------
\* Parts of sequences, and of two put together.

LEMMA PartOf ==
  ASSUME NEW S, NEW w \in Seq(S), NEW m \in 1..Len(w) + 1, NEW n \in m - 1..Len(w)
  PROVE  /\ SubSeq(w, m, n) \in Seq(S) /\ Len(SubSeq(w, m, n)) = n - m + 1
         /\ \A i \in 1..n - m + 1 : SubSeq(w, m, n)[i] = w[m + i - 1]
<1>1. m \in Int /\ n \in Int /\ \A i \in m..n : w[i] \in S
  OBVIOUS
<1>2. /\ SubSeq(w, m, n) \in Seq(S) /\ Len(SubSeq(w, m, n)) = (IF m <= n THEN n - m + 1 ELSE 0)
      /\ \A i \in 1..n - m + 1 : SubSeq(w, m, n)[i] = w[m + i - 1]
  BY <1>1, SubSeqProperties
<1>3. Len(w) \in Nat /\ (~(m <= n) => n - m + 1 = 0)
  OBVIOUS
<1> QED BY <1>2, <1>3

LEMMA StartOfTwo ==
  ASSUME NEW S, NEW a \in Seq(S), NEW b \in Seq(S), NEW n \in 0..Len(a)
  PROVE  SubSeq(a \o b, 1, n) = SubSeq(a, 1, n) /\ Rest(a \o b, n) = Rest(a, n) \o b
<1> DEFINE k == Len(a)
           m == Len(b)
           w == a \o b
<1>1. /\ k \in Nat /\ m \in Nat /\ w \in Seq(S) /\ Len(w) = k + m
      /\ \A i \in 1..k + m : w[i] = IF i <= k THEN a[i] ELSE b[i - k]
  BY ConcatProperties, LenProperties
<1> HIDE DEF w
<1>2. SubSeq(w, 1, n) = SubSeq(a, 1, n)
  <2>1. /\ SubSeq(w, 1, n) \in Seq(S) /\ Len(SubSeq(w, 1, n)) = n - 1 + 1
        /\ \A i \in 1..n - 1 + 1 : SubSeq(w, 1, n)[i] = w[1 + i - 1]
    BY <1>1, PartOf
  <2>2. /\ SubSeq(a, 1, n) \in Seq(S) /\ Len(SubSeq(a, 1, n)) = n - 1 + 1
        /\ \A i \in 1..n - 1 + 1 : SubSeq(a, 1, n)[i] = a[1 + i - 1]
    BY <1>1, PartOf
  <2>3. \A i \in 1..n - 1 + 1 : w[1 + i - 1] = a[1 + i - 1]
    BY <1>1
  <2> QED BY <2>1, <2>2, <2>3, SeqEqual
<1>3. Rest(w, n) = Rest(a, n) \o b
  <2> DEFINE s == SubSeq(w, n + 1, Len(w))
             t == SubSeq(a, n + 1, k)
  <2>1. /\ s \in Seq(S) /\ Len(s) = k + m - n /\ \A i \in 1..k + m - n : s[i] = w[n + i]
    <3>1. /\ s \in Seq(S) /\ Len(s) = Len(w) - (n + 1) + 1
          /\ \A i \in 1..Len(w) - (n + 1) + 1 : s[i] = w[(n + 1) + i - 1]
      <4>1. n + 1 \in 1..Len(w) + 1 /\ Len(w) \in (n + 1) - 1..Len(w)
        BY <1>1
      <4> QED BY <1>1, <4>1, PartOf
    <3>2. Len(w) - (n + 1) + 1 = k + m - n /\ \A i \in 1..k + m - n : (n + 1) + i - 1 = n + i
      BY <1>1
    <3> QED BY <3>1, <3>2
  <2>2. /\ t \in Seq(S) /\ Len(t) = k - n /\ \A i \in 1..k - n : t[i] = a[n + i]
    <3>1. /\ t \in Seq(S) /\ Len(t) = k - (n + 1) + 1
          /\ \A i \in 1..k - (n + 1) + 1 : t[i] = a[(n + 1) + i - 1]
      <4>1. n + 1 \in 1..Len(a) + 1 /\ k \in (n + 1) - 1..Len(a)
        BY <1>1
      <4> QED BY <1>1, <4>1, PartOf
    <3>2. k - (n + 1) + 1 = k - n /\ \A i \in 1..k - n : (n + 1) + i - 1 = n + i
      BY <1>1
    <3> QED BY <3>1, <3>2
  <2> HIDE DEF s, t
  <2>3. /\ t \o b \in Seq(S) /\ Len(t \o b) = k - n + m
        /\ \A i \in 1..k - n + m : (t \o b)[i] = IF i <= k - n THEN t[i] ELSE b[i - (k - n)]
    <3>1. /\ t \o b \in Seq(S) /\ Len(t \o b) = Len(t) + Len(b)
          /\ \A i \in 1..Len(t) + Len(b) : (t \o b)[i] = IF i <= Len(t) THEN t[i] ELSE b[i - Len(t)]
      BY <2>2, ConcatProperties
    <3>2. Len(t) = k - n
      BY <2>2
    <3> HIDE DEF k
    <3> QED BY <3>1, <3>2
  <2> HIDE DEF k, m
  <2>4. \A i \in 1..k + m - n : s[i] = (t \o b)[i]
    <3> TAKE i \in 1..k + m - n
    <3>1. n + i \in 1..k + m /\ i \in 1..k - n + m
      BY <1>1 DEF k
    <3>2. CASE i <= k - n
      <4>1. n + i <= k /\ i \in 1..k - n
        BY <1>1, <3>2 DEF k
      <4> QED BY <1>1, <2>1, <2>2, <2>3, <3>1, <3>2, <4>1
    <3>3. CASE ~(i <= k - n)
      <4>1. ~(n + i <= k) /\ (n + i) - k = i - (k - n)
        BY <1>1, <3>3 DEF k
      <4>2. s[i] = w[n + i]
        BY <2>1
      <4>3. w[n + i] = b[(n + i) - k]
        <5> DEFINE j == n + i
        <5>1. j \in 1..k + m /\ ~(j <= k)
          BY <3>1, <4>1
        <5> HIDE DEF j
        <5>2. w[j] = b[j - k]
          BY <1>1, <5>1
        <5> QED BY <5>2 DEF j
      <4>4. (t \o b)[i] = b[i - (k - n)]
        BY <2>3, <3>1, <3>3
      <4> QED BY <4>1, <4>2, <4>3, <4>4
    <3> QED BY <3>2, <3>3
  <2>5. k - n + m = k + m - n
    BY <1>1 DEF k
  <2>6. s = t \o b
    BY <2>1, <2>3, <2>4, <2>5, SeqEqual
  <2> QED BY <2>6 DEF Rest, s, t, k
<1> QED BY <1>2, <1>3 DEF w

LEMMA EndOfTwo ==
  ASSUME NEW S, NEW a \in Seq(S), NEW b \in Seq(S), NEW n \in 0..Len(b)
  PROVE  SubSeq(a \o b, 1, Len(a) + n) = a \o SubSeq(b, 1, n) /\ Rest(a \o b, Len(a) + n) = Rest(b, n)
<1> DEFINE k == Len(a)
           m == Len(b)
           w == a \o b
<1>1. /\ k \in Nat /\ m \in Nat /\ w \in Seq(S) /\ Len(w) = k + m
      /\ \A i \in 1..k + m : w[i] = IF i <= k THEN a[i] ELSE b[i - k]
  BY ConcatProperties, LenProperties
<1> HIDE DEF w
<1>2. SubSeq(w, 1, k + n) = a \o SubSeq(b, 1, n)
  <2> DEFINE s == SubSeq(w, 1, k + n)
             t == SubSeq(b, 1, n)
  <2>1. s \in Seq(S) /\ Len(s) = k + n /\ \A i \in 1..k + n : s[i] = w[i]
    <3>1. s \in Seq(S) /\ Len(s) = (k + n) - 1 + 1 /\ \A i \in 1..(k + n) - 1 + 1 : s[i] = w[1 + i - 1]
      <4>1. 1 \in 1..Len(w) + 1 /\ k + n \in 1 - 1..Len(w)
        BY <1>1
      <4> QED BY <1>1, <4>1, PartOf
    <3>2. (k + n) - 1 + 1 = k + n /\ \A i \in 1..k + n : 1 + i - 1 = i
      BY <1>1
    <3> QED BY <3>1, <3>2
  <2>2. t \in Seq(S) /\ Len(t) = n /\ \A i \in 1..n : t[i] = b[i]
    <3>1. t \in Seq(S) /\ Len(t) = n - 1 + 1 /\ \A i \in 1..n - 1 + 1 : t[i] = b[1 + i - 1]
      BY <1>1, PartOf
    <3>2. n - 1 + 1 = n /\ \A i \in 1..n : 1 + i - 1 = i
      BY <1>1
    <3> QED BY <3>1, <3>2
  <2> HIDE DEF s, t
  <2>3. /\ a \o t \in Seq(S) /\ Len(a \o t) = k + n
        /\ \A i \in 1..k + n : (a \o t)[i] = IF i <= k THEN a[i] ELSE t[i - k]
    BY <2>2, ConcatProperties
  <2>4. \A i \in 1..k + n : s[i] = (a \o t)[i]
    <3> TAKE i \in 1..k + n
    <3>1. i \in 1..k + m /\ (~(i <= k) => i - k \in 1..n)
      BY <1>1
    <3> QED BY <1>1, <2>1, <2>2, <2>3, <3>1
  <2>5. s = a \o t
    BY <2>1, <2>3, <2>4, SeqEqual
  <2> QED BY <2>5 DEF s, t
<1>3. Rest(w, k + n) = Rest(b, n)
  <2> DEFINE s == SubSeq(w, k + n + 1, Len(w))
             t == SubSeq(b, n + 1, m)
  <2>1. s \in Seq(S) /\ Len(s) = m - n /\ \A i \in 1..m - n : s[i] = w[k + n + i]
    <3>1. /\ s \in Seq(S) /\ Len(s) = Len(w) - (k + n + 1) + 1
          /\ \A i \in 1..Len(w) - (k + n + 1) + 1 : s[i] = w[(k + n + 1) + i - 1]
      <4>1. k + n + 1 \in 1..Len(w) + 1 /\ Len(w) \in (k + n + 1) - 1..Len(w)
        BY <1>1
      <4> QED BY <1>1, <4>1, PartOf
    <3>2. Len(w) - (k + n + 1) + 1 = m - n /\ \A i \in 1..m - n : (k + n + 1) + i - 1 = k + n + i
      BY <1>1
    <3> QED BY <3>1, <3>2
  <2>2. t \in Seq(S) /\ Len(t) = m - n /\ \A i \in 1..m - n : t[i] = b[n + i]
    <3>1. t \in Seq(S) /\ Len(t) = m - (n + 1) + 1 /\ \A i \in 1..m - (n + 1) + 1 : t[i] = b[(n + 1) + i - 1]
      <4>1. n + 1 \in 1..Len(b) + 1 /\ m \in (n + 1) - 1..Len(b)
        BY <1>1
      <4> QED BY <1>1, <4>1, PartOf
    <3>2. m - (n + 1) + 1 = m - n /\ \A i \in 1..m - n : (n + 1) + i - 1 = n + i
      BY <1>1
    <3> QED BY <3>1, <3>2
  <2> HIDE DEF s, t
  <2>3. \A i \in 1..m - n : s[i] = t[i]
    <3> TAKE i \in 1..m - n
    <3>1. k + n + i \in 1..k + m /\ ~(k + n + i <= k) /\ k + n + i - k = n + i
      BY <1>1
    <3>2. s[i] = w[k + n + i] /\ t[i] = b[n + i]
      BY <2>1, <2>2
    <3>3. w[k + n + i] = b[k + n + i - k]
      BY <1>1, <3>1
    <3> QED BY <3>1, <3>2, <3>3
  <2>4. s = t
    BY <2>1, <2>2, <2>3, SeqEqual
  <2> QED BY <2>4 DEF Rest, s, t
<1> QED BY <1>2, <1>3 DEF w
-----------------------------------------------------------------------------
\* The first LF, of one sequence and of two put together.

LEMMA FirstLFIs ==
  ASSUME NEW x \in Bytes, NEW i \in 1..Len(x), x[i] = LF, \A j \in 1..i - 1 : x[j] # LF
  PROVE  FirstLF(x) = i
<1>1. DOMAIN x = 1..Len(x) /\ Len(x) \in Nat
  BY DEF Bytes
<1> DEFINE f == FirstLF(x)
<1>2. f \in 1..Len(x) /\ x[f] = LF /\ \A j \in 1..f - 1 : x[j] # LF
  BY <1>1 DEF FirstLF
<1> HIDE DEF f
<1>3. ~(f < i)
  <2>1. f < i => f \in 1..i - 1
    BY <1>1, <1>2
  <2> QED BY <1>2, <2>1
<1>4. ~(i < f)
  <2>1. i < f => i \in 1..f - 1
    BY <1>1, <1>2
  <2> QED BY <1>2, <2>1
<1> QED BY <1>1, <1>2, <1>3, <1>4 DEF f

LEMMA FirstLFThere ==
  ASSUME NEW x \in Bytes, Contains(x, LF)
  PROVE  FirstLF(x) \in 1..Len(x) /\ x[FirstLF(x)] = LF /\ \A j \in 1..FirstLF(x) - 1 : x[j] # LF
<1> DEFINE n == Len(x)
           S == {k \in 0..n : \A j \in 1..k : x[j] # LF}
<1>1. n \in Nat
  BY DEF Bytes
<1>2. PICK l \in 1..n : x[l] = LF
  BY DEF Contains
<1> HIDE DEF n
<1>3. 0 \in S /\ n \notin S
  BY <1>1, <1>2
<1>4. \E k \in S : k < n /\ k + 1 \notin S
  <2> HIDE DEF S
  <2>1. S \in SUBSET (0..n)
    BY DEF S
  <2> QED BY <1>1, <1>3, <2>1, CountUp
<1>5. PICK k \in S : k < n /\ k + 1 \notin S
  BY <1>4
<1>6. k + 1 \in 1..n /\ (k + 1) - 1 = k /\ k \in Nat
  BY <1>1, <1>5
<1>7. \A j \in 1..k + 1 : j \in 1..k \/ j = k + 1
  BY <1>6
<1>8. x[k + 1] = LF
  BY <1>1, <1>5, <1>6, <1>7
<1>9. FirstLF(x) = k + 1
  BY <1>5, <1>6, <1>8, FirstLFIs DEF n
<1> QED BY <1>5, <1>6, <1>8, <1>9 DEF n

LEMMA FirstLFOfTwo ==
  ASSUME NEW a \in Bytes, NEW b \in Bytes
  PROVE  /\ Contains(a, LF) => Contains(a \o b, LF) /\ FirstLF(a \o b) = FirstLF(a)
         /\ ~Contains(a, LF) => /\ Contains(a \o b, LF) <=> Contains(b, LF)
                                /\ Contains(b, LF) => FirstLF(a \o b) = Len(a) + FirstLF(b)
<1> DEFINE k == Len(a)
           m == Len(b)
           w == a \o b
<1>1. /\ k \in Nat /\ m \in Nat /\ w \in Bytes /\ Len(w) = k + m
      /\ \A i \in 1..k + m : w[i] = IF i <= k THEN a[i] ELSE b[i - k]
  BY ConcatProperties, LenProperties DEF Bytes
<1> HIDE DEF w
<1>2. ASSUME Contains(a, LF) PROVE Contains(w, LF) /\ FirstLF(w) = FirstLF(a)
  <2> DEFINE f == FirstLF(a)
  <2>1. f \in 1..k /\ a[f] = LF /\ \A j \in 1..f - 1 : a[j] # LF
    BY <1>2, FirstLFThere
  <2> HIDE DEF f
  <2>2. f \in 1..k + m /\ f <= k /\ \A j \in 1..f - 1 : j \in 1..k + m /\ j <= k
    BY <1>1, <2>1
  <2>3. w[f] = LF /\ \A j \in 1..f - 1 : w[j] # LF
    BY <1>1, <2>1, <2>2
  <2>4. FirstLF(w) = f
    BY <1>1, <2>2, <2>3, FirstLFIs
  <2> QED BY <1>1, <2>2, <2>3, <2>4 DEF Contains, f
<1>3. ASSUME ~Contains(a, LF) PROVE \A j \in 1..k : a[j] # LF
  BY <1>3 DEF Contains
<1>4. ASSUME ~Contains(a, LF), Contains(b, LF) PROVE Contains(w, LF) /\ FirstLF(w) = k + FirstLF(b)
  <2> DEFINE f == FirstLF(b)
  <2>1. f \in 1..m /\ b[f] = LF /\ \A j \in 1..f - 1 : b[j] # LF
    BY <1>4, FirstLFThere
  <2> HIDE DEF f
  <2>2. k + f \in 1..k + m /\ ~(k + f <= k) /\ (k + f) - k = f
    BY <1>1, <2>1
  <2>3. w[k + f] = LF
    <3>1. w[k + f] = b[(k + f) - k]
      BY <1>1, <2>2
    <3> QED BY <2>1, <2>2, <3>1
  <2>4. ASSUME NEW j \in 1..(k + f) - 1 PROVE w[j] # LF
    <3>1. j \in 1..k + m
      BY <1>1, <2>1
    <3>2. CASE j <= k
      <4>1. j \in 1..k
        BY <1>1, <3>2
      <4> QED BY <1>1, <1>3, <1>4, <3>1, <3>2, <4>1
    <3>3. CASE ~(j <= k)
      <4>1. j - k \in 1..f - 1
        BY <1>1, <2>1, <3>3
      <4>2. w[j] = b[j - k]
        BY <1>1, <3>1, <3>3
      <4> QED BY <2>1, <4>1, <4>2
    <3> QED BY <3>2, <3>3
  <2>5. FirstLF(w) = k + f
    BY <1>1, <2>2, <2>3, <2>4, FirstLFIs
  <2> QED BY <1>1, <2>2, <2>3, <2>5 DEF Contains, f
<1>5. ASSUME ~Contains(a, LF), Contains(w, LF) PROVE Contains(b, LF)
  <2>1. PICK j \in 1..k + m : w[j] = LF
    BY <1>1, <1>5 DEF Contains
  <2>2. ~(j <= k)
    <3>1. j <= k => j \in 1..k
      BY <1>1
    <3> QED BY <1>1, <1>3, <1>5, <2>1, <3>1
  <2>3. j - k \in 1..m
    BY <1>1, <2>2
  <2>4. b[j - k] = LF
    BY <1>1, <2>1, <2>2
  <2> QED BY <2>3, <2>4 DEF Contains
<1> QED BY <1>2, <1>4, <1>5 DEF w

-----------------------------------------------------------------------------
\* SseLineSplitter takes two pieces as it takes the one they make.

LEMMA SseSteps ==
  ASSUME NEW s, NEW bytes \in Bytes
  PROVE  \E fed : /\ fed[0] = s /\ \A i \in 1..Len(bytes) : fed[i] = SseByte(fed[i - 1], bytes[i])
                  /\ SseFeed(s, bytes) = fed[Len(bytes)]
<1> DEFINE n == Len(bytes)
           Run(g, m) == g = [i \in 0..m |-> IF i = 0 THEN s ELSE SseByte(g[i - 1], bytes[i])]
           S == {m \in 0..n : \E g : Run(g, m)}
<1>1. n \in Nat
  BY DEF Bytes
<1> HIDE DEF n
<1>2. 0 \in S
  <2>1. Run([i \in 0..0 |-> s], 0)
    OBVIOUS
  <2> HIDE DEF Run
  <2> QED BY <1>1, <2>1
<1>3. ASSUME NEW m \in S, m < n PROVE m + 1 \in S
  <2>1. PICK g : Run(g, m)
    BY <1>3
  <2> DEFINE h == [i \in 0..m + 1 |-> IF i <= m THEN g[i] ELSE SseByte(g[m], bytes[m + 1])]
  <2>2. Run(h, m + 1)
    <3>1. \A i \in 0..m + 1 : h[i] = IF i = 0 THEN s ELSE SseByte(h[i - 1], bytes[i])
      BY <2>1, <1>1
    <3> QED BY <3>1
  <2> HIDE DEF Run, h
  <2> QED BY <1>1, <1>3, <2>2
<1>4. n \in S
  <2> HIDE DEF S
  <2>1. S \in SUBSET (0..n)
    BY DEF S
  <2> QED BY <1>1, <1>2, <1>3, <2>1, CountUp
<1>5. PICK g : Run(g, n)
  BY <1>4
<1> DEFINE fed == CHOOSE f : f = [i \in 0..n |-> IF i = 0 THEN s ELSE SseByte(f[i - 1], bytes[i])]
<1>6. Run(fed, n)
  BY <1>5
<1>7. SseFeed(s, bytes) = fed[n]
  BY DEF SseFeed, n
<1> HIDE DEF fed
<1>8. fed[0] = s /\ \A i \in 1..n : fed[i] = SseByte(fed[i - 1], bytes[i])
  BY <1>1, <1>6
<1> QED BY <1>7, <1>8 DEF n

LEMMA SseCut ==
  ASSUME NEW s, NEW a \in Bytes, NEW b \in Bytes
  PROVE  SseFeed(s, a \o b) = SseFeed(SseFeed(s, a), b) /\ SseFeed(s, <<>>) = s
<1> DEFINE k == Len(a)
           m == Len(b)
           w == a \o b
<1>1. /\ k \in Nat /\ m \in Nat /\ w \in Bytes /\ Len(w) = k + m
      /\ \A i \in 1..k + m : w[i] = IF i <= k THEN a[i] ELSE b[i - k]
  BY ConcatProperties, LenProperties DEF Bytes
<1>2. PICK fa : /\ fa[0] = s /\ \A i \in 1..k : fa[i] = SseByte(fa[i - 1], a[i])
                /\ SseFeed(s, a) = fa[k]
  BY SseSteps
<1>3. PICK fb : /\ fb[0] = fa[k] /\ \A i \in 1..m : fb[i] = SseByte(fb[i - 1], b[i])
                /\ SseFeed(fa[k], b) = fb[m]
  BY SseSteps
<1> HIDE DEF w
<1> HIDE DEF k, m
<1>4. PICK fw : /\ fw[0] = s /\ \A i \in 1..k + m : fw[i] = SseByte(fw[i - 1], w[i])
                /\ SseFeed(s, w) = fw[k + m]
  <2>1. \E f : /\ f[0] = s /\ \A i \in 1..Len(w) : f[i] = SseByte(f[i - 1], w[i])
               /\ SseFeed(s, w) = f[Len(w)]
    BY <1>1, SseSteps
  <2> QED BY <1>1, <2>1
<1>5. fw[k] = fa[k]
  <2> DEFINE S == {i \in 0..k : fw[i] = fa[i]}
  <2>1. 0 \in S
    BY <1>1, <1>2, <1>4
  <2>2. ASSUME NEW i \in S, i < k PROVE i + 1 \in S
    <3>1. i + 1 \in 1..k + m /\ i + 1 \in 1..k /\ (i + 1) - 1 = i /\ i + 1 <= k
      BY <1>1, <2>2
    <3>2. w[i + 1] = a[i + 1] /\ fw[i + 1] = SseByte(fw[i], w[i + 1]) /\ fa[i + 1] = SseByte(fa[i], a[i + 1])
      BY <1>1, <1>2, <1>4, <3>1
    <3> QED BY <3>1, <3>2
  <2> HIDE DEF S
  <2>3. S \in SUBSET (0..k)
    BY DEF S
  <2>4. k \in S
    BY <1>1, <2>1, <2>2, <2>3, CountUp
  <2> QED BY <2>4 DEF S
<1>6. fw[k + m] = fb[m]
  <2> DEFINE S == {i \in 0..m : fw[k + i] = fb[i]}
  <2>1. 0 \in S
    BY <1>1, <1>3, <1>5
  <2>2. ASSUME NEW i \in S, i < m PROVE i + 1 \in S
    <3>1. /\ k + (i + 1) \in 1..k + m /\ i + 1 \in 1..m /\ (i + 1) - 1 = i /\ ~(k + (i + 1) <= k)
          /\ (k + (i + 1)) - k = i + 1 /\ (k + (i + 1)) - 1 = k + i
      BY <1>1, <2>2
    <3>2. w[k + (i + 1)] = b[(k + (i + 1)) - k]
      BY <1>1, <3>1
    <3>3. fw[k + (i + 1)] = SseByte(fw[(k + (i + 1)) - 1], w[k + (i + 1)])
      BY <1>4, <3>1
    <3>4. fb[i + 1] = SseByte(fb[(i + 1) - 1], b[i + 1])
      BY <1>3, <3>1
    <3>5. fw[k + i] = fb[i]
      BY <2>2
    <3>6. fw[k + (i + 1)] = fb[i + 1]
      BY <3>1, <3>2, <3>3, <3>4, <3>5
    <3> QED BY <3>1, <3>6
  <2> HIDE DEF S
  <2>3. S \in SUBSET (0..m)
    BY DEF S
  <2>4. m \in S
    BY <1>1, <2>1, <2>2, <2>3, CountUp
  <2> QED BY <2>4 DEF S
<1>7. SseFeed(s, <<>>) = s
  <2>1. <<>> \in Bytes /\ Len(<<>>) = 0
    BY DEF Bytes
  <2> QED BY <2>1, SseSteps
<1> QED BY <1>2, <1>3, <1>4, <1>6, <1>7 DEF w
-----------------------------------------------------------------------------
\* HttpStreamParser: a step takes a byte or more, and a step on two pieces is the step on the first of them, or
\* takes all of the first and is the step on the second after it.

States == {"StatusLine", "Headers", "BodyLength", "BodyChunkSize", "BodyChunkData", "BodyChunkTail",
           "BodyTrailer", "Done", "Error"}
Lining == {"StatusLine", "Headers", "BodyChunkSize", "BodyChunkTail", "BodyTrailer"}
Members == [state : States, pending : Bytes, content : 0..Unlimited, chunk : 0..Unlimited, chunked : BOOLEAN,
           hasLength : BOOLEAN]
Ready(p) == /\ p.state = "BodyLength" => p.content # 0
            /\ p.state = "BodyChunkData" => p.chunk # 0
Parsers == {p \in Members : Ready(p)}
Ended(p) == p.state \in {"Done", "Error"}

LEMMA SameFields ==
  ASSUME NEW p \in Members, NEW q \in Members, p.state = q.state, p.pending = q.pending, p.content = q.content,
         p.chunk = q.chunk, p.chunked = q.chunked, p.hasLength = q.hasLength
  PROVE  p = q
BY DEF Members

LEMMA PieceLengths ==
  ASSUME NEW l \in Symbols \union {Empty}, l.kind \in {"length", "size"}
  PROVE  l.n \in 0..Unlimited
<1>1. l \notin {CR, LF, Empty}
  BY DEF CR, LF, Empty
<1>2. l \in [kind : {"length", "size"}, n : 0..Unlimited]
  BY <1>1 DEF Symbols, Pieces
<1> QED BY <1>2

LEMMA TakeLineKeeps ==
  ASSUME NEW p \in Parsers, p.state \in Lining, NEW l \in Symbols \union {Empty}
  PROVE  TakeLine(p, l) \in Parsers
<1>1. p \in Members /\ Unlimited \in 0..Unlimited /\ Unlimited # 0
  BY ParserAssumption DEF Parsers
<1>2. ASSUME NEW st \in States \ {"BodyLength", "BodyChunkData"} PROVE To(p, st) \in Parsers
  <2>1. To(p, st) \in Members /\ To(p, st).state = st
    BY <1>1 DEF To, Members
  <2> QED BY <2>1 DEF Parsers, Ready
<1>3. CASE p.state = "StatusLine"
  <2>1. TakeLine(p, l) = To(p, IF l.kind = "status" THEN "Headers" ELSE "Error")
    BY <1>3 DEF TakeLine, StatusLine
  <2> QED BY <1>2, <2>1 DEF States
<1>4. CASE p.state = "Headers"
  <2>1. TakeLine(p, l) = HeaderLine(p, l)
    BY <1>4 DEF TakeLine
  <2>2. CASE l = Empty /\ p.chunked
    <3>1. HeaderLine(p, l) = To(p, "BodyChunkSize")
      BY <2>2 DEF HeaderLine, Empty
    <3> QED BY <1>2, <2>1, <3>1 DEF States
  <2>3. CASE l = Empty /\ ~p.chunked /\ p.hasLength
    <3>1. HeaderLine(p, l) = To(p, IF p.content = 0 THEN "Done" ELSE "BodyLength")
      BY <2>3 DEF HeaderLine, Empty
    <3>2. CASE p.content = 0
      BY <1>2, <2>1, <3>1, <3>2 DEF States
    <3>3. CASE p.content # 0
      <4>1. To(p, "BodyLength") \in Members /\ To(p, "BodyLength").state = "BodyLength" /\ To(p, "BodyLength").content # 0
        BY <1>1, <3>3 DEF To, Members, States
      <4> QED BY <2>1, <3>1, <3>3, <4>1 DEF Parsers, Ready
    <3> QED BY <3>2, <3>3
  <2>4. CASE l = Empty /\ ~p.chunked /\ ~p.hasLength
    <3>1. HeaderLine(p, l) = [To(p, "BodyLength") EXCEPT !.content = Unlimited]
      BY <2>4 DEF HeaderLine, Empty
    <3> DEFINE q == [To(p, "BodyLength") EXCEPT !.content = Unlimited]
    <3>2. q \in Members /\ q.state = "BodyLength" /\ q.content # 0
      BY <1>1 DEF To, Members, States
    <3> HIDE DEF q
    <3>3. q \in Parsers
      BY <3>2 DEF Parsers, Ready
    <3> QED BY <2>1, <3>1, <3>3 DEF q
  <2>5. CASE l # Empty
    <3>2. CASE l.kind = "chunked"
      <4>1. HeaderLine(p, l) = [p EXCEPT !.chunked = TRUE]
        BY <2>5, <3>2 DEF HeaderLine
      <4> DEFINE q == [p EXCEPT !.chunked = TRUE]
      <4>2. q \in Members /\ q.state = "Headers"
        BY <1>1, <1>4 DEF Members
      <4> HIDE DEF q
      <4>3. q \in Parsers
        BY <4>2 DEF Parsers, Ready
      <4> QED BY <2>1, <4>1, <4>3 DEF q
    <3>3. CASE l.kind = "length"
      <4>1. HeaderLine(p, l) = [p EXCEPT !.hasLength = TRUE, !.content = l.n]
        BY <2>5, <3>3 DEF HeaderLine
      <4> DEFINE q == [p EXCEPT !.hasLength = TRUE, !.content = l.n]
      <4>2. q \in Members /\ q.state = "Headers"
        BY <1>1, <1>4, <3>3, PieceLengths DEF Members
      <4> HIDE DEF q
      <4>3. q \in Parsers
        BY <4>2 DEF Parsers, Ready
      <4> QED BY <2>1, <4>1, <4>3 DEF q
    <3>4. CASE l.kind = "header"
      BY <2>1, <2>5, <3>4 DEF HeaderLine
    <3>5. CASE l.kind \notin {"chunked", "length", "header"}
      <4>1. HeaderLine(p, l) = To(p, "Error")
        BY <2>5, <3>5 DEF HeaderLine
      <4> QED BY <1>2, <2>1, <4>1 DEF States
    <3> QED BY <3>2, <3>3, <3>4, <3>5
  <2> QED BY <1>1, <2>2, <2>3, <2>4, <2>5 DEF Members
<1>5. CASE p.state = "BodyChunkSize"
  <2>1. TakeLine(p, l) = SizeLine(p, l)
    BY <1>5 DEF TakeLine
  <2>2. CASE l.kind # "size"
    BY <1>2, <2>1, <2>2 DEF SizeLine, States
  <2>3. CASE l.kind = "size"
    <3> DEFINE q == [To(p, IF l.n = 0 THEN "BodyTrailer" ELSE "BodyChunkData") EXCEPT !.chunk = l.n]
    <3>1. SizeLine(p, l) = q
      BY <2>3 DEF SizeLine
    <3>2. q \in Members /\ (q.state = "BodyTrailer" \/ (q.state = "BodyChunkData" /\ q.chunk # 0))
      BY <1>1, <2>3, PieceLengths DEF To, Members, States
    <3> HIDE DEF q
    <3>3. q \in Parsers
      BY <3>2 DEF Parsers, Ready
    <3> QED BY <2>1, <3>1, <3>3
  <2> QED BY <2>2, <2>3
<1>6. CASE p.state = "BodyChunkTail"
  <2>1. TakeLine(p, l) = To(p, IF l = Empty THEN "BodyChunkSize" ELSE "Error")
    BY <1>6 DEF TakeLine, TailLine
  <2> QED BY <1>2, <2>1 DEF States
<1>7. CASE p.state = "BodyTrailer"
  <2>1. TakeLine(p, l) = IF l = Empty THEN To(p, "Done") ELSE p
    BY <1>7 DEF TakeLine, TrailerLine
  <2> QED BY <1>2, <2>1 DEF States
<1> QED BY <1>3, <1>4, <1>5, <1>6, <1>7 DEF Lining
LEMMA WholeLineIsBytes ==
  ASSUME NEW p \in Bytes, NEW h \in Bytes
  PROVE  LET line == WholeLine(p, h)
         IN (IF line = <<>> THEN Empty ELSE line[1]) \in Symbols \union {Empty}
<1> DEFINE w == p \o h
           line == WholeLine(p, h)
<1>1. w \in Bytes /\ Len(w) \in Nat
  BY DEF Bytes
<1> HIDE DEF w
<1>2. WithoutCR(w) \in Bytes
  <2>1. CASE w = <<>>
    BY <1>1, <2>1 DEF WithoutCR
  <2>2. CASE w # <<>>
    <3>1. 1 \in 1..Len(w) + 1 /\ Len(w) - 1 \in 1 - 1..Len(w)
      BY <1>1, <2>2 DEF Bytes
    <3>2. SubSeq(w, 1, Len(w) - 1) \in Bytes
      BY <1>1, <3>1, PartOf DEF Bytes
    <3> QED BY <1>1, <3>2 DEF WithoutCR, Front
  <2> QED BY <2>1, <2>2
<1>3. line \in Bytes
  BY <1>2 DEF WholeLine, w
<1> HIDE DEF line
<1>4. line # <<>> => line[1] \in Symbols
  BY <1>3 DEF Bytes
<1> QED BY <1>4 DEF line

\* A number of bytes, at least one, is taken off.
LEMMA SomeTaken ==
  ASSUME NEW x \in Bytes, x # <<>>, NEW u \in 0..Unlimited, u # 0
  PROVE  LET n == Smaller(u, Len(x))
         IN /\ n \in 1..Len(x) /\ u - n \in 0..Unlimited /\ (u # n => u - n # 0)
            /\ Rest(x, n) \in Bytes /\ Len(Rest(x, n)) = Len(x) - n /\ SubSeq(x, 1, n) \in Bytes
<1> DEFINE n == Smaller(u, Len(x))
<1>1. Len(x) \in Nat \ {0} /\ u \in Nat \ {0} /\ u <= Unlimited /\ Unlimited \in Nat
  BY ParserAssumption DEF Bytes
<1>2. n \in 1..Len(x) /\ n <= u
  BY <1>1 DEF Smaller
<1> HIDE DEF n
<1>3. u - n \in 0..Unlimited /\ (u # n => u - n # 0)
  BY <1>1, <1>2
<1>4. Rest(x, n) \in Bytes /\ Len(Rest(x, n)) = Len(x) - n
  <2>1. n + 1 \in 1..Len(x) + 1 /\ Len(x) \in (n + 1) - 1..Len(x) /\ Len(x) - (n + 1) + 1 = Len(x) - n
    BY <1>1, <1>2
  <2>2. SubSeq(x, n + 1, Len(x)) \in Bytes /\ Len(SubSeq(x, n + 1, Len(x))) = Len(x) - (n + 1) + 1
    BY <2>1, PartOf DEF Bytes
  <2> QED BY <2>1, <2>2 DEF Rest
<1>5. SubSeq(x, 1, n) \in Bytes
  <2>1. 1 \in 1..Len(x) + 1 /\ n \in 1 - 1..Len(x)
    BY <1>1, <1>2
  <2> QED BY <2>1, PartOf DEF Bytes
<1> QED BY <1>2, <1>3, <1>4, <1>5 DEF n

LEMMA ConsumeKeeps ==
  ASSUME NEW p \in Parsers, ~Ended(p), NEW x \in Bytes, x # <<>>
  PROVE  LET c == Consume(p, x)
         IN c.p \in Parsers /\ c.bytes \in Bytes /\ c.body \in Bytes /\ Len(c.bytes) < Len(x)
<1>1. p \in Members /\ Ready(p) /\ Len(x) \in Nat \ {0} /\ <<>> \in Bytes /\ Len(<<>>) = 0
  BY DEF Parsers, Bytes
<1>2. CASE p.state = "BodyLength" /\ p.content = Unlimited
  <2>1. Consume(p, x) = Result(p, <<>>, x)
    BY <1>2 DEF Consume, BodyLength
  <2> QED BY <1>1, <2>1 DEF Result
<1>3. CASE p.state = "BodyLength" /\ p.content # Unlimited
  <2> DEFINE n == Smaller(p.content, Len(x))
             q == [p EXCEPT !.content = @ - n, !.state = IF p.content = n THEN "Done" ELSE @]
  <2>1. Consume(p, x) = Result(q, Rest(x, n), SubSeq(x, 1, n))
    BY <1>3 DEF Consume, BodyLength
  <2>2. p.content \in 0..Unlimited /\ p.content # 0
    BY <1>1, <1>3 DEF Members, Ready
  <2>3. /\ n \in 1..Len(x) /\ p.content - n \in 0..Unlimited /\ (p.content # n => p.content - n # 0)
        /\ Rest(x, n) \in Bytes /\ Len(Rest(x, n)) = Len(x) - n /\ SubSeq(x, 1, n) \in Bytes
    BY <2>2, SomeTaken
  <2> HIDE DEF n
  <2>4. q \in Members /\ (q.state = "Done" \/ (q.state = "BodyLength" /\ q.content # 0))
    BY <1>1, <1>3, <2>3 DEF Members, States
  <2> HIDE DEF q
  <2>5. q \in Parsers /\ Len(Rest(x, n)) < Len(x)
    BY <1>1, <2>3, <2>4 DEF Parsers, Ready
  <2> QED BY <2>1, <2>3, <2>5 DEF Result
<1>4. CASE p.state = "BodyChunkData"
  <2> DEFINE n == Smaller(p.chunk, Len(x))
             q == [p EXCEPT !.chunk = @ - n, !.state = IF p.chunk = n THEN "BodyChunkTail" ELSE @]
  <2>1. Consume(p, x) = Result(q, Rest(x, n), SubSeq(x, 1, n))
    BY <1>4 DEF Consume, ChunkData
  <2>2. p.chunk \in 0..Unlimited /\ p.chunk # 0
    BY <1>1, <1>4 DEF Members, Ready
  <2>3. /\ n \in 1..Len(x) /\ p.chunk - n \in 0..Unlimited /\ (p.chunk # n => p.chunk - n # 0)
        /\ Rest(x, n) \in Bytes /\ Len(Rest(x, n)) = Len(x) - n /\ SubSeq(x, 1, n) \in Bytes
    BY <2>2, SomeTaken
  <2> HIDE DEF n
  <2>4. q \in Members /\ (q.state = "BodyChunkTail" \/ (q.state = "BodyChunkData" /\ q.chunk # 0))
    BY <1>1, <1>4, <2>3 DEF Members, States
  <2> HIDE DEF q
  <2>5. q \in Parsers /\ Len(Rest(x, n)) < Len(x)
    BY <1>1, <2>3, <2>4 DEF Parsers, Ready
  <2> QED BY <2>1, <2>3, <2>5 DEF Result
<1>5. CASE p.state \in Lining
  <2>1. Consume(p, x) = PullLine(p, x)
    BY <1>5 DEF Consume, Lining
  <2>2. CASE ~Contains(x, LF)
    <3> DEFINE q == [p EXCEPT !.pending = @ \o x]
    <3>1. PullLine(p, x) = Result(q, <<>>, <<>>)
      BY <2>2 DEF PullLine
    <3>2. p.pending \in Bytes /\ p.pending \o x \in Bytes
      BY <1>1 DEF Members, Bytes
    <3>3. q \in Members /\ q.state \in Lining
      BY <1>1, <1>5, <3>2 DEF Members
    <3> HIDE DEF q
    <3>4. q \in Parsers
      BY <3>3 DEF Parsers, Ready, Lining
    <3> QED BY <1>1, <2>1, <3>1, <3>4 DEF Result
  <2>3. CASE Contains(x, LF)
    <3> DEFINE nl == FirstLF(x)
               line == WholeLine(p.pending, SubSeq(x, 1, nl - 1))
               q == [p EXCEPT !.pending = <<>>]
               l == IF line = <<>> THEN Empty ELSE line[1]
    <3>1. PullLine(p, x) = Result(TakeLine(q, l), Rest(x, nl), <<>>)
      BY <2>3 DEF PullLine
    <3>2. nl \in 1..Len(x)
      BY <2>3, FirstLFThere
    <3> HIDE DEF nl
    <3>3. SubSeq(x, 1, nl - 1) \in Bytes
      <4>1. 1 \in 1..Len(x) + 1 /\ nl - 1 \in 1 - 1..Len(x)
        BY <1>1, <3>2
      <4> QED BY <4>1, PartOf DEF Bytes
    <3>4. l \in Symbols \union {Empty}
      <4>1. p.pending \in Bytes
        BY <1>1 DEF Members
      <4> QED BY <3>3, <4>1, WholeLineIsBytes
    <3>5. q \in Members /\ q.state \in Lining
      BY <1>1, <1>5 DEF Members
    <3> HIDE DEF q, l
    <3>6. TakeLine(q, l) \in Parsers
      <4>1. q \in Parsers
        BY <3>5 DEF Parsers, Ready, Lining
      <4> QED BY <3>4, <3>5, <4>1, TakeLineKeeps
    <3>7. Rest(x, nl) \in Bytes /\ Len(Rest(x, nl)) < Len(x)
      <4>1. nl + 1 \in 1..Len(x) + 1 /\ Len(x) \in (nl + 1) - 1..Len(x) /\ Len(x) - (nl + 1) + 1 < Len(x)
        BY <1>1, <3>2
      <4>2. SubSeq(x, nl + 1, Len(x)) \in Bytes /\ Len(SubSeq(x, nl + 1, Len(x))) = Len(x) - (nl + 1) + 1
        BY <4>1, PartOf DEF Bytes
      <4> QED BY <4>1, <4>2 DEF Rest
    <3> QED BY <1>1, <2>1, <3>1, <3>6, <3>7 DEF Result
  <2> QED BY <2>2, <2>3
<1> QED BY <1>1, <1>2, <1>3, <1>4, <1>5 DEF Members, States, Lining, Ended
\* c is the step on the first piece, d the one on both.
Joins(c, d, b) ==
  \/ d.p = c.p /\ d.bytes = c.bytes \o b /\ d.body = c.body
  \/ /\ c.bytes = <<>> /\ ~Ended(c.p)
     /\ LET e == Consume(c.p, b) IN d.p = e.p /\ d.bytes = e.bytes /\ d.body = c.body \o e.body

LEMMA TakenCut ==
  ASSUME NEW a \in Bytes, NEW b \in Bytes, a # <<>>, b # <<>>, NEW u \in 0..Unlimited, u # 0
  PROVE  LET k == Len(a)
             n == Smaller(u, k)
             j == Smaller(u - k, Len(b))
             m == Smaller(u, Len(a \o b))
         IN \/ u <= k /\ n = u /\ m = u /\ Rest(a \o b, m) = Rest(a, n) \o b /\ SubSeq(a \o b, 1, m) = SubSeq(a, 1, n)
            \/ /\ u > k /\ n = k /\ Rest(a, n) = <<>> /\ SubSeq(a, 1, n) = a /\ u - k \in 1..Unlimited - 1
               /\ m = k + j /\ j \in Nat /\ Rest(a \o b, m) = Rest(b, j)
               /\ SubSeq(a \o b, 1, m) = SubSeq(a, 1, n) \o SubSeq(b, 1, j)
<1> DEFINE k == Len(a)
           h == Len(b)
           n == Smaller(u, k)
           j == Smaller(u - k, h)
           m == Smaller(u, Len(a \o b))
<1>1. k \in Nat \ {0} /\ h \in Nat \ {0} /\ u \in Nat \ {0} /\ u <= Unlimited /\ Unlimited \in Nat /\ Len(a \o b) = k + h
  BY ParserAssumption DEF Bytes
<1>2. CASE u <= k
  <2>1. n = u /\ m = u /\ u \in 0..Len(a)
    BY <1>1, <1>2 DEF Smaller
  <2> HIDE DEF n, m
  <2>2. SubSeq(a \o b, 1, u) = SubSeq(a, 1, u) /\ Rest(a \o b, u) = Rest(a, u) \o b
    BY <2>1, StartOfTwo DEF Bytes
  <2> QED BY <1>2, <2>1, <2>2 DEF n, m
<1>3. CASE ~(u <= k)
  <2> HIDE DEF k
  <2>1. n = k /\ u > k /\ u - k \in 1..Unlimited - 1
    BY <1>1, <1>3 DEF Smaller
  <2>2. j \in 0..h /\ m = k + j
    BY <1>1, <1>3 DEF Smaller
  <2> HIDE DEF n, m, j
  <2>3. Rest(a, n) = <<>> /\ SubSeq(a, 1, n) = a
    <3>1. k \in Int /\ k + 1 \in Int /\ k < k + 1
      BY <1>1
    <3>2. SubSeq(a, k + 1, k) = <<>>
      BY <3>1, SubSeqEmpty
    <3> QED BY <2>1, <3>2, SubSeqFull DEF Rest, Bytes, k
  <2>4. SubSeq(a \o b, 1, k + j) = a \o SubSeq(b, 1, j) /\ Rest(a \o b, k + j) = Rest(b, j)
    BY <2>2, EndOfTwo DEF Bytes, k
  <2>5. SubSeq(a \o b, 1, m) = SubSeq(a, 1, n) \o SubSeq(b, 1, j) /\ Rest(a \o b, m) = Rest(b, j) /\ j \in Nat
    <3>1. j \in Nat
      BY <1>1, <2>2
    <3> QED BY <2>2, <2>3, <2>4, <3>1
  <2> QED BY <2>1, <2>2, <2>3, <2>5 DEF n, m, j, k
<1> QED BY <1>2, <1>3

LEMMA ThreePieces == \A s, t, u \in Bytes : (s \o t) \o u = s \o (t \o u)
BY ConcatAssociative DEF Bytes

LEMMA ConsumeCut ==
  ASSUME NEW p \in Parsers, ~Ended(p), NEW a \in Bytes, NEW b \in Bytes, a # <<>>, b # <<>>
  PROVE  Joins(Consume(p, a), Consume(p, a \o b), b)
<1> DEFINE w == a \o b
           c == Consume(p, a)
           d == Consume(p, w)
<1>1. /\ p \in Members /\ Ready(p) /\ <<>> \in Bytes /\ w \in Bytes
  BY DEF Parsers, Bytes
<1>2. CASE p.state = "BodyLength" /\ p.content = Unlimited
  <2>1. /\ c = Result(p, <<>>, a) /\ d = Result(p, <<>>, w) /\ Consume(p, b) = Result(p, <<>>, b)
    BY <1>2 DEF Consume, BodyLength
  <2> HIDE DEF c, d
  <2>2. Joins(c, d, b)
    BY <2>1 DEF Joins, Result
  <2> QED BY <2>2 DEF c, d
<1>3. CASE p.state = "BodyLength" /\ p.content # Unlimited
  <2> DEFINE u == p.content
             k == Len(a)
             n == Smaller(u, k)
             j == Smaller(u - k, Len(b))
             m == Smaller(u, Len(w))
             Less(r, i) == [r EXCEPT !.content = @ - i, !.state = IF r.content = i THEN "Done" ELSE @]
  <2>1. /\ c = Result(Less(p, n), Rest(a, n), SubSeq(a, 1, n))
        /\ d = Result(Less(p, m), Rest(w, m), SubSeq(w, 1, m))
    BY <1>3 DEF Consume, BodyLength
  <2>2. u \in 0..Unlimited /\ u # 0 /\ k \in Nat
    BY <1>1, <1>3 DEF Members, Ready, Bytes
  <2>3. \/ u <= k /\ n = u /\ m = u /\ Rest(w, m) = Rest(a, n) \o b /\ SubSeq(w, 1, m) = SubSeq(a, 1, n)
        \/ /\ u > k /\ n = k /\ Rest(a, n) = <<>> /\ SubSeq(a, 1, n) = a /\ u - k \in 1..Unlimited - 1
           /\ m = k + j /\ j \in Nat /\ Rest(w, m) = Rest(b, j) /\ SubSeq(w, 1, m) = SubSeq(a, 1, n) \o SubSeq(b, 1, j)
    BY <2>2, TakenCut
  <2>4. CASE u <= k
    <3> HIDE DEF c, d, w, u, n, j, m, Less
    <3>1. n = u /\ m = u /\ Rest(w, m) = Rest(a, n) \o b /\ SubSeq(w, 1, m) = SubSeq(a, 1, n)
      BY <2>2, <2>3, <2>4
    <3>2. Joins(c, d, b)
      BY <2>1, <3>1 DEF Joins, Result
    <3> QED BY <3>2 DEF c, d, w
  <2>5. CASE ~(u <= k)
    <3>1. /\ n = k /\ Rest(a, n) = <<>> /\ SubSeq(a, 1, n) = a /\ u - k \in 1..Unlimited - 1
          /\ m = k + j /\ j \in Nat /\ Rest(w, m) = Rest(b, j) /\ SubSeq(w, 1, m) = SubSeq(a, 1, n) \o SubSeq(b, 1, j)
      <4> HIDE DEF w, u, n, j, m
      <4> QED BY <2>2, <2>3, <2>5
    <3> DEFINE q == Less(p, n)
    <3>2. /\ q \in Members /\ q.state = "BodyLength" /\ q.content = u - k /\ q.content # Unlimited
          /\ q.pending = p.pending /\ q.chunk = p.chunk /\ q.chunked = p.chunked /\ q.hasLength = p.hasLength
      <4> HIDE DEF n, j, m, w
      <4>1. u - k # 0 /\ u # k /\ u - k \in 0..Unlimited /\ u - k # Unlimited
        BY <2>2, <3>1, ParserAssumption
      <4> HIDE DEF k
      <4> QED BY <1>1, <1>3, <3>1, <4>1 DEF Members
    <3>3. Consume(q, b) = Result(Less(q, j), Rest(b, j), SubSeq(b, 1, j))
      <4> HIDE DEF q
      <4>1. j = Smaller(q.content, Len(b))
        BY <3>2
      <4> QED BY <3>2, <4>1 DEF Consume, BodyLength
    <3>4. Less(q, j) = Less(p, m)
      <4> HIDE DEF w, j, m, q
      <4>1. q.content - j = p.content - m /\ (q.content = j <=> p.content = m)
        BY <2>2, <3>1, <3>2
      <4>2. /\ Less(q, j).content = q.content - j /\ Less(p, m).content = p.content - m
            /\ Less(q, j).state = (IF q.content = j THEN "Done" ELSE "BodyLength")
            /\ Less(p, m).state = (IF p.content = m THEN "Done" ELSE "BodyLength")
        BY <1>1, <1>3, <3>2 DEF Members
      <4>3. /\ Less(q, j) = [q EXCEPT !.content = q.content - j, !.state = IF q.content = j THEN "Done" ELSE "BodyLength"]
            /\ Less(p, m) = [p EXCEPT !.content = q.content - j, !.state = IF q.content = j THEN "Done" ELSE "BodyLength"]
        BY <1>1, <1>3, <3>2, <4>1 DEF Members
      <4>4. q = [p EXCEPT !.content = q.content, !.state = "BodyLength"]
        BY <1>1, <1>3, <3>2 DEF Members
      <4> QED BY <1>1, <3>2, <4>3, <4>4 DEF Members
    <3> HIDE DEF c, d, w, u, n, j, m, Less, q
    <3>5. c.bytes = <<>> /\ c.p = q /\ ~Ended(c.p) /\ c.body = SubSeq(a, 1, n)
      BY <2>1, <3>1, <3>2 DEF Result, Ended, q
    <3> DEFINE e == Consume(c.p, b)
    <3>6. e.p = Less(q, j) /\ e.bytes = Rest(b, j) /\ e.body = SubSeq(b, 1, j)
      BY <3>3, <3>5 DEF Result
    <3>7. d.p = Less(p, m) /\ d.bytes = Rest(w, m) /\ d.body = SubSeq(w, 1, m)
      BY <2>1 DEF Result
    <3> HIDE DEF e
    <3>8. d.p = e.p /\ d.bytes = e.bytes /\ d.body = c.body \o e.body
      BY <3>1, <3>4, <3>5, <3>6, <3>7
    <3>9. Joins(c, d, b)
      BY <3>5, <3>8 DEF Joins, e
    <3> QED BY <3>9 DEF c, d, w
  <2> QED BY <2>4, <2>5
<1>4. CASE p.state = "BodyChunkData"
  <2> DEFINE u == p.chunk
             k == Len(a)
             n == Smaller(u, k)
             j == Smaller(u - k, Len(b))
             m == Smaller(u, Len(w))
             Less(r, i) == [r EXCEPT !.chunk = @ - i, !.state = IF r.chunk = i THEN "BodyChunkTail" ELSE @]
  <2>1. /\ c = Result(Less(p, n), Rest(a, n), SubSeq(a, 1, n))
        /\ d = Result(Less(p, m), Rest(w, m), SubSeq(w, 1, m))
    BY <1>4 DEF Consume, ChunkData
  <2>2. u \in 0..Unlimited /\ u # 0 /\ k \in Nat
    BY <1>1, <1>4 DEF Members, Ready, Bytes
  <2>3. \/ u <= k /\ n = u /\ m = u /\ Rest(w, m) = Rest(a, n) \o b /\ SubSeq(w, 1, m) = SubSeq(a, 1, n)
        \/ /\ u > k /\ n = k /\ Rest(a, n) = <<>> /\ SubSeq(a, 1, n) = a /\ u - k \in 1..Unlimited - 1
           /\ m = k + j /\ j \in Nat /\ Rest(w, m) = Rest(b, j) /\ SubSeq(w, 1, m) = SubSeq(a, 1, n) \o SubSeq(b, 1, j)
    BY <2>2, TakenCut
  <2>4. CASE u <= k
    <3> HIDE DEF c, d, w, u, n, j, m, Less
    <3>1. n = u /\ m = u /\ Rest(w, m) = Rest(a, n) \o b /\ SubSeq(w, 1, m) = SubSeq(a, 1, n)
      BY <2>2, <2>3, <2>4
    <3>2. Joins(c, d, b)
      BY <2>1, <3>1 DEF Joins, Result
    <3> QED BY <3>2 DEF c, d, w
  <2>5. CASE ~(u <= k)
    <3>1. /\ n = k /\ Rest(a, n) = <<>> /\ SubSeq(a, 1, n) = a /\ u - k \in 1..Unlimited - 1
          /\ m = k + j /\ j \in Nat /\ Rest(w, m) = Rest(b, j) /\ SubSeq(w, 1, m) = SubSeq(a, 1, n) \o SubSeq(b, 1, j)
      <4> HIDE DEF w, u, n, j, m
      <4> QED BY <2>2, <2>3, <2>5
    <3> DEFINE q == Less(p, n)
    <3>2. /\ q \in Members /\ q.state = "BodyChunkData" /\ q.chunk = u - k
          /\ q.pending = p.pending /\ q.content = p.content /\ q.chunked = p.chunked /\ q.hasLength = p.hasLength
      <4> HIDE DEF n, j, m, w
      <4>1. u - k # 0 /\ u # k /\ u - k \in 0..Unlimited 
        BY <2>2, <3>1, ParserAssumption
      <4> HIDE DEF k
      <4> QED BY <1>1, <1>4, <3>1, <4>1 DEF Members
    <3>3. Consume(q, b) = Result(Less(q, j), Rest(b, j), SubSeq(b, 1, j))
      <4> HIDE DEF q
      <4>1. j = Smaller(q.chunk, Len(b))
        BY <3>2
      <4> QED BY <3>2, <4>1 DEF Consume, ChunkData
    <3>4. Less(q, j) = Less(p, m)
      <4> HIDE DEF w, j, m, q
      <4>1. q.chunk - j = p.chunk - m /\ (q.chunk = j <=> p.chunk = m)
        BY <2>2, <3>1, <3>2
      <4>2. /\ Less(q, j).chunk = q.chunk - j /\ Less(p, m).chunk = p.chunk - m
            /\ Less(q, j).state = (IF q.chunk = j THEN "BodyChunkTail" ELSE "BodyChunkData")
            /\ Less(p, m).state = (IF p.chunk = m THEN "BodyChunkTail" ELSE "BodyChunkData")
        BY <1>1, <1>4, <3>2 DEF Members
      <4>3. /\ Less(q, j) = [q EXCEPT !.chunk = q.chunk - j, !.state = IF q.chunk = j THEN "BodyChunkTail" ELSE "BodyChunkData"]
            /\ Less(p, m) = [p EXCEPT !.chunk = q.chunk - j, !.state = IF q.chunk = j THEN "BodyChunkTail" ELSE "BodyChunkData"]
        BY <1>1, <1>4, <3>2, <4>1 DEF Members
      <4>4. q = [p EXCEPT !.chunk = q.chunk, !.state = "BodyChunkData"]
        BY <1>1, <1>4, <3>2 DEF Members
      <4> QED BY <1>1, <3>2, <4>3, <4>4 DEF Members
    <3> HIDE DEF c, d, w, u, n, j, m, Less, q
    <3>5. c.bytes = <<>> /\ c.p = q /\ ~Ended(c.p) /\ c.body = SubSeq(a, 1, n)
      BY <2>1, <3>1, <3>2 DEF Result, Ended, q
    <3> DEFINE e == Consume(c.p, b)
    <3>6. e.p = Less(q, j) /\ e.bytes = Rest(b, j) /\ e.body = SubSeq(b, 1, j)
      BY <3>3, <3>5 DEF Result
    <3>7. d.p = Less(p, m) /\ d.bytes = Rest(w, m) /\ d.body = SubSeq(w, 1, m)
      BY <2>1 DEF Result
    <3> HIDE DEF e
    <3>8. d.p = e.p /\ d.bytes = e.bytes /\ d.body = c.body \o e.body
      BY <3>1, <3>4, <3>5, <3>6, <3>7
    <3>9. Joins(c, d, b)
      BY <3>5, <3>8 DEF Joins, e
    <3> QED BY <3>9 DEF c, d, w
  <2> QED BY <2>4, <2>5
<1>5. CASE p.state \in Lining
  <2>1. c = PullLine(p, a) /\ d = PullLine(p, w)
    BY <1>5 DEF Consume, Lining
  <2>2. p.pending \in Bytes
    BY <1>1 DEF Members
  <2>3. CASE Contains(a, LF)
    <3> DEFINE nl == FirstLF(a)
    <3>1. nl \in 1..Len(a) /\ nl - 1 \in 0..Len(a) /\ nl \in 0..Len(a)
      <4>1. nl \in 1..Len(a)
        BY <2>3, FirstLFThere
      <4> HIDE DEF nl
      <4> QED BY <4>1 DEF Bytes
    <3>2. Contains(w, LF) /\ FirstLF(w) = nl
      BY <2>3, FirstLFOfTwo
    <3> HIDE DEF nl
    <3>3. SubSeq(w, 1, nl - 1) = SubSeq(a, 1, nl - 1) /\ Rest(w, nl) = Rest(a, nl) \o b
      BY <3>1, StartOfTwo DEF Bytes
    <3> DEFINE line == WholeLine(p.pending, SubSeq(a, 1, nl - 1))
               t == TakeLine([p EXCEPT !.pending = <<>>], IF line = <<>> THEN Empty ELSE line[1])
    <3>4. PullLine(p, a) = Result(t, Rest(a, nl), <<>>)
      BY <2>3 DEF PullLine, nl
    <3>5. PullLine(p, w) = Result(t, Rest(w, nl), <<>>)
      <4> HIDE DEF w
      <4> QED BY <3>2, <3>3 DEF PullLine
    <3> HIDE DEF t, c, d, w
    <3>6. Joins(c, d, b)
      BY <2>1, <3>3, <3>4, <3>5 DEF Joins, Result
    <3> QED BY <3>6 DEF c, d, w
  <2>4. CASE ~Contains(a, LF)
    <3> DEFINE q == [p EXCEPT !.pending = @ \o a]
    <3>1. c = Result(q, <<>>, <<>>)
      BY <2>1, <2>4 DEF PullLine
    <3>2. /\ q \in Members /\ q.state = p.state /\ q.pending = p.pending \o a
          /\ [q EXCEPT !.pending = <<>>] = [p EXCEPT !.pending = <<>>]
          /\ \A y : [q EXCEPT !.pending = y] = [p EXCEPT !.pending = y]
      <4>1. p.pending \o a \in Bytes
        BY <2>2 DEF Bytes
      <4> QED BY <1>1, <4>1 DEF Members
    <3> HIDE DEF q
    <3>3. Consume(q, b) = PullLine(q, b)
      BY <1>5, <3>2 DEF Consume, Lining
    <3>4. c.bytes = <<>> /\ c.p = q /\ ~Ended(c.p) /\ c.body = <<>>
      BY <1>5, <3>1, <3>2 DEF Result, Ended, Lining
    <3>5. CASE ~Contains(b, LF)
      <4>1. ~Contains(w, LF)
        BY <2>4, <3>5, FirstLFOfTwo
      <4>2. d = Result([p EXCEPT !.pending = p.pending \o w], <<>>, <<>>)
        <5> HIDE DEF w
        <5> QED BY <2>1, <4>1 DEF PullLine
      <4>3. PullLine(q, b) = Result([q EXCEPT !.pending = q.pending \o b], <<>>, <<>>)
        BY <3>5 DEF PullLine
      <4>4. p.pending \o w = q.pending \o b
        <5>1. (p.pending \o a) \o b = p.pending \o (a \o b)
          BY <2>2, ThreePieces
        <5> QED BY <3>2, <5>1
      <4>5. d = Consume(q, b)
        <5> HIDE DEF d, w
        <5> QED BY <3>2, <3>3, <4>2, <4>3, <4>4
      <4>6. d.body = <<>> /\ <<>> \o <<>> = <<>> /\ Consume(q, b).body = <<>>
        BY <3>3, <4>2, <4>3, ConcatEmptySeq, <1>1 DEF Result, Bytes
      <4> HIDE DEF c, d, w
      <4>7. Joins(c, d, b)
        BY <3>4, <4>5, <4>6 DEF Joins
      <4> QED BY <4>7 DEF c, d, w
    <3>6. CASE Contains(b, LF)
      <4> DEFINE nl == FirstLF(b)
      <4>1. Contains(w, LF) /\ FirstLF(w) = Len(a) + nl
        BY <2>4, <3>6, FirstLFOfTwo
      <4>2. nl - 1 \in 0..Len(b) /\ nl \in 0..Len(b) /\ (Len(a) + nl) - 1 = Len(a) + (nl - 1)
        <5>1. nl \in 1..Len(b)
          BY <3>6, FirstLFThere
        <5> HIDE DEF nl
        <5> QED BY <5>1 DEF Bytes
      <4> HIDE DEF nl
      <4>3. SubSeq(w, 1, Len(a) + (nl - 1)) = a \o SubSeq(b, 1, nl - 1) /\ Rest(w, Len(a) + nl) = Rest(b, nl)
        BY <4>2, EndOfTwo DEF Bytes
      <4>4. WholeLine(p.pending, a \o SubSeq(b, 1, nl - 1)) = WholeLine(q.pending, SubSeq(b, 1, nl - 1))
        <5>1. 1 \in 1..Len(b) + 1 /\ nl - 1 \in 1 - 1..Len(b)
          BY <4>2 DEF Bytes
        <5>2. SubSeq(b, 1, nl - 1) \in Bytes
          BY <5>1, PartOf DEF Bytes
        <5>3. p.pending \o (a \o SubSeq(b, 1, nl - 1)) = q.pending \o SubSeq(b, 1, nl - 1)
          <6> DEFINE y == SubSeq(b, 1, nl - 1)
          <6> HIDE DEF y
          <6>1. (p.pending \o a) \o y = p.pending \o (a \o y)
            BY <2>2, <5>2, ThreePieces DEF y
          <6> QED BY <3>2, <6>1 DEF y
        <5> QED BY <5>3 DEF WholeLine
      <4> DEFINE line == WholeLine(q.pending, SubSeq(b, 1, nl - 1))
                 t == TakeLine([p EXCEPT !.pending = <<>>], IF line = <<>> THEN Empty ELSE line[1])
      <4>5. PullLine(q, b) = Result(t, Rest(b, nl), <<>>)
        BY <3>2, <3>6 DEF PullLine, nl
      <4>6. PullLine(p, w) = Result(t, Rest(b, nl), <<>>)
        <5> HIDE DEF w
        <5>1. WholeLine(p.pending, SubSeq(w, 1, FirstLF(w) - 1)) = line /\ Rest(w, FirstLF(w)) = Rest(b, nl)
          BY <4>1, <4>2, <4>3, <4>4
        <5> HIDE DEF line
        <5> QED BY <4>1, <5>1 DEF PullLine
      <4> HIDE DEF t
      <4>7. d.body = <<>> /\ <<>> \o <<>> = <<>> /\ Consume(q, b).body = <<>> /\ d = Consume(q, b)
        <5> HIDE DEF d, w
        <5> QED BY <2>1, <3>3, <4>5, <4>6, ConcatEmptySeq, <1>1 DEF Result, Bytes
      <4> HIDE DEF c, d, w
      <4>8. Joins(c, d, b)
        BY <3>4, <4>7 DEF Joins
      <4> QED BY <4>8 DEF c, d, w
    <3> QED BY <3>5, <3>6
  <2> QED BY <2>3, <2>4
<1> QED BY <1>1, <1>2, <1>3, <1>4, <1>5 DEF Members, States, Lining, Ended
-----------------------------------------------------------------------------
\* The loop of feed().

Left(p, s, bytes) == [p |-> p, s |-> s, bytes |-> bytes]

LEMMA TurnIs ==
  ASSUME NEW p \in Parsers, NEW s, NEW x \in Bytes, ~Over(Left(p, s, x))
  PROVE  LET c == Consume(p, x)
         IN /\ Turn(Left(p, s, x)) = Left(c.p, SseFeed(s, c.body), c.bytes)
            /\ c.p \in Parsers /\ c.bytes \in Bytes /\ c.body \in Bytes /\ Len(c.bytes) < Len(x)
            /\ x # <<>> /\ ~Ended(p)
<1>1. x # <<>> /\ ~Ended(p)
  BY DEF Over, Left, Ended
<1>2. Turn(Left(p, s, x)) = Left(Consume(p, x).p, SseFeed(s, Consume(p, x).body), Consume(p, x).bytes)
  BY DEF Turn, Left
<1> QED BY <1>1, <1>2, ConsumeKeeps

LEMMA TurnCut ==
  ASSUME NEW p \in Parsers, NEW s, NEW a \in Bytes, NEW b \in Bytes, b # <<>>, ~Over(Left(p, s, a))
  PROVE  LET e == Turn(Left(p, s, a))
             d == Turn(Left(p, s, a \o b))
         IN \/ d = Left(e.p, e.s, e.bytes \o b)
            \/ e.bytes = <<>> /\ ~Ended(e.p) /\ d = Turn(Left(e.p, e.s, b))
<1> DEFINE c == Consume(p, a)
           h == Consume(p, a \o b)
           g == Consume(c.p, b)
<1>1. /\ Turn(Left(p, s, a)) = Left(c.p, SseFeed(s, c.body), c.bytes)
      /\ c.p \in Parsers /\ c.bytes \in Bytes /\ c.body \in Bytes /\ a # <<>> /\ ~Ended(p)
  BY TurnIs
<1>2. a \o b \in Bytes /\ a \o b # <<>> /\ ~Over(Left(p, s, a \o b))
  <2>1. a \o b \in Bytes /\ a \o b # <<>>
    BY <1>1 DEF Bytes
  <2> QED BY <1>1, <2>1 DEF Over, Left, Ended
<1>3. Turn(Left(p, s, a \o b)) = Left(h.p, SseFeed(s, h.body), h.bytes)
  BY <1>2, TurnIs
<1>4. Joins(c, h, b)
  BY <1>1, ConsumeCut
<1>5. CASE h.p = c.p /\ h.bytes = c.bytes \o b /\ h.body = c.body
  <2> DEFINE e == Turn(Left(p, s, a))
             z == SseFeed(s, c.body)
  <2>1. e = Left(c.p, z, c.bytes)
    BY <1>1
  <2>2. Turn(Left(p, s, a \o b)) = Left(c.p, z, c.bytes \o b)
    <3> HIDE DEF c, h
    <3> QED BY <1>3, <1>5
  <2>3. e.p = c.p /\ e.s = z /\ e.bytes = c.bytes
    <3> HIDE DEF e, c, z
    <3> QED BY <2>1 DEF Left
  <2>4. Turn(Left(p, s, a \o b)) = Left(e.p, e.s, e.bytes \o b)
    <3> HIDE DEF e, c, z
    <3> QED BY <2>2, <2>3
  <2> QED BY <2>4
<1>6. CASE c.bytes = <<>> /\ ~Ended(c.p) /\ h.p = g.p /\ h.bytes = g.bytes /\ h.body = c.body \o g.body
  <2>1. ~Over(Left(c.p, SseFeed(s, c.body), b))
    <3> HIDE DEF c
    <3> QED BY <1>6 DEF Over, Left, Ended
  <2>2. Turn(Left(c.p, SseFeed(s, c.body), b)) = Left(g.p, SseFeed(SseFeed(s, c.body), g.body), g.bytes) /\ g.body \in Bytes
    <3> DEFINE q == c.p
               z == SseFeed(s, c.body)
    <3>1. q \in Parsers /\ ~Over(Left(q, z, b))
      BY <1>1, <2>1
    <3> HIDE DEF q, z
    <3>2. Turn(Left(q, z, b)) = Left(Consume(q, b).p, SseFeed(z, Consume(q, b).body), Consume(q, b).bytes)
          /\ Consume(q, b).body \in Bytes
      BY <3>1, TurnIs
    <3> QED BY <3>2 DEF q, z
  <2> HIDE DEF c, h, g
  <2>3. SseFeed(s, h.body) = SseFeed(SseFeed(s, c.body), g.body)
    BY <1>1, <1>6, <2>2, SseCut
  <2> QED BY <1>1, <1>3, <1>6, <2>2, <2>3 DEF Left
<1> HIDE DEF c, h
<1> QED BY <1>4, <1>5, <1>6 DEF Joins

LEMMA FeedTurns ==
  ASSUME NEW p, NEW s, NEW bytes \in Bytes
  PROVE  \E left : /\ left[0] = Left(p, s, bytes) /\ \A i \in 1..Len(bytes) : left[i] = Turn(left[i - 1])
                   /\ FeedBytes(p, s, bytes) = left[Len(bytes)]
<1> DEFINE n == Len(bytes)
           Run(g, m) == g = [i \in 0..m |-> IF i = 0 THEN [p |-> p, s |-> s, bytes |-> bytes] ELSE Turn(g[i - 1])]
           S == {m \in 0..n : \E g : Run(g, m)}
<1>1. n \in Nat
  BY DEF Bytes
<1> HIDE DEF n
<1>2. 0 \in S
  <2>1. Run([i \in 0..0 |-> [p |-> p, s |-> s, bytes |-> bytes]], 0)
    OBVIOUS
  <2> HIDE DEF Run
  <2> QED BY <1>1, <2>1
<1>3. ASSUME NEW m \in S, m < n PROVE m + 1 \in S
  <2>1. PICK g : Run(g, m)
    BY <1>3
  <2> DEFINE h == [i \in 0..m + 1 |-> IF i <= m THEN g[i] ELSE Turn(g[m])]
  <2>2. Run(h, m + 1)
    <3>1. \A i \in 0..m + 1 : h[i] = IF i = 0 THEN [p |-> p, s |-> s, bytes |-> bytes] ELSE Turn(h[i - 1])
      BY <2>1, <1>1
    <3> QED BY <3>1
  <2> HIDE DEF Run, h
  <2> QED BY <1>1, <1>3, <2>2
<1>4. n \in S
  <2> HIDE DEF S
  <2>1. S \in SUBSET (0..n)
    BY DEF S
  <2> QED BY <1>1, <1>2, <1>3, <2>1, CountUp
<1>5. PICK g : Run(g, n)
  BY <1>4
<1> DEFINE left == CHOOSE f : f = [i \in 0..n |-> IF i = 0 THEN [p |-> p, s |-> s, bytes |-> bytes] ELSE Turn(f[i - 1])]
<1>6. Run(left, n)
  BY <1>5
<1>7. FeedBytes(p, s, bytes) = left[n]
  BY DEF FeedBytes, n
<1> HIDE DEF left
<1>8. left[0] = Left(p, s, bytes) /\ \A i \in 1..n : left[i] = Turn(left[i - 1])
  BY <1>1, <1>6 DEF Left
<1> QED BY <1>7, <1>8 DEF n

\* The turns after the last one change nothing.
LEMMA TurnsStay ==
  ASSUME NEW t, NEW k \in Nat, NEW m \in Nat, Over(t[k]), \A i \in k + 1..k + m : t[i] = Turn(t[i - 1])
  PROVE  t[k + m] = t[k]
<1> DEFINE S == {i \in 0..m : t[k + i] = t[k]}
<1>1. 0 \in S
  OBVIOUS
<1>2. ASSUME NEW i \in S, i < m PROVE i + 1 \in S
  <2>1. k + (i + 1) \in k + 1..k + m /\ (k + (i + 1)) - 1 = k + i /\ i + 1 \in 0..m
    BY <1>2
  <2>2. t[k + (i + 1)] = Turn(t[(k + (i + 1)) - 1])
    BY <2>1
  <2>3. t[k + (i + 1)] = Turn(t[k])
    BY <1>2, <2>1, <2>2
  <2> QED BY <2>1, <2>3 DEF Turn
<1> HIDE DEF S
<1>3. S \in SUBSET (0..m)
  BY DEF S
<1>4. m \in S
  BY <1>1, <1>2, <1>3, CountUp
<1> QED BY <1>4 DEF S

LEMMA FeedOver ==
  ASSUME NEW p, NEW s, NEW x \in Bytes, Over(Left(p, s, x))
  PROVE  FeedBytes(p, s, x) = Left(p, s, x)
<1>1. PICK t : /\ t[0] = Left(p, s, x) /\ \A i \in 1..Len(x) : t[i] = Turn(t[i - 1])
               /\ FeedBytes(p, s, x) = t[Len(x)]
  BY FeedTurns
<1>2. Len(x) \in Nat /\ 0 + Len(x) = Len(x) /\ 0 + 1 = 1
  BY DEF Bytes
<1>3. t[0 + Len(x)] = t[0]
  <2>1. Over(t[0]) /\ \A i \in 0 + 1..0 + Len(x) : t[i] = Turn(t[i - 1])
    BY <1>1, <1>2
  <2>2. 0 \in Nat /\ Len(x) \in Nat
    BY <1>2
  <2> QED BY <2>1, <2>2, TurnsStay
<1> QED BY <1>1, <1>2, <1>3

\* After as many turns as there are bytes the loop has ended.
LEMMA FeedEnds ==
  ASSUME NEW p \in Parsers, NEW s, NEW x \in Bytes, NEW t, t[0] = Left(p, s, x),
         \A i \in 1..Len(x) : t[i] = Turn(t[i - 1])
  PROVE  /\ \A i \in 0..Len(x) : t[i].p \in Parsers /\ t[i].bytes \in Bytes /\ t[i] = Left(t[i].p, t[i].s, t[i].bytes)
         /\ Over(t[Len(x)])
<1> DEFINE n == Len(x)
           Good(i) == /\ t[i].p \in Parsers /\ t[i].bytes \in Bytes /\ t[i] = Left(t[i].p, t[i].s, t[i].bytes)
                      /\ Over(t[i]) \/ Len(t[i].bytes) + i <= n
           S == {i \in 0..n : \A j \in 0..i : Good(j)}
<1>1. n \in Nat
  BY DEF Bytes
<1>2. 0 \in S
  <2>1. Good(0)
    BY <1>1 DEF Left
  <2> HIDE DEF Good
  <2> QED BY <1>1, <2>1
<1>3. ASSUME NEW k \in S, k < n PROVE k + 1 \in S
  <2>1. k + 1 \in 1..n /\ (k + 1) - 1 = k /\ k + 1 \in 0..n /\ k \in 0..k /\ k \in Nat
    BY <1>1, <1>3
  <2>2. t[k + 1] = Turn(t[k]) /\ Good(k)
    BY <1>3, <2>1
  <2>3. Good(k + 1)
    <3>1. CASE Over(t[k])
      <4>1. t[k + 1] = t[k]
        BY <2>2, <3>1 DEF Turn
      <4> QED BY <2>2, <3>1, <4>1
    <3>2. CASE ~Over(t[k])
      <4> DEFINE q == t[k].p
                 z == t[k].s
                 y == t[k].bytes
                 c == Consume(q, y)
      <4>1. q \in Parsers /\ y \in Bytes /\ t[k] = Left(q, z, y) /\ Len(y) + k <= n /\ ~Over(Left(q, z, y))
        BY <2>2, <3>2
      <4> HIDE DEF q, z, y
      <4>2. /\ t[k + 1] = Left(c.p, SseFeed(z, c.body), c.bytes) /\ c.p \in Parsers /\ c.bytes \in Bytes
            /\ Len(c.bytes) < Len(y)
        BY <2>2, <4>1, TurnIs
      <4>3. Len(c.bytes) + (k + 1) <= n
        <5>1. Len(c.bytes) \in Nat /\ Len(y) \in Nat
          BY <4>1, <4>2 DEF Bytes
        <5> HIDE DEF c
        <5> QED BY <1>1, <2>1, <4>1, <4>2, <5>1
      <4> HIDE DEF c
      <4> QED BY <4>2, <4>3 DEF Left
    <3> QED BY <3>1, <3>2
  <2> HIDE DEF Good
  <2>4. \A j \in 0..k + 1 : j \in 0..k \/ j = k + 1
    BY <2>1
  <2> QED BY <1>3, <2>1, <2>3, <2>4
<1>4. n \in S
  <2> HIDE DEF S
  <2>1. S \in SUBSET (0..n)
    BY DEF S
  <2> QED BY <1>1, <1>2, <1>3, <2>1, CountUp
<1>5. \A j \in 0..n : Good(j)
  BY <1>4
<1>6. Over(t[n])
  <2>1. Good(n)
    <3> HIDE DEF Good
    <3> QED BY <1>1, <1>5
  <2>2. Len(t[n].bytes) \in Nat
    BY <2>1 DEF Bytes
  <2>3. CASE Len(t[n].bytes) + n <= n
    <3>1. Len(t[n].bytes) = 0
      BY <1>1, <2>2, <2>3
    <3>2. t[n].bytes = <<>>
      BY <2>1, <3>1, EmptySeq DEF Bytes
    <3> QED BY <3>2 DEF Over
  <2> QED BY <2>1, <2>3
<1> QED BY <1>5, <1>6

LEMMA FeedTurn ==
  ASSUME NEW p \in Parsers, NEW s, NEW x \in Bytes, ~Over(Left(p, s, x))
  PROVE  LET r == Turn(Left(p, s, x)) IN FeedBytes(p, s, x) = FeedBytes(r.p, r.s, r.bytes)
<1> DEFINE c == Consume(p, x)
           q == c.p
           z == SseFeed(s, c.body)
           y == c.bytes
           n == Len(x)
           m == Len(y)
<1>1. Turn(Left(p, s, x)) = Left(q, z, y) /\ q \in Parsers /\ y \in Bytes /\ m < n
  BY TurnIs
<1> HIDE DEF c, q, z, y
<1>2. n \in Nat /\ m \in Nat
  BY <1>1 DEF Bytes
<1>3. PICK t : t[0] = Left(p, s, x) /\ (\A i \in 1..n : t[i] = Turn(t[i - 1])) /\ FeedBytes(p, s, x) = t[n]
  BY FeedTurns
<1>4. PICK u : u[0] = Left(q, z, y) /\ (\A i \in 1..m : u[i] = Turn(u[i - 1])) /\ FeedBytes(q, z, y) = u[m]
  BY <1>1, FeedTurns
<1>5. Over(u[m])
  BY <1>1, <1>4, FeedEnds
<1> HIDE DEF n, m
<1>6. t[m + 1] = u[m]
  <2> DEFINE S == {i \in 0..m : t[i + 1] = u[i]}
  <2>1. 0 \in S
    <3>1. 1 \in 1..n /\ 1 - 1 = 0 /\ 0 + 1 = 1
      BY <1>1, <1>2
    <3> QED BY <1>1, <1>2, <1>3, <1>4, <3>1
  <2>2. ASSUME NEW i \in S, i < m PROVE i + 1 \in S
    <3>1. (i + 1) + 1 \in 1..n /\ i + 1 \in 1..m /\ (i + 1) - 1 = i /\ ((i + 1) + 1) - 1 = i + 1
      BY <1>1, <1>2, <2>2
    <3>2. t[(i + 1) + 1] = Turn(t[((i + 1) + 1) - 1]) /\ u[i + 1] = Turn(u[(i + 1) - 1])
      BY <1>3, <1>4, <3>1
    <3>3. t[i + 1] = u[i]
      BY <2>2
    <3>4. t[(i + 1) + 1] = u[i + 1]
      BY <3>1, <3>2, <3>3
    <3> QED BY <3>1, <3>4
  <2> HIDE DEF S
  <2>3. S \in SUBSET (0..m)
    BY DEF S
  <2>4. m \in S
    BY <1>2, <2>1, <2>2, <2>3, CountUp
  <2> QED BY <2>4 DEF S
<1>7. t[n] = t[m + 1]
  <2> DEFINE k == m + 1
             h == n - k
  <2>1. k \in Nat /\ h \in Nat /\ k + h = n /\ \A i \in k + 1..n : i \in 1..n
    BY <1>1, <1>2
  <2>2. Over(t[k]) /\ \A i \in k + 1..k + h : t[i] = Turn(t[i - 1])
    <3> HIDE DEF h
    <3> QED BY <1>3, <1>5, <1>6, <2>1
  <2> HIDE DEF k, h
  <2>3. t[k + h] = t[k]
    BY <2>1, <2>2, TurnsStay
  <2> QED BY <2>1, <2>3 DEF k
<1> QED BY <1>1, <1>3, <1>4, <1>6, <1>7 DEF Left

\* Two pieces, one after the other, leave the parser and the splitter where both at once do.
LEMMA FeedCut ==
  ASSUME NEW p \in Parsers, NEW s, NEW a \in Bytes, NEW b \in Bytes
  PROVE  LET f == FeedBytes(p, s, a)
             g == FeedBytes(f.p, f.s, b)
             w == FeedBytes(p, s, a \o b)
         IN f.p \in Parsers /\ w.p = g.p /\ w.s = g.s
<1> DEFINE n == Len(a)
           w == FeedBytes(p, s, a \o b)
<1>0. n \in Nat /\ a \o b \in Bytes
  BY DEF Bytes
<1>1. PICK t : t[0] = Left(p, s, a) /\ (\A i \in 1..n : t[i] = Turn(t[i - 1])) /\ FeedBytes(p, s, a) = t[n]
  BY FeedTurns
<1>2. /\ \A i \in 0..n : t[i].p \in Parsers /\ t[i].bytes \in Bytes /\ t[i] = Left(t[i].p, t[i].s, t[i].bytes)
      /\ Over(t[n])
  BY <1>1, FeedEnds
<1> DEFINE f == t[n]
           g == FeedBytes(f.p, f.s, b)
<1>3. f.p \in Parsers /\ f.bytes \in Bytes /\ f = Left(f.p, f.s, f.bytes) /\ Over(f)
  <2>1. n \in 0..n
    BY <1>0
  <2> HIDE DEF n
  <2> QED BY <1>2, <2>1
<1>4. CASE b = <<>>
  <2>1. a \o b = a
    BY <1>4, ConcatEmptySeq DEF Bytes
  <2>2. Over(Left(f.p, f.s, b))
    <3> HIDE DEF f
    <3> QED BY <1>4 DEF Over, Left
  <2>3. g = Left(f.p, f.s, b)
    <3> HIDE DEF f
    <3> QED BY <2>2, FeedOver
  <2> QED BY <1>1, <1>3, <2>1, <2>3 DEF Left
<1>5. CASE b # <<>>
  <2> DEFINE S == {i \in 0..n : FeedBytes(t[i].p, t[i].s, t[i].bytes \o b) = w}
  <2>1. 0 \in S
    BY <1>0, <1>1 DEF Left
  <2>2. ASSUME NEW k \in S, k < n PROVE k + 1 \in S
    <3>1. k + 1 \in 1..n /\ (k + 1) - 1 = k /\ k + 1 \in 0..n /\ k \in 0..n
      BY <1>0, <2>2
    <3> DEFINE q == t[k].p
               z == t[k].s
               y == t[k].bytes
               e == Turn(Left(q, z, y))
               d == Turn(Left(q, z, y \o b))
    <3>2. q \in Parsers /\ y \in Bytes /\ t[k] = Left(q, z, y) /\ FeedBytes(q, z, y \o b) = w
      BY <1>2, <2>2, <3>1
    <3>3. t[k + 1] = Turn(t[k]) /\ t[k + 1].p \in Parsers
      BY <1>1, <1>2, <3>1
    <3> HIDE DEF n, w, q, z, y
    <3>4. CASE Over(t[k])
      <4>1. t[k + 1] = t[k]
        BY <3>3, <3>4 DEF Turn
      <4> QED BY <2>2, <3>1, <4>1
    <3>5. CASE ~Over(t[k])
      <4>1. ~Over(Left(q, z, y)) /\ e = t[k + 1]
        BY <3>2, <3>3, <3>5
      <4>2. y \o b \in Bytes /\ ~Over(Left(q, z, y \o b))
        <5>1. y # <<>> /\ ~Ended(q)
          BY <4>1 DEF Over, Left, Ended
        <5>2. y \o b \in Bytes /\ y \o b # <<>>
          BY <3>2, <5>1 DEF Bytes
        <5> QED BY <5>1, <5>2 DEF Over, Left, Ended
      <4>3. w = FeedBytes(d.p, d.s, d.bytes)
        BY <3>2, <4>2, FeedTurn
      <4>4. \/ d = Left(e.p, e.s, e.bytes \o b)
            \/ e.bytes = <<>> /\ ~Ended(e.p) /\ d = Turn(Left(e.p, e.s, b))
        BY <1>5, <3>2, <4>1, TurnCut
      <4> HIDE DEF e, d
      <4>5. FeedBytes(e.p, e.s, e.bytes \o b) = w
        <5>1. CASE d = Left(e.p, e.s, e.bytes \o b)
          BY <4>3, <5>1 DEF Left
        <5>2. CASE e.bytes = <<>> /\ ~Ended(e.p) /\ d = Turn(Left(e.p, e.s, b))
          <6>1. e.bytes \o b = b
            BY <5>2, ConcatEmptySeq DEF Bytes
          <6>2. ~Over(Left(e.p, e.s, b)) /\ e.p \in Parsers
            BY <1>5, <3>3, <4>1, <5>2 DEF Over, Left, Ended
          <6>3. FeedBytes(e.p, e.s, b) = FeedBytes(d.p, d.s, d.bytes)
            BY <5>2, <6>2, FeedTurn
          <6> QED BY <4>3, <6>1, <6>3
        <5> QED BY <4>4, <5>1, <5>2
      <4> QED BY <3>1, <4>1, <4>5
    <3> QED BY <3>4, <3>5
  <2>3. FeedBytes(f.p, f.s, f.bytes \o b) = w
    <3> HIDE DEF S
    <3>1. S \in SUBSET (0..n)
      BY DEF S
    <3>2. n \in S
      <4> HIDE DEF n
      <4> QED BY <1>0, <2>1, <2>2, <3>1, CountUp
    <3> QED BY <3>2 DEF S
  <2> HIDE DEF f, w
  <2>4. CASE f.bytes = <<>>
    <3>1. f.bytes \o b = b
      BY <2>4, ConcatEmptySeq DEF Bytes
    <3> QED BY <1>1, <1>3, <2>3, <3>1 DEF f, w
  <2>5. CASE Ended(f.p)
    <3>1. f.bytes \o b \in Bytes /\ Over(Left(f.p, f.s, f.bytes \o b)) /\ Over(Left(f.p, f.s, b))
      BY <1>3, <2>5 DEF Over, Left, Ended, Bytes
    <3>2. w = Left(f.p, f.s, f.bytes \o b) /\ g = Left(f.p, f.s, b)
      BY <2>3, <3>1, FeedOver
    <3>3. w.p = g.p /\ w.s = g.s
      BY <3>2 DEF Left
    <3> QED BY <1>1, <1>3, <3>3 DEF f, w
  <2> QED BY <1>3, <2>4, <2>5 DEF Over, Ended
<1> QED BY <1>4, <1>5

CutsInv ==
  /\ response \in Replies /\ pos \in 0..Len(response.bytes) /\ parser \in Parsers /\ CutsDoNotMatter

LEMMA CutsKept == ParserSpec => []CutsInv
<1>1. ParserInit => CutsInv
  <2> SUFFICES ASSUME ParserInit PROVE CutsInv
    OBVIOUS
  <2>1. response \in Replies /\ pos = 0 /\ parser = NewParser /\ sse = NewSse /\ response.bytes \in Bytes
    BY ParserAssumption DEF ParserInit, Bytes
  <2>2. NewParser \in Parsers
    BY ParserAssumption DEF NewParser, Parsers, Members, Ready, States, Bytes
  <2>3. SubSeq(response.bytes, 1, 0) = <<>>
    BY SubSeqEmpty
  <2>4. FeedBytes(NewParser, NewSse, <<>>) = Left(NewParser, NewSse, <<>>)
    <3>1. <<>> \in Bytes /\ Over(Left(NewParser, NewSse, <<>>))
      BY DEF Bytes, Over, Left
    <3> QED BY <3>1, FeedOver
  <2>5. CutsDoNotMatter
    <3> DEFINE w == FeedBytes(NewParser, NewSse, SubSeq(response.bytes, 1, pos))
    <3>1. w = Left(NewParser, NewSse, <<>>)
      BY <2>1, <2>3, <2>4
    <3>2. w.p = NewParser /\ w.s = NewSse
      <4> HIDE DEF w
      <4> QED BY <3>1 DEF Left
    <3> QED BY <2>1, <3>2 DEF CutsDoNotMatter
  <2>6. pos \in 0..Len(response.bytes)
    BY <2>1 DEF Bytes
  <2> QED BY <2>1, <2>2, <2>5, <2>6 DEF CutsInv
<1>2. CutsInv /\ [ParserNext]_parserVars => CutsInv'
  <2> SUFFICES ASSUME CutsInv, [ParserNext]_parserVars PROVE CutsInv'
    OBVIOUS
  <2>1. CASE UNCHANGED parserVars
    BY <2>1 DEF parserVars, CutsInv, CutsDoNotMatter
  <2>2. ASSUME NEW n \in 1..MaxRead, Read(n) PROVE CutsInv'
    <3> DEFINE x == response.bytes
               a == SubSeq(x, 1, pos)
               b == SubSeq(x, pos + 1, pos + n)
               f == FeedBytes(NewParser, NewSse, a)
               r == FeedBytes(parser, sse, b)
               h == FeedBytes(NewParser, NewSse, a \o b)
    <3>1. x \in Bytes /\ pos \in 0..Len(x) /\ n \in Nat /\ Len(x) \in Nat
      BY ParserAssumption, <2>2 DEF CutsInv, Bytes
    <3>2. /\ pos + n <= Len(x) /\ pos' = pos + n /\ parser' = r.p /\ sse' = r.s /\ response' = response
      BY <2>2 DEF Read
    <3>3. parser = f.p /\ sse = f.s
      BY DEF CutsInv, CutsDoNotMatter
    <3> HIDE DEF x
    <3>4. a \in Bytes /\ b \in Bytes
      <4>1. /\ 1 \in 1..Len(x) + 1 /\ pos \in 1 - 1..Len(x)
            /\ pos + 1 \in 1..Len(x) + 1 /\ pos + n \in (pos + 1) - 1..Len(x)
        BY <3>1, <3>2
      <4> QED BY <3>1, <4>1, PartOf DEF Bytes
    <3>5. a \o b = SubSeq(x, 1, pos + n)
      <4>1. 1 \in 1..Len(x) + 1 /\ pos \in 1 - 1..Len(x) /\ pos + n \in pos..Len(x)
        BY <3>1, <3>2
      <4> QED BY <3>1, <4>1, ConcatAdjacentSubSeq DEF Bytes
    <3>6. NewParser \in Parsers
      BY ParserAssumption DEF NewParser, Parsers, Members, Ready, States, Bytes
    <3>7. h.p = r.p /\ h.s = r.s
      <4> HIDE DEF a, b
      <4> QED BY <3>3, <3>4, <3>6, FeedCut
    <3>8. r.p \in Parsers
      <4>1. parser \in Parsers /\ <<>> \in Bytes
        BY DEF CutsInv, Bytes
      <4> HIDE DEF b
      <4> QED BY <3>4, <4>1, FeedCut
    <3>9. CutsDoNotMatter'
      <4>1. h = FeedBytes(NewParser, NewSse, SubSeq(response.bytes, 1, pos + n))
        BY <3>5 DEF x
      <4> HIDE DEF h, r
      <4> QED BY <3>2, <3>7, <4>1 DEF CutsDoNotMatter
    <3>10. pos' \in 0..Len(response'.bytes) /\ response' \in Replies
      BY <3>1, <3>2 DEF CutsInv, x
    <3> QED BY <3>2, <3>8, <3>9, <3>10 DEF CutsInv
  <2> QED BY <2>1, <2>2 DEF ParserNext
<1> QED BY <1>1, <1>2, PTL DEF ParserSpec

\* HttpStreamParser::feed and SseLineSplitter::feed (src/http_stream_parser.cpp): of any response, cut into any
\* reads, the parser and the splitter are always where one read of the same bytes would have taken them.
THEOREM CutsNeverMatter == ParserSpec => []CutsDoNotMatter
<1>1. CutsInv => CutsDoNotMatter
  BY DEF CutsInv
<1> QED BY <1>1, CutsKept, PTL

-----------------------------------------------------------------------------
\* Events are only ever added: whatever follows, those delivered are the first of those of the whole response.

Sses == [line : Bytes, data : Seq(Nat), haveData : BOOLEAN, expectLf : BOOLEAN, events : Seq(Seq(Nat))]
Grows(s, t) == t \in Sses /\ IsPrefix(s.events, t.events)

LEMMA PrefixIs ==
  ASSUME NEW S, NEW s \in Seq(S), NEW t \in Seq(S)
  PROVE  IsPrefix(s, t) <=> Len(s) <= Len(t) /\ \A i \in 1..Len(s) : s[i] = t[i]
<1> DEFINE k == Len(s)
<1>1. k \in Nat /\ Len(t) \in Nat
  OBVIOUS
<1>2. /\ SubSeq(s, 1, k) \in Seq(S) /\ Len(SubSeq(s, 1, k)) = k - 1 + 1
      /\ \A i \in 1..k - 1 + 1 : SubSeq(s, 1, k)[i] = s[1 + i - 1]
  <2>1. 1 \in 1..Len(s) + 1 /\ k \in 1 - 1..Len(s)
    BY <1>1
  <2> QED BY <2>1, PartOf
<1>3. ASSUME k <= Len(t)
      PROVE  /\ SubSeq(t, 1, k) \in Seq(S) /\ Len(SubSeq(t, 1, k)) = k - 1 + 1
             /\ \A i \in 1..k - 1 + 1 : SubSeq(t, 1, k)[i] = t[1 + i - 1]
  <2>1. 1 \in 1..Len(t) + 1 /\ k \in 1 - 1..Len(t)
    BY <1>1, <1>3
  <2> QED BY <2>1, PartOf
<1>4. k - 1 + 1 = k /\ \A i \in 1..k : 1 + i - 1 = i
  BY <1>1
<1>5. ASSUME IsPrefix(s, t) PROVE \A i \in 1..k : s[i] = t[i]
  <2>1. k <= Len(t) /\ SubSeq(s, 1, k) = SubSeq(t, 1, k)
    BY <1>5 DEF IsPrefix
  <2> HIDE DEF k
  <2> QED BY <2>1, <1>2, <1>3, <1>4
<1>6. ASSUME k <= Len(t), \A i \in 1..k : s[i] = t[i] PROVE IsPrefix(s, t)
  <2> DEFINE u == SubSeq(s, 1, k)
             v == SubSeq(t, 1, k)
  <2>1. /\ u \in Seq(S) /\ v \in Seq(S) /\ Len(u) = k /\ Len(v) = k
        /\ \A i \in 1..k : u[i] = s[i] /\ v[i] = t[i]
    <3> HIDE DEF k
    <3> QED BY <1>2, <1>3, <1>4, <1>6
  <2> HIDE DEF u, v
  <2>2. u = v
    <3>1. \A i \in 1..k : u[i] = v[i]
      BY <2>1, <1>6
    <3> QED BY <2>1, <3>1, SeqEqual
  <2> QED BY <1>6, <2>2 DEF IsPrefix, u, v
<1>7. IsPrefix(s, t) => k <= Len(t)
  BY DEF IsPrefix
<1> QED BY <1>5, <1>6, <1>7

LEMMA GrowsOn ==
  ASSUME NEW s \in Sses, NEW t, NEW u, Grows(s, t), Grows(t, u)
  PROVE  Grows(s, u)
<1> DEFINE a == s.events
           b == t.events
           c == u.events
           E == Seq(Nat)
<1>1. a \in Seq(E) /\ b \in Seq(E) /\ c \in Seq(E) /\ IsPrefix(a, b) /\ IsPrefix(b, c) /\ u \in Sses
  BY DEF Grows, Sses
<1> HIDE DEF a, b, c, E
<1>2. IsPrefix(a, c)
  <2>1. Len(a) \in Nat /\ Len(b) \in Nat /\ Len(c) \in Nat
    BY <1>1
  <2>2. /\ Len(a) <= Len(b) /\ \A i \in 1..Len(a) : a[i] = b[i]
        /\ Len(b) <= Len(c) /\ \A i \in 1..Len(b) : b[i] = c[i]
    BY <1>1, PrefixIs
  <2>3. Len(a) <= Len(c) /\ \A i \in 1..Len(a) : a[i] = c[i]
    BY <2>1, <2>2
  <2> QED BY <1>1, <2>3, PrefixIs
<1> QED BY <1>1, <1>2 DEF Grows, a, c

LEMMA GrowsNot == \A s, t \in Sses : t.events = s.events => Grows(s, t)
<1> SUFFICES ASSUME NEW s \in Sses, NEW t \in Sses, t.events = s.events PROVE IsPrefix(s.events, s.events)
  BY DEF Grows
<1>1. s.events \in Seq(Seq(Nat)) /\ Len(s.events) \in Nat
  BY DEF Sses
<1> QED BY <1>1, PrefixIs

LEMMA GrowsByOne ==
  ASSUME NEW s \in Sses, NEW t \in Sses, NEW x \in Seq(Nat), t.events = Append(s.events, x)
  PROVE  Grows(s, t)
<1> DEFINE a == s.events
           b == t.events
           E == Seq(Nat)
<1>1. a \in Seq(E) /\ b \in Seq(E) /\ x \in E /\ b = Append(a, x)
  BY DEF Sses
<1> HIDE DEF a, b, E
<1>2. Len(a) \in Nat /\ Len(b) = Len(a) + 1 /\ \A i \in 1..Len(a) : b[i] = a[i]
  BY <1>1
<1>3. IsPrefix(a, b)
  <2>1. Len(a) <= Len(b) /\ \A i \in 1..Len(a) : a[i] = b[i]
    BY <1>2
  <2> QED BY <1>1, <2>1, PrefixIs
<1> QED BY <1>3 DEF Grows, a, b

LEMMA LineGrows == \A s \in Sses : Grows(s, ProcessLine(s))
<1> SUFFICES ASSUME NEW s \in Sses PROVE Grows(s, ProcessLine(s))
  OBVIOUS
<1> DEFINE t == ProcessLine(s)
<1>0. <<>> \in Bytes /\ <<>> \in Seq(Nat) /\ s.data \in Seq(Nat) /\ s.events \in Seq(Seq(Nat)) /\ s.line \in Bytes
  BY DEF Sses, Bytes
<1>1. CASE s.line = <<>> /\ s.haveData
  <2>1. t = [[s EXCEPT !.events = Append(s.events, s.data), !.data = <<>>, !.haveData = FALSE] EXCEPT !.line = <<>>]
    BY <1>1 DEF ProcessLine, FlushEvent
  <2>2. Append(s.events, s.data) \in Seq(Seq(Nat))
    BY <1>0
  <2> DEFINE e == Append(s.events, s.data)
  <2> HIDE DEF e
  <2>3. t \in Sses /\ t.events = e
    <3>1. e \in Seq(Seq(Nat)) /\ t = [[s EXCEPT !.events = e, !.data = <<>>, !.haveData = FALSE] EXCEPT !.line = <<>>]
      BY <2>1, <2>2 DEF e
    <3> QED BY <1>0, <3>1 DEF Sses
  <2> HIDE DEF t
  <2> QED BY <1>0, <2>3, GrowsByOne DEF e, t
<1>2. CASE s.line = <<>> /\ ~s.haveData
  <2>1. t = [s EXCEPT !.line = <<>>]
    BY <1>2 DEF ProcessLine, FlushEvent
  <2>2. t \in Sses /\ t.events = s.events
    BY <1>0, <2>1 DEF Sses
  <2> QED BY <2>2, GrowsNot
<1>3. CASE s.line # <<>> /\ s.line[1].kind = "data"
  <2> DEFINE v == s.line[1].v
             d == Append(s.data, v)
  <2>1. v \in Nat
    <3>1. s.line[1] \in Symbols
      BY <1>0, <1>3 DEF Bytes
    <3> QED BY <1>3, <3>1 DEF Symbols, Pieces, CR, LF
  <2>2. t = [[s EXCEPT !.data = d, !.haveData = TRUE] EXCEPT !.line = <<>>]
    BY <1>3 DEF ProcessLine
  <2>3. d \in Seq(Nat)
    <3> HIDE DEF v
    <3> QED BY <1>0, <2>1
  <2> HIDE DEF d
  <2>4. t \in Sses /\ t.events = s.events
    BY <1>0, <2>2, <2>3 DEF Sses
  <2> QED BY <2>4, GrowsNot
<1>4. CASE s.line # <<>> /\ s.line[1].kind # "data"
  <2>1. t = [s EXCEPT !.line = <<>>]
    BY <1>4 DEF ProcessLine
  <2>2. t \in Sses /\ t.events = s.events
    BY <1>0, <2>1 DEF Sses
  <2> QED BY <2>2, GrowsNot
<1> QED BY <1>1, <1>2, <1>3, <1>4

LEMMA ByteGrows == \A s \in Sses : \A c \in Symbols : Grows(s, SseByte(s, c))
<1> SUFFICES ASSUME NEW s \in Sses, NEW c \in Symbols PROVE Grows(s, SseByte(s, c))
  OBVIOUS
<1> DEFINE q == ProcessLine(s)
           t == SseByte(s, c)
<1>1. q \in Sses /\ Grows(s, q)
  BY LineGrows DEF Grows
<1> HIDE DEF q
<1>2. CASE c = CR
  <2>1. t = [q EXCEPT !.expectLf = TRUE]
    BY <1>2 DEF SseByte, q
  <2>2. t \in Sses /\ t.events = q.events
    BY <1>1, <2>1 DEF Sses
  <2> QED BY <1>1, <2>2 DEF Grows
<1>3. CASE c # CR /\ c = LF /\ s.expectLf
  <2>1. t = [s EXCEPT !.expectLf = FALSE]
    BY <1>3 DEF SseByte
  <2>2. t \in Sses /\ t.events = s.events
    BY <2>1 DEF Sses
  <2> QED BY <2>2, GrowsNot
<1>4. CASE c # CR /\ c = LF /\ ~s.expectLf
  <2>1. t = q
    BY <1>4 DEF SseByte, q
  <2> QED BY <1>1, <2>1
<1>5. CASE c # CR /\ c # LF
  <2>1. t = [s EXCEPT !.line = Append(s.line, c), !.expectLf = FALSE]
    BY <1>5 DEF SseByte
  <2>2. Append(s.line, c) \in Bytes
    BY DEF Sses, Bytes
  <2>3. t \in Sses /\ t.events = s.events
    BY <2>1, <2>2 DEF Sses
  <2> QED BY <2>3, GrowsNot
<1> QED BY <1>2, <1>3, <1>4, <1>5

LEMMA SseGrows ==
  ASSUME NEW s \in Sses, NEW bytes \in Bytes
  PROVE  Grows(s, SseFeed(s, bytes))
<1> DEFINE n == Len(bytes)
<1>1. n \in Nat /\ \A i \in 1..n : bytes[i] \in Symbols
  BY DEF Bytes
<1>2. PICK fed : /\ fed[0] = s /\ \A i \in 1..n : fed[i] = SseByte(fed[i - 1], bytes[i])
                 /\ SseFeed(s, bytes) = fed[n]
  BY SseSteps
<1> HIDE DEF n
<1> DEFINE S == {i \in 0..n : Grows(s, fed[i])}
<1>3. 0 \in S
  BY <1>1, <1>2, GrowsNot
<1>4. ASSUME NEW i \in S, i < n PROVE i + 1 \in S
  <2>1. i + 1 \in 0..n /\ i + 1 \in 1..n /\ (i + 1) - 1 = i
    BY <1>1, <1>4
  <2>2. fed[i] \in Sses /\ Grows(s, fed[i])
    BY <1>4 DEF Grows
  <2>3. fed[i + 1] = SseByte(fed[i], bytes[i + 1]) /\ bytes[i + 1] \in Symbols
    BY <1>1, <1>2, <2>1
  <2>4. Grows(fed[i], fed[i + 1])
    BY <2>2, <2>3, ByteGrows
  <2>5. Grows(s, fed[i + 1])
    BY <2>2, <2>4, GrowsOn
  <2> QED BY <2>1, <2>5
<1> HIDE DEF S
<1>5. S \in SUBSET (0..n)
  BY DEF S
<1>6. n \in S
  BY <1>1, <1>3, <1>4, <1>5, CountUp
<1> QED BY <1>2, <1>6 DEF S

LEMMA FeedGrows ==
  ASSUME NEW p \in Parsers, NEW s \in Sses, NEW x \in Bytes
  PROVE  Grows(s, FeedBytes(p, s, x).s)
<1> DEFINE n == Len(x)
<1>1. n \in Nat
  BY DEF Bytes
<1>2. PICK t : t[0] = Left(p, s, x) /\ (\A i \in 1..n : t[i] = Turn(t[i - 1])) /\ FeedBytes(p, s, x) = t[n]
  BY FeedTurns
<1>3. \A i \in 0..n : t[i].p \in Parsers /\ t[i].bytes \in Bytes /\ t[i] = Left(t[i].p, t[i].s, t[i].bytes)
  BY <1>2, FeedEnds
<1> HIDE DEF n
<1> DEFINE S == {i \in 0..n : Grows(s, t[i].s)}
<1>4. 0 \in S
  <2>1. t[0].s = s
    BY <1>2 DEF Left
  <2> QED BY <1>1, <2>1, GrowsNot
<1>5. ASSUME NEW i \in S, i < n PROVE i + 1 \in S
  <2> DEFINE q == t[i].p
             z == t[i].s
             y == t[i].bytes
             c == Consume(q, y)
  <2>1. i + 1 \in 0..n /\ i + 1 \in 1..n /\ (i + 1) - 1 = i /\ i \in 0..n
    BY <1>1, <1>5
  <2>2. q \in Parsers /\ y \in Bytes /\ t[i] = Left(q, z, y) /\ z \in Sses /\ Grows(s, z)
    BY <1>3, <1>5, <2>1 DEF Grows
  <2>3. t[i + 1] = Turn(t[i])
    BY <1>2, <2>1
  <2> HIDE DEF q, y
  <2>4. CASE Over(t[i])
    <3>1. t[i + 1] = t[i]
      BY <2>3, <2>4 DEF Turn
    <3> QED BY <2>1, <2>2, <3>1
  <2>5. CASE ~Over(t[i])
    <3>1. t[i + 1] = Left(c.p, SseFeed(z, c.body), c.bytes) /\ c.body \in Bytes
      <4> HIDE DEF z
      <4> QED BY <2>2, <2>3, <2>5, TurnIs
    <3>2. t[i + 1].s = SseFeed(z, c.body)
      <4> HIDE DEF c, z
      <4> QED BY <3>1 DEF Left
    <3>3. Grows(z, t[i + 1].s)
      BY <2>2, <3>1, <3>2, SseGrows
    <3>4. Grows(s, t[i + 1].s)
      BY <2>2, <3>3, GrowsOn
    <3> QED BY <2>1, <3>4
  <2> QED BY <2>4, <2>5
<1> HIDE DEF S
<1>6. S \in SUBSET (0..n)
  BY DEF S
<1>7. n \in S
  BY <1>1, <1>4, <1>5, <1>6, CountUp
<1> QED BY <1>2, <1>7 DEF S

\* HttpStreamParser::feed and SseLineSplitter::feed (src/http_stream_parser.cpp): if each response gives its
\* events when it comes in one read, then however the reads cut it the events delivered are the first of its
\* events, and all of them once it has been read.
THEOREM EventsSurviveCuts ==
  ASSUME \A r \in Replies : FeedBytes(NewParser, NewSse, r.bytes).s.events = r.events
  PROVE  ParserSpec => []EventsAreThoseSent
<1>1. CutsInv => EventsAreThoseSent
  <2> SUFFICES ASSUME CutsInv PROVE EventsAreThoseSent
    OBVIOUS
  <2> DEFINE x == response.bytes
             a == SubSeq(x, 1, pos)
             b == SubSeq(x, pos + 1, Len(x))
             f == FeedBytes(NewParser, NewSse, a)
             g == FeedBytes(f.p, f.s, b)
  <2>1. x \in Bytes /\ Len(x) \in Nat /\ pos \in 0..Len(x) /\ sse = f.s
    BY ParserAssumption DEF CutsInv, CutsDoNotMatter, Bytes
  <2>2. FeedBytes(NewParser, NewSse, x).s.events = response.events
    BY DEF CutsInv
  <2> HIDE DEF x
  <2>3. a \in Bytes /\ b \in Bytes /\ a \o b = x
    <3>1. a \in Bytes /\ b \in Bytes
      <4>1. 1 \in 1..Len(x) + 1 /\ pos \in 1 - 1..Len(x) /\ pos + 1 \in 1..Len(x) + 1 /\ Len(x) \in (pos + 1) - 1..Len(x)
        BY <2>1
      <4> QED BY <2>1, <4>1, PartOf DEF Bytes
    <3>2. a \o b = SubSeq(x, 1, Len(x))
      <4>1. 1 \in 1..Len(x) + 1 /\ pos \in 1 - 1..Len(x) /\ Len(x) \in pos..Len(x)
        BY <2>1
      <4> QED BY <2>1, <4>1, ConcatAdjacentSubSeq DEF Bytes
    <3>3. SubSeq(x, 1, Len(x)) = x
      BY <2>1, SubSeqFull DEF Bytes
    <3> QED BY <3>1, <3>2, <3>3
  <2>4. NewParser \in Parsers /\ NewSse \in Sses
    <3>1. NewParser \in Parsers
      BY ParserAssumption DEF NewParser, Parsers, Members, Ready, States, Bytes
    <3>2. NewSse \in Sses
      BY DEF NewSse, Sses, Bytes
    <3> QED BY <3>1, <3>2
  <2> HIDE DEF a, b
  <2>5. f.p \in Parsers /\ f.s \in Sses
    <3>1. f.s \in Sses
      BY <2>3, <2>4, FeedGrows DEF Grows
    <3>2. f.p \in Parsers
      BY <2>3, <2>4, FeedCut
    <3> QED BY <3>1, <3>2
  <2>6. FeedBytes(NewParser, NewSse, x).s = g.s
    <3> DEFINE p == NewParser
               s == NewSse
    <3>1. p \in Parsers /\ a \in Bytes /\ b \in Bytes
      BY <2>3, <2>4
    <3> HIDE DEF p, s, a, b
    <3>2. FeedBytes(p, s, a \o b).s = FeedBytes(FeedBytes(p, s, a).p, FeedBytes(p, s, a).s, b).s
      BY <3>1, FeedCut
    <3>3. FeedBytes(NewParser, NewSse, a \o b).s = g.s
      BY <3>2 DEF p, s
    <3> HIDE DEF g
    <3> QED BY <2>3, <3>3
  <2> HIDE DEF f
  <2>7. Grows(f.s, g.s)
    BY <2>3, <2>5, FeedGrows
  <2>8. IsPrefix(sse.events, response.events)
    BY <2>1, <2>2, <2>6, <2>7 DEF Grows
  <2>9. ASSUME pos = Len(x) PROVE sse.events = response.events
    <3>1. b = <<>>
      BY <2>1, <2>9, SubSeqEmpty DEF b
    <3>2. a = x
      BY <2>3, <3>1, ConcatEmptySeq DEF Bytes
    <3> QED BY <2>1, <2>2, <3>2 DEF f
  <2> QED BY <2>8, <2>9 DEF EventsAreThoseSent, x
<1> QED BY <1>1, CutsKept, PTL
==============================================================================
