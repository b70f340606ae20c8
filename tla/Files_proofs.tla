------------------------------ MODULE Files_proofs -----------------------------
(***************************************************************************)
(* Proofs about what the servers keep in files.  Wiki: for any number of   *)
(* ingests, any names, answers and files, any number of crashes and of     *)
(* writes that a full disk cuts or loses.  JsonlWriter: for any number of  *)
(* lines and of rotated files, any sizes, and any number of deaths and of  *)
(* failures of the file system.                                            *)
(***************************************************************************)
EXTENDS Wiki, JsonlWriter, SequenceTheorems, TLAPS

(***************************************************************************)
(* Wiki                                                                    *)
(***************************************************************************)

Pcs == {"new", "refused", "llm", "look", "write", "rename", "log", "index", "done", "closed", "lost"}
Words == {"status", "error", "done"} \union Names
Ops == [pc : Pcs, said : SUBSET Items, todo : Seq(Items), exists : BOOLEAN, told : Seq(Names),
        updates : SUBSET Items, old : SUBSET Names, sent : Seq(Words)]

TypeInv ==
  /\ pages \in [Files -> Ingests \union {None, "cut", "own"}]
  /\ index \subseteq Names
  /\ op \in [Ingests -> Ops]
  /\ crashes \in Nat
  /\ \A f \in Files : /\ pages[f] = "cut" => "page" \in short
                      /\ pages[f] = "own" => f \in {IndexFile, LogFile}

There(n) == pages[File[n]] # None
Told(r) == {n \in Names : \E i \in DOMAIN op[r].told : op[r].told[i] = n}
Logged(r, n) == \E a \in {"create", "update"} : <<a, n, r>> \in log
\* Nothing has become of the log, of the index, but what the store did to them.
LogKept == "log" \notin short /\ ~Named(LogFile)
IndexKept == crashes = 0 /\ "index" \notin short /\ ~Named(IndexFile)
\* What may be in the index: a page that is there, or a name that an LLM put in.
Founded(n) == There(n) \/ n \in Claimed

\* Where a coroutine is says what it has of the disk and of the mutex.
OpOf(r) ==
  /\ op[r].pc \in {"write", "rename", "log"} => op[r].todo # <<>>
  /\ op[r].pc \in {"rename", "index"} => mutex = r
  /\ op[r].pc = "log" => There(Page(r))
  /\ op[r].pc = "index" => \A n \in op[r].old : Founded(n)
  /\ op[r].pc \in {"new", "llm"} => op[r].said = {}
  /\ \A i \in DOMAIN op[r].todo : op[r].todo[i] \in op[r].said
  /\ \A u \in op[r].updates : u \in op[r].said /\ u.summary /\ u.page \in Told(r)
  /\ \A n \in Told(r) : There(n) /\ (LogKept => Logged(r, n))

OpInv == \A r \in Ingests : OpOf(r)

Ended(r) == op[r].pc = "done" \/ (op[r].pc = "closed" /\ Last(op[r].sent) = "done")
\* The pages whose entries r has put into the index.
Due(r) == {n \in Names : n \in Listed[n] /\ \E u \in op[r].updates : u.page = n}

\* What the index of an ended ingest holds is in INDEX.md or, while another
\* rewrites that file, in the memory of the one that does.
IndexInv ==
  /\ \A n \in index : Founded(n)
  /\ IndexKept => \A r \in Ingests : Ended(r) =>
       /\ \A q \in Ingests : op[q].pc = "index" => Due(r) \subseteq op[q].old
       /\ (\A q \in Ingests : op[q].pc # "index") => Due(r) \subseteq index

LEMMA InitInv == Init => TypeInv /\ OpInv /\ IndexInv
  BY WikiAssumption DEF Init, Fresh, TypeInv, OpInv, OpOf, IndexInv, Ops, Pcs, Words, Told, Ended, None

LEMMA LastOf ==
  ASSUME NEW S, NEW s \in Seq(S), NEW x \in S
  PROVE  s \o <<x>> \in Seq(S) /\ Last(s \o <<x>>) = x
<1>1. <<x>> \in Seq(S) /\ Len(<<x>>) = 1 /\ <<x>>[1] = x
  OBVIOUS
<1>2. /\ s \o <<x>> \in Seq(S) /\ Len(s \o <<x>>) = Len(s) + 1
      /\ \A i \in 1 .. Len(s) + 1 : (s \o <<x>>)[i] = IF i <= Len(s) THEN s[i] ELSE <<x>>[i - Len(s)]
  BY <1>1, ConcatProperties
<1>3. Len(s) \in Nat
  OBVIOUS
<1> QED BY <1>1, <1>2, <1>3 DEF Last

\* The first of a sequence is one of its elements, and so are those of its tail.
LEMMA HeadTail ==
  ASSUME NEW S, NEW s \in Seq(S), s # <<>>, NEW T, \A i \in DOMAIN s : s[i] \in T
  PROVE  /\ Head(s) \in S \cap T /\ Tail(s) \in Seq(S)
         /\ \A i \in DOMAIN Tail(s) : Tail(s)[i] \in T
<1>1. Len(s) \in Nat \ {0} /\ Head(s) = s[1] /\ Head(s) \in S /\ Tail(s) \in Seq(S)
  BY EmptySeq, HeadTailProperties
<1>2. Len(Tail(s)) = Len(s) - 1 /\ \A i \in 1 .. Len(Tail(s)) : Tail(s)[i] = s[i + 1]
  BY HeadTailProperties
<1>3. DOMAIN s = 1 .. Len(s) /\ DOMAIN Tail(s) = 1 .. Len(Tail(s))
  BY <1>1
<1>4. 1 \in DOMAIN s /\ \A i \in DOMAIN Tail(s) : i + 1 \in DOMAIN s
  BY <1>1, <1>2, <1>3
<1> QED BY <1>1, <1>2, <1>3, <1>4

\* A page to be written.
LEMMA PageType ==
  ASSUME TypeInv, NEW r \in Ingests, OpOf(r), op[r].todo # <<>>
  PROVE  /\ Item(r) \in Items \cap op[r].said
         /\ Page(r) = Item(r).page /\ Page(r) \in Names /\ File[Page(r)] \in Files
         /\ Tail(op[r].todo) \in Seq(Items)
         /\ \A i \in DOMAIN Tail(op[r].todo) : Tail(op[r].todo)[i] \in op[r].said
<1>1. op[r].todo \in Seq(Items) /\ \A i \in DOMAIN op[r].todo : op[r].todo[i] \in op[r].said
  BY DEF TypeInv, Ops, OpOf
<1>2. /\ Item(r) \in Items \cap op[r].said /\ Tail(op[r].todo) \in Seq(Items)
      /\ \A i \in DOMAIN Tail(op[r].todo) : Tail(op[r].todo)[i] \in op[r].said
  BY <1>1, HeadTail DEF Item
<1> QED BY <1>2 DEF Page, Items, Files, Names

\* Pages are written, never removed; no fault and no answer is undone; the log only grows until a
\* page takes its place.
Grows ==
  /\ \A n \in Names : There(n) => There(n)'
  /\ \A r \in Ingests : op[r].said \subseteq op'[r].said
  /\ short \subseteq short'
  /\ LogKept' => log \subseteq log'

LEMMA GrowsBy ==
  ASSUME TypeInv, NEW r \in Ingests, NEW rec, Set(r, rec), op[r].said \subseteq rec.said,
         short \subseteq short', \A n \in Names : There(n) => There(n)', LogKept' => log \subseteq log'
  PROVE  Grows
  BY DEF Grows, Set, TypeInv

LEMMA GrowsMore ==
  ASSUME Grows
  PROVE  /\ Claimed \subseteq Claimed' /\ \A f : Named(f) => Named(f)'
         /\ \A n \in Names : Founded(n) => Founded(n)'
         /\ LogKept' => LogKept
         /\ "index" \notin short' /\ ~Named(IndexFile)' => "index" \notin short /\ ~Named(IndexFile)
<1>1. ASSUME NEW n \in Claimed PROVE n \in Claimed'
  <2>1. PICK r \in Ingests : \E u \in op[r].said : n \in Claims(u)
    BY DEF Claimed
  <2>2. \E u \in op'[r].said : n \in Claims(u)
    BY <2>1 DEF Grows
  <2> QED BY <2>1, <2>2 DEF Claimed, Claims
<1>2. \A f : Named(f) => Named(f)'
  BY DEF Grows, Named
<1>3. short \subseteq short' /\ \A n \in Names : There(n) => There(n)'
  BY DEF Grows
<1>4. \A n \in Names : Founded(n) => Founded(n)'
  BY <1>1, <1>3 DEF Founded
<1> QED BY <1>1, <1>2, <1>3, <1>4 DEF LogKept

LEMMA OpStep ==
  ASSUME TypeInv, OpInv, NEW r \in Ingests, NEW rec, Set(r, rec), Grows, OpOf(r)',
         \A q \in Ingests : q # r /\ op[q].pc \in {"rename", "index"} => mutex' = q
  PROVE  OpInv'
<1>1. SUFFICES ASSUME NEW q \in Ingests, q # r PROVE OpOf(q)'
  BY DEF OpInv
<1>2. op'[q] = op[q] /\ op[q] \in Ops
  BY <1>1 DEF Set, TypeInv
<1>3. OpOf(q)
  BY DEF OpInv
<1>4. Told(q)' = Told(q)
  BY <1>2 DEF Told
<1>5. op[q].old \subseteq Names /\ Told(q) \subseteq Names
  BY <1>2 DEF Ops, Told
<1>6. op[q].pc = "log" => There(Page(q))'
  <2>1. op[q].pc = "log" => Page(q) \in Names /\ There(Page(q))
    BY <1>3, PageType DEF OpOf
  <2>2. Page(q)' = Page(q)
    BY <1>2 DEF Page, Item
  <2> QED BY <2>1, <2>2 DEF Grows, There
<1>7. op[q].pc = "index" => \A n \in op[q].old : Founded(n)'
  BY <1>3, <1>5, GrowsMore DEF OpOf
<1>8. \A n \in Told(q) : There(n)' /\ (LogKept' => Logged(q, n)')
  <2> SUFFICES ASSUME NEW n \in Told(q) PROVE There(n)' /\ (LogKept' => Logged(q, n)')
    OBVIOUS
  <2>1. There(n) /\ (LogKept => Logged(q, n)) /\ n \in Names
    BY <1>3, <1>5 DEF OpOf
  <2>2. There(n)' /\ (LogKept' => LogKept /\ log \subseteq log')
    BY <2>1, GrowsMore DEF Grows
  <2> QED BY <2>1, <2>2 DEF Logged
<1>9. /\ op'[q].pc \in {"write", "rename", "log"} => op'[q].todo # <<>>
      /\ op'[q].pc \in {"rename", "index"} => mutex' = q
      /\ op'[q].pc \in {"new", "llm"} => op'[q].said = {}
      /\ \A i \in DOMAIN op'[q].todo : op'[q].todo[i] \in op'[q].said
      /\ \A u \in op'[q].updates : u \in op'[q].said /\ u.summary /\ u.page \in Told(q)'
  BY <1>1, <1>2, <1>3, <1>4 DEF OpOf
<1>10. /\ op'[q].pc = "log" => There(Page(q))'
       /\ op'[q].pc = "index" => \A n \in op'[q].old : Founded(n)'
       /\ \A n \in Told(q)' : There(n)' /\ (LogKept' => Logged(q, n)')
  BY <1>2, <1>4, <1>6, <1>7, <1>8
<1> QED BY <1>9, <1>10 DEF OpOf

LEMMA IndexStep ==
  ASSUME TypeInv, IndexInv, NEW r \in Ingests, NEW rec, Set(r, rec), Grows, crashes' = crashes,
         index' = index \/ (Named(IndexFile)' /\ index' \subseteq Claimed'),
         op[r].pc # "index", rec.pc # "index",
         Ended(r)' => rec.updates = {} \/ (Ended(r) /\ rec.updates = op[r].updates) \/ "index" \in short'
  PROVE  IndexInv'
<1>1. op' = [op EXCEPT ![r] = rec]
  BY DEF Set
<1>2. \A n \in index' : Founded(n)'
  <2>1. CASE index' = index
    BY <2>1, GrowsMore DEF IndexInv, TypeInv
  <2>2. CASE index' \subseteq Claimed'
    BY <2>2 DEF Founded
  <2> QED BY <2>1, <2>2
<1>3. op'[r] = rec /\ \A q \in Ingests : q # r => op'[q] = op[q]
  BY <1>1 DEF TypeInv
<1>4. \A q \in Ingests : /\ op'[q].pc = "index" <=> op[q].pc = "index"
                         /\ op[q].pc = "index" => op'[q] = op[q]
  BY <1>3
<1>5. ASSUME IndexKept', NEW q \in Ingests, Ended(q)'
      PROVE  Due(q)' = {} \/ (Ended(q) /\ Due(q)' = Due(q))
  <2>1. op'[q].updates = {} \/ (Ended(q) /\ op'[q].updates = op[q].updates)
    BY <1>3, <1>5 DEF Ended, IndexKept
  <2> QED BY <2>1 DEF Due
<1>6. IndexKept' => IndexKept /\ index' = index
  BY GrowsMore DEF IndexKept
<1>7. ASSUME IndexKept', NEW q \in Ingests, Ended(q)'
      PROVE  /\ \A p \in Ingests : op'[p].pc = "index" => Due(q)' \subseteq op'[p].old
             /\ (\A p \in Ingests : op'[p].pc # "index") => Due(q)' \subseteq index'
  BY <1>4, <1>5, <1>6, <1>7 DEF IndexInv
<1> QED BY <1>2, <1>7 DEF IndexInv

Inv == TypeInv /\ OpInv /\ IndexInv

LEMMA GoType ==
  ASSUME TypeInv, NEW r \in Ingests, NEW pc \in Pcs
  PROVE  LET rec == [op[r] EXCEPT !.pc = pc]
         IN  /\ rec \in Ops /\ rec.pc = pc /\ rec.todo = op[r].todo /\ rec.told = op[r].told /\ rec.said = op[r].said
             /\ rec.updates = op[r].updates /\ rec.sent = op[r].sent /\ rec.old = op[r].old
  BY DEF TypeInv, Ops

\* A step of r that touches neither the disk nor the mutex.
LEMMA QuietStep ==
  ASSUME Inv, NEW r \in Ingests, NEW rec \in Ops, Set(r, rec), UNCHANGED <<disk, mutex, crashes>>,
         short \subseteq short', op[r].pc \notin {"rename", "index"}, rec.pc \notin {"rename", "index", "log"},
         op[r].said \subseteq rec.said, rec.pc \in {"new", "llm"} => rec.said = {},
         \A i \in DOMAIN rec.todo : rec.todo[i] \in rec.said,
         rec.told = op[r].told, rec.updates = op[r].updates, rec.pc = "write" => rec.todo # <<>>,
         Ended(r)' => op[r].updates = {} \/ Ended(r) \/ "index" \in short'
  PROVE  Inv'
<1>1. UNCHANGED <<pages, tmp, index, log, mutex, crashes>>
  BY DEF disk
<1>2. op' = [op EXCEPT ![r] = rec] /\ op'[r] = rec
  BY DEF Set, Inv, TypeInv
<1>3. TypeInv'
  BY <1>1, <1>2 DEF Inv, TypeInv
<1>4. Grows
  BY <1>1, GrowsBy DEF Inv, There
<1>5. OpOf(r)'
  <2>1. OpOf(r) /\ Told(r)' = Told(r)
    BY <1>2 DEF Inv, OpInv, Told
  <2>2. LogKept' => LogKept
    BY <1>4, GrowsMore
  <2>3. \A n \in Told(r)' : There(n)' /\ (LogKept' => Logged(r, n)')
    BY <1>1, <2>1, <2>2 DEF OpOf, There, Logged
  <2>4. \A u \in rec.updates : u \in rec.said /\ u.summary /\ u.page \in Told(r)'
    BY <2>1 DEF OpOf
  <2> QED BY <1>2, <2>3, <2>4 DEF OpOf
<1>6. \A q \in Ingests : q # r /\ op[q].pc \in {"rename", "index"} => mutex' = q
  BY <1>1 DEF Inv, OpInv, OpOf
<1>7. OpInv'
  BY <1>4, <1>5, <1>6, OpStep DEF Inv
<1>8. IndexInv'
  BY <1>1, <1>4, IndexStep DEF Inv
<1> QED BY <1>3, <1>7, <1>8 DEF Inv

LEMMA GoQuiet ==
  ASSUME Inv, NEW r \in Ingests, NEW pc \in Pcs \ {"rename", "index", "log", "write", "new", "llm", "closed"}, Go(r, pc),
         UNCHANGED <<disk, mutex, crashes>>, short \subseteq short', op[r].pc \notin {"rename", "index"},
         pc = "done" => op[r].updates = {} \/ "index" \in short'
  PROVE  Inv'
<1> DEFINE rec == [op[r] EXCEPT !.pc = pc]
<1>1. /\ rec \in Ops /\ rec.pc = pc /\ rec.todo = op[r].todo /\ rec.told = op[r].told /\ rec.said = op[r].said
      /\ rec.updates = op[r].updates
  BY GoType DEF Inv
<1>2. Set(r, rec)
  BY DEF Go
<1>3. op'[r] = rec
  BY <1>2 DEF Set, Inv, TypeInv
<1>4. Ended(r)' => op[r].updates = {} \/ "index" \in short'
  BY <1>1, <1>3 DEF Ended
<1> HIDE DEF rec
<1>5. \A i \in DOMAIN rec.todo : rec.todo[i] \in rec.said
  BY <1>1 DEF Inv, OpInv, OpOf
<1> QED BY <1>1, <1>2, <1>4, <1>5, QuietStep

\* An error event ends the stream.
LEMMA ErrorCloses ==
  ASSUME Inv, NEW r \in Ingests, Send(r, "closed", <<"error">>), UNCHANGED <<disk, mutex, faults>>,
         op[r].pc \notin {"rename", "index"}
  PROVE  Inv'
<1> DEFINE rec == [op[r] EXCEPT !.pc = "closed", !.sent = @ \o <<"error">>]
<1>1. "error" \in Words /\ "closed" \in Pcs /\ op[r] \in Ops /\ op[r].sent \in Seq(Words)
  BY DEF Words, Pcs, Inv, TypeInv, Ops
<1>0. op[r].sent \o <<"error">> \in Seq(Words) /\ Last(op[r].sent \o <<"error">>) = "error"
  BY <1>1, LastOf
<1>2. /\ rec \in Ops /\ rec.pc = "closed" /\ rec.told = op[r].told /\ rec.said = op[r].said /\ rec.todo = op[r].todo
      /\ rec.updates = op[r].updates /\ rec.sent = op[r].sent \o <<"error">>
  BY <1>0, <1>1 DEF Ops
<1>3. Last(rec.sent) = "error"
  BY <1>0, <1>2
<1>4. Set(r, rec)
  BY DEF Send
<1> HIDE DEF rec
<1>5. op'[r] = rec
  BY <1>4 DEF Set, Inv, TypeInv
<1>6. ~Ended(r)'
  BY <1>2, <1>3, <1>5 DEF Ended, Last
<1>7. \A i \in DOMAIN rec.todo : rec.todo[i] \in rec.said
  BY <1>2 DEF Inv, OpInv, OpOf
<1>8. UNCHANGED <<disk, mutex, crashes>> /\ short' = short
  BY DEF faults
<1> QED BY <1>2, <1>4, <1>6, <1>7, <1>8, QuietStep

LEMMA IngestStep ==
  ASSUME Inv, NEW r \in Ingests, Ingest(r)
  PROVE  Inv'
<1> DEFINE rec == [op[r] EXCEPT !.pc = "llm", !.sent = @ \o <<"status">>]
<1>1. "status" \in Words /\ "llm" \in Pcs /\ op[r] \in Ops /\ op[r].sent \in Seq(Words)
  BY DEF Words, Pcs, Inv, TypeInv, Ops
<1>2. op[r].sent \o <<"status">> \in Seq(Words)
  BY <1>1, LastOf
<1>3. /\ rec \in Ops /\ rec.pc = "llm" /\ rec.told = op[r].told /\ rec.updates = op[r].updates
      /\ rec.said = op[r].said /\ rec.todo = op[r].todo
  BY <1>1, <1>2 DEF Ops
<1>4. Set(r, rec) /\ op[r].pc = "new" /\ UNCHANGED <<disk, mutex, crashes, short>>
  BY DEF Ingest, Send, At, faults
<1> HIDE DEF rec
<1>5. ~Ended(r)'
  BY <1>3, <1>4 DEF Set, Inv, TypeInv, Ended
<1>6. rec.said = {} /\ \A i \in DOMAIN rec.todo : rec.todo[i] \in rec.said
  BY <1>3, <1>4 DEF Inv, OpInv, OpOf
<1> QED BY <1>3, <1>4, <1>5, <1>6, QuietStep

LEMMA AnswerStep ==
  ASSUME Inv, NEW r \in Ingests, LlmAnswers(r)
  PROVE  Inv'
<1>1. PICK a \in Answers : Set(r, [op[r] EXCEPT !.pc = "look", !.todo = a, !.said = {a[i] : i \in DOMAIN a}])
  BY DEF LlmAnswers
<1> DEFINE rec == [op[r] EXCEPT !.pc = "look", !.todo = a, !.said = {a[i] : i \in DOMAIN a}]
<1>2. "look" \in Pcs /\ op[r] \in Ops /\ a \in Seq(Items) /\ {a[i] : i \in DOMAIN a} \subseteq Items
  <2>1. a \in Seq(Items)
    BY WikiAssumption
  <2>2. \A i \in DOMAIN a : a[i] \in Items
    BY <2>1
  <2> QED BY <2>1, <2>2 DEF Pcs, Inv, TypeInv
<1>3. /\ rec \in Ops /\ rec.pc = "look" /\ rec.told = op[r].told /\ rec.updates = op[r].updates
      /\ rec.todo = a /\ rec.said = {a[i] : i \in DOMAIN a}
  BY <1>2 DEF Ops
<1>4. Set(r, rec) /\ op[r].pc = "llm" /\ UNCHANGED <<disk, mutex, crashes, short>>
  BY <1>1 DEF LlmAnswers, At, faults
<1> HIDE DEF rec
<1>5. ~Ended(r)'
  BY <1>3, <1>4 DEF Set, Inv, TypeInv, Ended
<1>6. op[r].said \subseteq rec.said /\ \A i \in DOMAIN rec.todo : rec.todo[i] \in rec.said
  BY <1>3, <1>4 DEF Inv, OpInv, OpOf
<1> QED BY <1>3, <1>4, <1>5, <1>6, QuietStep

LEMMA LookStep ==
  ASSUME Inv, NEW r \in Ingests, Look(r)
  PROVE  Inv'
<1> DEFINE rec == [op[r] EXCEPT !.pc = "write", !.exists = pages[File[Page(r)]] # None]
<1>2. "write" \in Pcs /\ op[r] \in Ops /\ (pages[File[Page(r)]] # None) \in BOOLEAN
  BY DEF Pcs, Inv, TypeInv
<1>3. /\ rec \in Ops /\ rec.pc = "write" /\ rec.told = op[r].told /\ rec.updates = op[r].updates
      /\ rec.todo = op[r].todo /\ rec.said = op[r].said
  BY <1>2 DEF Ops
<1>4. Set(r, rec) /\ op[r].pc = "look" /\ op[r].todo # <<>> /\ UNCHANGED <<disk, mutex, crashes, short>>
  BY DEF Look, At, faults
<1> HIDE DEF rec
<1>5. ~Ended(r)'
  BY <1>3, <1>4 DEF Set, Inv, TypeInv, Ended
<1>6. \A i \in DOMAIN rec.todo : rec.todo[i] \in rec.said
  BY <1>3 DEF Inv, OpInv, OpOf
<1> QED BY <1>3, <1>4, <1>5, <1>6, QuietStep

LEMMA FinishStep ==
  ASSUME Inv, NEW r \in Ingests, Finish(r)
  PROVE  Inv'
<1> DEFINE rec == [op[r] EXCEPT !.pc = "closed", !.sent = @ \o (op[r].told \o <<"done">>)]
<1>1. "closed" \in Pcs /\ op[r] \in Ops /\ op[r].sent \in Seq(Words) /\ op[r].told \in Seq(Words) /\ "done" \in Words
  BY DEF Words, Pcs, Inv, TypeInv, Ops
<1>2. op[r].told \o <<"done">> \in Seq(Words)
  BY <1>1, LastOf
<1>3. op[r].sent \o (op[r].told \o <<"done">>) \in Seq(Words)
  BY <1>1, <1>2, ConcatProperties
<1>4. /\ rec \in Ops /\ rec.pc = "closed" /\ rec.told = op[r].told /\ rec.updates = op[r].updates
      /\ rec.todo = op[r].todo /\ rec.said = op[r].said
  BY <1>1, <1>3 DEF Ops
<1>5. Set(r, rec) /\ op[r].pc = "done" /\ UNCHANGED <<disk, mutex, crashes, short>>
  BY DEF Finish, Send, At, faults
<1> HIDE DEF rec
<1>6. Ended(r)
  BY <1>5 DEF Ended
<1>7. \A i \in DOMAIN rec.todo : rec.todo[i] \in rec.said
  BY <1>4 DEF Inv, OpInv, OpOf
<1> QED BY <1>4, <1>5, <1>6, <1>7, QuietStep

\* The first half of write_page takes the mutex.
LEMMA WriteTmpStep ==
  ASSUME Inv, NEW r \in Ingests, WriteTmp(r)
  PROVE  Inv'
<1> DEFINE rec == [op[r] EXCEPT !.pc = "rename"]
<1>1. /\ rec \in Ops /\ rec.pc = "rename" /\ rec.todo = op[r].todo /\ rec.told = op[r].told /\ rec.said = op[r].said
      /\ rec.updates = op[r].updates
  BY GoType DEF Inv, Pcs
<1>2. /\ Set(r, rec) /\ op[r].pc = "write" /\ mutex = None /\ mutex' = r
      /\ UNCHANGED <<pages, index, log, crashes, short>>
  BY DEF WriteTmp, Go, At, Unlocked, faults
<1> HIDE DEF rec
<1>3. op' = [op EXCEPT ![r] = rec] /\ op'[r] = rec
  BY <1>2 DEF Set, Inv, TypeInv
<1>4. TypeInv'
  BY <1>1, <1>2, <1>3 DEF Inv, TypeInv
<1>5. Grows
  BY <1>1, <1>2, GrowsBy DEF Inv, There
<1>6. OpOf(r)'
  <2>1. OpOf(r) /\ Told(r)' = Told(r)
    BY <1>1, <1>3 DEF Inv, OpInv, Told
  <2>2. \A n \in Told(r)' : There(n)' /\ (LogKept' => Logged(r, n)')
    BY <1>2, <1>5, <2>1, GrowsMore DEF OpOf, There, Logged
  <2> QED BY <1>1, <1>2, <1>3, <2>1, <2>2 DEF OpOf
<1>7. \A q \in Ingests : op[q].pc \notin {"rename", "index"}
  BY <1>2, WikiAssumption DEF Inv, OpInv, OpOf
<1>8. OpInv'
  BY <1>2, <1>5, <1>6, <1>7, OpStep DEF Inv
<1>9. ~Ended(r)'
  BY <1>1, <1>3 DEF Ended
<1>10. IndexInv'
  BY <1>1, <1>2, <1>5, <1>9, IndexStep DEF Inv
<1> QED BY <1>4, <1>8, <1>10 DEF Inv

\* The second half puts a page there, the index or the log perhaps in its place, and gives the mutex
\* back, whatever became of the page's text.
LEMMA PageStep ==
  ASSUME Inv, NEW r \in Ingests, NEW text \in Ingests \union {"cut"}, NEW lists \in SUBSET Item(r).lists,
         At(r, "rename"), Go(r, "log"), mutex' = None, TakePlace(File[Page(r)], text, lists), crashes' = crashes,
         short \subseteq short', text = "cut" => "page" \in short'
  PROVE  Inv'
<1> DEFINE rec == [op[r] EXCEPT !.pc = "log"]
<1>1. /\ rec \in Ops /\ rec.pc = "log" /\ rec.todo = op[r].todo /\ rec.told = op[r].told /\ rec.said = op[r].said
      /\ rec.updates = op[r].updates
  BY GoType DEF Inv, Pcs
<1>2. Set(r, rec) /\ op[r].pc = "rename" /\ mutex = r /\ op[r].todo # <<>> /\ OpOf(r)
  BY DEF Go, At, Inv, OpInv, OpOf
<1>3. /\ Item(r) \in Items \cap op[r].said /\ Page(r) = Item(r).page /\ Page(r) \in Names
      /\ File[Page(r)] \in Files /\ lists \subseteq Names
  <2>1. /\ Item(r) \in Items \cap op[r].said /\ Page(r) = Item(r).page /\ Page(r) \in Names
        /\ File[Page(r)] \in Files
    BY <1>2, PageType DEF Inv
  <2> QED BY <2>1 DEF Items
<1> HIDE DEF rec
<1>4. op' = [op EXCEPT ![r] = rec] /\ op'[r] = rec
  BY <1>2 DEF Set, Inv, TypeInv
<1>5. text # None /\ text # "own" /\ text \in Ingests \union {None, "cut", "own"}
  BY WikiAssumption DEF None
<1>6. /\ pages' = [pages EXCEPT ![File[Page(r)]] = text]
      /\ index' = IF File[Page(r)] = IndexFile THEN lists ELSE index
      /\ log' = IF File[Page(r)] = LogFile THEN {} ELSE log
  BY DEF TakePlace
<1>7. \A f \in Files : pages'[f] = IF f = File[Page(r)] THEN text ELSE pages[f]
  BY <1>3, <1>6 DEF Inv, TypeInv
<1>8. TypeInv'
  <2>1. op' \in [Ingests -> Ops] /\ crashes' \in Nat
    BY <1>1, <1>4 DEF Inv, TypeInv
  <2>2. pages' \in [Files -> Ingests \union {None, "cut", "own"}] /\ index' \subseteq Names
    BY <1>3, <1>5, <1>6 DEF Inv, TypeInv
  <2>3. ASSUME NEW f \in Files
        PROVE  (pages'[f] = "cut" => "page" \in short') /\ (pages'[f] = "own" => f \in {IndexFile, LogFile})
    BY <1>5, <1>7 DEF Inv, TypeInv
  <2> QED BY <2>1, <2>2, <2>3 DEF TypeInv
<1>9. ASSUME NEW f, f = File[Page(r)] PROVE Named(f)'
  <2>1. Item(r) \in op'[r].said /\ File[Item(r).page] = f
    BY <1>1, <1>3, <1>4, <1>9
  <2> QED BY <2>1 DEF Named
<1>10. Grows /\ There(Page(r))'
  <2>1. \A n \in Names : File[n] \in Files
    BY DEF Files
  <2>2. \A n \in Names : There(n) => There(n)'
    BY <1>5, <1>7, <2>1 DEF There
  <2>3. Page(r)' = Page(r)
    BY <1>1, <1>4 DEF Page, Item
  <2>4. pages'[File[Page(r)]] # None
    BY <1>3, <1>5, <1>7
  <2>5. LogKept' => log \subseteq log'
    BY <1>6, <1>9 DEF LogKept
  <2>6. Grows
    BY <1>1, <1>2, <2>2, <2>5, GrowsBy DEF Inv
  <2> QED BY <2>3, <2>4, <2>6 DEF There
<1>11. OpOf(r)'
  <2>1. OpOf(r) /\ Told(r)' = Told(r) /\ Told(r) \subseteq Names
    BY <1>1, <1>4 DEF Inv, OpInv, Told
  <2>2. \A n \in Told(r)' : There(n)' /\ (LogKept' => Logged(r, n)')
    <3> SUFFICES ASSUME NEW n \in Told(r) PROVE There(n)' /\ (LogKept' => Logged(r, n)')
      BY <2>1
    <3>1. There(n) /\ (LogKept => Logged(r, n))
      BY <2>1 DEF OpOf
    <3>2. There(n)' /\ (LogKept' => LogKept /\ log \subseteq log')
      BY <1>10, <2>1, <3>1, GrowsMore DEF Grows
    <3> QED BY <3>1, <3>2 DEF Logged
  <2> QED BY <1>1, <1>2, <1>4, <1>10, <2>1, <2>2 DEF OpOf
<1>12. \A q \in Ingests : q # r => op[q].pc \notin {"rename", "index"}
  BY <1>2 DEF Inv, OpInv, OpOf
<1>13. OpInv'
  BY <1>2, <1>10, <1>11, <1>12, OpStep DEF Inv
<1>14. ~Ended(r)'
  BY <1>1, <1>4 DEF Ended
<1>15. index' = index \/ (Named(IndexFile)' /\ index' \subseteq Claimed')
  <2>1. CASE File[Page(r)] = IndexFile
    <3>1. lists \subseteq Claims(Item(r))
      BY <1>3, <2>1 DEF Claims
    <3>2. PICK u \in op'[r].said : lists \subseteq Claims(u)
      BY <1>1, <1>3, <1>4, <3>1
    <3>3. \A n \in lists : \E q \in Ingests : \E v \in op'[q].said : n \in Claims(v)
      BY <3>2
    <3>4. lists \subseteq Claimed'
      BY <3>3 DEF Claimed, Claims
    <3> QED BY <1>6, <1>9, <2>1, <3>4
  <2> QED BY <1>6, <2>1
<1>16. IndexInv'
  BY <1>1, <1>2, <1>10, <1>14, <1>15, IndexStep DEF Inv
<1> QED BY <1>8, <1>13, <1>16 DEF Inv

LEMMA RenameStep ==
  ASSUME Inv, NEW r \in Ingests, Rename(r) \/ WriteCut(r)
  PROVE  Inv'
<1>1. CASE Rename(r)
  <2>1. /\ At(r, "rename") /\ Go(r, "log") /\ mutex' = None
        /\ TakePlace(File[Page(r)], r, Item(r).lists) /\ crashes' = crashes /\ short \subseteq short'
    BY <1>1 DEF Rename, faults
  <2>2. r \in Ingests \union {"cut"} /\ r # "cut" /\ Item(r).lists \in SUBSET Item(r).lists
    BY WikiAssumption
  <2> QED BY <2>1, <2>2, PageStep
<1>2. CASE WriteCut(r)
  <2>1. PICK lists \in SUBSET Item(r).lists : TakePlace(File[Page(r)], "cut", lists)
    BY <1>2 DEF WriteCut
  <2>2. /\ At(r, "rename") /\ Go(r, "log") /\ mutex' = None /\ crashes' = crashes
        /\ short \subseteq short' /\ "page" \in short' /\ "cut" \in Ingests \union {"cut"}
    BY <1>2 DEF WriteCut
  <2> QED BY <2>1, <2>2, PageStep
<1> QED BY <1>1, <1>2

\* A rename that is refused ends the stream with an error and gives the mutex back.
LEMMA WriteFailsStep ==
  ASSUME Inv, NEW r \in Ingests, WriteFails(r)
  PROVE  Inv'
<1> DEFINE rec == [op[r] EXCEPT !.pc = "closed", !.sent = @ \o <<"error">>]
<1>1. "error" \in Words /\ "closed" \in Pcs /\ op[r] \in Ops /\ op[r].sent \in Seq(Words)
  BY DEF Words, Pcs, Inv, TypeInv, Ops
<1>2. op[r].sent \o <<"error">> \in Seq(Words) /\ Last(op[r].sent \o <<"error">>) = "error"
  BY <1>1, LastOf
<1>3. /\ rec \in Ops /\ rec.pc = "closed" /\ rec.told = op[r].told /\ rec.said = op[r].said /\ rec.todo = op[r].todo
      /\ rec.updates = op[r].updates /\ rec.sent = op[r].sent \o <<"error">>
  BY <1>1, <1>2 DEF Ops
<1>4. /\ Set(r, rec) /\ op[r].pc = "rename" /\ mutex = r
      /\ UNCHANGED <<pages, index, log, crashes, short>>
  BY DEF WriteFails, Send, At, Locked, disk, faults
<1>5. Last(rec.sent) = "error"
  BY <1>2, <1>3
<1> HIDE DEF rec
<1>6. op' = [op EXCEPT ![r] = rec] /\ op'[r] = rec
  BY <1>4 DEF Set, Inv, TypeInv
<1>7. TypeInv'
  BY <1>3, <1>4, <1>6 DEF Inv, TypeInv
<1>8. Grows
  BY <1>3, <1>4, GrowsBy DEF Inv, There
<1>9. OpOf(r)'
  <2>1. OpOf(r) /\ Told(r)' = Told(r)
    BY <1>3, <1>6 DEF Inv, OpInv, Told
  <2>2. \A n \in Told(r)' : There(n)' /\ (LogKept' => Logged(r, n)')
    BY <1>4, <1>8, <2>1, GrowsMore DEF OpOf, There, Logged
  <2> QED BY <1>3, <1>6, <2>1, <2>2 DEF OpOf
<1>10. \A q \in Ingests : q # r => op[q].pc \notin {"rename", "index"}
  BY <1>4 DEF Inv, OpInv, OpOf
<1>11. OpInv'
  BY <1>4, <1>8, <1>9, <1>10, OpStep DEF Inv
<1>12. ~Ended(r)'
  BY <1>3, <1>5, <1>6 DEF Ended, Last
<1>13. IndexInv'
  BY <1>3, <1>4, <1>8, <1>12, IndexStep DEF Inv
<1> QED BY <1>7, <1>11, <1>13 DEF Inv

\* log_change, whether its line is written or lost.
LEMMA LogChangeStep ==
  ASSUME Inv, NEW r \in Ingests, LogChange(r) \/ LogLost(r)
  PROVE  Inv'
<1> DEFINE rec == [op[r] EXCEPT !.pc = "look", !.todo = Tail(@), !.told = Append(@, Page(r)),
                                !.updates = IF Item(r).summary THEN {u \in @ : u.page # Page(r)} \cup {Item(r)}
                                                               ELSE @]
<1>1. op[r].pc = "log" /\ op[r].todo # <<>> /\ There(Page(r)) /\ OpOf(r)
  BY DEF LogChange, LogLost, At, Inv, OpInv, OpOf
<1>2. /\ Item(r) \in Items \cap op[r].said /\ Page(r) = Item(r).page /\ Page(r) \in Names
      /\ Tail(op[r].todo) \in Seq(Items) /\ \A i \in DOMAIN Tail(op[r].todo) : Tail(op[r].todo)[i] \in op[r].said
  BY <1>1, PageType DEF Inv
<1>3. op[r] \in Ops /\ op[r].told \in Seq(Names) /\ "look" \in Pcs
  BY DEF Inv, TypeInv, Pcs, Ops
<1>4. /\ Append(op[r].told, Page(r)) \in Seq(Names)
      /\ \A x : (\E i \in DOMAIN Append(op[r].told, Page(r)) : Append(op[r].told, Page(r))[i] = x)
                  <=> x = Page(r) \/ \E i \in DOMAIN op[r].told : op[r].told[i] = x
  <2> DEFINE t == op[r].told
             u == Append(t, Page(r))
  <2>2. /\ u \in Seq(Names) /\ DOMAIN t = 1 .. Len(t) /\ DOMAIN u = 1 .. Len(t) + 1 /\ Len(t) \in Nat
        /\ u[Len(t) + 1] = Page(r) /\ \A i \in 1 .. Len(t) : u[i] = t[i]
    BY <1>2, <1>3
  <2> HIDE DEF t, u
  <2>3. \A i \in 1 .. Len(t) + 1 : i \in 1 .. Len(t) \/ i = Len(t) + 1
    BY <2>2
  <2>4. \A x : (\E i \in DOMAIN u : u[i] = x) <=> x = Page(r) \/ \E i \in DOMAIN t : t[i] = x
    BY <2>2, <2>3
  <2> QED BY <2>2, <2>4 DEF t, u
<1>5. /\ rec \in Ops /\ rec.pc = "look" /\ rec.told = Append(op[r].told, Page(r)) /\ rec.said = op[r].said
      /\ rec.todo = Tail(op[r].todo)
      /\ \A u \in rec.updates : u \in op[r].updates \/ (u = Item(r) /\ u.summary)
  BY <1>2, <1>3, <1>4 DEF Ops
<1>6. /\ Set(r, rec) /\ UNCHANGED <<index, mutex, crashes>> /\ pages' \in {pages, LogOpened}
      /\ log \subseteq log' /\ short \subseteq short'
  BY DEF LogChange, LogLost, NextPage, faults
<1>7. ASSUME NEW n, n = Page(r), LogKept' PROVE Logged(r, n)'
  <2>1. CASE LogChange(r)
    BY <1>7, <2>1 DEF LogChange, Logged
  <2>2. CASE LogLost(r)
    BY <1>7, <2>2 DEF LogLost, LogKept
  <2> QED BY <2>1, <2>2
<1> HIDE DEF rec
<1>8. op' = [op EXCEPT ![r] = rec] /\ op'[r] = rec
  BY <1>6 DEF Set, Inv, TypeInv
<1>9. /\ pages' \in [Files -> Ingests \union {None, "cut", "own"}]
      /\ \A f \in Files : pages'[f] = pages[f] \/ (f = LogFile /\ pages'[f] = "own")
  BY <1>6 DEF LogOpened, Inv, TypeInv, Files
<1>10. TypeInv'
  BY <1>5, <1>6, <1>8, <1>9 DEF Inv, TypeInv
<1>11. \A n \in Names : There(n) => There(n)'
  <2>1. \A n \in Names : File[n] \in Files
    BY DEF Files
  <2> QED BY <1>9, <2>1 DEF There, None
<1>12. Grows
  BY <1>5, <1>6, <1>11, GrowsBy DEF Inv
<1>13. Told(r)' = Told(r) \union {Page(r)}
  <2> DEFINE u == Append(op[r].told, Page(r))
  <2>1. op'[r].told = u
    BY <1>5, <1>8
  <2> HIDE DEF u
  <2>2. \A x : x \in Told(r)' <=> x \in Names /\ \E i \in DOMAIN u : u[i] = x
    BY <2>1 DEF Told
  <2>3. \A x : x \in Told(r) <=> x \in Names /\ \E i \in DOMAIN op[r].told : op[r].told[i] = x
    BY DEF Told
  <2>4. \A x : (\E i \in DOMAIN u : u[i] = x) <=> x = Page(r) \/ \E i \in DOMAIN op[r].told : op[r].told[i] = x
    BY <1>4 DEF u
  <2> QED BY <1>2, <2>2, <2>3, <2>4
<1>14. OpOf(r)'
  <2>1. \A u \in rec.updates : u \in rec.said /\ u.summary /\ u.page \in Told(r)'
    BY <1>1, <1>2, <1>5, <1>13 DEF OpOf
  <2>2. \A i \in DOMAIN rec.todo : rec.todo[i] \in rec.said
    BY <1>2, <1>5
  <2>3. \A n \in Told(r)' : There(n)' /\ (LogKept' => Logged(r, n)')
    <3>1. ASSUME NEW n \in Told(r) PROVE There(n)' /\ (LogKept' => Logged(r, n)')
      <4>1. There(n) /\ (LogKept => Logged(r, n)) /\ n \in Names
        BY <1>1 DEF OpOf, Told
      <4>2. There(n)' /\ (LogKept' => LogKept)
        BY <1>11, <1>12, <4>1, GrowsMore
      <4> QED BY <1>6, <4>1, <4>2 DEF Logged
    <3>2. There(Page(r)) => pages'[File[Page(r)]] # None
      BY <1>2, <1>11 DEF There
    <3>3. ASSUME NEW n \in Told(r)', n = Page(r) PROVE There(n)' /\ (LogKept' => Logged(r, n)')
      <4>1. There(n)'
        BY <1>1, <3>2, <3>3 DEF There
      <4> QED BY <1>7, <3>3, <4>1
    <3> QED BY <1>13, <3>1, <3>3
  <2> QED BY <1>5, <1>8, <2>1, <2>2, <2>3 DEF OpOf
<1>15. \A q \in Ingests : q # r /\ op[q].pc \in {"rename", "index"} => mutex' = q
  BY <1>6 DEF Inv, OpInv, OpOf
<1>16. OpInv'
  BY <1>6, <1>12, <1>14, <1>15, OpStep DEF Inv
<1>17. ~Ended(r)'
  BY <1>5, <1>8 DEF Ended
<1>18. IndexInv'
  BY <1>1, <1>5, <1>6, <1>12, <1>17, IndexStep DEF Inv
<1> QED BY <1>10, <1>16, <1>18 DEF Inv

\* update_index reads the index and truncates it, with the mutex ...
LEMMA TruncateStep ==
  ASSUME Inv, NEW r \in Ingests, TruncateIndex(r)
  PROVE  Inv'
<1> DEFINE rec == [op[r] EXCEPT !.pc = "index", !.old = index]
<1>1. "index" \in Pcs /\ op[r] \in Ops /\ index \subseteq Names
  BY DEF Pcs, Inv, TypeInv
<1>2. /\ rec \in Ops /\ rec.pc = "index" /\ rec.old = index /\ rec.told = op[r].told
      /\ rec.updates = op[r].updates /\ rec.said = op[r].said /\ rec.todo = op[r].todo
  BY <1>1 DEF Ops
<1>3. /\ Set(r, rec) /\ op[r].pc = "look" /\ mutex = None /\ mutex' = r /\ index' = {}
      /\ pages' = [pages EXCEPT ![IndexFile] = "own"] /\ UNCHANGED <<log, crashes, short>>
  BY DEF TruncateIndex, IndexDue, At, Unlocked, faults
<1> HIDE DEF rec
<1>4. op' = [op EXCEPT ![r] = rec] /\ op'[r] = rec /\ \A q \in Ingests : q # r => op'[q] = op[q]
  BY <1>3 DEF Set, Inv, TypeInv
<1>5. /\ pages' \in [Files -> Ingests \union {None, "cut", "own"}]
      /\ \A f \in Files : pages'[f] = pages[f] \/ (f = IndexFile /\ pages'[f] = "own")
  BY <1>3 DEF Inv, TypeInv, Files
<1>6. TypeInv'
  BY <1>2, <1>3, <1>4, <1>5 DEF Inv, TypeInv
<1>7. \A n \in Names : There(n) => There(n)'
  <2>1. \A n \in Names : File[n] \in Files
    BY DEF Files
  <2> QED BY <1>5, <2>1 DEF There, None
<1>8. Grows
  BY <1>2, <1>3, <1>7, GrowsBy DEF Inv
<1>9. OpOf(r)'
  <2>1. OpOf(r) /\ Told(r)' = Told(r) /\ Told(r) \subseteq Names
    BY <1>2, <1>4 DEF Inv, OpInv, Told
  <2>2. \A n \in Told(r)' : There(n)' /\ (LogKept' => Logged(r, n)')
    <3>1. LogKept' => LogKept
      BY <1>8, GrowsMore
    <3> QED BY <1>3, <1>7, <2>1, <3>1 DEF OpOf, Logged
  <2>3. \A n \in index : Founded(n)'
    BY <1>1, <1>8, GrowsMore DEF Inv, IndexInv
  <2> QED BY <1>2, <1>3, <1>4, <2>1, <2>2, <2>3 DEF OpOf
<1>10. \A q \in Ingests : op[q].pc \notin {"rename", "index"}
  BY <1>3, WikiAssumption DEF Inv, OpInv, OpOf
<1>11. OpInv'
  BY <1>3, <1>8, <1>9, <1>10, OpStep DEF Inv
<1>12. IndexInv'
  <2>1. SUFFICES ASSUME IndexKept', NEW q \in Ingests, Ended(q)'
                 PROVE  /\ \A p \in Ingests : op'[p].pc = "index" => Due(q)' \subseteq op'[p].old
                        /\ (\A p \in Ingests : op'[p].pc # "index") => Due(q)' \subseteq index'
    BY <1>3 DEF IndexInv
  <2>2. q # r /\ op'[q] = op[q] /\ Ended(q) /\ Due(q)' = Due(q)
    BY <1>2, <1>4, <2>1 DEF Ended, Due
  <2>3. IndexKept
    BY <1>3, <1>8, <2>1, GrowsMore DEF IndexKept
  <2>4. Due(q) \subseteq index
    BY <1>10, <2>2, <2>3 DEF Inv, IndexInv
  <2>5. \A p \in Ingests : op'[p].pc = "index" => p = r
    BY <1>4, <1>10
  <2> QED BY <1>2, <1>4, <2>2, <2>4, <2>5
<1> QED BY <1>6, <1>11, <1>12 DEF Inv

\* ... and writes it again with its own pages added, all of it or, on a full disk, some.
LEMMA WriteIndexStep ==
  ASSUME Inv, NEW r \in Ingests, WriteIndex(r) \/ IndexCut(r)
  PROVE  Inv'
<1> DEFINE rec == [op[r] EXCEPT !.pc = "done"]
<1>1. /\ rec \in Ops /\ rec.pc = "done" /\ rec.told = op[r].told /\ rec.updates = op[r].updates
      /\ rec.said = op[r].said /\ rec.todo = op[r].todo /\ op[r] \in Ops
  BY GoType DEF Inv, TypeInv, Pcs
<1>2. /\ Set(r, rec) /\ op[r].pc = "index" /\ mutex = r /\ mutex' = None
      /\ index' \subseteq Merged(r) /\ (index' = Merged(r) \/ "index" \in short')
      /\ UNCHANGED <<pages, log, crashes>> /\ short \subseteq short'
  BY DEF WriteIndex, IndexCut, Go, At, Locked, faults
<1> HIDE DEF rec
<1>3. op' = [op EXCEPT ![r] = rec] /\ op'[r] = rec /\ \A q \in Ingests : q # r => op'[q] = op[q]
  BY <1>2 DEF Set, Inv, TypeInv
<1>4. Grows
  BY <1>1, <1>2, GrowsBy DEF Inv, There
<1>5. OpOf(r) /\ Told(r)' = Told(r)
  BY <1>1, <1>3 DEF Inv, OpInv, Told
<1>6. OpOf(r)'
  <2>1. \A n \in Told(r)' : There(n)' /\ (LogKept' => Logged(r, n)')
    BY <1>2, <1>4, <1>5, GrowsMore DEF OpOf, There, Logged
  <2> QED BY <1>1, <1>2, <1>3, <1>5, <2>1 DEF OpOf
<1>7. \A n \in Merged(r) : n \in Names /\ Founded(n)
  <2>1. ASSUME NEW n \in op[r].old PROVE n \in Names /\ Founded(n)
    BY <1>1, <1>2, <1>5 DEF OpOf, Ops
  <2>2. ASSUME NEW u \in op[r].updates, NEW n \in Listed[u.page] \union u.more PROVE n \in Names /\ Founded(n)
    <3>1. u \in op[r].said /\ u.summary /\ u.page \in Told(r) /\ u \in Items
      BY <1>1, <1>5 DEF OpOf, Ops
    <3>2. Listed[u.page] \subseteq Names /\ u.more \subseteq Names
      BY <3>1, WikiAssumption DEF Items
    <3>3. CASE n = u.page
      BY <1>5, <3>1, <3>2, <3>3 DEF OpOf, Founded
    <3>4. CASE n # u.page
      <4>1. n \in Claims(u)
        BY <2>2, <3>1, <3>4 DEF Claims
      <4>2. n \in Claimed
        BY <3>1, <4>1 DEF Claimed
      <4> QED BY <3>2, <4>2 DEF Founded
    <3> QED BY <3>3, <3>4
  <2> QED BY <2>1, <2>2 DEF Merged
<1>8. TypeInv'
  <2>1. index' \subseteq Names
    BY <1>2, <1>7
  <2> QED BY <1>1, <1>2, <1>3, <2>1 DEF Inv, TypeInv
<1>9. \A q \in Ingests : q # r => op[q].pc \notin {"rename", "index"}
  BY <1>2 DEF Inv, OpInv, OpOf
<1>10. OpInv'
  BY <1>2, <1>4, <1>6, <1>9, OpStep DEF Inv
<1>11. IndexInv'
  <2>1. \A n \in index' : Founded(n)'
    BY <1>2, <1>4, <1>7, GrowsMore
  <2>2. \A p \in Ingests : op'[p].pc # "index"
    BY <1>1, <1>3, <1>9
  <2>3. ASSUME IndexKept', NEW q \in Ingests, Ended(q)'
        PROVE  Due(q)' \subseteq index'
    <3>1. index' = Merged(r) /\ IndexKept
      BY <1>2, <1>4, <2>3, GrowsMore DEF IndexKept
    <3>2. CASE q = r
      <4>1. Due(q)' = Due(r)
        BY <1>1, <1>3, <3>2 DEF Due
      <4>2. Due(r) \subseteq Merged(r)
        BY DEF Due, Merged
      <4> QED BY <3>1, <4>1, <4>2
    <3>3. CASE q # r
      <4>1. Ended(q) /\ Due(q)' = Due(q)
        BY <1>3, <2>3, <3>3 DEF Ended, Due
      <4>2. Due(q) \subseteq op[r].old
        BY <1>2, <3>1, <4>1 DEF Inv, IndexInv
      <4> QED BY <3>1, <4>1, <4>2 DEF Merged
    <3> QED BY <3>2, <3>3
  <2> QED BY <2>1, <2>2, <2>3 DEF IndexInv
<1> QED BY <1>8, <1>10, <1>11 DEF Inv

LEMMA CrashStep ==
  ASSUME Inv, Crash
  PROVE  Inv'
<1>1. /\ UNCHANGED <<pages, index, log, short>> /\ crashes' = crashes + 1 /\ crashes \in Nat
      /\ op' = [r \in Ingests |-> IF op[r].pc \in {"new", "closed", "refused"} THEN op[r]
                                  ELSE [op[r] EXCEPT !.pc = "lost"]]
  BY DEF Crash, disk, Inv, TypeInv
<1>2. ASSUME NEW r \in Ingests
      PROVE  /\ op'[r] \in Ops /\ op'[r].pc \in {"new", "closed", "refused", "lost"}
             /\ op'[r].pc = "new" => op[r].pc = "new"
             /\ op'[r].told = op[r].told /\ op'[r].updates = op[r].updates
             /\ op'[r].said = op[r].said /\ op'[r].todo = op[r].todo
  BY <1>1, GoType DEF Inv, TypeInv, Pcs
<1>3. TypeInv'
  <2>1. op' \in [Ingests -> Ops]
    BY <1>1, <1>2
  <2> QED BY <1>1, <2>1 DEF Inv, TypeInv
<1>4. Grows
  BY <1>1, <1>2 DEF Grows, There
<1>5. ASSUME NEW r \in Ingests PROVE OpOf(r)'
  <2>1. OpOf(r) /\ Told(r)' = Told(r)
    BY <1>2 DEF Inv, OpInv, Told
  <2>2. \A n \in Told(r)' : There(n)' /\ (LogKept' => Logged(r, n)')
    BY <1>1, <1>4, <2>1, GrowsMore DEF OpOf, There, Logged
  <2> QED BY <1>2, <2>1, <2>2 DEF OpOf
<1>6. IndexInv'
  <2>1. \A n \in index' : Founded(n)'
    BY <1>1, <1>4, GrowsMore DEF Inv, IndexInv, TypeInv
  <2>2. ~IndexKept'
    BY <1>1 DEF IndexKept
  <2> QED BY <2>1, <2>2 DEF IndexInv
<1> QED BY <1>3, <1>5, <1>6 DEF Inv, OpInv

LEMMA InvNext ==
  ASSUME Inv, [Next]_vars
  PROVE  Inv'
<1>1. ASSUME NEW r \in Ingests, Refuse(r) \/ Reject(r) \/ LlmFails(r) \/ LookFails(r)
      PROVE  Inv'
  <2>1. CASE Refuse(r)
    BY <2>1, GoQuiet DEF Refuse, At, Pcs, faults
  <2>2. CASE Reject(r) \/ LlmFails(r) \/ LookFails(r)
    BY <2>2, ErrorCloses DEF Reject, LlmFails, LookFails, At
  <2> QED BY <1>1, <2>1, <2>2
<1>2. ASSUME NEW r \in Ingests, NoIndex(r) \/ IndexRefused(r)
      PROVE  Inv'
  <2>1. /\ Go(r, "done") /\ UNCHANGED <<disk, mutex, crashes>> /\ short \subseteq short' /\ op[r].pc = "look"
        /\ op[r].updates = {} \/ "index" \in short'
    BY <1>2 DEF NoIndex, IndexRefused, IndexDue, At, faults
  <2> QED BY <2>1, GoQuiet DEF Pcs
<1>3. ASSUME NEW r \in Ingests, Write(r)
      PROVE  Inv'
  BY <1>3, <1>1, <1>2, IngestStep, AnswerStep, LookStep, WriteTmpStep, RenameStep, LogChangeStep, TruncateStep,
     WriteIndexStep, FinishStep DEF Write
<1>4. ASSUME NEW r \in Ingests, Fail(r)
      PROVE  Inv'
  BY <1>4, <1>1, <1>2, RenameStep, WriteFailsStep, LogChangeStep, WriteIndexStep DEF Fail
<1>5. CASE UNCHANGED vars
  BY <1>5 DEF vars, Inv, TypeInv, OpInv, OpOf, IndexInv, There, Told, Logged, LogKept, IndexKept, Founded,
              Claimed, Claims, Named, Due, Page, Item, Ended, Last
<1> QED BY <1>1, <1>3, <1>4, <1>5, CrashStep DEF Next

\* Whatever the ingests' interleaving and wherever crashes fall, every page on disk
\* is the whole text of some ingest, but for one a full disk cut short.
THEOREM PagesStayWhole == Spec => []PagesWhole
<1>1. Inv => PagesWhole
  BY DEF Inv, TypeInv, PagesWhole
<1>2. Init => Inv
  BY InitInv DEF Inv
<1> QED BY <1>1, <1>2, InvNext, PTL DEF Spec

\* INDEX.md lists no page that is not there, after crashes, failed writes and writes
\* that a full disk cut or lost too, but for the names an LLM's own text put there.
THEOREM IndexIsTrue == Spec => []IndexNamesPages
<1>1. Inv => IndexNamesPages
  BY DEF Inv, IndexInv, There, Founded, IndexNamesPages
<1>2. Init => Inv
  BY InitInv DEF Inv
<1> QED BY <1>1, <1>2, InvNext, PTL DEF Spec

\* A client that was told "done" finds its pages on disk and, unless one of the
\* faults and answers that DoneMeansIndexed names took them, in the change log and in
\* the index, however other ingests interleave: the mutex held over the reading,
\* truncating and writing of INDEX.md is what it takes.
THEOREM DoneIsDone == Spec => []DoneMeansIndexed
<1>1. Inv => DoneMeansIndexed
  <2> SUFFICES ASSUME Inv, NEW r \in Ingests, At(r, "closed"), op[r].sent[Len(op[r].sent)] = "done",
                      NEW i \in DOMAIN op[r].told, NEW n, n = op[r].told[i]
               PROVE  /\ pages[File[n]] # None
                      /\ "log" \notin short /\ ~Named(LogFile) => \E a \in {"create", "update"} : <<a, n, r>> \in log
                      /\ /\ \E u \in op[r].updates : u.page = n
                         /\ n \in Listed[n] /\ crashes = 0 /\ "index" \notin short /\ ~Named(IndexFile)
                         /\ \A q \in Ingests : ~At(q, "index")
                         => n \in index
    BY DEF DoneMeansIndexed
  <2>1. n \in Told(r) /\ n \in Names
    BY DEF Inv, TypeInv, Ops, Told
  <2>2. Ended(r)
    BY DEF Ended, At, Last
  <2>3. There(n) /\ (LogKept => Logged(r, n))
    BY <2>1 DEF Inv, OpInv, OpOf
  <2>4. IndexKept /\ (\A q \in Ingests : ~At(q, "index")) => Due(r) \subseteq index
    BY <2>2 DEF Inv, IndexInv, At
  <2>5. n \in Listed[n] /\ (\E u \in op[r].updates : u.page = n) => n \in Due(r)
    BY <2>1 DEF Due
  <2> QED BY <2>3, <2>4, <2>5 DEF There, LogKept, Logged, IndexKept
<1>2. Init => Inv
  BY InitInv DEF Inv
<1> QED BY <1>1, <1>2, InvNext, PTL DEF Spec

(***************************************************************************)
(* JsonlWriter                                                             *)
(***************************************************************************)

\* The lines of a sequence that grew, of one without its first, and of a start of one.
LEMMA LinesAppended ==
  ASSUME NEW s \in Seq(Nat), NEW x \in Nat
  PROVE  /\ Range(Append(s, x)) = Range(s) \union {x}
         /\ Sorted(s) /\ (\A m \in Range(s) : m < x) => Sorted(Append(s, x))
<1> DEFINE t == Append(s, x)
<1>1. /\ Len(s) \in Nat /\ t \in Seq(Nat) /\ Len(t) = Len(s) + 1
      /\ \A i \in 1 .. Len(s) : t[i] = s[i]
      /\ t[Len(s) + 1] = x
      /\ DOMAIN s = 1 .. Len(s) /\ DOMAIN t = 1 .. Len(t)
  OBVIOUS
<1> HIDE DEF t
<1>2. \A i \in 1 .. Len(t) : i \in 1 .. Len(s) \/ i = Len(s) + 1
  BY <1>1
<1>3. 1 .. Len(s) \subseteq 1 .. Len(t) /\ Len(s) + 1 \in 1 .. Len(t)
  BY <1>1
<1>4. Range(t) = Range(s) \union {x}
  BY <1>1, <1>2, <1>3 DEF Range
<1>5. ASSUME Sorted(s), \A m \in Range(s) : m < x PROVE Sorted(t)
  <2> SUFFICES ASSUME NEW m \in 1 .. Len(t), NEW n \in 1 .. Len(t), m < n PROVE t[m] < t[n]
    BY DEF Sorted
  <2>1. m \in 1 .. Len(s)
    BY <1>1
  <2>2. CASE n \in 1 .. Len(s)
    BY <1>1, <1>5, <2>1, <2>2 DEF Sorted
  <2>3. CASE n = Len(s) + 1
    <3>1. s[m] \in Range(s)
      BY <1>1, <2>1 DEF Range
    <3> QED BY <1>1, <1>5, <2>1, <2>3, <3>1
  <2> QED BY <1>2, <2>2, <2>3
<1> QED BY <1>4, <1>5 DEF t

LEMMA LinesBehind ==
  ASSUME NEW s \in Seq(Nat), s # <<>>
  PROVE  /\ Tail(s) \in Seq(Nat) /\ Head(s) \in Nat
         /\ Range(s) = {Head(s)} \union Range(Tail(s))
         /\ Sorted(s) => Sorted(Tail(s)) /\ \A n \in Range(Tail(s)) : Head(s) < n
<1> DEFINE t == Tail(s)
           h == Head(s)
<1>1. /\ Len(s) \in Nat \ {0} /\ t \in Seq(Nat) /\ h \in Nat /\ Len(t) = Len(s) - 1 /\ h = s[1]
      /\ \A i \in 1 .. Len(t) : t[i] = s[i + 1]
  BY EmptySeq, HeadTailProperties
<1>2. DOMAIN s = 1 .. Len(s) /\ DOMAIN t = 1 .. Len(t)
  BY <1>1
<1> HIDE DEF t, h
<1>3. /\ 1 \in 1 .. Len(s)
      /\ \A i \in 1 .. Len(t) : i + 1 \in 1 .. Len(s) /\ 1 < i + 1
      /\ \A i \in 1 .. Len(s) : i = 1 \/ (i - 1 \in 1 .. Len(t) /\ (i - 1) + 1 = i)
      /\ \A i, k \in 1 .. Len(t) : i < k => i + 1 < k + 1
  BY <1>1
<1>4. Range(s) = {h} \union Range(t)
  <2>1. ASSUME NEW x \in Range(s) PROVE x = h \/ x \in Range(t)
    <3>1. PICK i \in 1 .. Len(s) : x = s[i]
      BY <1>2 DEF Range
    <3>2. CASE i = 1
      BY <1>1, <3>1, <3>2
    <3>3. CASE i # 1
      <4>1. i - 1 \in 1 .. Len(t) /\ (i - 1) + 1 = i
        BY <1>3, <3>3
      <4>2. x = t[i - 1]
        BY <1>1, <3>1, <4>1
      <4> QED BY <1>2, <4>1, <4>2 DEF Range
    <3> QED BY <3>2, <3>3
  <2>2. h \in Range(s)
    BY <1>1, <1>2, <1>3 DEF Range
  <2>3. ASSUME NEW x \in Range(t) PROVE x \in Range(s)
    <3>1. PICK i \in 1 .. Len(t) : x = t[i]
      BY <1>2 DEF Range
    <3>2. i + 1 \in 1 .. Len(s) /\ x = s[i + 1]
      BY <1>1, <1>3, <3>1
    <3> QED BY <1>2, <3>2 DEF Range
  <2> QED BY <2>1, <2>2, <2>3
<1>5. ASSUME Sorted(s) PROVE Sorted(t) /\ \A n \in Range(t) : h < n
  <2>1. ASSUME NEW i \in 1 .. Len(t), NEW k \in 1 .. Len(t), i < k PROVE t[i] < t[k]
    <3>1. i + 1 \in 1 .. Len(s) /\ k + 1 \in 1 .. Len(s) /\ i + 1 < k + 1
      BY <1>3, <2>1
    <3>2. s[i + 1] < s[k + 1]
      BY <1>5, <3>1 DEF Sorted
    <3> QED BY <1>1, <3>2
  <2>2. ASSUME NEW n \in Range(t) PROVE h < n
    <3>1. PICK i \in 1 .. Len(t) : n = t[i]
      BY <1>2 DEF Range
    <3>2. 1 \in 1 .. Len(s) /\ i + 1 \in 1 .. Len(s) /\ 1 < i + 1
      BY <1>3
    <3>3. s[1] < s[i + 1]
      BY <1>5, <3>2 DEF Sorted
    <3> QED BY <1>1, <3>1, <3>3
  <2> QED BY <2>1, <2>2 DEF Sorted
<1> QED BY <1>1, <1>4, <1>5 DEF t, h

LEMMA LinesOfStart ==
  ASSUME NEW s \in Seq(Nat), NEW k \in 0 .. Len(s)
  PROVE  /\ SubSeq(s, 1, k) \in Seq(Nat)
         /\ Sorted(s) => Sorted(SubSeq(s, 1, k))
         /\ Range(s) = Range(SubSeq(s, 1, k)) \union Range(SubSeq(s, k + 1, Len(s)))
         /\ \A S : s \in Seq(S) => SubSeq(s, 1, k) \in Seq(S)
<1> DEFINE n == Len(s)
           a == SubSeq(s, 1, k)
           b == SubSeq(s, k + 1, n)
<1>1. n \in Nat /\ k \in Nat /\ k <= n /\ \A i \in 1 .. n : s[i] \in Nat
  OBVIOUS
<1> HIDE DEF n
<1>2. a \in Seq(Nat) /\ Len(a) = k /\ \A i \in 1 .. k : a[i] = s[i]
  <2>1. 1 \in Int /\ k \in Int /\ \A i \in 1 .. k : s[i] \in Nat
    BY <1>1
  <2>2. a \in Seq(Nat) /\ Len(a) = (IF 1 <= k THEN k - 1 + 1 ELSE 0) /\ \A i \in 1 .. k - 1 + 1 : a[i] = s[1 + i - 1]
    BY <2>1, SubSeqProperties
  <2>3. k - 1 + 1 = k /\ \A i \in 1 .. k : 1 + i - 1 = i
    BY <1>1
  <2> QED BY <1>1, <2>2, <2>3
<1>3. b \in Seq(Nat) /\ Len(b) = n - k /\ \A i \in 1 .. n - k : b[i] = s[k + i]
  <2>1. k + 1 \in Int /\ n \in Int /\ \A i \in k + 1 .. n : s[i] \in Nat
    BY <1>1
  <2>2. b \in Seq(Nat) /\ Len(b) = (IF k + 1 <= n THEN n - (k + 1) + 1 ELSE 0)
        /\ \A i \in 1 .. n - (k + 1) + 1 : b[i] = s[(k + 1) + i - 1]
    <3> DEFINE m == k + 1
    <3> HIDE DEF m
    <3>1. /\ SubSeq(s, m, n) \in Seq(Nat) /\ Len(SubSeq(s, m, n)) = (IF m <= n THEN n - m + 1 ELSE 0)
          /\ \A i \in 1 .. n - m + 1 : SubSeq(s, m, n)[i] = s[m + i - 1]
      BY <2>1, SubSeqProperties DEF m
    <3> QED BY <3>1 DEF m
  <2>3. n - (k + 1) + 1 = n - k /\ \A i \in 1 .. n - k : (k + 1) + i - 1 = k + i
    BY <1>1
  <2> QED BY <1>1, <2>2, <2>3
<1>4. DOMAIN s = 1 .. n /\ DOMAIN a = 1 .. k /\ DOMAIN b = 1 .. n - k
  BY <1>2, <1>3 DEF n
<1> HIDE DEF a, b
<1>5. Range(s) = Range(a) \union Range(b)
  <2>1. ASSUME NEW x \in Range(s) PROVE x \in Range(a) \union Range(b)
    <3>1. PICK i \in 1 .. n : x = s[i]
      BY <1>4 DEF Range
    <3>2. CASE i <= k
      <4>1. i \in 1 .. k
        BY <1>1, <3>2
      <4> QED BY <1>2, <1>4, <3>1, <4>1 DEF Range
    <3>3. CASE ~(i <= k)
      <4>1. i - k \in 1 .. n - k /\ k + (i - k) = i
        BY <1>1, <3>3
      <4>2. b[i - k] = x
        BY <1>3, <3>1, <4>1
      <4> QED BY <1>4, <4>1, <4>2 DEF Range
    <3> QED BY <3>2, <3>3
  <2>2. ASSUME NEW i \in 1 .. k PROVE a[i] \in Range(s)
    <3>1. i \in 1 .. n
      BY <1>1
    <3> QED BY <1>2, <1>4, <3>1 DEF Range
  <2>3. ASSUME NEW i \in 1 .. n - k PROVE b[i] \in Range(s)
    <3>1. k + i \in 1 .. n
      BY <1>1
    <3> QED BY <1>3, <1>4, <3>1 DEF Range
  <2>4. Range(a) \subseteq Range(s)
    BY <1>4, <2>2 DEF Range
  <2>5. Range(b) \subseteq Range(s)
    BY <1>4, <2>3 DEF Range
  <2> QED BY <2>1, <2>4, <2>5
<1>6. ASSUME Sorted(s) PROVE Sorted(a)
  <2> SUFFICES ASSUME NEW i \in 1 .. k, NEW m \in 1 .. k, i < m PROVE a[i] < a[m]
    BY <1>2 DEF Sorted
  <2>1. i \in 1 .. n /\ m \in 1 .. n
    BY <1>1
  <2>2. s[i] < s[m]
    BY <1>6, <2>1 DEF Sorted, n
  <2> QED BY <1>2, <2>2
<1>7. ASSUME NEW S, s \in Seq(S) PROVE a \in Seq(S)
  <2>1. \A i \in 1 .. Len(a) : a[i] \in S
    BY <1>1, <1>2, <1>7 DEF n
  <2> QED BY <1>2, <2>1
<1> QED BY <1>2, <1>5, <1>6, <1>7 DEF a, b, n

-------------------------------------------------------------------------------
\* KeepsNewest of any places, lost lines and last line.
Places == [0 .. Keep + 2 -> Seq(Nat)]
Lines(p) == UNION {Range(p[i]) : i \in 0 .. Keep + 2}

Newest(p, gone, top) ==
  /\ \A i \in 0 .. Keep + 2 : Sorted(p[i])
  /\ \A i, k \in 0 .. Keep + 2 : i < k => Older(p[k], p[i])
  /\ \A n \in Lines(p) : (n .. top) \ gone \subseteq Lines(p)
  /\ p[Keep + 2] = <<>> => (1 .. top) \ gone \subseteq Lines(p)

LEMMA NewestIsKept == KeepsNewest <=> Newest(Place, lost, last)
<1>1. Kept = Lines(Place)
  BY DEF Kept, Lines
<1>2. files[Keep] = Place[Keep + 2]
  <2>1. Keep + 2 \in 0 .. Keep + 2 /\ Keep + 2 # 0 /\ Keep + 2 # 1 /\ (Keep + 2) - 2 = Keep
    BY WriterAssumption
  <2> QED BY <2>1 DEF Place
<1> QED BY <1>1, <1>2 DEF KeepsNewest, Newest

\* A new line is the newest.
LEMMA NewestQueues ==
  ASSUME NEW p \in Places, NEW q \in Places, NEW gone, NEW top \in Nat, Newest(p, gone, top),
         \A n \in Lines(p) : n <= top,
         q[0] = Append(p[0], top + 1), \A i \in 1 .. Keep + 2 : q[i] = p[i]
  PROVE  Newest(q, gone, top + 1) /\ Lines(q) \subseteq Lines(p) \union {top + 1}
<1>0. 0 \in 0 .. Keep + 2 /\ \A i \in 0 .. Keep + 2 : i # 0 => i \in 1 .. Keep + 2
  BY WriterAssumption
<1>1. \A i \in 0 .. Keep + 2 : p[i] \in Seq(Nat) /\ Range(p[i]) \subseteq Nat /\ Range(p[i]) \subseteq Lines(p)
  BY DEF Places, Range, Lines
<1>2. Range(q[0]) = Range(p[0]) \union {top + 1} /\ Sorted(q[0])
  <2>1. \A m \in Range(p[0]) : m < top + 1
    <3>1. \A m \in Range(p[0]) : m \in Nat /\ m <= top
      BY <1>0, <1>1
    <3> QED BY <3>1
  <2> QED BY <1>0, <1>1, <2>1, LinesAppended DEF Newest
<1>3. \A i \in 1 .. Keep + 2 : Range(q[i]) = Range(p[i])
  OBVIOUS
<1>4. Lines(q) = Lines(p) \union {top + 1}
  <2>1. \A i \in 0 .. Keep + 2 : Range(q[i]) \subseteq Range(p[i]) \union {top + 1} /\ Range(p[i]) \subseteq Range(q[i])
    BY <1>0, <1>2, <1>3
  <2>2. Lines(q) \subseteq Lines(p) \union {top + 1}
    BY <2>1 DEF Lines
  <2>3. Lines(p) \subseteq Lines(q)
    BY <2>1 DEF Lines
  <2>4. top + 1 \in Lines(q)
    BY <1>0, <1>2 DEF Lines
  <2> QED BY <2>2, <2>3, <2>4
<1>5. \A i \in 0 .. Keep + 2 : Sorted(q[i])
  BY <1>0, <1>2 DEF Newest
<1>6. ASSUME NEW i \in 0 .. Keep + 2, NEW k \in 0 .. Keep + 2, i < k PROVE Older(q[k], q[i])
  <2>1. k \in 1 .. Keep + 2 /\ Older(p[k], p[i]) /\ \A m \in Range(p[k]) : m < top + 1
    <3>1. k \in 1 .. Keep + 2
      BY <1>6, WriterAssumption
    <3>2. \A m \in Range(p[k]) : m \in Nat /\ m <= top
      BY <1>1
    <3>3. Older(p[k], p[i])
      BY <1>6 DEF Newest
    <3> QED BY <3>1, <3>2, <3>3
  <2> QED BY <1>0, <1>2, <1>3, <2>1 DEF Older
<1>7. ASSUME NEW n \in Nat, (n .. top) \ gone \subseteq Lines(p) PROVE (n .. top + 1) \ gone \subseteq Lines(q)
  <2>1. \A m \in n .. top + 1 : m \in n .. top \/ m = top + 1
    OBVIOUS
  <2> QED BY <1>4, <1>7, <2>1
<1>8. \A n \in Lines(q) : (n .. top + 1) \ gone \subseteq Lines(q)
  <2>1. Lines(p) \subseteq Nat
    BY <1>1 DEF Lines
  <2>2. \A n \in Lines(p) : (n .. top + 1) \ gone \subseteq Lines(q)
    BY <1>7, <2>1 DEF Newest
  <2>3. (top + 1 .. top + 1) \subseteq {top + 1}
    OBVIOUS
  <2> QED BY <1>4, <2>2, <2>3
<1>9. q[Keep + 2] = <<>> => (1 .. top + 1) \ gone \subseteq Lines(q)
  <2>1. q[Keep + 2] = p[Keep + 2]
    BY WriterAssumption
  <2> QED BY <1>7, <2>1 DEF Newest
<1> QED BY <1>4, <1>5, <1>6, <1>8, <1>9 DEF Newest

\* A place's lines move to the next one, which gives up its own: they are the oldest, or were lost before.
LEMMA NewestMoves ==
  ASSUME NEW p \in Places, NEW q \in Places, NEW gone, NEW top \in Nat, Newest(p, gone, top),
         NEW a \in 0 .. Keep + 1, q[a] = <<>>, q[a + 1] = p[a],
         \A i \in 0 .. Keep + 2 : i # a /\ i # a + 1 => q[i] = p[i],
         IF a = Keep + 1 THEN p[a] # <<>> ELSE Range(p[a + 1]) \subseteq gone
  PROVE  Newest(q, gone, top) /\ Lines(q) \subseteq Lines(p)
<1>0. /\ a \in 0 .. Keep + 2 /\ a + 1 \in 0 .. Keep + 2 /\ Keep \in Nat /\ Keep + 2 \in 0 .. Keep + 2
      /\ a # a + 1 /\ a \in Int
  BY WriterAssumption
<1>1. \A i \in 0 .. Keep + 2 : /\ p[i] \in Seq(Nat) /\ Range(p[i]) \subseteq Nat /\ Range(p[i]) \subseteq Lines(p)
                               /\ Range(q[i]) \subseteq Lines(q)
  <2>1. \A i \in 0 .. Keep + 2 : Range(p[i]) \subseteq Lines(p) /\ Range(q[i]) \subseteq Lines(q)
    BY DEF Lines
  <2>2. ASSUME NEW i \in 0 .. Keep + 2 PROVE p[i] \in Seq(Nat) /\ Range(p[i]) \subseteq Nat
    <3>1. p[i] \in Seq(Nat)
      BY DEF Places
    <3> QED BY <3>1 DEF Range
  <2> QED BY <2>1, <2>2
<1>2. Range(<<>>) = {} /\ Sorted(<<>>)
  BY DEF Range, Sorted
<1>3. \A i \in 0 .. Keep + 2 : Sorted(q[i])
  BY <1>0, <1>2 DEF Newest
<1>4. ASSUME NEW i \in 0 .. Keep + 2, NEW k \in 0 .. Keep + 2, i < k PROVE Older(q[k], q[i])
  <2>1. CASE i = a \/ k = a
    BY <1>2, <2>1 DEF Older
  <2>2. CASE i # a /\ k # a /\ i = a + 1
    <3>1. k # a + 1 /\ a < k
      BY <1>0, <1>4, <2>2
    <3> QED BY <1>0, <2>2, <3>1 DEF Newest
  <2>3. CASE i # a /\ k # a /\ i # a + 1 /\ k = a + 1
    <3>1. i < a
      BY <1>0, <1>4, <2>3
    <3> QED BY <1>0, <2>3, <3>1 DEF Newest
  <2>4. CASE i # a /\ k # a /\ i # a + 1 /\ k # a + 1
    BY <1>4, <2>4 DEF Newest
  <2> QED BY <2>1, <2>2, <2>3, <2>4
<1>5. Lines(q) \subseteq Lines(p)
  <2>1. \A i \in 0 .. Keep + 2 : Range(q[i]) \subseteq Lines(p)
    BY <1>0, <1>1, <1>2
  <2> QED BY <2>1 DEF Lines
<1>6. Lines(p) \subseteq Lines(q) \union Range(p[a + 1])
  <2>1. \A i \in 0 .. Keep + 2 : Range(p[i]) \subseteq Lines(q) \union Range(p[a + 1])
    BY <1>0, <1>1
  <2> QED BY <2>1 DEF Lines
<1>7. CASE a # Keep + 1
  <2>1. Range(p[a + 1]) \subseteq gone /\ q[Keep + 2] = p[Keep + 2]
    BY <1>0, <1>7
  <2>2. \A n : (n .. top) \ gone \subseteq Lines(p) => (n .. top) \ gone \subseteq Lines(q)
    BY <1>6, <2>1
  <2> QED BY <1>3, <1>4, <1>5, <2>1, <2>2 DEF Newest
<1>8. CASE a = Keep + 1
  <2>1. p[a] # <<>> /\ q[Keep + 2] = p[a] /\ a + 1 = Keep + 2
    BY <1>0, <1>8
  <2>2. ASSUME NEW n \in Lines(q), NEW m \in Range(p[Keep + 2]) PROVE m < n /\ m \in Nat /\ n \in Nat
    <3>1. PICK i \in 0 .. Keep + 2 : n \in Range(q[i])
      BY DEF Lines
    <3>2. \E k \in 0 .. Keep + 1 : n \in Range(p[k])
      <4>1. i # a
        BY <1>2, <3>1
      <4>2. CASE i = Keep + 2
        BY <2>1, <3>1, <4>2
      <4>3. CASE i # Keep + 2
        <5>1. i \in 0 .. Keep + 1
          BY <1>0, <4>3
        <5> QED BY <1>0, <2>1, <3>1, <4>1, <4>3, <5>1
      <4> QED BY <4>2, <4>3
    <3>3. PICK k \in 0 .. Keep + 1 : n \in Range(p[k])
      BY <3>2
    <3>4. k \in 0 .. Keep + 2 /\ k < Keep + 2
      BY <1>0
    <3>5. Older(p[Keep + 2], p[k])
      BY <1>0, <3>4 DEF Newest
    <3> QED BY <1>0, <1>1, <3>3, <3>4, <3>5 DEF Older
  <2>3. ASSUME NEW n \in Lines(q) PROVE (n .. top) \ gone \subseteq Lines(q)
    <3>1. (n .. top) \ gone \subseteq Lines(p)
      BY <1>5 DEF Newest
    <3>2. ASSUME NEW m \in n .. top, m \in Range(p[Keep + 2]) PROVE FALSE
      BY <2>2, <3>2
    <3> QED BY <1>6, <2>1, <3>1, <3>2
  <2> QED BY <1>3, <1>4, <1>5, <2>1, <2>3 DEF Newest
<1> QED BY <1>5, <1>7, <1>8

\* The oldest line of the batch becomes the newest of the live file.
LEMMA NewestWrites ==
  ASSUME NEW p \in Places, NEW q \in Places, NEW gone, NEW top \in Nat, Newest(p, gone, top),
         p[1] # <<>>, q[1] = Tail(p[1]), q[2] = Append(p[2], Head(p[1])),
         \A i \in 0 .. Keep + 2 : i # 1 /\ i # 2 => q[i] = p[i]
  PROVE  Newest(q, gone, top) /\ Lines(q) \subseteq Lines(p)
<1> DEFINE h == Head(p[1])
<1>0. 0 \in 0 .. Keep + 2 /\ 1 \in 0 .. Keep + 2 /\ 2 \in 0 .. Keep + 2 /\ Keep + 2 \in 0 .. Keep + 2 /\ Keep + 2 # 1 /\ Keep + 2 # 2
  BY WriterAssumption
<1>1. \A i \in 0 .. Keep + 2 : p[i] \in Seq(Nat) /\ Range(p[i]) \subseteq Nat
  BY DEF Places, Range
<1>2. /\ h \in Nat /\ Range(p[1]) = {h} \union Range(q[1]) /\ Sorted(q[1])
      /\ \A n \in Range(q[1]) : h < n
  BY <1>0, <1>1, LinesBehind DEF Newest
<1>3. \A i \in 0 .. Keep + 2 : 1 < i => \A m \in Range(p[i]) : m < h
  BY <1>0, <1>2 DEF Newest, Older
<1>4. Range(q[2]) = Range(p[2]) \union {h} /\ Sorted(q[2])
  BY <1>0, <1>1, <1>2, <1>3, LinesAppended DEF Newest
<1> HIDE DEF h
<1>5. Lines(q) = Lines(p)
  <2>1. ASSUME NEW i \in 0 .. Keep + 2 PROVE Range(q[i]) \subseteq Lines(p)
    BY <1>0, <1>2, <1>4 DEF Lines
  <2>2. ASSUME NEW i \in 0 .. Keep + 2 PROVE Range(p[i]) \subseteq Lines(q)
    <3>1. \A k \in 0 .. Keep + 2 : Range(q[k]) \subseteq Lines(q)
      BY DEF Lines
    <3> QED BY <1>0, <1>2, <1>4, <3>1
  <2>3. Lines(q) \subseteq Lines(p)
    BY <2>1 DEF Lines
  <2>4. Lines(p) \subseteq Lines(q)
    BY <2>2 DEF Lines
  <2> QED BY <2>3, <2>4
<1>6. \A i \in 0 .. Keep + 2 : Sorted(q[i])
  BY <1>2, <1>4 DEF Newest
<1>7. ASSUME NEW i \in 0 .. Keep + 2, NEW k \in 0 .. Keep + 2, i < k PROVE Older(q[k], q[i])
  <2>1. Older(p[k], p[i])
    BY <1>7 DEF Newest
  <2>2. CASE k = 1
    <3>1. i = 0
      BY <1>7, <2>2
    <3> QED BY <1>2, <2>1, <2>2, <3>1 DEF Older
  <2>3. CASE k = 2
    <3>1. i = 0 \/ i = 1
      BY <1>7, <2>3
    <3>2. CASE i = 0
      <4>1. Older(p[1], p[0])
        BY <1>0 DEF Newest
      <4>2. \A n \in Range(q[0]) : (\A m \in Range(p[2]) : m < n) /\ h < n
        <5>1. q[0] = p[0] /\ h \in Range(p[1])
          BY <1>0, <1>2
        <5>2. \A n \in Range(p[0]) : h < n
          BY <4>1, <5>1 DEF Older
        <5>3. \A n \in Range(p[0]) : \A m \in Range(p[2]) : m < n
          BY <2>1, <2>3, <3>2 DEF Older
        <5> QED BY <5>1, <5>2, <5>3
      <4> QED BY <1>4, <2>3, <3>2, <4>2 DEF Older
    <3>3. CASE i = 1
      BY <1>2, <1>4, <2>1, <2>3, <3>3 DEF Older
    <3> QED BY <3>1, <3>2, <3>3
  <2>4. CASE k # 1 /\ k # 2 /\ i = 1
    BY <1>2, <2>1, <2>4 DEF Older
  <2>5. CASE k # 1 /\ k # 2 /\ i = 2
    <3>1. 1 < k
      BY <1>7, <2>5
    <3> QED BY <1>3, <1>4, <2>1, <2>5, <3>1 DEF Older
  <2>6. CASE k # 1 /\ k # 2 /\ i # 1 /\ i # 2
    BY <2>1, <2>6
  <2> QED BY <2>2, <2>3, <2>4, <2>5, <2>6
<1>8. q[Keep + 2] = p[Keep + 2]
  BY <1>0
<1> QED BY <1>5, <1>6, <1>7, <1>8 DEF Newest

\* What is given up counts as lost.
LEMMA NewestLoses ==
  ASSUME NEW p \in Places, NEW q \in Places, NEW gone, NEW more, NEW top, Newest(p, gone, top),
         gone \subseteq more,
         \A i \in 0 .. Keep + 2 : /\ Sorted(q[i]) /\ Range(q[i]) \subseteq Range(p[i])
                                  /\ Range(p[i]) \subseteq Range(q[i]) \union more,
         q[Keep + 2] = p[Keep + 2]
  PROVE  Newest(q, more, top) /\ Lines(q) \subseteq Lines(p)
<1>1. Lines(q) \subseteq Lines(p) /\ Lines(p) \subseteq Lines(q) \union more
  BY DEF Lines
<1>2. \A i, k \in 0 .. Keep + 2 : i < k => Older(q[k], q[i])
  BY DEF Newest, Older
<1>3. \A n : (n .. top) \ gone \subseteq Lines(p) => (n .. top) \ more \subseteq Lines(q)
  BY <1>1
<1> QED BY <1>1, <1>2, <1>3 DEF Newest

-------------------------------------------------------------------------------
\* A line is counted before it is kept or lost.
Counted == \A n \in Kept \union lost : n <= last

\* A batch is taken when the last one is written, and the last of them from an empty queue; a rotation overwrites
\* no file but the oldest, one it has moved, or one whose lines were lost with its rename.
Stages ==
  /\ worker \in {"opening", "looking", "asleep", "leaving", "exited"} => batch = <<>>
  /\ final \/ worker = "leaving" => stop /\ queue = <<>>
  /\ worker = "exited" => final
  /\ worker = "rotating" => /\ unflushed = 0
                            /\ shifting < Keep - 1 => Range(files[shifting + 1]) \subseteq lost

WriterInv == WriterTypeOK /\ KeepsNewest /\ Counted /\ Stages

PlaceOf(q, b, f) == [i \in 0 .. Keep + 2 |-> IF i = 0 THEN q ELSE IF i = 1 THEN b ELSE f[i - 2]]

\* p has the queue q, the batch b and the files f in their places.
Hold(p, q, b, f) ==
  /\ p \in Places
  /\ p[0] = q /\ p[1] = b /\ p[2] = f[0] /\ p[Keep + 2] = f[Keep]
  /\ \A i \in 0 .. Keep : p[i + 2] = f[i]
  /\ \A i \in 0 .. Keep + 2 : i = 0 \/ i = 1 \/ (i - 2 \in 0 .. Keep /\ p[i] = f[i - 2])

LEMMA PlacesHold ==
  ASSUME NEW q \in Seq(1 .. MaxLines), NEW b \in Seq(1 .. MaxLines), NEW f \in [0 .. Keep -> Seq(1 .. MaxLines)]
  PROVE  Hold(PlaceOf(q, b, f), q, b, f)
<1> DEFINE p == PlaceOf(q, b, f)
<1>0. Keep \in Nat /\ 0 \in 0 .. Keep + 2 /\ 1 \in 0 .. Keep + 2 /\ 0 \in 0 .. Keep /\ Keep \in 0 .. Keep
  BY WriterAssumption
<1>1. \A s : s \in Seq(1 .. MaxLines) => s \in Seq(Nat)
  BY WriterAssumption
<1>2. \A i \in 0 .. Keep + 2 : i = 0 \/ i = 1 \/ i - 2 \in 0 .. Keep
  BY <1>0
<1>3. q \in Seq(Nat) /\ b \in Seq(Nat) /\ \A i \in 0 .. Keep : f[i] \in Seq(Nat)
  BY <1>1
<1>4. \A i \in 0 .. Keep + 2 : p[i] = IF i = 0 THEN q ELSE IF i = 1 THEN b ELSE f[i - 2]
  BY DEF PlaceOf
<1>4a. p = [i \in 0 .. Keep + 2 |-> p[i]]
  BY DEF PlaceOf
<1> HIDE DEF p
<1>5. p \in Places
  <2>1. \A i \in 0 .. Keep + 2 : p[i] \in Seq(Nat)
    BY <1>2, <1>3, <1>4
  <2> QED BY <1>4a, <2>1 DEF Places
<1>6. \A i \in 0 .. Keep : p[i + 2] = f[i]
  <2>1. \A i \in 0 .. Keep : i + 2 \in 0 .. Keep + 2 /\ i + 2 # 0 /\ i + 2 # 1 /\ (i + 2) - 2 = i
    BY <1>0
  <2> QED BY <1>4, <2>1
<1>7. p[2] = f[0]
  <2>1. 0 + 2 = 2
    OBVIOUS
  <2> QED BY <1>0, <1>6, <2>1
<1> QED BY <1>0, <1>2, <1>4, <1>5, <1>6, <1>7 DEF Hold, p

LEMMA PlaceFacts ==
  ASSUME WriterTypeOK
  PROVE  Hold(Place, queue, batch, files) /\ Kept = Lines(Place)
<1>1. Kept = Lines(Place)
  BY DEF Kept, Lines
<1>2. /\ queue \in Seq(1 .. MaxLines) /\ batch \in Seq(1 .. MaxLines) /\ files \in [0 .. Keep -> Seq(1 .. MaxLines)]
      /\ Place = PlaceOf(queue, batch, files)
  BY DEF Place, PlaceOf, WriterTypeOK
<1> QED BY <1>1, <1>2, PlacesHold

\* The same after a step.
LEMMA PlaceFactsNext ==
  ASSUME WriterTypeOK'
  PROVE  /\ Hold(Place', queue', batch', files') /\ Kept' = Lines(Place')
         /\ Newest(Place', lost', last') => KeepsNewest'
<1>1. Kept' = Lines(Place')
  BY DEF Kept, Lines
<1>2. Hold(Place', queue', batch', files')
  <2>1. /\ queue' \in Seq(1 .. MaxLines) /\ batch' \in Seq(1 .. MaxLines)
        /\ files' \in [0 .. Keep -> Seq(1 .. MaxLines)]
        /\ Place' = PlaceOf(queue', batch', files')
    BY DEF Place, PlaceOf, WriterTypeOK
  <2> QED BY <2>1, PlacesHold
<1>3. Newest(Place', lost', last') => KeepsNewest'
  BY <1>1, <1>2 DEF KeepsNewest, Newest, Hold
<1> QED BY <1>1, <1>2, <1>3

LEMMA WriterStarts == WriterInit => WriterInv
<1> SUFFICES ASSUME WriterInit PROVE WriterInv
  OBVIOUS
<1>1. WriterTypeOK
  <2>1. Len(<<>>) = 0 /\ <<>> \in Seq(1 .. MaxLines)
    OBVIOUS
  <2>2. files[0] = <<>>
    BY WriterAssumption DEF WriterInit
  <2> QED BY <2>1, <2>2, WriterAssumption DEF WriterInit, WriterTypeOK
<1>2. \A i \in 0 .. Keep + 2 : Place[i] = <<>>
  BY <1>1, PlaceFacts DEF WriterInit, Hold
<1>3. Kept = {}
  <2>1. Range(<<>>) = {}
    BY DEF Range
  <2> QED BY <1>2, <2>1 DEF Kept
<1>4. KeepsNewest
  <2>1. Sorted(<<>>) /\ Older(<<>>, <<>>) /\ 1 .. 0 = {}
    BY DEF Sorted, Older, Range
  <2> QED BY <1>2, <1>3, <2>1 DEF KeepsNewest, WriterInit
<1> QED BY <1>1, <1>3, <1>4 DEF WriterInv, Counted, Stages, WriterInit

\* What a step has to show of the places.
LEMMA PlacesStep ==
  ASSUME WriterInv, WriterTypeOK', Newest(Place', lost', last'), last <= last',
         \A n \in Lines(Place') \union lost' : n \in Lines(Place) \union lost \/ n = last'
  PROVE  KeepsNewest' /\ Counted'
<1>1. KeepsNewest' /\ Kept' = Lines(Place')
  BY PlaceFactsNext
<1>2. Kept = Lines(Place) /\ Kept \subseteq Nat
  <2>1. Hold(Place, queue, batch, files) /\ Kept = Lines(Place)
    BY PlaceFacts DEF WriterInv
  <2> QED BY <2>1 DEF Hold, Places, Lines, Range
<1>3. lost \subseteq Nat /\ last \in Nat /\ last' \in Nat
  BY WriterAssumption DEF WriterInv, WriterTypeOK
<1>4. ASSUME NEW n \in Lines(Place') \union lost' PROVE n <= last'
  <2>1. CASE n = last'
    BY <1>3, <2>1
  <2>2. CASE n \in Lines(Place) \union lost
    <3>1. n \in Nat /\ n <= last
      BY <1>2, <1>3, <2>2 DEF WriterInv, Counted
    <3> QED BY <1>3, <3>1
  <2> QED BY <1>4, <2>1, <2>2
<1> QED BY <1>1, <1>4 DEF Counted

LEMMA PlacesStay ==
  ASSUME WriterInv, UNCHANGED <<queue, batch, files, last, lost>>
  PROVE  KeepsNewest' /\ Counted'
<1>1. UNCHANGED <<Place, Kept>>
  BY DEF Place, Kept
<1> QED BY <1>1 DEF WriterInv, KeepsNewest, Counted

\* What is known of the places before a step.
LEMMA PlacesNow ==
  ASSUME WriterInv
  PROVE  /\ Hold(Place, queue, batch, files) /\ Kept = Lines(Place) /\ Newest(Place, lost, last)
         /\ Place \in Places /\ last \in Nat /\ lost \subseteq Nat /\ \A n \in Lines(Place) : n <= last
<1>1. Hold(Place, queue, batch, files) /\ Kept = Lines(Place)
  BY PlaceFacts DEF WriterInv
<1> QED BY <1>1, NewestIsKept, WriterAssumption DEF WriterInv, WriterTypeOK, Counted, Hold

LEMMA AppendLineKeeps ==
  ASSUME WriterInv, AppendLine
  PROVE  WriterInv'
<1>1. CASE Full
  <2>1. UNCHANGED <<queue, last, worker>> /\ drops' \in 0 .. MaxLines
    BY <1>1, WriterAssumption DEF AppendLine, WriterInv, WriterTypeOK
  <2>2. WriterTypeOK' /\ Stages'
    BY <2>1 DEF AppendLine, WriterInv, WriterTypeOK, Stages
  <2>3. KeepsNewest' /\ Counted'
    BY <2>1, PlacesStay DEF AppendLine
  <2> QED BY <2>2, <2>3 DEF WriterInv
<1>2. CASE ~Full
  <2>1. /\ last < MaxLines /\ last' = last + 1 /\ queue' = Append(queue, last + 1) /\ worker' = Wake /\ UNCHANGED drops
        /\ ~stop /\ UNCHANGED <<stop, batch, final, shifting, open, bytes, files, unflushed, lost, deaths, failures>>
    BY <1>2 DEF AppendLine
  <2>2. /\ queue \in Seq(1 .. MaxLines) /\ Len(queue) < QueueCap /\ last \in 0 .. MaxLines /\ last + 1 \in 1 .. MaxLines
        /\ Len(queue) \in Nat
    BY <1>2, <2>1, WriterAssumption DEF WriterInv, WriterTypeOK, Full
  <2>3. queue' \in Seq(1 .. MaxLines) /\ Len(queue') <= QueueCap /\ last' \in 0 .. MaxLines
    BY <2>1, <2>2, WriterAssumption
  <2>4. worker' = worker \/ (worker = "asleep" /\ worker' = "looking")
    BY <2>1 DEF Wake
  <2>5. WriterTypeOK'
    BY <2>1, <2>3, <2>4 DEF WriterInv, WriterTypeOK
  <2>6. Stages'
    BY <2>1, <2>4 DEF WriterInv, Stages
  <2>7. /\ Hold(Place, queue, batch, files) /\ Newest(Place, lost, last) /\ Place \in Places
        /\ last \in Nat /\ \A n \in Lines(Place) : n <= last
    BY PlacesNow
  <2>8. Hold(Place', queue', batch', files') /\ Place' \in Places
    BY <2>5, PlaceFactsNext DEF Hold
  <2>9. Place'[0] = Append(Place[0], last + 1)
    BY <2>1, <2>7, <2>8 DEF Hold
  <2>10. \A i \in 1 .. Keep + 2 : Place'[i] = Place[i]
    <3>1. \A i \in 1 .. Keep + 2 : i # 0 /\ i \in 0 .. Keep + 2
      BY WriterAssumption
    <3> QED BY <2>1, <2>7, <2>8, <3>1 DEF Hold
  <2>11. Newest(Place', lost, last + 1) /\ Lines(Place') \subseteq Lines(Place) \union {last + 1}
    <3> DEFINE q == Place'
    <3> HIDE DEF q
    <3>1. Newest(q, lost, last + 1) /\ Lines(q) \subseteq Lines(Place) \union {last + 1}
      BY <2>7, <2>8, <2>9, <2>10, NewestQueues DEF q
    <3> QED BY <3>1 DEF q
  <2>12. last <= last'
    BY <2>1, <2>7
  <2>13. KeepsNewest' /\ Counted'
    BY <2>1, <2>5, <2>11, <2>12, PlacesStep
  <2> QED BY <2>5, <2>6, <2>13 DEF WriterInv
<1> QED BY <1>1, <1>2

LEMMA QuietSteps ==
  ASSUME WriterInv, Stop \/ Open \/ Flush \/ Rotate
  PROVE  WriterInv'
<1>1. /\ UNCHANGED <<queue, batch, files, last, lost, drops, final, deaths>>
      /\ WriterTypeOK /\ Stages
  BY DEF Stop, Open, Flush, Rotate, WriterInv
<1>2. KeepsNewest' /\ Counted'
  BY <1>1, PlacesStay
<1>3. CASE Stop
  <2>1. worker' = worker \/ (worker = "asleep" /\ worker' = "looking")
    BY <1>3 DEF Stop, Wake
  <2>2. WriterTypeOK'
    BY <1>1, <1>3, <2>1 DEF Stop, WriterTypeOK
  <2>3. Stages'
    BY <1>1, <1>3, <2>1 DEF Stop, Stages
  <2> QED BY <1>2, <2>2, <2>3 DEF WriterInv
<1>4. CASE Open
  <2>1. /\ worker' \in {"looking", "appending"} /\ (worker' = "looking" => worker = "opening")
        /\ open' \in BOOLEAN /\ bytes' \in {0, Len(files[0])}
        /\ failures' = failures \/ (failures < Failures /\ failures' = failures + 1)
        /\ UNCHANGED <<stop, shifting, unflushed>>
    BY <1>4 DEF Open, Reopen
  <2>2. Len(files[0]) \in Nat
    BY <1>1, WriterAssumption DEF WriterTypeOK
  <2>3. bytes' \in Nat /\ failures' \in 0 .. Failures
    <3>1. bytes' \in Nat
      BY <2>1, <2>2
    <3>2. failures \in 0 .. Failures /\ Failures \in Nat
      BY <1>1, WriterAssumption DEF WriterTypeOK
    <3>3. failures' \in 0 .. Failures
      BY <2>1, <3>2
    <3> QED BY <3>1, <3>3
  <2>4. WriterTypeOK'
    BY <1>1, <2>1, <2>3 DEF WriterTypeOK
  <2>5. Stages'
    BY <1>1, <1>4, <2>1 DEF Stages, Open
  <2> QED BY <1>2, <2>4, <2>5 DEF WriterInv
<1>5. CASE Flush
  <2>1. 0 \in 0 .. Len(files[0])
    BY <1>1, WriterAssumption DEF WriterTypeOK
  <2>2. WriterTypeOK'
    BY <1>1, <1>5, <2>1 DEF Flush, WriterTypeOK
  <2>3. Stages'
    BY <1>1, <1>5 DEF Flush, Stages
  <2> QED BY <1>2, <2>2, <2>3 DEF WriterInv
<1>6. CASE Rotate
  <2>1. 0 \in 0 .. Len(files[0]) /\ Keep - 1 \in 0 .. Keep - 1 /\ ~(Keep - 1 < Keep - 1)
    BY <1>1, WriterAssumption DEF WriterTypeOK
  <2>2. WriterTypeOK'
    BY <1>1, <1>6, <2>1 DEF Rotate, FirstShift, WriterTypeOK
  <2>3. Stages'
    BY <1>1, <1>6, <2>1 DEF Rotate, FirstShift, Stages
  <2> QED BY <1>2, <2>2, <2>3 DEF WriterInv
<1> QED BY <1>3, <1>4, <1>5, <1>6

\* The queue becomes the batch, which was empty.
LEMMA BatchKeeps ==
  ASSUME WriterInv, WriterTypeOK', batch = <<>>, queue' = <<>>, batch' = queue, UNCHANGED <<files, last, lost>>
  PROVE  KeepsNewest' /\ Counted'
<1> DEFINE p == Place
           q == Place'
<1>1. /\ Hold(p, queue, batch, files) /\ Newest(p, lost, last) /\ last \in Nat
  BY PlacesNow
<1>2. Hold(q, queue', batch', files')
  BY PlaceFactsNext
<1> HIDE DEF p, q
<1>3. p \in Places /\ q \in Places /\ q[0] = <<>> /\ q[0 + 1] = p[0]
  <2>1. 0 + 1 = 1
    OBVIOUS
  <2> QED BY <1>1, <1>2, <2>1 DEF Hold
<1>4. \A i \in 0 .. Keep + 2 : i # 0 /\ i # 0 + 1 => q[i] = p[i]
  <2>1. 0 + 1 = 1
    OBVIOUS
  <2> QED BY <1>1, <1>2, <2>1 DEF Hold
<1>5. 0 \in 0 .. Keep + 1 /\ 0 # Keep + 1
  BY WriterAssumption
<1>6. Range(p[0 + 1]) \subseteq lost
  <2>1. p[0 + 1] = <<>>
    BY <1>1 DEF Hold
  <2>2. Range(<<>>) = {}
    BY DEF Range
  <2> QED BY <2>1, <2>2
<1>7. Newest(q, lost, last) /\ Lines(q) \subseteq Lines(p)
  BY <1>1, <1>3, <1>4, <1>5, <1>6, NewestMoves
<1>8. last <= last' /\ Newest(Place', lost', last') /\ Lines(Place') \subseteq Lines(Place)
  BY <1>1, <1>7 DEF p, q
<1> QED BY <1>8, PlacesStep

LEMMA BatchSteps ==
  ASSUME WriterInv, TakeBatch \/ FinalDrain
  PROVE  WriterInv'
<1>1. WriterTypeOK /\ Stages /\ UNCHANGED <<drops, stop, last, shifting, open, bytes, files, unflushed, lost, deaths, failures>>
  BY DEF TakeBatch, FinalDrain, WriterInv
<1>2. batch = <<>>
  BY DEF WriterInv, Stages, TakeBatch, FinalDrain
<1>3. CASE TakeBatch /\ worker' = "asleep"
  <2>1. queue = <<>> /\ ~stop /\ UNCHANGED <<queue, batch, final>> /\ worker = "looking"
    BY <1>2, <1>3 DEF TakeBatch, Done
  <2>2. WriterTypeOK' /\ Stages'
    BY <1>1, <1>2, <1>3, <2>1 DEF WriterTypeOK, Stages
  <2> QED BY <1>1, <2>1, <2>2, PlacesStay DEF WriterInv
<1>4. CASE TakeBatch /\ worker' # "asleep"
  <2>1. /\ batch' = queue /\ queue' = <<>> /\ UNCHANGED final /\ worker = "looking"
        /\ worker' = IF Done THEN "leaving" ELSE "writing"
    BY <1>4 DEF TakeBatch
  <2>2. <<>> \in Seq(1 .. MaxLines) /\ Len(<<>>) <= QueueCap
    BY WriterAssumption
  <2>3. WriterTypeOK'
    BY <1>1, <2>1, <2>2 DEF WriterTypeOK
  <2>4. Stages'
    BY <1>1, <2>1 DEF Stages, Done
  <2> QED BY <1>1, <1>2, <2>1, <2>3, <2>4, BatchKeeps DEF WriterInv
<1>5. CASE FinalDrain
  <2>1. batch' = queue /\ queue' = <<>> /\ final' = TRUE /\ worker' = "writing" /\ worker = "leaving"
    BY <1>5 DEF FinalDrain
  <2>2. <<>> \in Seq(1 .. MaxLines) /\ Len(<<>>) <= QueueCap
    BY WriterAssumption
  <2>3. WriterTypeOK'
    BY <1>1, <2>1, <2>2 DEF WriterTypeOK
  <2>4. Stages'
    BY <1>1, <2>1 DEF Stages
  <2> QED BY <1>1, <1>2, <2>1, <2>3, <2>4, BatchKeeps DEF WriterInv
<1> QED BY <1>3, <1>4, <1>5

LEMMA LinesOf ==
  ASSUME NEW s \in Seq(1 .. MaxLines)
  PROVE  s \in Seq(Nat) /\ Range(s) \subseteq 1 .. MaxLines
<1>1. \A i \in 1 .. Len(s) : s[i] \in 1 .. MaxLines
  <2> DEFINE S == 1 .. MaxLines
  <2>1. s \in Seq(S)
    OBVIOUS
  <2> HIDE DEF S
  <2>2. \A i \in 1 .. Len(s) : s[i] \in S
    BY <2>1
  <2> QED BY <2>2 DEF S
<1>2. Range(s) \subseteq 1 .. MaxLines
  <2>1. DOMAIN s = 1 .. Len(s)
    OBVIOUS
  <2> HIDE DEF Range
  <2>2. \A x \in Range(s) : \E i \in DOMAIN s : x = s[i]
    BY DEF Range
  <2> QED BY <1>1, <2>1, <2>2
<1>3. s \in Seq(Nat)
  BY <1>1, WriterAssumption
<1> QED BY <1>2, <1>3

LEMMA WriteLineKeeps ==
  ASSUME WriterInv, WriteLine
  PROVE  WriterInv'
<1> DEFINE p == Place
           q == Place'
<1>1. /\ WriterTypeOK /\ Stages /\ batch # <<>> /\ batch' = Tail(batch) /\ worker' = "writing"
      /\ UNCHANGED <<queue, drops, stop, last, final, shifting, open, deaths, failures>>
      /\ worker \in {"appending", "writing"}
  BY DEF WriterInv, WriteLine
<1>2. /\ batch \in Seq(1 .. MaxLines) /\ Head(batch) \in 1 .. MaxLines /\ Tail(batch) \in Seq(1 .. MaxLines)
      /\ files \in [0 .. Keep -> Seq(1 .. MaxLines)] /\ 0 \in 0 .. Keep /\ files[0] \in Seq(1 .. MaxLines)
      /\ Len(files[0]) \in Nat /\ unflushed \in 0 .. Len(files[0]) /\ lost \subseteq 1 .. MaxLines /\ bytes \in Nat
  <2>1. batch \in Seq(1 .. MaxLines) /\ batch # <<>>
    BY <1>1 DEF WriterTypeOK
  <2>2. Head(batch) \in 1 .. MaxLines /\ Tail(batch) \in Seq(1 .. MaxLines)
    BY <2>1, EmptySeq, HeadTailProperties
  <2> QED BY <1>1, <2>1, <2>2, WriterAssumption DEF WriterTypeOK
<1>3. Stages'
  BY <1>1 DEF Stages
<1>4. Hold(p, queue, batch, files) /\ Newest(p, lost, last) /\ last \in Nat
  BY PlacesNow
<1>5. CASE open
  <2>1. /\ files' = [files EXCEPT ![0] = Append(files[0], Head(batch))]
        /\ unflushed' = unflushed + 1 /\ bytes' = bytes + 1 /\ UNCHANGED lost
    BY <1>5 DEF WriteLine
  <2>2. Append(files[0], Head(batch)) \in Seq(1 .. MaxLines) /\ Len(Append(files[0], Head(batch))) = Len(files[0]) + 1
    BY <1>2
  <2>3. /\ files' \in [0 .. Keep -> Seq(1 .. MaxLines)] /\ files'[0] = Append(files[0], Head(batch))
        /\ \A i \in 0 .. Keep : i # 0 => files'[i] = files[i]
    BY <1>2, <2>1, <2>2
  <2>4. unflushed' \in 0 .. Len(files'[0]) /\ bytes' \in Nat
    BY <1>2, <2>1, <2>2, <2>3
  <2>5. WriterTypeOK'
    BY <1>1, <1>2, <2>1, <2>3, <2>4 DEF WriterTypeOK
  <2>6. Hold(q, queue', batch', files')
    BY <2>5, PlaceFactsNext
  <2> HIDE DEF p, q
  <2>7. /\ p \in Places /\ q \in Places /\ p[1] # <<>> /\ q[1] = Tail(p[1]) /\ q[2] = Append(p[2], Head(p[1]))
    BY <1>1, <1>4, <2>3, <2>6 DEF Hold
  <2>8. \A i \in 0 .. Keep + 2 : i # 1 /\ i # 2 => q[i] = p[i]
    <3>1. \A i \in 0 .. Keep + 2 : i # 2 => i - 2 # 0
      OBVIOUS
    <3> QED BY <1>1, <1>4, <2>3, <2>6, <3>1 DEF Hold
  <2>9. Newest(q, lost, last) /\ Lines(q) \subseteq Lines(p)
    BY <1>4, <2>7, <2>8, NewestWrites
  <2>10. last <= last' /\ Newest(Place', lost', last') /\ Lines(Place') \subseteq Lines(Place)
    BY <1>1, <1>4, <2>1, <2>9 DEF p, q
  <2>11. KeepsNewest' /\ Counted'
    BY <2>1, <2>5, <2>10, PlacesStep
  <2> QED BY <1>3, <2>5, <2>11 DEF WriterInv
<1>6. CASE ~open
  <2>1. lost' = lost \union {Head(batch)} /\ UNCHANGED <<files, unflushed, bytes>>
    BY <1>6 DEF WriteLine
  <2>2. WriterTypeOK'
    BY <1>1, <1>2, <2>1 DEF WriterTypeOK
  <2>3. Hold(q, queue', batch', files')
    BY <2>2, PlaceFactsNext
  <2> HIDE DEF p, q
  <2>4. /\ p \in Places /\ q \in Places /\ p[1] = batch /\ q[1] = Tail(batch) /\ q[Keep + 2] = p[Keep + 2]
        /\ \A i \in 0 .. Keep + 2 : i # 1 => q[i] = p[i]
    BY <1>1, <1>4, <2>1, <2>3 DEF Hold
  <2>5. /\ Range(batch) = {Head(batch)} \union Range(Tail(batch)) /\ (Sorted(batch) => Sorted(Tail(batch)))
    <3>1. batch \in Seq(Nat)
      BY <1>2, LinesOf
    <3> QED BY <1>1, <3>1, LinesBehind
  <2>6. ASSUME NEW i \in 0 .. Keep + 2
        PROVE  Sorted(q[i]) /\ Range(q[i]) \subseteq Range(p[i]) /\ Range(p[i]) \subseteq Range(q[i]) \union lost'
    BY <1>4, <2>1, <2>4, <2>5 DEF Newest
  <2>7. Newest(q, lost', last) /\ Lines(q) \subseteq Lines(p)
    BY <1>4, <2>1, <2>4, <2>6, NewestLoses
  <2>8. Head(batch) \in Lines(p)
    <3>1. 1 \in 0 .. Keep + 2
      BY WriterAssumption
    <3> QED BY <2>4, <2>5, <3>1 DEF Lines
  <2>9. last <= last' /\ Newest(Place', lost', last') /\ Lines(Place') \subseteq Lines(Place) /\ Head(batch) \in Lines(Place)
    BY <1>1, <1>4, <2>7, <2>8 DEF p, q
  <2>10. KeepsNewest' /\ Counted'
    BY <2>1, <2>2, <2>9, PlacesStep
  <2> QED BY <1>3, <2>2, <2>10 DEF WriterInv
<1> QED BY <1>5, <1>6

\* A rename moves a file over one that it may overwrite, and the next is the one it came from.
LEMMA ShiftKeeps ==
  ASSUME WriterInv, Shift
  PROVE  WriterInv'
<1> DEFINE p == Place
           q == Place'
           f == files[shifting]
<1>1. /\ WriterTypeOK /\ Stages /\ worker = "rotating" /\ unflushed = 0
      /\ shifting < Keep - 1 => Range(files[shifting + 1]) \subseteq lost
      /\ shifting' = (IF shifting = 0 THEN 0 ELSE shifting - 1)
      /\ worker' = (IF shifting = 0 THEN "reopening" ELSE "rotating")
      /\ UNCHANGED <<queue, drops, stop, last, batch, final, open, bytes, unflushed, deaths>>
  BY DEF WriterInv, Shift, Stages
<1>2. /\ shifting \in 0 .. Keep - 1 /\ Keep \in Nat /\ Keep >= 2 /\ shifting \in 0 .. Keep /\ shifting + 1 \in 0 .. Keep
      /\ files \in [0 .. Keep -> Seq(1 .. MaxLines)] /\ f \in Seq(1 .. MaxLines) /\ Range(f) \subseteq 1 .. MaxLines
      /\ shifting # shifting + 1 /\ shifting' \in 0 .. Keep - 1 /\ lost \subseteq 1 .. MaxLines
      /\ failures \in 0 .. Failures /\ Failures \in Nat
  <2>1. shifting \in 0 .. Keep - 1 /\ Keep \in Nat /\ Keep >= 2 /\ files \in [0 .. Keep -> Seq(1 .. MaxLines)]
    BY <1>1, WriterAssumption DEF WriterTypeOK
  <2>2. shifting \in 0 .. Keep /\ shifting + 1 \in 0 .. Keep /\ shifting # shifting + 1 /\ shifting' \in 0 .. Keep - 1
    BY <1>1, <2>1
  <2>3. f \in Seq(1 .. MaxLines)
    BY <2>1, <2>2
  <2>4. Range(f) \subseteq 1 .. MaxLines
    BY <2>3, LinesOf
  <2> QED BY <1>1, <2>1, <2>2, <2>3, <2>4, WriterAssumption DEF WriterTypeOK
<1>3. Hold(p, queue, batch, files) /\ Newest(p, lost, last) /\ last \in Nat
  BY PlacesNow
<1>4. Range(<<>>) = {}
  BY DEF Range
<1>5. \* What the next rename needs to know.
      ASSUME WriterTypeOK', KeepsNewest', Counted', Range(files'[shifting]) \subseteq lost'
      PROVE  WriterInv'
  <2>1. worker' = "rotating" => shifting' + 1 = shifting
    BY <1>1, <1>2
  <2>2. Stages'
    BY <1>1, <1>5, <2>1 DEF Stages
  <2> QED BY <1>5, <2>2 DEF WriterInv
<1>6. CASE failures' # failures
  <2>1. /\ failures < Failures /\ failures' = failures + 1 /\ UNCHANGED files
        /\ lost' = IF shifting = 0 THEN lost ELSE lost \union Range(f)
    BY <1>6 DEF Shift
  <2>2. failures' \in 0 .. Failures /\ lost' \subseteq 1 .. MaxLines
    <3> HIDE DEF f
    <3>1. failures' \in 0 .. Failures
      BY <1>2, <2>1
    <3>2. lost' \subseteq 1 .. MaxLines
      BY <1>2, <2>1
    <3> QED BY <3>1, <3>2
  <2>3. WriterTypeOK'
    BY <1>1, <1>2, <2>1, <2>2 DEF WriterTypeOK
  <2>4. Place' = Place
    BY <1>1, <2>1 DEF Place
  <2> HIDE DEF p
  <2>5. \A i \in 0 .. Keep + 2 : Sorted(p[i])
    BY <1>3 DEF Newest
  <2>6. p \in Places /\ lost \subseteq lost'
    BY <1>3, <2>1 DEF Hold
  <2>7. Newest(p, lost', last)
    BY <1>3, <2>5, <2>6, NewestLoses
  <2>8. Range(f) \subseteq Lines(p)
    <3>1. p[shifting + 2] = f /\ shifting + 2 \in 0 .. Keep + 2
      BY <1>2, <1>3 DEF Hold
    <3> QED BY <3>1 DEF Lines
  <2>9. last <= last' /\ Newest(Place', lost', last') /\ Lines(Place') = Lines(Place) /\ Range(f) \subseteq Lines(Place)
    BY <1>1, <1>3, <2>4, <2>7, <2>8 DEF p
  <2>10. KeepsNewest' /\ Counted'
    BY <2>1, <2>3, <2>9, PlacesStep
  <2>11. CASE shifting = 0
    <3>1. Stages'
      BY <1>1, <2>11 DEF Stages
    <3> QED BY <2>3, <2>10, <3>1 DEF WriterInv
  <2>12. CASE shifting # 0
    BY <1>5, <2>1, <2>3, <2>10, <2>12
  <2> QED BY <2>11, <2>12
<1>7. CASE failures' = failures /\ f = <<>>
  <2>1. UNCHANGED <<files, lost>>
    BY <1>2, <1>7 DEF Shift
  <2>2. WriterTypeOK'
    BY <1>1, <1>2, <1>7, <2>1 DEF WriterTypeOK
  <2> QED BY <1>1, <1>4, <1>5, <1>7, <2>1, <2>2, PlacesStay
<1>8. CASE failures' = failures /\ f # <<>>
  <2>1. files' = [files EXCEPT ![shifting + 1] = f, ![shifting] = <<>>] /\ UNCHANGED lost
    BY <1>2, <1>8 DEF Shift
  <2>2. <<>> \in Seq(1 .. MaxLines)
    OBVIOUS
  <2>3. /\ files' \in [0 .. Keep -> Seq(1 .. MaxLines)] /\ files'[shifting] = <<>> /\ files'[shifting + 1] = f
        /\ \A i \in 0 .. Keep : i # shifting /\ i # shifting + 1 => files'[i] = files[i]
    <3> HIDE DEF f
    <3> QED BY <1>2, <2>1, <2>2
  <2>4. 0 \in 0 .. Len(files'[0])
    <3>1. files'[0] \in Seq(1 .. MaxLines)
      BY <1>2, <2>3
    <3> QED BY <3>1
  <2>5. WriterTypeOK'
    BY <1>1, <1>2, <1>8, <2>1, <2>3, <2>4 DEF WriterTypeOK
  <2>6. Hold(q, queue', batch', files')
    BY <2>5, PlaceFactsNext
  <2> DEFINE a == shifting + 2
  <2> HIDE DEF p, q, f
  <2>7. /\ p \in Places /\ q \in Places /\ a \in 0 .. Keep + 1 /\ a + 1 = (shifting + 1) + 2
    BY <1>2, <1>3, <2>6 DEF Hold
  <2>8. q[a] = <<>> /\ q[a + 1] = p[a] /\ p[a] = f /\ p[a + 1] = files[shifting + 1]
    <3>1. p[a] = f /\ p[a + 1] = files[shifting + 1]
      <4>1. p[shifting + 2] = files[shifting] /\ p[(shifting + 1) + 2] = files[shifting + 1]
        BY <1>2, <1>3 DEF Hold
      <4> QED BY <2>7, <4>1 DEF f
    <3>2. q[a] = files'[shifting] /\ q[a + 1] = files'[shifting + 1]
      <4>1. q[shifting + 2] = files'[shifting] /\ q[(shifting + 1) + 2] = files'[shifting + 1]
        BY <1>2, <2>6 DEF Hold
      <4> QED BY <2>7, <4>1
    <3> QED BY <2>3, <3>1, <3>2
  <2>9. ASSUME NEW i \in 0 .. Keep + 2, i # a, i # a + 1 PROVE q[i] = p[i]
    <3>1. i - 2 # shifting /\ i - 2 # shifting + 1
      BY <1>2, <2>9
    <3>2. i = 0 \/ i = 1 \/ (i - 2 \in 0 .. Keep /\ p[i] = files[i - 2] /\ q[i] = files'[i - 2])
      BY <1>3, <2>6 DEF Hold
    <3> QED BY <1>1, <1>3, <2>3, <2>6, <3>1, <3>2 DEF Hold
  <2>10. IF a = Keep + 1 THEN p[a] # <<>> ELSE Range(p[a + 1]) \subseteq lost
    <3>1. a # Keep + 1 => shifting < Keep - 1
      BY <1>2
    <3> QED BY <1>1, <1>8, <2>8, <3>1 DEF f
  <2> HIDE DEF a
  <2>11. Newest(q, lost, last) /\ Lines(q) \subseteq Lines(p)
    BY <1>3, <2>7, <2>8, <2>9, <2>10, NewestMoves
  <2>12. last <= last' /\ Newest(Place', lost', last') /\ Lines(Place') \subseteq Lines(Place)
    BY <1>1, <1>3, <2>1, <2>11 DEF p, q
  <2>13. KeepsNewest' /\ Counted'
    BY <2>1, <2>5, <2>12, PlacesStep
  <2> QED BY <1>4, <1>5, <2>3, <2>5, <2>13
<1> QED BY <1>6, <1>7, <1>8

LEMMA DieKeeps ==
  ASSUME WriterInv, Die
  PROVE  WriterInv'
<1> DEFINE p == Place
           q == Place'
           live == files[0]
<1>1. PICK k \in 0 .. unflushed :
        /\ files' = [files EXCEPT ![0] = SubSeq(live, 1, Len(live) - k)]
        /\ lost' = lost \union Range(queue) \union Range(batch)
                     \union Range(SubSeq(live, Len(live) - k + 1, Len(live)))
  BY DEF Die
<1> DEFINE n == Len(live) - k
           start == SubSeq(live, 1, n)
           rest == SubSeq(live, n + 1, Len(live))
<1>2. /\ WriterTypeOK /\ NewWriter /\ UNCHANGED <<last, failures>> /\ deaths' = deaths + 1 /\ deaths < Deaths
  BY DEF Die, WriterInv
<1>3. /\ files \in [0 .. Keep -> Seq(1 .. MaxLines)] /\ 0 \in 0 .. Keep /\ Keep \in 0 .. Keep /\ Keep # 0
      /\ live \in Seq(1 .. MaxLines) /\ live \in Seq(Nat) /\ lost \subseteq 1 .. MaxLines
      /\ queue \in Seq(1 .. MaxLines) /\ batch \in Seq(1 .. MaxLines) /\ deaths' \in 0 .. Deaths
  BY <1>2, WriterAssumption DEF WriterTypeOK
<1>4. n \in 0 .. Len(live)
  <2>1. Len(live) \in Nat /\ unflushed \in 0 .. Len(live)
    BY <1>2, <1>3 DEF WriterTypeOK
  <2> QED BY <2>1
<1>5. /\ start \in Seq(1 .. MaxLines) /\ (Sorted(live) => Sorted(start)) /\ Range(live) = Range(start) \union Range(rest)
  <2> HIDE DEF live, n
  <2> QED BY <1>3, <1>4, LinesOfStart
<1>6. files' = [files EXCEPT ![0] = start] /\ lost' = lost \union Range(queue) \union Range(batch) \union Range(rest)
  BY <1>1
<1> HIDE DEF start, rest, n, live
<1>7. /\ files' \in [0 .. Keep -> Seq(1 .. MaxLines)] /\ files'[0] = start
      /\ \A i \in 0 .. Keep : i # 0 => files'[i] = files[i]
  BY <1>3, <1>5, <1>6
<1>8. Range(queue) \subseteq 1 .. MaxLines /\ Range(batch) \subseteq 1 .. MaxLines /\ Range(live) \subseteq 1 .. MaxLines
  BY <1>3, LinesOf
<1>9. WriterTypeOK'
  <2>1. /\ <<>> \in Seq(1 .. MaxLines) /\ Len(<<>>) <= QueueCap /\ 0 \in 0 .. MaxLines /\ 0 \in 0 .. Keep - 1
        /\ 0 \in Nat /\ 0 \in 0 .. Len(files'[0])
    BY <1>5, <1>7, WriterAssumption
  <2>2. lost' \subseteq 1 .. MaxLines
    BY <1>3, <1>5, <1>6, <1>8
  <2> QED BY <1>2, <1>3, <1>7, <2>1, <2>2 DEF WriterTypeOK, NewWriter
<1>10. Stages'
  BY <1>2 DEF NewWriter, Stages
<1>11. Hold(p, queue, batch, files) /\ Newest(p, lost, last) /\ last \in Nat
  BY PlacesNow
<1>12. Hold(q, queue', batch', files')
  BY <1>9, PlaceFactsNext
<1>13. Range(<<>>) = {} /\ Sorted(<<>>)
  BY DEF Range, Sorted
<1> HIDE DEF p, q
<1>14. /\ p \in Places /\ q \in Places /\ q[Keep + 2] = p[Keep + 2]
       /\ q[0] = <<>> /\ q[1] = <<>> /\ q[2] = start /\ p[0] = queue /\ p[1] = batch /\ p[2] = live
  BY <1>2, <1>3, <1>7, <1>11, <1>12 DEF Hold, NewWriter, live
<1>15. \A i \in 0 .. Keep + 2 : i = 0 \/ i = 1 \/ i = 2 \/ q[i] = p[i]
  <2>1. \A i \in 0 .. Keep + 2 : i # 2 => i - 2 # 0
    OBVIOUS
  <2> QED BY <1>7, <1>11, <1>12, <2>1 DEF Hold
<1>16. Range(queue) \union Range(batch) \union Range(live) \subseteq Lines(p)
  <2>1. 0 \in 0 .. Keep + 2 /\ 1 \in 0 .. Keep + 2 /\ 2 \in 0 .. Keep + 2
    BY WriterAssumption
  <2> QED BY <1>14, <2>1 DEF Lines
<1>17. ASSUME NEW i \in 0 .. Keep + 2
       PROVE  Sorted(q[i]) /\ Range(q[i]) \subseteq Range(p[i]) /\ Range(p[i]) \subseteq Range(q[i]) \union lost'
  <2>1. Sorted(p[i])
    BY <1>11 DEF Newest
  <2> QED BY <1>5, <1>6, <1>13, <1>14, <1>15, <2>1
<1>18. Newest(q, lost', last) /\ Lines(q) \subseteq Lines(p)
  <2>1. lost \subseteq lost'
    BY <1>6
  <2> QED BY <1>11, <1>14, <1>17, <2>1, NewestLoses
<1>19. last <= last' /\ Newest(Place', lost', last') /\ Lines(Place') \subseteq Lines(Place)
       /\ \A m \in lost' : m \in Lines(Place) \union lost
  BY <1>2, <1>5, <1>6, <1>11, <1>16, <1>18 DEF p, q
<1>20. KeepsNewest' /\ Counted'
  BY <1>9, <1>19, PlacesStep
<1> QED BY <1>9, <1>10, <1>20 DEF WriterInv

LEMMA RestartKeeps ==
  ASSUME WriterInv, Restart
  PROVE  WriterInv'
<1>1. queue = <<>> /\ batch = <<>> /\ NewWriter /\ UNCHANGED <<last, files, lost, deaths, failures>> /\ WriterTypeOK
  BY DEF WriterInv, Stages, Restart
<1>2. KeepsNewest' /\ Counted'
  BY <1>1, PlacesStay DEF NewWriter
<1>3. /\ <<>> \in Seq(1 .. MaxLines) /\ Len(<<>>) <= QueueCap /\ 0 \in 0 .. MaxLines /\ 0 \in 0 .. Keep - 1
      /\ 0 \in Nat /\ 0 \in 0 .. Len(files[0])
  BY <1>1, WriterAssumption DEF WriterTypeOK
<1>4. WriterTypeOK'
  BY <1>1, <1>3 DEF NewWriter, WriterTypeOK
<1>5. Stages'
  BY <1>1 DEF NewWriter, Stages
<1> QED BY <1>2, <1>4, <1>5 DEF WriterInv

\* append, write_batch, rotate_if_needed and ~JsonlWriter (src/feedback.cpp): what the queue, the batch and the
\* files hold is in order, once each, and without a hole but for lines lost to a death of the process or a
\* failure of the file system, for every size of the files and the queue and wherever the process dies.
THEOREM WriterKeepsNewest == WriterSpec => [](WriterTypeOK /\ KeepsNewest)
<1>1. WriterInv /\ [WriterNext]_writerVars => WriterInv'
  <2> SUFFICES ASSUME WriterInv, [WriterNext]_writerVars PROVE WriterInv'
    OBVIOUS
  <2>1. CASE UNCHANGED writerVars
    <3>1. UNCHANGED <<queue, batch, files, last, lost>>
      BY <2>1 DEF writerVars
    <3>2. WriterTypeOK' /\ Stages'
      BY <2>1 DEF writerVars, WriterInv, WriterTypeOK, Stages
    <3> QED BY <3>1, <3>2, PlacesStay DEF WriterInv
  <2>2. CASE AppendLine
    BY <2>2, AppendLineKeeps
  <2>3. CASE Stop \/ Open \/ Flush \/ Rotate
    BY <2>3, QuietSteps
  <2>4. CASE TakeBatch \/ FinalDrain
    BY <2>4, BatchSteps
  <2>5. CASE WriteLine
    BY <2>5, WriteLineKeeps
  <2>6. CASE Shift
    BY <2>6, ShiftKeeps
  <2>7. CASE Die
    BY <2>7, DieKeeps
  <2>8. CASE Restart
    BY <2>8, RestartKeeps
  <2> QED BY <2>1, <2>2, <2>3, <2>4, <2>5, <2>6, <2>7, <2>8 DEF WriterNext, Work
<1>2. WriterInv => WriterTypeOK /\ KeepsNewest
  BY DEF WriterInv
<1> QED BY WriterStarts, <1>1, <1>2, PTL DEF WriterSpec
===============================================================================
