---- MODULE Wiki ----
\* The wiki server's ingest (apps/llm_wiki): POST /wiki/ingest (main.cpp), WikiOps::ingest (wiki_ops.cpp) and
\* the files WikiStore writes (wiki_store.cpp). Handlers run on several threads and share one mutex, taken for
\* each store operation alone; a crash may come between any two writes, and a restart repairs nothing. No stream
\* is looked at after it was opened or written to, and no page name is refused: not INDEX, not CHANGELOG, and
\* none that an entry of the index cannot hold.
EXTENDS Naturals, FiniteSets, Sequences
CONSTANTS Ingests,     \* requests
          Answers,     \* what the LLM may return: sequences of Items
          File,        \* page_path: the file of each page name; a slash becomes a dash
          IndexFile, LogFile,   \* INDEX.md and CHANGELOG.md, which page_path gives as well
          Listed,      \* what the entry "- [[name]]" of each name lists when update_index reads it back: the name
                       \* or, when it has a line end or "]]" in it, others or none
          MaxCrashes,
          MayCut       \* the files a full disk or a refused open may keep from being written: "page", "index", "log"

None == "none"
Names == DOMAIN File
Files == {File[n] : n \in Names} \cup {IndexFile, LogFile}
\* A page the LLM wrote: its name; whether it has a summary, and the names for which a line of that summary
\* begins an entry; the names its text lists if it is read as an index.
Items == [page : Names, summary : BOOLEAN, more : SUBSET Names, lists : SUBSET Names]
ASSUME WikiAssumption ==
    /\ Answers \subseteq Seq(Items) /\ Listed \in [Names -> SUBSET Names] /\ IndexFile # LogFile
    /\ {None, "torn", "cut", "own"} \cap Ingests = {}
    /\ MaxCrashes \in Nat /\ MayCut \subseteq {"page", "index", "log"}

VARIABLES pages,    \* wiki/*.md: per file whose text it holds, None, "torn", "cut" or the store's "own"
          tmp,      \* the *.md.tmp files
          index,    \* the names that INDEX.md lists
          log,      \* what CHANGELOG.md has of the changes <<action, page, source>>
          mutex,    \* _mu: the request that holds it, or None
          op,       \* each request's coroutine
          crashes,
          short     \* the kinds of writes that were lost or cut so far
vars == <<pages, tmp, index, log, mutex, op, crashes, short>>
disk == <<pages, tmp, index, log>>
faults == <<crashes, short>>

\* said is what the LLM answered, todo what is left of it, updates what goes into the index.
Fresh == [pc |-> "new", said |-> {}, todo |-> <<>>, exists |-> FALSE, told |-> <<>>, updates |-> {}, old |-> {},
          sent |-> <<>>]
Init == /\ pages = [f \in Files |-> None] /\ tmp = {} /\ index = {} /\ log = {}
        /\ mutex = None /\ op = [r \in Ingests |-> Fresh] /\ crashes = 0 /\ short = {}

At(r, pc) == op[r].pc = pc
Set(r, rec) == op' = [op EXCEPT ![r] = rec]
Go(r, pc) == Set(r, [op[r] EXCEPT !.pc = pc])
Send(r, pc, events) == Set(r, [op[r] EXCEPT !.pc = pc, !.sent = @ \o events])
Locked(r) == mutex = r
Unlocked == mutex = None
Item(r) == Head(op[r].todo)
Page(r) == Item(r).page

-----------------------------------------------------------------------------
\* The handler. It refuses a wrong key before the stream is opened; a body that is no JSON, has no content or
\* names a file whose text cannot be extracted gets an error event and the stream ends.
Refuse(r) == At(r, "new") /\ Go(r, "refused") /\ UNCHANGED <<disk, mutex, faults>>
Reject(r) == At(r, "new") /\ Send(r, "closed", <<"error">>) /\ UNCHANGED <<disk, mutex, faults>>

\* WikiOps::ingest: the schema and the index go into the prompt, then the LLM is asked.
Ingest(r) == /\ At(r, "new") /\ Unlocked
             /\ Send(r, "llm", <<"status">>)
             /\ UNCHANGED <<disk, mutex, faults>>
\* An exception of the client, its timeout included, or an answer that does not parse.
LlmFails(r) == At(r, "llm") /\ Send(r, "closed", <<"error">>) /\ UNCHANGED <<disk, mutex, faults>>
\* parse_ingest: pages without a name or a text are skipped.
LlmAnswers(r) == /\ At(r, "llm")
                 /\ \E a \in Answers : Set(r, [op[r] EXCEPT !.pc = "look", !.todo = a, !.said = {a[i] : i \in DOMAIN a}])
                 /\ UNCHANGED <<disk, mutex, faults>>

-----------------------------------------------------------------------------
\* Page by page: read_page, write_page and log_change, each under the mutex on its own.
Look(r) == /\ At(r, "look") /\ op[r].todo # <<>> /\ Unlocked
           /\ Set(r, [op[r] EXCEPT !.pc = "write", !.exists = pages[File[Page(r)]] # None])
           /\ UNCHANGED <<disk, mutex, faults>>

\* The file system may refuse to look, for a name too long: the exception ends the ingest with an error.
LookFails(r) == /\ At(r, "look") /\ (op[r].todo # <<>> \/ op[r].updates # {}) /\ Unlocked
                /\ Send(r, "closed", <<"error">>)
                /\ UNCHANGED <<disk, mutex, faults>>

\* write_page writes beside the page and renames. A page named INDEX or CHANGELOG takes the place of the index,
\* which then lists what its text does, or of the change log. Mutant: it writes in place.
WriteInPlace(r) == /\ At(r, "write") /\ Unlocked
                   /\ mutex' = r /\ Go(r, "rename")
                   /\ pages' = [pages EXCEPT ![File[Page(r)]] = "torn"] /\ tmp' = tmp \cup {File[Page(r)]}
                   /\ UNCHANGED <<index, log, faults>>
WriteTmp(r) == /\ At(r, "write") /\ Unlocked
               /\ mutex' = r /\ Go(r, "rename")
               /\ tmp' = tmp \cup {File[Page(r)]}
               /\ UNCHANGED <<pages, index, log, faults>>
TakePlace(f, text, lists) == /\ pages' = [pages EXCEPT ![f] = text] /\ tmp' = tmp \ {f}
                             /\ index' = IF f = IndexFile THEN lists ELSE index
                             /\ log' = IF f = LogFile THEN {} ELSE log
Rename(r) == /\ At(r, "rename") /\ Locked(r)
             /\ mutex' = None /\ Go(r, "log")
             /\ TakePlace(File[Page(r)], r, Item(r).lists)
             /\ UNCHANGED faults

\* log_change appends. The page counts as created or updated by what Look saw; only a page with a summary is
\* put down for the index, and the last summary of a name counts.
LogOpened == [pages EXCEPT ![LogFile] = IF @ = None THEN "own" ELSE @]
NextPage(r) == Set(r, [op[r] EXCEPT !.pc = "look", !.todo = Tail(@), !.told = Append(@, Page(r)),
                                    !.updates = IF Item(r).summary THEN {u \in @ : u.page # Page(r)} \cup {Item(r)}
                                                                   ELSE @])
LogChange(r) ==
    /\ At(r, "log") /\ Unlocked
    /\ log' = log \cup {<<IF op[r].exists THEN "update" ELSE "create", Page(r), r>>}
    /\ pages' = LogOpened /\ NextPage(r)
    /\ UNCHANGED <<tmp, index, mutex, faults>>
\* The log cannot be opened, or the disk is full: the change is lost and nothing notices.
LogLost(r) == /\ At(r, "log") /\ Unlocked
              /\ "log" \in MayCut /\ short' = short \cup {"log"}
              /\ pages' \in {pages, LogOpened} /\ NextPage(r)
              /\ UNCHANGED <<tmp, index, log, mutex, crashes>>

\* update_index reads the index, truncates the file and writes it again, all under the mutex. Mutant: the
\* entries there were are not kept.
NoIndex(r) == /\ At(r, "look") /\ op[r].todo = <<>> /\ op[r].updates = {}
              /\ Go(r, "done") /\ UNCHANGED <<disk, mutex, faults>>
OnlyNew(r) == UNION {Listed[u.page] \cup u.more : u \in op[r].updates}
Merged(r) == op[r].old \cup UNION {Listed[u.page] \cup u.more : u \in op[r].updates}
IndexDue(r) == At(r, "look") /\ op[r].todo = <<>> /\ op[r].updates # {} /\ Unlocked
TruncateIndex(r) == /\ IndexDue(r)
                    /\ mutex' = r
                    /\ Set(r, [op[r] EXCEPT !.pc = "index", !.old = index])
                    /\ index' = {} /\ pages' = [pages EXCEPT ![IndexFile] = "own"]
                    /\ UNCHANGED <<tmp, log, faults>>
WriteIndex(r) == /\ At(r, "index") /\ Locked(r)
                 /\ mutex' = None /\ Go(r, "done")
                 /\ index' = Merged(r)
                 /\ UNCHANGED <<pages, tmp, log, faults>>
\* The disk is full once the file is truncated, or reading the old one failed: entries are lost, and the ingest
\* goes on as if they were not.
IndexCut(r) == /\ At(r, "index") /\ Locked(r)
               /\ "index" \in MayCut /\ short' = short \cup {"index"}
               /\ mutex' = None /\ Go(r, "done")
               /\ index' \in SUBSET Merged(r)
               /\ UNCHANGED <<pages, tmp, log, crashes>>
\* The index cannot be opened to be written: it stays as it is.
IndexRefused(r) == /\ IndexDue(r)
                   /\ "index" \in MayCut /\ short' = short \cup {"index"}
                   /\ Go(r, "done")
                   /\ UNCHANGED <<disk, mutex, crashes>>

\* A page event each, the summary, the end of the stream.
Finish(r) == /\ At(r, "done") /\ Send(r, "closed", op[r].told \o <<"done">>)
             /\ UNCHANGED <<disk, mutex, faults>>

\* The file system refuses a rename: the exception ends the ingest with an error; what was written stays, and
\* no index is written. Mutant: it is swallowed.
WriteIgnored(r) == /\ At(r, "rename") /\ Locked(r) /\ mutex' = None /\ Go(r, "log")
                   /\ UNCHANGED <<disk, faults>>
WriteFails(r) == /\ At(r, "rename") /\ Locked(r) /\ mutex' = None
                 /\ Send(r, "closed", <<"error">>)
                 /\ UNCHANGED <<disk, faults>>
\* The disk fills up while the temporary file is written: nothing looks at the stream, and what there is of the
\* page is renamed over the old one.
WriteCut(r) == /\ At(r, "rename") /\ Locked(r)
               /\ "page" \in MayCut /\ short' = short \cup {"page"}
               /\ mutex' = None /\ Go(r, "log")
               /\ \E lists \in SUBSET Item(r).lists : TakePlace(File[Page(r)], "cut", lists)
               /\ UNCHANGED crashes

-----------------------------------------------------------------------------
\* The process dies and is started again: WikiStore::init makes the directories and the schema, no more.
Crash == /\ crashes < MaxCrashes /\ crashes' = crashes + 1
         /\ mutex' = None
         /\ op' = [r \in Ingests |-> IF op[r].pc \in {"new", "closed", "refused"} THEN op[r]
                                     ELSE [op[r] EXCEPT !.pc = "lost"]]
         /\ UNCHANGED <<disk, short>>

Write(r) == \/ Ingest(r) \/ LlmFails(r) \/ LlmAnswers(r) \/ Look(r) \/ WriteTmp(r) \/ Rename(r)
            \/ LogChange(r) \/ NoIndex(r) \/ TruncateIndex(r) \/ WriteIndex(r) \/ Finish(r)
Fail(r) == LookFails(r) \/ WriteFails(r) \/ WriteCut(r) \/ LogLost(r) \/ IndexCut(r) \/ IndexRefused(r)
Next == (\E r \in Ingests : Refuse(r) \/ Reject(r) \/ Write(r) \/ Fail(r)) \/ Crash
Spec == Init /\ [][Next]_vars

-----------------------------------------------------------------------------
\* Whenever the process dies, every page on disk is the whole text of some ingest, but for one that a full disk
\* cut short. The index and the change log, written in place by the store, are no pages (list_pages).
PagesWhole == \A f \in Files \ {IndexFile, LogFile} :
                 pages[f] \in Ingests \cup {None} \cup (IF "page" \in short THEN {"cut"} ELSE {})

\* The names that an LLM's own text puts into the index: in the text of a page that takes the index's place,
\* behind a line end in a summary, or out of a name that the index cannot hold.
Claims(u) == (IF File[u.page] = IndexFile THEN u.lists ELSE {})
             \cup (IF u.summary THEN u.more \cup (Listed[u.page] \ {u.page}) ELSE {})
Claimed == UNION {Claims(u) : u \in UNION {op[r].said : r \in Ingests}}
\* Some LLM answered with a page that takes this file's place.
Named(f) == \E r \in Ingests : \E u \in op[r].said : File[u.page] = f

\* The index lists no page that is not there, not after a crash, not when an ingest fails half way and not on a
\* full disk, but for the names an LLM's text put into it.
IndexNamesPages == \A n \in index : pages[File[n]] # None \/ n \in Claimed

\* A client that was told done finds each page it was told of on disk, in the change log, and in the index if it
\* has a summary, however the ingests of others interleave. The log may miss it only if an append to it was
\* lost, the index only if a rewrite of it was lost, if the process died or if it cannot hold the name; and
\* either, once some LLM's page took its place.
DoneMeansIndexed ==
    \A r \in Ingests : At(r, "closed") /\ op[r].sent[Len(op[r].sent)] = "done"
        => \A i \in DOMAIN op[r].told :
              LET n == op[r].told[i]
              IN /\ pages[File[n]] # None
                 /\ "log" \notin short /\ ~Named(LogFile) => \E a \in {"create", "update"} : <<a, n, r>> \in log
                 /\ /\ \E u \in op[r].updates : u.page = n
                    /\ n \in Listed[n] /\ crashes = 0 /\ "index" \notin short /\ ~Named(IndexFile)
                    /\ \A q \in Ingests : ~At(q, "index")
                    => n \in index
==============================================================================
