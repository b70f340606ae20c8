----------------------------- MODULE JsonlWriter ------------------------------
(***************************************************************************)
(* astraea::JsonlWriter (src/feedback.cpp): the append-only logs of        *)
(* questions, routing and feedback, written by one thread of their own.    *)
(*                                                                         *)
(* A line is its number in the order of the accepted appends and has the   *)
(* length one.  Every rename of a rotation is a step, so that the process  *)
(* may die between two of them.                                            *)
(***************************************************************************)
EXTENDS Integers, Sequences, FiniteSets, SequencesExt

CONSTANTS MaxBytes,  \* max_bytes
          Keep,      \* keep: the rotated files
          QueueCap,  \* queue_cap
          MaxLines,  \* bound: appends
          Deaths,    \* bound: deaths of the process
          Failures   \* bound: failures of the file system

ASSUME WriterAssumption ==
  /\ MaxBytes \in Nat /\ Keep \in Nat /\ Keep >= 2 /\ QueueCap \in Nat \ {0}
  /\ MaxLines \in Nat /\ Deaths \in Nat /\ Failures \in Nat

VARIABLES
  queue,      \* _queue
  drops,      \* _drops
  stop,       \* _stop
  last,       \* the number of the last accepted line
  worker,     \* where the worker thread is
  batch,      \* what it has taken from the queue and not yet written
  final,      \* whether this is the batch after the loop
  shifting,   \* the next file a rotation renames; 0 is the live one
  open,       \* whether _file is open
  bytes,      \* _bytes_written
  files,      \* the lines of each file, 0 is the live one
  unflushed,  \* how many lines of the live file are only in the stream's buffer
  lost,       \* the lines given up to a crash, a file that did not open or was not renamed
  deaths, failures

writerVars == <<queue, drops, stop, last, worker, batch, final, shifting, open, bytes, files, unflushed, lost,
                deaths, failures>>

WriterTypeOK ==
  /\ queue \in Seq(1 .. MaxLines) /\ Len(queue) <= QueueCap
  /\ drops \in 0 .. MaxLines /\ stop \in BOOLEAN /\ last \in 0 .. MaxLines
  /\ worker \in {"opening", "looking", "asleep", "writing", "rotating", "reopening", "appending",
                 "leaving", "exited"}
  /\ batch \in Seq(1 .. MaxLines) /\ final \in BOOLEAN
  /\ shifting \in 0 .. Keep - 1 /\ open \in BOOLEAN /\ bytes \in Nat
  /\ files \in [0 .. Keep -> Seq(1 .. MaxLines)]
  /\ unflushed \in 0 .. Len(files[0]) /\ lost \subseteq 1 .. MaxLines
  /\ deaths \in 0 .. Deaths /\ failures \in 0 .. Failures

WriterInit ==
  /\ queue = <<>> /\ drops = 0 /\ stop = FALSE /\ last = 0
  /\ worker = "opening" /\ batch = <<>> /\ final = FALSE /\ shifting = 0
  /\ open = FALSE /\ bytes = 0
  /\ files = [i \in 0 .. Keep |-> <<>>]
  /\ unflushed = 0 /\ lost = {}
  /\ deaths = 0 /\ failures = 0

-------------------------------------------------------------------------------
(* The callers                                                             *)

\* Mutation: a line is queued, and the worker not told.
WakeNot == worker

\* notify_one: a worker that sleeps looks again.
Wake == IF worker = "asleep" THEN "looking" ELSE worker

Full == Len(queue) >= QueueCap

\* append(): a full queue drops the line.
AppendLine ==
  /\ ~stop
  /\ \/ /\ Full
        /\ drops < MaxLines
        /\ drops' = drops + 1
        /\ UNCHANGED <<queue, last, worker>>
     \/ /\ ~Full
        /\ last < MaxLines
        /\ last' = last + 1
        /\ queue' = Append(queue, last + 1)
        /\ worker' = Wake
        /\ UNCHANGED drops
  /\ UNCHANGED <<stop, batch, final, shifting, open, bytes, files, unflushed, lost, deaths, failures>>

\* ~JsonlWriter(); join() waits for the worker to exit.
Stop ==
  /\ ~stop
  /\ stop' = TRUE
  /\ worker' = Wake
  /\ UNCHANGED <<queue, drops, last, batch, final, shifting, open, bytes, files, unflushed, lost, deaths, failures>>

-------------------------------------------------------------------------------
(* The worker                                                              *)

\* open_file(): the byte counter starts from what the file has, if its size can
\* be read.
Reopen(live) ==
  \/ open' = TRUE /\ bytes' = Len(live) /\ UNCHANGED failures
  \/ /\ open' = FALSE /\ bytes' \in {0, Len(live)}
     /\ failures < Failures /\ failures' = failures + 1

Open ==
  /\ worker \in {"opening", "reopening"}
  /\ Reopen(files[0])
  /\ worker' = IF worker = "opening" THEN "looking" ELSE "appending"
  /\ UNCHANGED <<queue, drops, stop, last, batch, final, shifting, files, unflushed, lost, deaths>>

Done == stop /\ queue = <<>>

\* The wait, the swap and the end of the loop, under the mutex.
TakeBatch ==
  /\ worker = "looking"
  /\ \/ /\ queue = <<>> /\ ~stop
        /\ worker' = "asleep"
        /\ UNCHANGED <<queue, batch>>
     \/ /\ queue # <<>> \/ stop
        /\ batch' = queue
        /\ queue' = <<>>
        /\ worker' = IF Done THEN "leaving" ELSE "writing"
  /\ UNCHANGED <<drops, stop, last, final, shifting, open, bytes, files, unflushed, lost, deaths, failures>>

\* The last look at the queue after the loop.
FinalDrain ==
  /\ worker = "leaving"
  /\ batch' = queue
  /\ queue' = <<>>
  /\ final' = TRUE
  /\ worker' = "writing"
  /\ UNCHANGED <<drops, stop, last, shifting, open, bytes, files, unflushed, lost, deaths, failures>>

TooLong == bytes > MaxBytes

\* A line goes to the stream, or nowhere if the file is not open.
WriteLine ==
  /\ batch # <<>>
  /\ worker = "appending" \/ (worker = "writing" /\ ~TooLong)
  /\ worker' = "writing"
  /\ batch' = Tail(batch)
  /\ \/ /\ open
        /\ files' = [files EXCEPT ![0] = Append(@, Head(batch))]
        /\ unflushed' = unflushed + 1
        /\ bytes' = bytes + 1
        /\ UNCHANGED lost
     \/ /\ ~open
        /\ lost' = lost \union {Head(batch)}
        /\ UNCHANGED <<files, unflushed, bytes>>
  /\ UNCHANGED <<queue, drops, stop, last, final, shifting, open, deaths, failures>>

\* The end of a batch.
Flush ==
  /\ worker = "writing"
  /\ batch = <<>>
  /\ unflushed' = 0
  /\ worker' = IF final THEN "exited" ELSE "looking"
  /\ UNCHANGED <<queue, drops, stop, last, batch, final, shifting, open, bytes, files, lost, deaths, failures>>

\* Mutation: the live file is renamed before the older ones make room.
FirstShiftLive == 0

FirstShift == Keep - 1

\* rotate_if_needed(): the file is closed, and its buffer written.
Rotate ==
  /\ worker = "writing"
  /\ batch # <<>>
  /\ TooLong
  /\ open' = FALSE
  /\ unflushed' = 0
  /\ shifting' = FirstShift
  /\ worker' = "rotating"
  /\ UNCHANGED <<queue, drops, stop, last, batch, final, bytes, files, lost, deaths, failures>>

\* A rename from .i to .(i+1), from the oldest on; the live file is the last.
\* A rename that fails is passed over, and the next one overwrites that file.
Shift ==
  /\ worker = "rotating"
  /\ \/ /\ files' = IF files[shifting] = <<>> THEN files
                    ELSE [files EXCEPT ![shifting + 1] = files[shifting], ![shifting] = <<>>]
        /\ UNCHANGED <<failures, lost>>
     \/ /\ failures < Failures
        /\ failures' = failures + 1
        /\ lost' = IF shifting = 0 THEN lost ELSE lost \union Range(files[shifting])
        /\ UNCHANGED files
  /\ shifting' = IF shifting = 0 THEN 0 ELSE shifting - 1
  /\ worker' = IF shifting = 0 THEN "reopening" ELSE "rotating"
  /\ UNCHANGED <<queue, drops, stop, last, batch, final, open, bytes, unflushed, deaths>>

-------------------------------------------------------------------------------
(* The process                                                             *)

NewWriter ==
  /\ queue' = <<>> /\ drops' = 0 /\ stop' = FALSE
  /\ worker' = "opening" /\ batch' = <<>> /\ final' = FALSE /\ shifting' = 0
  /\ open' = FALSE /\ bytes' = 0 /\ unflushed' = 0

\* The process dies, with the queue, the batch and any part of the buffer; the
\* next one opens the same file.
Die ==
  /\ deaths < Deaths
  /\ deaths' = deaths + 1
  /\ NewWriter
  /\ \E k \in 0 .. unflushed :
       LET kept == Len(files[0]) - k IN
       /\ files' = [files EXCEPT ![0] = SubSeq(@, 1, kept)]
       /\ lost' = lost \union Range(queue) \union Range(batch)
                    \union Range(SubSeq(files[0], kept + 1, Len(files[0])))
  /\ UNCHANGED <<last, failures>>

\* It ends in an orderly way and is started again.
Restart ==
  /\ worker = "exited"
  /\ NewWriter
  /\ UNCHANGED <<last, files, lost, deaths, failures>>

Work == Open \/ TakeBatch \/ FinalDrain \/ WriteLine \/ Flush \/ Rotate \/ Shift

WriterNext == AppendLine \/ Stop \/ Work \/ Die \/ Restart

WriterSpec == WriterInit /\ [][WriterNext]_writerVars

\* The worker thread is scheduled and the file system answers.
FairWriterSpec == WriterSpec /\ WF_writerVars(Work)

-------------------------------------------------------------------------------
(* Properties                                                              *)

\* Where a line can be, the newest first: the queue, the batch, the files.
Place == [i \in 0 .. Keep + 2 |-> IF i = 0 THEN queue ELSE IF i = 1 THEN batch ELSE files[i - 2]]
Kept == UNION {Range(Place[i]) : i \in 0 .. Keep + 2}

Sorted(lines) == \A m, n \in 1 .. Len(lines) : m < n => lines[m] < lines[n]
Older(lines, others) == \A m \in Range(lines), n \in Range(others) : m < n

\* What is kept is the newest part of what was accepted, in order, once each
\* and without a hole, except for lines that a crash, a file that did not open
\* or a backup that could not be renamed took: rotation only ever gives up the
\* oldest of keep files, wherever the process dies between two renames.
KeepsNewest ==
  /\ \A i \in 0 .. Keep + 2 : Sorted(Place[i])
  /\ \A i, k \in 0 .. Keep + 2 : i < k => Older(Place[k], Place[i])
  /\ \A n \in Kept : (n .. last) \ lost \subseteq Kept
  /\ files[Keep] = <<>> => (1 .. last) \ lost \subseteq Kept

\* An accepted line is written or reported lost, also when the writer is
\* destroyed right after ("Destructor drains the queue before joining").
EachWritten ==
  \A n \in 1 .. MaxLines : last >= n ~> n \notin Range(queue) \union Range(batch)
===============================================================================
