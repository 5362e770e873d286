----------------------------- MODULE PolledSources -----------------------------
(* Sources polled for what is new: records with a watermark, and feeds with the ids seen.

   The sections share no state: each has its own Init, Next and Spec. *)
EXTENDS Integers, Sequences, FiniteSets, FiniteSetsExt

--------------------------------------------------------------------------------
(***************************************************************************)
(* The record sources that are polled with a checkpoint: the REST list, the*)
(* MCP package tool and the database query.  poll_all drains one of them,  *)
(* and its caller keeps the checkpoint of the batches that were accepted.  *)
(*                                                                         *)
(* Records are numbered in the order the source lists them; their stamps   *)
(* are taken from one clock and compared by value.                         *)
(***************************************************************************)

CONSTANTS
    Records,      \* positive numbers
    PageSize,     \* the source's, REST and MCP
    MaxRows,      \* max_rows, the cap of a query
    MaxBatches,   \* max_batches
    None,
    MaxRecordTime, \* bound: the clock
    MaxEdits,     \* bound: rows written or deleted
    MaxRecordFaults \* bound: polls that fail, and callers that stop

VARIABLES
    kind,         \* "rest", "mcp" or "database"
    bound,        \* database: watermark_param is set
    row,          \* row[r]: the stamp of r, 0 when the source does not list it
    recordClock,
    edits,        \* rows written or deleted so far
    recordSaved,  \* the checkpoint that was kept
    run,          \* the poll_all under way, or None
    engine,       \* engine[r]: the newest stamp of r that was accepted
    recordSweep,  \* ghost: the records the source has listed since the first page of
                  \* the sweep, with their stamps then
    late,         \* ghost: rows that appeared behind the watermark
    repeats,      \* ghost: records accepted again with the stamp they had
    recordFaults

recordVars == <<kind, bound, row, recordClock, edits, recordSaved, run, engine, recordSweep,
                late, repeats, recordFaults>>

Checkpoints ==
    [more : BOOLEAN, cursor : Records \cup {0}, seen : SUBSET Records,
     watermark : 0..MaxRecordTime]
Nothing == [more |-> FALSE, cursor |-> 0, seen |-> {}, watermark |-> 0]

RecordTypeOK ==
    /\ kind \in {"rest", "mcp", "database"} /\ bound \in BOOLEAN
    /\ row \in [Records -> 0..MaxRecordTime] /\ recordClock \in 1..MaxRecordTime
    /\ edits \in 0..MaxEdits /\ recordSaved \in Checkpoints
    /\ run # None => run.batches \in 0..MaxBatches /\ run.at \in Checkpoints
                     /\ run.last \in Checkpoints
                     /\ run.docs \subseteq Records \X (1..MaxRecordTime)
    /\ engine \in [Records -> 0..MaxRecordTime] /\ recordSweep \in [Records -> 0..MaxRecordTime]
    /\ late \subseteq Records /\ repeats \subseteq Records
    /\ recordFaults \in 0..MaxRecordFaults

RecordListed == {r \in Records : row[r] # 0}

RecordInit ==
    /\ kind \in {"rest", "mcp", "database"}
    /\ bound \in IF kind = "database" THEN BOOLEAN ELSE {FALSE}
    /\ row \in [Records -> 0..1] /\ recordClock = 1 /\ edits = 0
    /\ recordSaved = Nothing /\ run = None
    /\ engine = [r \in Records |-> 0] /\ recordSweep = row
    /\ late = {} /\ repeats = {} /\ recordFaults = 0

Edit == edits < MaxEdits /\ edits' = edits + 1
RecordFault == recordFaults < MaxRecordFaults /\ recordFaults' = recordFaults + 1

--------------------------------------------------------------------------------
(* The source *)

\* A row is written, with the time now or, in a transaction that began earlier, the
\* time before; the clock may move.
Write ==
    /\ Edit
    /\ \E r \in Records, t \in {recordClock, recordClock - 1} \ {0}, tick \in 0..1 :
         /\ t > row[r] /\ recordClock + tick <= MaxRecordTime
         /\ row' = [row EXCEPT ![r] = t] /\ recordClock' = recordClock + tick
         /\ late' = IF t <= recordSaved.watermark \/ (run # None /\ t <= run.last.watermark)
                    THEN late \cup {r} ELSE late \ {r}
    /\ UNCHANGED <<kind, bound, recordSaved, run, engine, recordSweep, repeats, recordFaults>>

Delete ==
    /\ Edit
    /\ \E r \in RecordListed : /\ row' = [row EXCEPT ![r] = 0]
                               /\ recordSweep' = [recordSweep EXCEPT ![r] = 0]
                               /\ late' = late \ {r}
    /\ UNCHANGED <<kind, bound, recordClock, recordSaved, run, engine, repeats, recordFaults>>

--------------------------------------------------------------------------------
(* poll: the documents and the checkpoint it answers with *)

Docs(rs) == {<<r, row[r]>> : r \in rs}

\* One page after the cursor, and the cursor of the next.
Rest(cursor) == {r \in RecordListed : r > cursor}
Page(cursor) ==
    {r \in Rest(cursor) : Cardinality({s \in Rest(cursor) : s <= r}) <= PageSize}
More(cursor) == Rest(cursor) # Page(cursor)
PageEnd(cursor) == IF More(cursor) THEN Max(Page(cursor)) ELSE 0

\* RestJsonConnector.poll.  Fault: a finished sweep keeps its cursor.
KeepsCursor(cp) ==
    [Nothing EXCEPT !.more = More(cp.cursor),
                    !.cursor = IF Page(cp.cursor) = {} THEN cp.cursor ELSE Max(Page(cp.cursor))]
RestNext(cp) == [Nothing EXCEPT !.more = More(cp.cursor), !.cursor = PageEnd(cp.cursor)]

\* MCPPackageConnector.poll: the ids of a page are remembered when it is the last.
McpNext(cp) ==
    [Nothing EXCEPT !.more = More(cp.cursor), !.cursor = PageEnd(cp.cursor),
                    !.seen = IF More(cp.cursor) THEN cp.seen ELSE cp.seen \cup Page(cp.cursor)]

\* DatabaseConnector.poll.  Fault: rows at the watermark are new.
Rows(cp) == IF bound THEN {r \in RecordListed : row[r] > cp.watermark} ELSE RecordListed
AtOrAfter(cp) == {r \in Rows(cp) : row[r] >= cp.watermark}
Newer(cp) == {r \in Rows(cp) : row[r] > cp.watermark}
DatabaseNext(cp) ==
    [Nothing EXCEPT !.watermark = Max({cp.watermark} \cup {row[r] : r \in Newer(cp)})]

RecordFresh(cp) ==
    CASE kind = "rest" -> Page(cp.cursor)
      [] kind = "mcp" -> Page(cp.cursor) \ cp.seen
      [] kind = "database" -> Newer(cp)
NextOf(cp) ==
    CASE kind = "rest" -> RestNext(cp)
      [] kind = "mcp" -> McpNext(cp)
      [] kind = "database" -> DatabaseNext(cp)
Answers(cp) == kind = "database" => Cardinality(Rows(cp)) <= MaxRows

--------------------------------------------------------------------------------
(* poll_all, and the caller that keeps last_checkpoint *)

Begin ==
    /\ run = None
    /\ run' = [at |-> recordSaved, last |-> recordSaved, docs |-> {}, batches |-> 0,
               go |-> TRUE]
    /\ UNCHANGED <<kind, bound, row, recordClock, edits, recordSaved, engine, recordSweep,
                   late, repeats, recordFaults>>

\* A sweep begins after a checkpoint that has no more.
RecordPoll ==
    /\ run # None /\ run.docs = {} /\ run.go /\ run.last = run.at
    /\ Answers(run.at)
    /\ run' = [run EXCEPT !.docs = Docs(RecordFresh(run.at)), !.last = NextOf(run.at),
               !.go = FALSE,
                          !.batches = @ + 1]
    /\ recordSweep' = IF ~run.at.more /\ kind # "database" THEN row ELSE recordSweep
    /\ UNCHANGED <<kind, bound, row, recordClock, edits, recordSaved, engine, late, repeats,
                   recordFaults>>

\* The caller takes the documents of a batch one at a time.
Accept ==
    /\ run # None
    /\ \E d \in run.docs :
         /\ run' = [run EXCEPT !.docs = @ \ {d}]
         /\ engine' = [engine EXCEPT ![d[1]] = Max({@, d[2]})]
         /\ repeats' = IF engine[d[1]] = d[2] THEN repeats \cup {d[1]} ELSE repeats
    /\ UNCHANGED <<kind, bound, row, recordClock, edits, recordSaved, recordSweep, late,
                   recordFaults>>

\* The documents are taken: last_checkpoint is set, and the loop goes on or ends.
Advance ==
    /\ run # None /\ run.docs = {} /\ ~run.go
    /\ recordSaved' = run.last
    /\ run' = IF run.last.more /\ run.batches < MaxBatches
              THEN [run EXCEPT !.at = run.last, !.go = TRUE] ELSE None
    /\ UNCHANGED <<kind, bound, row, recordClock, edits, engine, recordSweep, late, repeats,
                   recordFaults>>

\* A poll fails, or the caller stops.
Stop ==
    /\ run # None /\ RecordFault /\ run' = None
    /\ UNCHANGED <<kind, bound, row, recordClock, edits, recordSaved, engine, recordSweep,
                   late, repeats>>

Overflow ==
    /\ run # None /\ run.go /\ ~Answers(run.at) /\ run' = None
    /\ UNCHANGED <<kind, bound, row, recordClock, edits, recordSaved, engine, recordSweep,
                   late, repeats, recordFaults>>

RecordNext == Write \/ Delete \/ Begin \/ RecordPoll \/ Accept \/ Advance \/ Stop \/ Overflow

RecordSpec == RecordInit /\ [][RecordNext]_recordVars

--------------------------------------------------------------------------------
(* Properties *)

\* A sweep that ended covers what the source listed throughout, across callers that
\* stopped and pages that moved: REST in the version of then or a newer one, MCP in
\* some version, since a known id is not emitted again.
EndsStep ==
    recordSaved' # recordSaved /\ ~recordSaved'.more =>
        \A r \in Records : recordSweep[r] # 0 /\ kind # "database" =>
            IF kind = "rest" THEN engine[r] >= recordSweep[r] ELSE engine[r] # 0
EndsComplete == [][EndsStep]_recordVars

\* A row at or behind the watermark is in the engine, unless it appeared there late.
WatermarkCovers ==
    kind = "database" =>
        \A r \in RecordListed \ late : row[r] <= recordSaved.watermark => engine[r] >= row[r]

\* "a re-poll with no new rows yields nothing": a row is accepted again only if a
\* caller stopped between accepting it and keeping the checkpoint.
NoRepeats == kind = "database" /\ recordFaults = 0 => repeats = {}

--------------------------------------------------------------------------------
(***************************************************************************)
(* The rss and arxiv sources: a sweep fetches every feed, each at its own  *)
(* moment, and emits what is neither older than the watermark nor among    *)
(* the ids already seen.  The watermark is one for all feeds and moves     *)
(* only when every feed answered; the ids are kept up to a cap.  The       *)
(* caller keeps a poll's documents and checkpoint together, or neither.    *)
(***************************************************************************)

CONSTANTS
    Feeds,
    Entries,     \* document ids, numbers: the cap keeps the largest
    FeedOf,      \* FeedOf[e]
    Undated,     \* entries without a date
    SeenCap,     \* _SEEN_CAP
    MaxFeedTime, \* bound: the clock
    MaxFeedFaults \* bound: feeds that do not answer, polls that get lost

VARIABLES
    feedClock,
    date,        \* date[e]: when e was published, or None
    gone,        \* entries that their feed no longer lists
    feedSaved,   \* the checkpoint: watermark and seen_ids
    feedSweep,   \* feeds still to be fetched, documents, complete; or None
    emitted,     \* entries the caller got
    again,       \* entries the caller got more than once
    raced,       \* entries published while a sweep was under way
    evicted,     \* a seen id was dropped at the cap
    shown,       \* entries of a complete poll that was kept
    feedFaults

feedVars == <<feedClock, date, gone, feedSaved, feedSweep, emitted, again, raced, evicted,
              shown, feedFaults>>
feeds == <<feedClock, date, gone, raced>>
kept == <<feedSaved, emitted, again, evicted, shown>>

FeedTypeOK ==
    /\ feedClock \in 1..MaxFeedTime
    /\ date \in [Entries -> (1..MaxFeedTime) \cup {None}] /\ gone \subseteq Entries
    /\ feedSaved \in [watermark : 0..MaxFeedTime, seen : SUBSET Entries]
    /\ feedSweep \in {None} \cup [left : SUBSET Feeds, documents : SUBSET Entries,
                                  complete : BOOLEAN]
    /\ emitted \subseteq Entries /\ again \subseteq emitted
    /\ raced \subseteq Entries /\ evicted \in BOOLEAN /\ shown \subseteq Entries
    /\ feedFaults \in Nat

\* No checkpoint yet: the watermark is before every date.
FeedInit ==
    /\ feedClock = 1 /\ date = [e \in Entries |-> None] /\ gone = {}
    /\ feedSaved = [watermark |-> 0, seen |-> {}]
    /\ feedSweep = None
    /\ emitted = {} /\ again = {}
    /\ raced = {} /\ evicted = FALSE /\ shown = {} /\ feedFaults = 0

FeedFault == feedFaults < MaxFeedFaults /\ feedFaults' = feedFaults + 1

--------------------------------------------------------------------------------
(* The feeds: an entry appears in its feed at its date *)

Tick == feedClock < MaxFeedTime /\ feedClock' = feedClock + 1
        /\ UNCHANGED <<date, gone, raced, kept, feedSweep, feedFaults>>

Publish(e) ==
    /\ date[e] = None /\ date' = [date EXCEPT ![e] = feedClock]
    /\ raced' = IF feedSweep = None THEN raced ELSE raced \cup {e}
    /\ UNCHANGED <<feedClock, gone, kept, feedSweep, feedFaults>>

Drop(e) ==
    /\ date[e] # None /\ e \notin gone /\ gone' = gone \cup {e}
    /\ UNCHANGED <<feedClock, date, raced, kept, feedSweep, feedFaults>>

--------------------------------------------------------------------------------
(* _all_documents *)

FeedPoll ==
    /\ feedSweep = None
    /\ feedSweep' = [left |-> Feeds, documents |-> {}, complete |-> TRUE]
    /\ UNCHANGED <<feeds, kept, feedFaults>>

FeedListed(f) == {e \in Entries \ gone : FeedOf[e] = f /\ date[e] # None}

\* _entries: a feed that cannot be read gives nothing and spoils completeness.
Fetch(f) ==
    /\ feedSweep # None /\ f \in feedSweep.left
    /\ \/ /\ feedSweep' = [feedSweep EXCEPT !.left = @ \ {f},
                           !.documents = @ \cup FeedListed(f)]
          /\ UNCHANGED feedFaults
       \/ /\ FeedFault
          /\ feedSweep' = [feedSweep EXCEPT !.left = @ \ {f}, !.complete = FALSE]
    /\ UNCHANGED <<feeds, kept>>

--------------------------------------------------------------------------------
(* _checkpointed_delta *)

\* _is_fresh
FeedFresh(e) == e \notin feedSaved.seen /\ (e \in Undated \/ date[e] >= feedSaved.watermark)

\* Fault: the watermark moves whether every feed answered or not.
MovesAlways == Max({date[e] : e \in feedSweep.documents \ Undated} \cup {feedSaved.watermark})
NextWatermark ==
    IF feedSweep.complete
    THEN Max({date[e] : e \in feedSweep.documents \ Undated} \cup {feedSaved.watermark})
    ELSE feedSaved.watermark

\* sorted(...)[-_SEEN_CAP:]
Largest(ids) == {e \in ids : Cardinality({u \in ids : u >= e}) <= SeenCap}

\* Fault: only entries that the watermark cannot place are remembered.
OnlyUndated(ids) == Largest(feedSaved.seen \cup (ids \cap Undated))
SeenIds(ids) == Largest(feedSaved.seen \cup ids)

Keep ==
    LET fresh == {e \in feedSweep.documents : FeedFresh(e)} IN
    /\ feedSweep # None /\ feedSweep.left = {}
    /\ feedSaved' = [watermark |-> NextWatermark, seen |-> SeenIds(fresh)]
    /\ emitted' = emitted \cup fresh /\ again' = again \cup (fresh \cap emitted)
    /\ evicted' = (evicted \/ Cardinality(feedSaved.seen \cup fresh) > SeenCap)
    /\ shown' = IF feedSweep.complete THEN shown \cup feedSweep.documents ELSE shown
    /\ feedSweep' = None
    /\ UNCHANGED <<feeds, feedFaults>>

Lose ==
    /\ feedSweep # None /\ FeedFault /\ feedSweep' = None
    /\ UNCHANGED <<feeds, kept>>

FeedNext ==
    \/ Tick \/ FeedPoll \/ Keep \/ Lose
    \/ \E e \in Entries : Publish(e) \/ Drop(e)
    \/ \E f \in Feeds : Fetch(f)

FeedSpec == FeedInit /\ [][FeedNext]_feedVars

--------------------------------------------------------------------------------
(* Properties *)

\* An entry that a complete sweep listed has been emitted, though feeds fail,
\* answer late and share one watermark, unless it was published in the middle
\* of a sweep.
ListedIsEmitted == \A e \in shown \ raced : e \in emitted

\* As long as the cap has dropped no id, no entry is emitted twice, dated or not.
NeverAgain == evicted \/ again = {}
================================================================================
