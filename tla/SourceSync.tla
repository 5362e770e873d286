------------------------------- MODULE SourceSync ------------------------------
(***************************************************************************)
(* SourceSyncRunner.sync (ingest/source_sync.py): reads the declared tools *)
(* of one source page by page, submits the records whose digest changed in *)
(* batches to the engine, and keeps its own checkpoint (cursor, per-record *)
(* digests) in engine KV, written with compare-and-swap.                   *)
(*                                                                         *)
(* A sweep is one (for_each scope, tool) pair.  Every await (tool call,    *)
(* submit, checkpoint store) is a step of its own: another run, the source *)
(* or a failure can come in between.                                       *)
(***************************************************************************)
EXTENDS Integers, Sequences, FiniteSets

CONSTANTS
    Records,      \* record ids of the source
    Runs,         \* runner tasks that may call sync() on this source
    Sweeps,       \* number of (scope, tool) pairs of the source
    Listing0,     \* Listing0[s]: the records sweep s lists, in order
    Stamp0,       \* Stamp0[r]: the initial value of the record's cursor_field
    TextOf,       \* TextOf[n]: str() of cursor value n, as a sequence of digits
    Incremental,  \* spec.incremental
    Ascending,    \* TRUE: the tool lists by cursor_field, oldest first
    Paged,        \* spec.pagination = "page" (FALSE: "none")
    PageSize,     \* spec.page_size
    ParentPages,  \* pages of the for_each parent source (0: no for_each)
    Budgets,      \* the (max_pages, max_records) budgets runners are built with
    BatchSize,    \* budget.batch_size
    MaxDigests,   \* _MAX_DIGESTS
    None,         \* no cursor, no digest, nothing accepted
    MaxTouches,   \* bound: updates of each source record
    MaxFaults     \* bound: failed calls, lost answers, crashes

ASSUME SourceSyncAssumption ==
    /\ Sweeps \in Nat /\ PageSize \in Nat \ {0} /\ BatchSize \in Nat \ {0}
    /\ Listing0 \in [1..Sweeps -> Seq(Records)]
    /\ DOMAIN TextOf \subseteq Nat /\ TextOf \in [DOMAIN TextOf -> Seq(Nat)]
    /\ Stamp0 \in [Records -> DOMAIN TextOf]
    /\ Incremental \in BOOLEAN /\ Ascending \in BOOLEAN /\ Paged \in BOOLEAN
    /\ ParentPages \in Nat
    /\ Budgets \in SUBSET [pages : Nat, records : Nat]
    /\ MaxDigests \in Nat
    /\ None \notin Nat
    /\ MaxTouches \in Nat /\ MaxFaults \in Nat

VARIABLES
    content,   \* content[r]: which content the source holds (its digest)
    stamp,     \* stamp[r]: the record's cursor_field
    listing,   \* listing[s]: what sweep s lists now
    kv,        \* the stored checkpoint: cursor and digests
    current,   \* runs whose checkpoint version is the stored one
    accepted,  \* accepted[r]: the content the engine holds
    run,       \* run[i]: the _Run of task i, and where it is
    faults,    \* failures so far
    \* Observation only: no action reads these.
    ever,      \* <<record, content>> pairs the engine ever accepted
    untouched  \* untouched[i]: records the source did not change during run i

vars == <<content, stamp, listing, kv, current, accepted, run, faults, ever,
          untouched>>
origin == <<content, stamp, listing>>
engine == <<accepted, ever>>
stored == <<kv, current>>

Contents == 0..MaxTouches
Digests == [Records -> Contents \cup {None}]

NoDigests == [r \in Records |-> None]

Idle ==
    [step |-> "idle", mode |-> "incremental",
     budget |-> [pages |-> 0, records |-> 0], cursor |-> None,
     digests |-> NoDigests, high |-> None, pending |-> <<>>,
     rows |-> <<>>, short |-> FALSE, sweep |-> 1, page |-> 1, pages |-> 0,
     seen |-> 0, after |-> "none"]

Steps == {"idle", "parents", "sweep", "take", "flush", "store",
          "completed", "partial", "failed"}
Afters == {"none", "take", "next", "partial"}

Stamps == DOMAIN TextOf

\* What the tool says of one record: its id, its content, its cursor value.
Row(r) == [id |-> r, digest |-> content[r], stamp |-> stamp[r]]
Rows == [id : Records, digest : Contents, stamp : Stamps]

RunStates ==
    [step : Steps, mode : {"incremental", "full"},
     budget : [pages : Nat, records : Nat],
     cursor : Stamps \cup {None}, digests : Digests, high : Stamps \cup {None},
     pending : Seq(Rows), rows : Seq(Rows), short : BOOLEAN,
     sweep : Nat \ {0}, page : Nat \ {0}, pages : Nat, seen : Nat, after : Afters]

TypeOK ==
    /\ content \in [Records -> Contents]
    /\ stamp \in [Records -> Stamps]
    /\ listing \in [1..Sweeps -> Seq(Records)]
    /\ kv \in [cursor : Stamps \cup {None}, digests : Digests]
    /\ current \in SUBSET Runs
    /\ accepted \in Digests
    /\ run \in [Runs -> RunStates]
    /\ faults \in Nat
    /\ ever \in SUBSET (Records \X Contents)
    /\ untouched \in [Runs -> SUBSET Records]

Init ==
    /\ content = [r \in Records |-> 0]
    /\ stamp = Stamp0
    /\ listing = Listing0
    /\ kv = [cursor |-> None, digests |-> NoDigests]
    /\ current = {}
    /\ accepted = [r \in Records |-> None]
    /\ run = [i \in Runs |-> Idle]
    /\ faults = 0
    /\ ever = {}
    /\ untouched = [i \in Runs |-> {}]

--------------------------------------------------------------------------------
(* Cursors and digests: ingest/_sync_run.py *)

\* `<=` on two str() values.
TextLeq(m, n) ==
    LET s == TextOf[m]
        t == TextOf[n]
    IN  \/ Len(s) <= Len(t) /\ \A i \in 1..Len(s) : s[i] = t[i]
        \/ \E i \in 1..Len(s) :
             /\ i <= Len(t) /\ s[i] < t[i]
             /\ \A j \in 1..(i - 1) : s[j] = t[j]

\* run.cursor after a record with cursor value n was taken.
Higher(high, n) == IF high = None \/ ~TextLeq(n, high) THEN n ELSE high

BehindCursor(i, row) ==
    /\ Incremental /\ run[i].mode # "full"
    /\ run[i].cursor # None
    /\ TextLeq(row.stamp, run[i].cursor)

\* _is_unchanged.
IsUnchanged(i, row) ==
    BehindCursor(i, row) \/ run[i].digests[row.id] = row.digest

--------------------------------------------------------------------------------
(* One run *)

Set(i, new) == run' = [run EXCEPT ![i] = new]

\* sync(): the checkpoint is loaded; a full run forgets cursor and digests.
Start(i, mode, budget) ==
    /\ run[i].step = "idle"
    /\ LET full == mode = "full"
           cursor == IF full THEN None ELSE kv.cursor
       IN  Set(i, [Idle EXCEPT
                     !.step = "parents", !.mode = mode, !.budget = budget,
                     !.cursor = cursor, !.high = cursor,
                     !.digests = IF full THEN NoDigests ELSE kv.digests])
    /\ current' = current \cup {i}
    /\ untouched' = [untouched EXCEPT ![i] = Records]
    /\ UNCHANGED <<origin, kv, engine, faults>>

Fault == faults < MaxFaults /\ faults' = faults + 1

\* _parent_values: every page of the parent counts against the page budget, and
\* running out of it there fails the run (parent_budget_exhausted).
ReadParents(i) ==
    /\ run[i].step = "parents"
    /\ IF ParentPages > run[i].budget.pages
       THEN Set(i, [run[i] EXCEPT !.step = "failed", !.pages = run[i].budget.pages])
       ELSE Set(i, [run[i] EXCEPT !.step = "sweep", !.pages = ParentPages])
    /\ UNCHANGED <<origin, stored, engine, faults, untouched>>

\* _exhausted, without the clock.
Exhausted(i) ==
    run[i].pages >= run[i].budget.pages \/ run[i].seen >= run[i].budget.records

\* The budget ends the run: what is pending is flushed, then it is "partial".
EndOfBudget(i) ==
    Set(i, [run[i] EXCEPT !.step = "flush", !.after = "partial", !.rows = <<>>])

\* The rows of page p of sweep s: none past the end.
PageOf(s, p) ==
    LET all == [k \in 1..Len(listing[s]) |-> Row(listing[s][k])]
        first == (p - 1) * PageSize + 1
        last == p * PageSize
    IN  IF ~Paged THEN all
        ELSE IF first > Len(all) THEN <<>>
        ELSE SubSeq(all, first, IF last < Len(all) THEN last ELSE Len(all))

\* Fault: a page may run over the record budget.
ReadWholePage(i) ==
    LET r == run[i]
        rows == PageOf(r.sweep, r.page)
    IN
    /\ r.step = "sweep" /\ r.sweep <= Sweeps
    /\ \/ Exhausted(i) /\ EndOfBudget(i)
       \/ /\ ~Exhausted(i)
          /\ Set(i, [r EXCEPT !.step = "take", !.rows = rows, !.pages = @ + 1,
                              !.short = ~Paged \/ Len(rows) < PageSize])
    /\ UNCHANGED <<origin, stored, engine, faults, untouched>>

\* _sweep_tool, _source_page: the budget is checked, then the tool is called.
ReadPage(i) ==
    LET r == run[i]
        rows == PageOf(r.sweep, r.page)
    IN
    /\ r.step = "sweep" /\ r.sweep <= Sweeps
    /\ \/ Exhausted(i) /\ EndOfBudget(i)
       \/ /\ ~Exhausted(i)
          /\ Len(rows) > r.budget.records - r.seen
          /\ Set(i, [r EXCEPT !.step = "flush", !.after = "partial",
                              !.pages = @ + 1])
       \/ /\ ~Exhausted(i)
          /\ Len(rows) <= r.budget.records - r.seen
          /\ Set(i, [r EXCEPT !.step = "take", !.rows = rows, !.pages = @ + 1,
                              !.short = ~Paged \/ Len(rows) < PageSize])
    /\ UNCHANGED <<origin, stored, engine, faults, untouched>>

\* The last sweep is over.
Complete(i) ==
    /\ run[i].step = "sweep" /\ run[i].sweep > Sweeps
    /\ Set(i, [run[i] EXCEPT !.step = "completed"])
    /\ UNCHANGED <<origin, stored, engine, faults, untouched>>

\* A tool of the source or of its parent is still to be called.
Calling(i) ==
    \/ run[i].step = "parents" /\ ParentPages > 0
    \/ run[i].step = "sweep" /\ run[i].sweep <= Sweeps

\* The tool fails after its retries (tool_failed), or the parent source is
\* unusable (unknown_parent_source, for_each_cycle, fan_out_exceeded, or the time
\* budget ended before a parent page): pending records are dropped.
ToolFails(i) ==
    /\ Calling(i)
    /\ Fault
    /\ Set(i, [run[i] EXCEPT !.step = "failed", !.pending = <<>>])
    /\ UNCHANGED <<origin, stored, engine, untouched>>

\* The time budget ends, before or during a tool call.
Deadline(i) ==
    /\ Calling(i)
    /\ Fault
    /\ EndOfBudget(i)
    /\ UNCHANGED <<origin, stored, engine, untouched>>

\* _take of the next record of the page; a full batch is flushed.
Take(i) ==
    LET r == run[i]
        row == Head(r.rows)
        pending == IF IsUnchanged(i, row) THEN r.pending
                   ELSE Append(r.pending, row)
    IN
    /\ r.step = "take" /\ r.rows # <<>>
    /\ Set(i, [r EXCEPT
                 !.rows = Tail(@), !.seen = @ + 1, !.pending = pending,
                 !.high = IF IsUnchanged(i, row) THEN @ ELSE Higher(@, row.stamp),
                 !.step = IF Len(pending) >= BatchSize THEN "flush" ELSE "take",
                 !.after = "take"])
    /\ UNCHANGED <<origin, stored, engine, faults, untouched>>

\* Fault: a full page ends the sweep.
FullPageEnds(i) ==
    /\ run[i].step = "take" /\ run[i].rows = <<>>
    /\ Set(i, [run[i] EXCEPT !.step = "flush", !.after = "next"])
    /\ UNCHANGED <<origin, stored, engine, faults, untouched>>

\* The page is done: the next page, or a flush and the next sweep.
PageDone(i) ==
    LET r == run[i] IN
    /\ r.step = "take" /\ r.rows = <<>>
    /\ IF r.short
       THEN Set(i, [r EXCEPT !.step = "flush", !.after = "next"])
       ELSE Set(i, [r EXCEPT !.step = "sweep", !.page = @ + 1])
    /\ UNCHANGED <<origin, stored, engine, faults, untouched>>

\* Where a flush returns to.
Resume(r) ==
    CASE r.after = "take"    -> [r EXCEPT !.step = "take"]
      [] r.after = "partial" -> [r EXCEPT !.step = "partial"]
      [] r.after = "next"    ->
           [r EXCEPT !.step = "sweep", !.sweep = @ + 1, !.page = 1]

\* _flush with nothing pending.
FlushNothing(i) ==
    /\ run[i].step = "flush" /\ run[i].pending = <<>>
    /\ Set(i, Resume(run[i]))
    /\ UNCHANGED <<origin, stored, engine, faults, untouched>>

\* The batch as sets of rows per record, and the row that is listed last.
Ids(pending) == {pending[k].id : k \in 1..Len(pending)}
LastRow(pending, r) ==
    CHOOSE k \in 1..Len(pending) :
        /\ pending[k].id = r
        /\ \A m \in (k + 1)..Len(pending) : pending[m].id # r

\* Fault: the row listed first is submitted.
FirstEntity(pending, r) ==
    pending[CHOOSE k \in 1..Len(pending) :
              /\ pending[k].id = r
              /\ \A m \in 1..(k - 1) : pending[m].id # r].digest

\* _pending_records: one entity per id.
PendingEntity(pending, r) == pending[LastRow(pending, r)].digest

\* Fault: the cursor value is stored as the digest.
StampAsDigest(pending, r) == pending[LastRow(pending, r)].stamp

\* The digest the record leaves in the checkpoint.
PendingDigest(pending, r) == pending[LastRow(pending, r)].digest

\* The batch lands in the engine.
Land(pending) ==
    /\ accepted' = [r \in Records |->
                      IF r \in Ids(pending) THEN PendingEntity(pending, r)
                      ELSE accepted[r]]
    /\ ever' = ever \cup {<<r, PendingEntity(pending, r)>> : r \in Ids(pending)}

\* Fault: the checkpoint moves on without the engine's receipt.
SubmitUnawaited(i) ==
    /\ run[i].step = "flush" /\ run[i].pending # <<>>
    /\ Set(i, [run[i] EXCEPT !.step = "store"])
    /\ UNCHANGED <<origin, stored, engine, faults, untouched>>

\* _submit_pending: KnowledgeIngest.submit answers with a receipt.
Submit(i) ==
    /\ run[i].step = "flush" /\ run[i].pending # <<>>
    /\ Land(run[i].pending)
    /\ Set(i, [run[i] EXCEPT !.step = "store"])
    /\ UNCHANGED <<origin, stored, faults, untouched>>

\* submit raises IngestError, whether or not the engine took the batch.
SubmitRefused(i) ==
    /\ run[i].step = "flush" /\ run[i].pending # <<>>
    /\ Fault
    /\ Land(run[i].pending) \/ UNCHANGED engine
    /\ Set(i, [run[i] EXCEPT !.step = "failed", !.pending = <<>>])
    /\ UNCHANGED <<origin, stored, untouched>>

\* Fault: the stored version is not compared.
AnyVersion(i) == TRUE

\* KvCas swaps when the stored version is the one the run last saw.
SameVersion(i) == i \in current

\* KvSourceCheckpoints.store by run i: every other run's version is now old.
Store(i, cursor, digests) ==
    /\ SameVersion(i)
    /\ kv' = [cursor |-> cursor, digests |-> digests]
    /\ current' = {i}

\* The run's digests with the batch's; over _MAX_DIGESTS the oldest are dropped
\* (which ones those are is left open).
Merged(i) ==
    [r \in Records |-> IF r \in Ids(run[i].pending)
                       THEN PendingDigest(run[i].pending, r)
                       ELSE run[i].digests[r]]

Kept(digests) ==
    LET known == {r \in Records : digests[r] # None}
        size == IF Cardinality(known) > MaxDigests
                THEN MaxDigests ELSE Cardinality(known)
    IN  {[r \in Records |-> IF r \in keep THEN digests[r] ELSE None] :
            keep \in {k \in SUBSET known : Cardinality(k) = size}}

\* The rest of _flush: cursor and digests move, and the checkpoint is stored.
StoreBatch(i) ==
    /\ run[i].step = "store"
    /\ \E digests \in Kept(Merged(i)) :
         /\ Store(i, run[i].high, digests)
         /\ Set(i, Resume([run[i] EXCEPT !.cursor = run[i].high,
                                         !.digests = digests,
                                         !.pending = <<>>]))
    /\ UNCHANGED <<origin, engine, faults, untouched>>

\* Fault: the last store uses the cursor of everything read.
FinishAtHigh(i) ==
    /\ run[i].step \in {"completed", "partial", "failed"}
    /\ Store(i, run[i].high, run[i].digests)
    /\ Set(i, Idle)
    /\ UNCHANGED <<origin, engine, faults, untouched>>

\* sync()'s last store, with the report; the run is over.
Finish(i) ==
    /\ run[i].step \in {"completed", "partial", "failed"}
    /\ Store(i, run[i].cursor, run[i].digests)
    /\ Set(i, Idle)
    /\ UNCHANGED <<origin, engine, faults, untouched>>

\* checkpoint_conflict: another run moved the checkpoint; sync() raises.
Conflict(i) ==
    /\ run[i].step \in {"store", "completed", "partial", "failed"}
    /\ ~SameVersion(i)
    /\ Set(i, Idle)
    /\ UNCHANGED <<origin, stored, engine, faults, untouched>>

\* The process dies, the task is cancelled, or load or store raise: nothing
\* more happens in this run.  A store may have landed before.
Die(i) ==
    /\ run[i].step # "idle"
    /\ Fault
    /\ Set(i, Idle)
    /\ UNCHANGED <<origin, stored, engine, untouched>>

--------------------------------------------------------------------------------
(* The source *)

\* The listing with r, listed once, moved to its end.
MovedLast(list, r) ==
    LET at == CHOOSE k \in 1..Len(list) : list[k] = r
    IN  [k \in 1..Len(list) |-> IF k < at THEN list[k]
                                ELSE IF k < Len(list) THEN list[k + 1] ELSE r]

\* Somebody updates a record: new content and the next cursor value.  A tool that
\* lists oldest first lists it last from now on.
Touch(r) ==
    /\ content[r] < MaxTouches
    /\ content' = [content EXCEPT ![r] = @ + 1]
    /\ \E now \in Stamps :
         /\ \A x \in Records : stamp[x] < now
         /\ \E x \in Records : stamp[x] + 1 = now
         /\ stamp' = [stamp EXCEPT ![r] = now]
    /\ listing' = [s \in 1..Sweeps |->
                     IF Ascending /\ \E k \in 1..Len(listing[s]) : listing[s][k] = r
                     THEN MovedLast(listing[s], r)
                     ELSE listing[s]]
    /\ untouched' = [i \in Runs |-> untouched[i] \ {r}]
    /\ UNCHANGED <<stored, engine, run, faults>>

RunStep(i) ==
    \/ ReadParents(i) \/ ReadPage(i) \/ Complete(i) \/ Take(i) \/ PageDone(i)
    \/ FlushNothing(i) \/ Submit(i) \/ StoreBatch(i) \/ Finish(i) \/ Conflict(i)

Failure(i) == ToolFails(i) \/ Deadline(i) \/ SubmitRefused(i) \/ Die(i)

Next ==
    \/ \E i \in Runs : RunStep(i) \/ Failure(i)
    \/ \E i \in Runs, mode \in {"incremental", "full"}, budget \in Budgets :
          Start(i, mode, budget)
    \/ \E r \in Records : Touch(r)

Spec == Init /\ [][Next]_vars

\* The event loop runs a started sync() to its end, and its caller keeps calling.
FairSpec ==
    /\ Spec
    /\ \A i \in Runs :
         /\ WF_vars(RunStep(i))
         /\ WF_vars(\E budget \in Budgets : Start(i, "incremental", budget))

--------------------------------------------------------------------------------
(* Properties *)

Listed == {r \in Records :
             \E s \in 1..Sweeps : \E k \in 1..Len(listing[s]) : listing[s][k] = r}

\* The stored digest of a record, which is what makes later runs skip it, is of
\* content the engine accepted: whatever fails, dies or overlaps between submit
\* and store, no run records a batch that did not land.
DigestWasAccepted ==
    \A r \in Records :
        kv.digests[r] # None => <<r, kv.digests[r]>> \in ever

\* A sync() that reports "completed" has covered the source: the engine took the
\* current content of every listed record the source did not change meanwhile,
\* in this run or in an earlier one whose checkpoint vouches for it.
CompletedRunCovers ==
    \A i \in Runs :
        run[i].step = "completed" =>
            \A r \in untouched[i] \cap Listed : <<r, content[r]>> \in ever

\* No sequence of pages, sweeps and flushes takes a run over its page or record
\* budget, and no batch grows over batch_size.
WithinBudget ==
    \A i \in Runs :
        /\ run[i].pages <= run[i].budget.pages
        /\ run[i].seen + Len(run[i].rows) <= run[i].budget.records
        /\ Len(run[i].pending) <= BatchSize

\* The stored cursor moves back only when a full run, which forgot it, stores:
\* overlapping runs cannot undo each other's progress.
CursorOnlyForward ==
    [][kv'.cursor = kv.cursor
       \/ kv.cursor = None
       \/ (kv'.cursor # None /\ TextLeq(kv.cursor, kv'.cursor))
       \/ \E i \in Runs : run[i].mode = "full" /\ run'[i] # run[i]]_vars

\* The engine never holds older content of a record than the checkpoint vouches
\* for (one run at a time): otherwise the record would be skipped as unchanged
\* while the engine keeps the old content.
EngineNotOlder ==
    \A r \in Records :
        kv.digests[r] # None => accepted[r] # None /\ accepted[r] >= kv.digests[r]

\* Nothing is left behind the watermark: a record whose cursor value is at or
\* before the stored cursor, and which incremental runs therefore skip from now
\* on, has been accepted.
\* specs/SCION-SOURCE-INGEST/requirements.md R004.28: "The watermark advances
\* after the last parent."
WatermarkCovers ==
    kv.cursor # None =>
        \A r \in Listed :
            TextLeq(stamp[r], kv.cursor) => <<r, content[r]>> \in ever

\* Once the source stops changing and calls stop failing, every record reaches
\* the engine: "a run that stops part-way resumes from its last accepted batch"
\* (ingest/source_sync.py).  It does so when runs whose budget covers the source keep
\* being called.  A run starts at the first page again and counts what it skips there,
\* so that runs with a smaller budget alone end on the same pages every time.
AllAccepted == \A r \in Listed : accepted[r] = content[r]
EventuallyAccepted == <>[]AllAccepted
================================================================================
