------------------------------ MODULE IngestStream -----------------------------
(***************************************************************************)
(* One ingest stream of the engine and the tasks that commit to it through *)
(* KnowledgeIngest.submit: pagers, which walk a source with                *)
(* SourceStream.sync and move the stream's cursor, and writers, which push *)
(* records without a cursor.  Each process serializes its submissions with *)
(* a lock; processes meet only in the engine, which accepts a request if   *)
(* the checkpoint it expects is still the accepted one.                    *)
(*                                                                         *)
(* A checkpoint is its cursor: its sequence number, which grows with every *)
(* commit, only tells whether the checkpoint a request expects is still    *)
(* the accepted one, and that is the flag fresh, which every commit clears *)
(* in all requests and tasks.                                              *)
(*                                                                         *)
(* The source has pages 1..Pages.  Cursor p - 1 is the cursor that page p  *)
(* is fetched with; 0 is no cursor.                                        *)
(***************************************************************************)
EXTENDS Integers, FiniteSets

CONSTANTS
    Pagers,       \* tasks that call SourceStream.sync
    Writers,      \* tasks that submit cursorless change sets
    Procs,        \* processes, each with one KnowledgeIngest
    ProcOf,       \* ProcOf[t]: the process of task t
    Pages,        \* pages of the source
    LastEmpty,    \* the last page has no records
    Loops,        \* the provider may send a walk back to an earlier page
    Submissions,  \* submissions per page (1, or its batches and the final one)
    MaxPages,     \* max_pages of one sync
    Resume,       \* values of resume that callers of sync use
    Attempts,     \* KnowledgeIngest attempts
    Nobody,       \* no task
    MaxWrites,    \* bound: submissions of the writers
    MaxFaults     \* bound: lost requests, cancellations, failures

Tasks == Pagers \cup Writers

ASSUME IngestAssumption ==
    /\ Pagers \cap Writers = {} /\ Nobody \notin Tasks
    /\ ProcOf \in [Tasks -> Procs]
    /\ Pages \in Nat \ {0} /\ Submissions \in Nat \ {0}
    /\ LastEmpty \in BOOLEAN /\ Loops \in BOOLEAN
    /\ Resume \in SUBSET BOOLEAN
    /\ MaxPages \in Nat \ {0} /\ Attempts \in Nat \ {0}
    /\ MaxWrites \in Nat /\ MaxFaults \in Nat

VARIABLES
    accepted,  \* the cursor of the stream's accepted checkpoint
    requests,  \* requests on their way to the engine
    task,      \* task[t]: where the task is
    lock,      \* lock[p]: holder of process p's lock of this stream
    writes,    \* submissions the writers have begun
    faults,    \* failures so far
    \* Observation only: no action reads these.
    ever,      \* <<page, part>> pairs the engine ever accepted
    pass       \* those accepted since the cursor was last cleared

streamVars == <<accepted, requests, task, lock, writes, faults, ever, pass>>
engine == <<accepted, ever, pass>>

Cursors == 0..(Pages - 1)

Idle ==
    [step |-> "idle", cursor |-> 0, next |-> 0, page |-> 0, part |-> 0,
     read |-> 0, walked |-> {}, tries |-> 0, previous |-> 0, fresh |-> FALSE]

TaskStates ==
    [step : {"idle", "fetch", "lock", "status", "send", "answer"},
     cursor : Cursors, next : Cursors, page : 0..Pages, part : 0..Submissions,
     read : Nat, walked : SUBSET Cursors, tries : Nat, previous : Cursors,
     fresh : BOOLEAN]

\* A writer's request has page 0.  A request is live while its task waits for it.
Requests ==
    [by : Tasks, fresh : BOOLEAN, live : BOOLEAN, cursor : Cursors,
     page : 0..Pages, part : 0..Submissions]

StreamTypeOK ==
    /\ accepted \in Cursors
    /\ requests \in SUBSET Requests
    /\ task \in [Tasks -> TaskStates]
    /\ lock \in [Procs -> Tasks \cup {Nobody}]
    /\ writes \in Nat /\ faults \in Nat
    /\ ever \in SUBSET ((1..Pages) \X (1..Submissions))
    /\ pass \in SUBSET ((1..Pages) \X (1..Submissions))

StreamInit ==
    /\ accepted = 0
    /\ requests = {}
    /\ task = [t \in Tasks |-> Idle]
    /\ lock = [p \in Procs |-> Nobody]
    /\ writes = 0 /\ faults = 0
    /\ ever = {} /\ pass = {}

Set(t, new) == task' = [task EXCEPT ![t] = new]
Fault == faults < MaxFaults /\ faults' = faults + 1

--------------------------------------------------------------------------------
(* SourceStream.sync *)

\* accepted_cursor(), if the walk is to be resumed.
FirstCursor(resume) == IF resume THEN accepted ELSE 0

\* sync(): resume from the accepted cursor, or start over.
StartSync(t, resume) ==
    /\ task[t].step = "idle"
    /\ LET from == FirstCursor(resume)
       IN  Set(t, [Idle EXCEPT !.step = "fetch", !.cursor = from,
                               !.walked = {from} \ {0}])
    /\ UNCHANGED <<engine, requests, lock, writes, faults>>

\* The walk is over: max_pages are read, or the last page was.
WalkOver(t) == Set(t, Idle)

\* Fault: continuations are not remembered.
AnyContinuation(t, next) == next # 0

\* _remember_cursor: a continuation of this walk must be new.
NewContinuation(t, next) == next # 0 /\ next \notin task[t].walked

\* The page at the task's cursor is fetched and mapped, with continuation next
\* (0: none); it is submitted in parts.  An empty page is only a cursor, and not
\* submitted if it is the last.
Fetched(t, next) ==
    LET page == task[t].cursor + 1
        empty == page = Pages /\ LastEmpty
    IN  IF empty /\ next = 0 THEN WalkOver(t)
        ELSE Set(t, [task[t] EXCEPT !.step = "lock", !.page = page,
                                    !.part = IF empty THEN Submissions ELSE 1,
                                    !.next = next, !.read = @ + 1,
                                    !.walked = @ \cup ({next} \ {0})])

Fetch(t) ==
    LET page == task[t].cursor + 1
        next == IF page = Pages THEN 0 ELSE page
    IN
    /\ task[t].step = "fetch"
    /\ \/ task[t].read >= MaxPages /\ WalkOver(t)
       \/ /\ task[t].read < MaxPages
          /\ next = 0 \/ NewContinuation(t, next)
          /\ Fetched(t, next)
       \/ /\ task[t].read < MaxPages
          /\ ~(next = 0 \/ NewContinuation(t, next))
          /\ Set(t, Idle)
    /\ UNCHANGED <<engine, requests, lock, writes, faults>>

\* The provider sends the walk back to an earlier page.
FetchLoops(t) ==
    /\ Loops /\ task[t].step = "fetch" /\ task[t].read < MaxPages
    /\ \E next \in 1..task[t].cursor :
         IF NewContinuation(t, next) THEN Fetched(t, next) ELSE Set(t, Idle)
    /\ UNCHANGED <<engine, requests, lock, writes, faults>>

\* The page cannot be fetched or mapped.
FetchFails(t) ==
    /\ task[t].step = "fetch" /\ Fault
    /\ Set(t, Idle)
    /\ UNCHANGED <<engine, requests, lock, writes>>

\* Fault: there is always another part.
AnotherPart(x) == [x EXCEPT !.step = "lock", !.part = @ + 1]

\* A part of the page of pager state x was accepted: the next part, the next page,
\* or the end of the walk.
Advance(x) ==
    IF x.part < Submissions THEN [x EXCEPT !.step = "lock", !.part = @ + 1]
    ELSE IF x.next # 0 THEN [x EXCEPT !.step = "fetch", !.cursor = x.next]
    ELSE Idle

--------------------------------------------------------------------------------
(* KnowledgeIngest.submit *)

\* A writer submits entities, documents or media.
StartWrite(t) ==
    /\ task[t].step = "idle" /\ writes < MaxWrites
    /\ writes' = writes + 1
    /\ Set(t, [Idle EXCEPT !.step = "lock"])
    /\ UNCHANGED <<engine, requests, lock, faults>>

\* _commit: the process's lock of this stream.
Acquire(t) ==
    /\ task[t].step = "lock" /\ lock[ProcOf[t]] = Nobody
    /\ lock' = [lock EXCEPT ![ProcOf[t]] = t]
    /\ Set(t, [task[t] EXCEPT !.step = "status", !.tries = 0])
    /\ UNCHANGED <<engine, requests, writes, faults>>

ReleaseLock(t) == lock' = [lock EXCEPT ![ProcOf[t]] = Nobody]

\* _attempt: the accepted checkpoint is read ...
ReadStatus(t) ==
    /\ task[t].step = "status"
    /\ Set(t, [task[t] EXCEPT !.step = "send", !.previous = accepted,
                              !.fresh = TRUE])
    /\ UNCHANGED <<engine, requests, lock, writes, faults>>

\* Fault: every part of a page carries the page's cursor.
EarlyCursor(t) == IF task[t].page # 0 THEN task[t].next ELSE task[t].previous

\* _checkpoint: only the last submission of a page moves the cursor, to the
\* page's continuation; everything else preserves the one that was read.
RequestCursor(t) ==
    IF task[t].page # 0 /\ task[t].part = Submissions
    THEN task[t].next ELSE task[t].previous

\* ... and build_request expects exactly that checkpoint.
RequestOf(t) ==
    [by |-> t, fresh |-> task[t].fresh, live |-> TRUE,
     cursor |-> RequestCursor(t), page |-> task[t].page, part |-> task[t].part]

Send(t) ==
    /\ task[t].step = "send"
    /\ requests' = requests \cup {RequestOf(t)}
    /\ Set(t, [task[t] EXCEPT !.step = "answer"])
    /\ UNCHANGED <<engine, lock, writes, faults>>

\* Fault: the expected checkpoint is not compared.
AlwaysCurrent(q) == TRUE

\* The engine accepts a request whose expected checkpoint is the accepted one.
IsCurrent(q) == q.fresh

Stale(x) == [x EXCEPT !.fresh = FALSE]

\* What the receipt of q does to its task and the lock.
Answered(q, tasks) ==
    IF ~q.live THEN task' = tasks /\ UNCHANGED lock
    ELSE /\ ReleaseLock(q.by)
         /\ task' = [tasks EXCEPT ![q.by] =
                       IF q.page = 0 THEN Idle ELSE Advance(tasks[q.by])]

\* The engine takes q and its receipt ends the submission.
Accept(q) ==
    /\ q \in requests /\ IsCurrent(q)
    /\ requests' = {Stale(x) : x \in requests \ {q}}
    /\ accepted' = q.cursor
    /\ LET taken == IF q.page = 0 THEN {} ELSE {<<q.page, q.part>>}
           clears == q.page # 0 /\ q.part = Submissions /\ q.cursor = 0
       IN  /\ ever' = ever \cup taken
           /\ pass' = IF clears THEN {} ELSE pass \cup taken
    /\ Answered(q, [t \in Tasks |-> Stale(task[t])])
    /\ UNCHANGED <<writes, faults>>

\* _require_rebuildable, _retrying: a cursorless submission reads the status again
\* while attempts are left; a page reports the conflict.
Reject(q) ==
    /\ q \in requests /\ ~IsCurrent(q)
    /\ requests' = requests \ {q}
    /\ IF ~q.live THEN UNCHANGED <<task, lock>>
       ELSE IF q.page = 0 /\ task[q.by].tries + 1 < Attempts
       THEN /\ Set(q.by, [task[q.by] EXCEPT !.step = "status", !.tries = @ + 1])
            /\ UNCHANGED lock
       ELSE ReleaseLock(q.by) /\ Set(q.by, Idle)
    /\ UNCHANGED <<engine, writes, faults>>

\* Nobody waits for t's request any more.
Abandon(t) ==
    requests' = {IF q.by = t THEN [q EXCEPT !.live = FALSE] ELSE q : q \in requests}

\* Fault: a cancelled submission keeps the lock.
GiveUpLocked(t) ==
    /\ task[t].step \in {"status", "send", "answer"} /\ Fault
    /\ Set(t, Idle) /\ Abandon(t)
    /\ UNCHANGED <<engine, lock, writes>>

\* The submission fails (contract not accepted, status refused, engine error, its
\* answer lost) or is cancelled (submit_blocking timed out): a request that was
\* sent may still reach the engine.
GiveUp(t) ==
    /\ task[t].step \in {"status", "send", "answer"} /\ Fault
    /\ ReleaseLock(t) /\ Set(t, Idle) /\ Abandon(t)
    /\ UNCHANGED <<engine, writes>>

\* A request that nobody waits for any more is lost.
Lose(q) ==
    /\ q \in requests
    /\ requests' = requests \ {q}
    /\ UNCHANGED <<engine, task, lock, writes, faults>>

--------------------------------------------------------------------------------

TaskStep(t) == Acquire(t) \/ ReadStatus(t) \/ Send(t)
Engine(t) == \E q \in requests : q.by = t /\ q.live /\ (Accept(q) \/ Reject(q))
EngineLate == \E q \in requests : ~q.live /\ (Accept(q) \/ Reject(q) \/ Lose(q))

StreamNext ==
    \/ \E t \in Tasks : TaskStep(t) \/ Engine(t) \/ GiveUp(t)
    \/ \E t \in Pagers : Fetch(t) \/ FetchLoops(t) \/ FetchFails(t)
    \/ \E t \in Pagers, resume \in Resume : StartSync(t, resume)
    \/ \E t \in Writers : StartWrite(t)
    \/ EngineLate

StreamSpec == StreamInit /\ [][StreamNext]_streamVars

\* The event loops run, locks are handed on, the engine answers what is waited
\* for, and the pagers' callers sync again.
FairStream ==
    /\ StreamSpec
    /\ \A t \in Tasks :
         WF_streamVars(ReadStatus(t) \/ Send(t) \/ Engine(t)) /\ SF_streamVars(Acquire(t))
    /\ \A t \in Pagers : WF_streamVars(Fetch(t)) /\ WF_streamVars(StartSync(t, TRUE))

--------------------------------------------------------------------------------
(* Properties *)

\* Page p was taken completely, with parts out of taken.
Covered(p, taken) == \A part \in 1..Submissions : <<p, part>> \in taken

\* A cursor never runs ahead of the data: the engine has taken, completely, every
\* page that a walk resumed from the accepted cursor leaves out, whatever pagers
\* and writers overlap, time out or lose their answers.
CursorCovers == \A p \in 1..accepted : Covered(p, ever)

\* The same within one pass over the source: a page before the cursor was taken
\* since the last pass ended, so that a walk resumed from it misses no page of
\* this pass.  "A source page instead reports the conflict for the caller to
\* re-read" (ingest/service.py): a page never commits over another walk's.
PassCovers == \A p \in 1..accepted : Covered(p, pass)

\* Only the last submission of a page moves the cursor: neither a cursorless
\* writer of another process nor a partial page undoes or hides progress.
OnlyPagesMoveCursor ==
    [][accepted' # accepted =>
         \E q \in requests \ requests' : q.page # 0 /\ q.part = Submissions]_streamVars

\* Two submissions of one process are never between status and answer at once,
\* and the lock is free when nobody is: cancellation does not leak it.
LockServes ==
    \A p \in Procs :
        LET inside == {t \in Tasks : /\ ProcOf[t] = p
                                     /\ task[t].step \in {"status", "send", "answer"}}
        IN  IF lock[p] = Nobody THEN inside = {} ELSE inside = {lock[p]}

\* A provider whose continuations loop does not keep one sync walking: it fetches
\* no cursor twice.
WalkEnds == \A t \in Pagers : task[t].read <= Pages

\* When faults and writes end, every page of the source is eventually taken.
AllWalked == \A p \in 1..Pages : (p = Pages /\ LastEmpty) \/ Covered(p, ever)
EventuallyWalked == <>AllWalked
================================================================================
