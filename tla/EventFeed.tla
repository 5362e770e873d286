------------------------------- MODULE EventFeed -------------------------------
(***************************************************************************)
(* The event feed adapter under sync_stream: a provider's append-only log  *)
(* is read page by page, an index of event identities tells new events     *)
(* from redelivered ones, and what a page adds to the index is staged      *)
(* until the engine accepted the page.  The tasks of a session share one   *)
(* adapter.  Event n happened at time n; the provider lists events as they *)
(* happen, any of them again, and filters by the time a request names.     *)
(***************************************************************************)
EXTENDS Naturals, Sequences, FiniteSets, FiniteSetsExt

CONSTANTS
    Tasks,       \* calls of sync_stream that share the adapter
    Payloads,    \* payload digests, numbers; an event first has payload 0
    None,
    PageSize,    \* entries the provider puts on a page
    MaxPages,    \* max_pages of a sync
    MaxEntries,  \* capacity of the identity index
    MaxLog,      \* bound: entries of the provider's log
    MaxFaults    \* bound: failures, changed payloads and new sessions

VARIABLES
    log,         \* the provider's entries
    engine,      \* the accepted checkpoint and events; passed: what its pages listed
    tracker,     \* EventIdentityTracker: the entries that are known
    extracting,  \* _EventPageIdentity._extracting
    pending,     \* _EventPageIdentity._pending: the task whose page it is, or None
    task,        \* each sync_stream
    flight,      \* submissions whose caller has stopped waiting
    faults

vars == <<log, engine, tracker, extracting, pending, task, flight, faults>>
identity == <<tracker, extracting, pending>>

Entries == [id : 1..MaxLog, payload : Payloads]
IdsOf(S) == {e.id : e \in S}

\* A SourceCheckpoint; position {} is 0.
Checkpoints == [pos : 0..MaxLog, hash : Seq(Entries), wm : 0..MaxLog, pend : 0..MaxLog]
Origin == [pos |-> 0, hash |-> <<>>, wm |-> 0, pend |-> 0]

NoPage == [raw |-> {}, new |-> {}, records |-> {}, before |-> None, after |-> None,
           exhausted |-> FALSE]
Pages == [raw : SUBSET Entries, new : SUBSET Entries, records : SUBSET Entries,
          before : Checkpoints \cup {None}, after : Checkpoints \cup {None},
          exhausted : BOOLEAN]
Idle == [step |-> "idle", cp |-> None, pages |-> 0, page |-> NoPage]

TypeOK ==
    /\ log \in Seq(Entries) /\ Len(log) <= MaxLog
    /\ engine \in [cp : Checkpoints \cup {None}, events : SUBSET Entries,
                   passed : SUBSET Entries]
    /\ tracker \subseteq Entries /\ Cardinality(tracker) <= MaxEntries
    /\ extracting \in BOOLEAN /\ pending \in Tasks \cup {None}
    /\ task \in [Tasks -> [step : {"idle", "page", "read", "accept", "sent"},
                           cp : Checkpoints \cup {None}, pages : 0..MaxPages,
                           page : Pages]]
    /\ flight \subseteq Pages
    /\ faults \in 0..MaxFaults

Init ==
    /\ log = <<>>
    /\ engine = [cp |-> None, events |-> {}, passed |-> {}]
    /\ tracker = {} /\ extracting = FALSE /\ pending = None
    /\ task = [t \in Tasks |-> Idle]
    /\ flight = {} /\ faults = 0

Fault == faults < MaxFaults /\ faults' = faults + 1

--------------------------------------------------------------------------------
(* The provider *)

\* It lists a new event, or one it listed before; as a fault with another payload.
Deliver(e) ==
    LET known == {log[k] : k \in DOMAIN log} IN
    /\ Len(log) < MaxLog
    /\ \/ e.id = Cardinality(IdsOf(known)) + 1 /\ e.payload = 0 /\ UNCHANGED faults
       \/ e \in known /\ UNCHANGED faults
       \/ e.id \in IdsOf(known) /\ e \notin known /\ Fault
    /\ log' = Append(log, e)
    /\ UNCHANGED <<engine, identity, task, flight>>

\* What it has after a position, from the time asked for on; its cursor is the
\* place of the last entry of the page.
After(cp) == {k \in DOMAIN log : k > cp.pos /\ log[k].id >= cp.wm}
PageAt(cp) == {k \in After(cp) : Cardinality({j \in After(cp) : j <= k}) <= PageSize}
Listed(cp) == SelectSeq([k \in DOMAIN log |-> [at |-> k, e |-> log[k]]],
                        LAMBDA x : x.at \in PageAt(cp))
More(cp) == PageAt(cp) # After(cp)

--------------------------------------------------------------------------------
(* extract *)

\* EventIdentityTracker.classify: an id that comes with two payloads is a conflict.
\* Fault: it is taken for a duplicate.
NeverConflict(entries) == FALSE
Conflict(entries) == Cardinality(IdsOf(tracker \cup entries)) # Cardinality(tracker \cup entries)
New(entries) == {e \in entries : e.id \notin IdsOf(tracker)}
\* _require_capacity
Full(entries) == Cardinality(tracker) + Cardinality(New(entries)) > MaxEntries

\* checkpoint_after_page: the watermark moves when the sweep is exhausted.
CheckpointAfterPage(cp, new, digest, more) ==
    LET high == Max({cp.pend} \cup IdsOf(new)) IN
    IF more THEN [pos |-> Max(PageAt(cp)), hash |-> digest, wm |-> cp.wm, pend |-> high]
            ELSE [pos |-> 0, hash |-> digest, wm |-> Max({high, cp.wm}), pend |-> 0]

\* _extract_staged, _checkpoint_page: only the exact page that the checkpoint was
\* made of, read again without progress, is not submitted again.
PageFrom(before) ==
    LET cp == IF before = None THEN Origin ELSE before
        listed == Listed(cp)
        raw == {listed[k].e : k \in DOMAIN listed}
        digest == IF New(raw) = {} THEN cp.hash ELSE [k \in DOMAIN listed |-> listed[k].e]
        after == CheckpointAfterPage(cp, New(raw), digest, More(cp))
        replayed == digest = cp.hash /\ after = before
    IN [raw |-> raw, new |-> New(raw), records |-> IF replayed THEN {} ELSE New(raw),
        before |-> before, after |-> after, exhausted |-> ~More(cp)]

\* sync_stream reads the accepted checkpoint.
Start(t) ==
    /\ task[t].step = "idle"
    /\ task' = [task EXCEPT ![t] = [Idle EXCEPT !.step = "page", !.cp = engine.cp]]
    /\ UNCHANGED <<log, engine, identity, flight, faults>>

\* _EventPageIdentity.begin refuses while a page is unfinished.
Unfinished == extracting \/ pending # None

Begin(t) ==
    /\ task[t].step = "page"
    /\ IF Unfinished
       THEN task' = [task EXCEPT ![t] = Idle] /\ UNCHANGED extracting
       ELSE task' = [task EXCEPT ![t].step = "read"] /\ extracting' = TRUE
    /\ UNCHANGED <<log, engine, tracker, pending, flight, faults>>

\* The answer arrives: the page is staged, or its entries are refused.
Read(t) ==
    LET page == PageFrom(task[t].cp) IN
    /\ task[t].step = "read"
    /\ extracting' = FALSE
    /\ IF Conflict(page.raw) \/ Full(page.raw)
       THEN task' = [task EXCEPT ![t] = Idle] /\ UNCHANGED pending
       ELSE /\ task' = [task EXCEPT ![t].step = "accept", ![t].page = page]
            /\ pending' = t
    /\ UNCHANGED <<log, engine, tracker, flight, faults>>

\* _check_feed_status, a lost answer, a malformed event, or the task is cancelled.
ReadFails(t) ==
    /\ task[t].step = "read" /\ Fault
    /\ extracting' = FALSE
    /\ task' = [task EXCEPT ![t] = Idle]
    /\ UNCHANGED <<log, engine, tracker, pending, flight>>

--------------------------------------------------------------------------------
(* _accept_adapter_page *)

\* finish_page(accepted=False).  Fault: the identities are kept, or the page is not
\* finished when its task is cancelled.
KeepStaged(t) == tracker' = tracker \cup task[t].page.new /\ pending' = None
LeavePending(t) == UNCHANGED <<tracker, pending>>
FinishRejected(t) == UNCHANGED tracker /\ pending' = None

FinishAccepted(t) == tracker' = tracker \cup task[t].page.new /\ pending' = None

\* The next page, or the end of this sync.
Continue(t) ==
    task' = [task EXCEPT ![t] =
        IF @.page.exhausted \/ @.pages + 1 = MaxPages THEN Idle
        ELSE [step |-> "page", cp |-> @.page.after, pages |-> @.pages + 1, page |-> NoPage]]

\* _is_delta_noop
DeltaNoop(page) ==
    page.before # None /\ page.exhausted /\ page.after = page.before /\ page.records = {}

Submit(t) ==
    /\ task[t].step = "accept"
    /\ IF DeltaNoop(task[t].page)
       THEN /\ FinishAccepted(t) /\ Continue(t)
            /\ engine' = [engine EXCEPT !.passed = @ \cup task[t].page.raw]
       ELSE /\ task' = [task EXCEPT ![t].step = "sent"]
            /\ UNCHANGED <<engine, tracker, pending>>
    /\ UNCHANGED <<log, extracting, flight, faults>>

\* The engine takes a page whose expected checkpoint is the accepted one.
Expected(page) == page.before = engine.cp
Taken(page) ==
    [cp |-> page.after, events |-> engine.events \cup page.records,
     passed |-> engine.passed \cup page.raw]

Answer(t) ==
    /\ task[t].step = "sent"
    /\ IF Expected(task[t].page)
       THEN engine' = Taken(task[t].page) /\ FinishAccepted(t) /\ Continue(t)
       ELSE UNCHANGED engine /\ FinishRejected(t) /\ task' = [task EXCEPT ![t] = Idle]
    /\ UNCHANGED <<log, extracting, flight, faults>>

\* Refused (schema drift, an error), cancelled, or the answer is lost: the
\* submission may still arrive.
AcceptFails(t) ==
    /\ task[t].step \in {"accept", "sent"} /\ Fault
    /\ FinishRejected(t)
    /\ flight' = IF task[t].step = "sent" THEN flight \cup {task[t].page} ELSE flight
    /\ task' = [task EXCEPT ![t] = Idle]
    /\ UNCHANGED <<log, engine, extracting>>

Land(page) ==
    /\ flight' = flight \ {page}
    /\ IF Expected(page) THEN engine' = Taken(page) ELSE UNCHANGED engine
    /\ UNCHANGED <<log, identity, task, faults>>

\* The connector worker reconnects after a failure, or its process restarts: a new
\* adapter, and the tasks of the old one are gone.
Reconnect ==
    /\ Fault
    /\ tracker' = {} /\ extracting' = FALSE /\ pending' = None
    /\ flight' = flight \cup {task[t].page : t \in {u \in Tasks : task[u].step = "sent"}}
    /\ task' = [t \in Tasks |-> Idle]
    /\ UNCHANGED <<log, engine>>

Next ==
    \/ \E e \in Entries : Deliver(e)
    \/ \E t \in Tasks : \/ Start(t) \/ Begin(t) \/ Read(t) \/ ReadFails(t)
                        \/ Submit(t) \/ Answer(t) \/ AcceptFails(t)
    \/ \E page \in flight : Land(page)
    \/ Reconnect

Spec == Init /\ [][Next]_vars

--------------------------------------------------------------------------------
(* Properties *)

\* Whatever the provider listed on a page that the checkpoint moved past has been
\* accepted, payload and all: no event is dropped as a duplicate of one the engine
\* never got, or of one that had another payload.
PassedIsAccepted == engine.passed \subseteq engine.events

\* No event up to the watermark is missing, nor, in the middle of a sweep, one
\* before the accepted position.
NothingBehind ==
    LET cp == IF engine.cp = None THEN Origin ELSE engine.cp IN
    1..cp.wm \cup {log[k].id : k \in 1..cp.pos} \subseteq IdsOf(engine.events)

\* Every identity that suppresses a redelivery is of an accepted event.
KnownIsAccepted == tracker \subseteq engine.events

\* A page that keeps the adapter busy has a task that will finish it: no failure or
\* cancellation leaves the feed refusing for ever.
BusyIsServed ==
    /\ pending # None => task[pending].step \in {"accept", "sent"}
    /\ extracting => \E t \in Tasks : task[t].step = "read"
================================================================================
