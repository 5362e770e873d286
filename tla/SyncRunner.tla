------------------------------- MODULE SyncRunner ------------------------------
(***************************************************************************)
(* connector-sync: the supervisor re-reads the registry and keeps one      *)
(* worker per registered connector; a worker opens a session, runs a full  *)
(* cycle, then follows the server's changes and its schedule.  A cycle     *)
(* holds one of Capacity places and syncs its presets, page by page, into  *)
(* the engine, whose checkpoint is the only progress there is.             *)
(*                                                                         *)
(* The stream of a preset is a log of pages.  Checkpoint c stands for its  *)
(* first c pages.                                                          *)
(***************************************************************************)
EXTENDS Integers, FiniteSets, FiniteSetsExt

CONSTANTS
    Connectors,
    Descriptors,   \* the descriptors a connector may be registered with
    Presets,       \* a set of numbers, in the order of their names
    OwnerOf,       \* OwnerOf[p]: the connector of preset p
    Mapped,        \* presets with a data resource: their changes are announced
    Slots,         \* bound: workers of one connector that exist at once
    Capacity,      \* settings.max_concurrency
    MaxPages,      \* max_pages_per_cycle
    None,
    Data0,         \* Data0[p]: pages of the stream of p at first
    MaxData,       \* bound: MaxData[p], pages of the stream of p
    MaxEdits,      \* bound: changes of the registry
    MaxFaults      \* bound: failures

ASSUME RunnerAssumption ==
    /\ Presets \subseteq Nat /\ OwnerOf \in [Presets -> Connectors]
    /\ Mapped \subseteq Presets
    /\ None \notin Descriptors /\ None \notin Slots
    /\ Capacity \in Nat \ {0} /\ MaxPages \in Nat \ {0}
    /\ Data0 \in [Presets -> Nat \ {0}] /\ MaxData \in [Presets -> Nat]
    /\ \A p \in Presets : Data0[p] <= MaxData[p]
    /\ MaxEdits \in Nat /\ MaxFaults \in Nat

VARIABLES
    registry,   \* registry[n]: the descriptor in the configuration, or None
    wanted,     \* the registry as _reconcile last read it
    phase,      \* where run_forever is: "sleep" or "start"
    running,    \* running[n]: the slot of n's worker, or None
    worker,     \* worker[n][s]
    borrowed,   \* places of the capacity limiter that are taken
    loaded,     \* RunnerHealth: the registry was read
    resolved,   \* RunnerHealth: credentials_ok of every connector it knows
    data,       \* data[p]: pages of the stream of p
    accepted,   \* accepted[p]: the engine's checkpoint
    requests,   \* pages on their way to the engine
    edits, faults

vars == <<registry, wanted, phase, running, worker, borrowed, loaded, resolved,
          data, accepted, requests, edits, faults>>
supervisor == <<wanted, phase, running>>
health == <<loaded, resolved>>
engine == <<accepted, requests>>

PresetsOf(n) == {p \in Presets : OwnerOf[p] = n}

Off ==
    [step |-> "off", desc |-> None, cancel |-> "no", plan |-> {}, from |-> 0,
     pages |-> 0, watching |-> FALSE, pending |-> {}]

\* Steps inside "async with self._limiter".
Inside == {"cycle", "extract", "answer"}

\* A worker that is cancelled finishes at most the step it was woken for.
WorkerStates ==
    [step : {"off", "connect", "queue", "watch", "wait", "backoff"} \cup Inside,
     desc : Descriptors \cup {None}, cancel : {"no", "asked", "delivered"},
     plan : SUBSET Presets, from : Nat, pages : Nat, watching : BOOLEAN,
     pending : SUBSET Presets]

Requests ==
    [by : Connectors, slot : Slots, preset : Presets, from : Nat, last : BOOLEAN,
     live : BOOLEAN]

TypeOK ==
    /\ registry \in [Connectors -> Descriptors \cup {None}]
    /\ wanted \in [Connectors -> Descriptors \cup {None}]
    /\ phase \in {"sleep", "start"}
    /\ running \in [Connectors -> Slots \cup {None}]
    /\ worker \in [Connectors -> [Slots -> WorkerStates]]
    /\ borrowed \in 0..Capacity
    /\ loaded \in BOOLEAN
    /\ resolved \in [Connectors -> {"unlisted", "unproven", "ok", "failed"}]
    /\ data \in [Presets -> Nat] /\ accepted \in [Presets -> Nat]
    /\ \A p \in Presets : accepted[p] <= data[p] /\ data[p] <= MaxData[p]
    /\ requests \in SUBSET Requests
    /\ edits \in Nat /\ faults \in Nat

Init ==
    /\ registry \in [Connectors -> Descriptors \cup {None}]
    /\ wanted = [n \in Connectors |-> None]
    /\ phase = "sleep"
    /\ running = [n \in Connectors |-> None]
    /\ worker = [n \in Connectors |-> [s \in Slots |-> Off]]
    /\ borrowed = 0
    /\ loaded = FALSE
    /\ resolved = [n \in Connectors |-> "unlisted"]
    /\ data = Data0
    /\ accepted = [p \in Presets |-> 0]
    /\ requests = {}
    /\ edits = 0 /\ faults = 0

Fault == faults < MaxFaults /\ faults' = faults + 1

--------------------------------------------------------------------------------
(* The world: the configuration file and the sources *)

Edit(n) ==
    /\ edits < MaxEdits /\ edits' = edits + 1
    /\ \E d \in (Descriptors \cup {None}) \ {registry[n]} :
         registry' = [registry EXCEPT ![n] = d]
    /\ UNCHANGED <<supervisor, worker, borrowed, health, data, engine, faults>>

\* A session that watches the resource of p hears of its change.
Hears(x, p) ==
    IF x.watching /\ p \in Mapped THEN [x EXCEPT !.pending = @ \cup {p}] ELSE x

\* A new page, and the notification of it.
Change(p) ==
    /\ data[p] < MaxData[p]
    /\ data' = [data EXCEPT ![p] = @ + 1]
    /\ worker' = [worker EXCEPT ![OwnerOf[p]] =
         [s \in Slots |-> Hears(worker[OwnerOf[p]][s], p)]]
    /\ UNCHANGED <<registry, supervisor, borrowed, health, engine, edits, faults>>

--------------------------------------------------------------------------------
(* ConnectorSyncRunner.run_forever *)

\* The worker of n serves something else than what is registered now.
Outdated(n) == running[n] # None /\ worker[n][running[n]].desc # registry[n]

\* Fault: a worker that is replaced is forgotten and not cancelled.
Forgotten(x) == x

Cancelled(x) == [x EXCEPT !.cancel = "asked"]

\* Fault: connectors are listed in health only by their workers.
NotSeeded == UNCHANGED resolved

\* RunnerHealth.sync_registry
SyncRegistry ==
    resolved' = [n \in Connectors |->
                   IF resolved[n] = "unlisted" /\ registry[n] # None
                   THEN "unproven" ELSE resolved[n]]

\* _reconcile: the registry is read, and workers that are no longer wanted are
\* cancelled and forgotten.
Reconcile ==
    /\ phase = "sleep"
    /\ phase' = "start"
    /\ wanted' = registry
    /\ loaded' = TRUE /\ SyncRegistry
    /\ running' = [n \in Connectors |-> IF Outdated(n) THEN None ELSE running[n]]
    /\ worker' = [n \in Connectors |-> [s \in Slots |->
                    IF Outdated(n) /\ s = running[n]
                    THEN Cancelled(worker[n][s]) ELSE worker[n][s]]]
    /\ UNCHANGED <<registry, borrowed, data, engine, edits, faults>>

\* The registry is unreadable: every worker is kept.
Unreadable ==
    /\ phase = "sleep" /\ Fault
    /\ UNCHANGED <<registry, supervisor, worker, borrowed, health, data, engine, edits>>

\* Workers are started one after the other; each start awaits.
StartWorker(n) ==
    /\ phase = "start" /\ wanted[n] # None /\ running[n] = None
    /\ \E s \in Slots :
         /\ worker[n][s].step = "off"
         /\ running' = [running EXCEPT ![n] = s]
         /\ worker' = [worker EXCEPT ![n][s] =
                         [Off EXCEPT !.step = "connect", !.desc = wanted[n]]]
    /\ UNCHANGED <<registry, wanted, phase, borrowed, health, data, engine, edits, faults>>

\* The heartbeat, and the sleep until the next pass.
Beat ==
    /\ phase = "start"
    /\ \A n \in Connectors : wanted[n] # None => running[n] # None
    /\ phase' = "sleep"
    /\ UNCHANGED <<registry, wanted, running, worker, borrowed, health, data, engine,
                   edits, faults>>

--------------------------------------------------------------------------------
(* ConnectorWorker *)

At(n, s, step) == worker[n][s].step = step /\ worker[n][s].cancel # "delivered"

\* The worker goes on to state x; a cancellation reaches it there.
Go(n, s, x) ==
    worker' = [worker EXCEPT ![n][s] =
                 [x EXCEPT !.cancel = IF @ = "no" THEN "no" ELSE "delivered"]]

Note(n, outcome) == resolved' = [resolved EXCEPT ![n] = outcome] /\ UNCHANGED loaded

\* Fault: the schedule syncs what changes announce.
MappedPlan(n) == PresetsOf(n) \cap Mapped

\* full_plan: the first and the scheduled cycles.
FullPlan(n) == PresetsOf(n)

\* _connect: the endpoint's credentials, the session and the adapters; then the
\* first cycle.
Connect(n, s) ==
    /\ At(n, s, "connect")
    /\ Note(n, "ok")
    /\ Go(n, s, [worker[n][s] EXCEPT !.step = "queue", !.plan = FullPlan(n)])
    /\ UNCHANGED <<registry, supervisor, borrowed, data, engine, edits, faults>>

\* _cycle waits for a place.
Borrow(n, s) ==
    /\ At(n, s, "queue") /\ borrowed < Capacity
    /\ borrowed' = borrowed + 1
    /\ Go(n, s, [worker[n][s] EXCEPT !.step = "cycle"])
    /\ UNCHANGED <<registry, supervisor, health, data, engine, edits, faults>>

\* Fault: the place is given back only when the cycle succeeds.
KeepPlace(n, s) == UNCHANGED borrowed

\* Fault: a place is given back that may not have been taken.
ReturnAnyway(n, s) == borrowed' = borrowed - 1

\* Whatever ends a cycle leaves "async with self._limiter".
Return(n, s) ==
    borrowed' = IF worker[n][s].step \in Inside THEN borrowed - 1 ELSE borrowed

\* sync_stream of the next preset: it resumes from the engine's status.
StartStream(n, s) ==
    /\ At(n, s, "cycle") /\ worker[n][s].plan # {}
    /\ Go(n, s, [worker[n][s] EXCEPT !.step = "extract", !.pages = 0,
                                     !.from = accepted[Min(worker[n][s].plan)]])
    /\ UNCHANGED <<registry, supervisor, borrowed, health, data, engine, edits, faults>>

\* The cycle is over; the first one is followed by the subscription.
EndCycle(n, s) ==
    /\ At(n, s, "cycle") /\ worker[n][s].plan = {}
    /\ borrowed' = borrowed - 1
    /\ Go(n, s, [worker[n][s] EXCEPT
                    !.step = IF worker[n][s].watching THEN "wait" ELSE "watch"])
    /\ UNCHANGED <<registry, supervisor, health, data, engine, edits, faults>>

\* The stream of x's preset is done for this cycle.
StreamDone(x) == [x EXCEPT !.step = "cycle", !.plan = @ \ {Min(@)}]

\* _is_delta_noop: the page after the checkpoint has no news.
NoNews(p, checkpoint) == checkpoint = data[p]

\* _source_request: the page after the checkpoint, which it expects.
PageRequest(n, s, p) ==
    LET x == worker[n][s] IN
    [by |-> n, slot |-> s, preset |-> p, from |-> x.from,
     last |-> x.from + 1 = data[p] \/ x.pages + 1 = MaxPages, live |-> TRUE]

\* The page after the checkpoint is extracted, and sent unless it is a no-op.
Extract(n, s) ==
    LET x == worker[n][s]
        p == Min(x.plan)
    IN
    /\ At(n, s, "extract")
    /\ \/ /\ NoNews(p, x.from)
          /\ Go(n, s, StreamDone(x)) /\ UNCHANGED requests
       \/ /\ ~NoNews(p, x.from)
          /\ requests' = requests \cup {PageRequest(n, s, p)}
          /\ Go(n, s, [x EXCEPT !.step = "answer"])
    /\ UNCHANGED <<registry, supervisor, borrowed, health, data, accepted, edits, faults>>

\* The receipt of page q: the next page, or the next stream.
Received(q, x) ==
    IF q.last THEN StreamDone(x)
    ELSE [x EXCEPT !.step = "extract", !.from = @ + 1, !.pages = @ + 1]

\* Fault: the engine does not compare checkpoints.
AnyCheckpoint(q) == TRUE

\* The engine takes a page whose expected checkpoint is the accepted one.
Expected(q) == accepted[q.preset] = q.from

Accept(q) ==
    /\ q \in requests /\ Expected(q)
    /\ accepted' = [accepted EXCEPT ![q.preset] = q.from + 1]
    /\ requests' = requests \ {q}
    /\ IF q.live THEN Go(q.by, q.slot, Received(q, worker[q.by][q.slot]))
       ELSE UNCHANGED worker
    /\ UNCHANGED <<registry, supervisor, borrowed, health, data, edits, faults>>

\* The worker's session ends with an exception: backoff, then a new session.
Fails(n, s) ==
    Go(n, s, [Off EXCEPT !.step = "backoff", !.desc = worker[n][s].desc,
                         !.cancel = worker[n][s].cancel])

Reject(q) ==
    /\ q \in requests /\ ~Expected(q)
    /\ requests' = requests \ {q}
    /\ IF q.live THEN Fails(q.by, q.slot) /\ Return(q.by, q.slot)
       ELSE UNCHANGED <<worker, borrowed>>
    /\ UNCHANGED <<registry, supervisor, health, data, accepted, edits, faults>>

\* Nobody waits for the pages of this worker any more.
Abandon(n, s) ==
    requests' = {IF q.by = n /\ q.slot = s THEN [q EXCEPT !.live = FALSE] ELSE q :
                   q \in requests}

\* resolve_endpoint fails, or something after it does while connecting.
ConnectFails(n) ==
    \E outcome \in {resolved[n], "ok", "failed"} : Note(n, outcome)

\* A credential, the session, a page or an answer fails.
Fail(n, s) ==
    /\ worker[n][s].step \notin {"off", "backoff"} /\ worker[n][s].cancel # "delivered"
    /\ Fault
    /\ IF worker[n][s].step = "connect"
       THEN ConnectFails(n)
       ELSE UNCHANGED health
    /\ Return(n, s) /\ Abandon(n, s) /\ Fails(n, s)
    /\ UNCHANGED <<registry, supervisor, data, accepted, edits>>

Retry(n, s) ==
    /\ At(n, s, "backoff")
    /\ Go(n, s, [worker[n][s] EXCEPT !.step = "connect"])
    /\ UNCHANGED <<registry, supervisor, borrowed, health, data, engine, edits, faults>>

\* _watch: the session subscribes after its first cycle.
Watch(n, s) ==
    /\ At(n, s, "watch")
    /\ Go(n, s, [worker[n][s] EXCEPT !.step = "wait", !.watching = TRUE])
    /\ UNCHANGED <<registry, supervisor, borrowed, health, data, engine, edits, faults>>

\* change_plan: the presets of the announced resources.
ChangePlan(n, changes) == PresetsOf(n) \cap changes

\* _wait returns the pending changes: their presets are synced.
Follow(n, s) ==
    LET changes == worker[n][s].pending IN
    /\ At(n, s, "wait") /\ changes # {}
    /\ Go(n, s, [worker[n][s] EXCEPT !.step = "queue", !.pending = {},
                                     !.plan = ChangePlan(n, changes)])
    /\ UNCHANGED <<registry, supervisor, borrowed, health, data, engine, edits, faults>>

\* The interval passes first: every preset is synced.
Scheduled(n, s) ==
    /\ At(n, s, "wait")
    /\ Go(n, s, [worker[n][s] EXCEPT !.step = "queue", !.plan = FullPlan(n)])
    /\ UNCHANGED <<registry, supervisor, borrowed, health, data, engine, edits, faults>>

\* The cancelled worker unwinds; a page it sent may still arrive.
Unwind(n, s) ==
    /\ worker[n][s].cancel # "no"
    /\ Return(n, s) /\ Abandon(n, s)
    /\ worker' = [worker EXCEPT ![n][s] = Off]
    /\ UNCHANGED <<registry, supervisor, health, data, accepted, edits, faults>>

Lose(q) ==
    /\ q \in requests
    /\ requests' = requests \ {q}
    /\ UNCHANGED <<registry, supervisor, worker, borrowed, health, data, accepted,
                   edits, faults>>

--------------------------------------------------------------------------------

WorkerStep(n, s) ==
    \/ Connect(n, s) \/ StartStream(n, s) \/ EndCycle(n, s) \/ Extract(n, s)
    \/ Retry(n, s) \/ Watch(n, s)
Answer(n, s) ==
    \E q \in requests : q.by = n /\ q.slot = s /\ q.live /\ (Accept(q) \/ Reject(q))
Late == \E q \in requests : ~q.live /\ (Accept(q) \/ Reject(q) \/ Lose(q))

Next ==
    \/ Reconcile \/ Unreadable \/ Beat \/ Late
    \/ \E n \in Connectors : Edit(n) \/ StartWorker(n)
    \/ \E p \in Presets : Change(p)
    \/ \E n \in Connectors, s \in Slots :
         \/ WorkerStep(n, s) \/ Borrow(n, s) \/ Answer(n, s) \/ Follow(n, s)
         \/ Scheduled(n, s) \/ Fail(n, s) \/ Unwind(n, s)

Spec == Init /\ [][Next]_vars

\* The event loop runs, the limiter's queue is first in first out, the engine
\* answers, an interval in which nothing is announced ends.
FairSpec ==
    /\ Spec
    /\ WF_vars(Reconcile) /\ WF_vars(Beat)
    /\ \A n \in Connectors : WF_vars(StartWorker(n))
    /\ \A n \in Connectors, s \in Slots :
         /\ WF_vars(WorkerStep(n, s) \/ Answer(n, s)) /\ SF_vars(Borrow(n, s))
         /\ WF_vars(Follow(n, s) \/ Scheduled(n, s)) /\ WF_vars(Unwind(n, s))

--------------------------------------------------------------------------------
(* Properties *)

\* The workers that nobody cancelled are exactly the ones the supervisor knows: no
\* connector is served twice, and none by a worker that can not be stopped.
OneWorker ==
    \A n \in Connectors, s \in Slots :
        (worker[n][s].step # "off" /\ worker[n][s].cancel = "no") <=> running[n] = s

\* The workers inside a cycle.
Held == {w \in Connectors \X Slots : worker[w[1]][w[2]].step \in Inside}

\* Every place that is taken belongs to a worker inside a cycle: failures and
\* cancellations give theirs back, so that capacity never shrinks, and no more
\* than max_concurrency cycles run, the ones of cancelled workers included.
PlacesAreHeld == borrowed = Cardinality(Held)

\* "the next page is requested from that committed checkpoint"
\* (docs/connector-sync.md): no page is skipped or taken twice, although a
\* replaced worker and its replacement overlap and pages arrive late.
PagesInOrder ==
    [][\A p \in Presets : accepted'[p] \in {accepted[p], accepted[p] + 1}]_vars

\* Readiness ("every currently-registered connector's endpoint credentials
\* resolved", docs/connector-sync.md) is not reported before the endpoint of every
\* connector of the registry as last read was resolved.
Ready == loaded /\ \A n \in Connectors : resolved[n] \in {"unlisted", "ok"}
ReadyIsEarned ==
    Ready => \A n \in Connectors : wanted[n] # None => resolved[n] = "ok"

\* When edits, changes and failures end, every registered connector is served with
\* its current descriptor, no other is, and the engine has every page.
EventuallySynced ==
    <>[](/\ \A n \in Connectors :
              IF registry[n] = None THEN running[n] = None
              ELSE running[n] # None /\ worker[n][running[n]].desc = registry[n]
         /\ \A p \in Presets :
              registry[OwnerOf[p]] # None => accepted[p] = data[p])
================================================================================
