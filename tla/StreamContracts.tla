---------------------------- MODULE StreamContracts ----------------------------
(* What a stream agrees to: the order of its stages, the schema of its pages, the cursor it
   reads by, and the jobs of its worker.

   The sections share no state: each has its own Init, Next and Spec. *)
EXTENDS Integers, Sequences, FiniteSets, FiniteSetsExt, SequencesExt

--------------------------------------------------------------------------------
(* The stages of a sync target: validate_stage_graph, whose loop takes stages whose
   dependencies are taken off a list of ready ones, against what it is for: that there is
   an order in which every stage follows what it depends on.                        *)

CONSTANTS
    Ids,           \* sequences of stage ids to choose from
    Dependencies   \* sequences of stage ids a stage may depend on

VARIABLES
    stages,        \* sequence of [id, stream, ours, deps]
    edges,         \* edges[i]: what stage i still waits for
    ready,
    seen,
    verdict        \* of validate_stage_graph: "none", "accepted", "refused" or "error"

stageVars == <<stages, edges, ready, seen, verdict>>

Positions == 1..Len(stages)
IdsOf == {stages[n].id : n \in Positions}

\* ours: the stage has the target's tenant and connector.
StageInit ==
    /\ stages \in UNION {{[n \in 1..Len(ids) |->
                             [id |-> ids[n], stream |-> streams[n], ours |-> n # foreign,
                              deps |-> deps[n]]] :
                          deps \in [1..Len(ids) -> Dependencies],
                          streams \in {ids, [n \in 1..Len(ids) |-> 1]},
                          foreign \in {0, 1}} :
                         ids \in Ids}
    /\ edges = << >> /\ ready = << >> /\ seen = {} /\ verdict = "none"

StageTypeOK ==
    /\ verdict \in {"none", "ordering", "accepted", "refused", "error"}
    /\ DOMAIN edges \subseteq IdsOf /\ seen \subseteq IdsOf /\ ToSet(ready) \subseteq IdsOf

--------------------------------------------------------------------------------
(* validate_stage_graph *)

\* What is refused before the order is looked at: two stages of one id or stream, a stage
\* of another authority, a dependency named twice or unknown.
Refused ==
    \/ Cardinality(IdsOf) # Len(stages)
    \/ \E n \in Positions : ~stages[n].ours
    \/ Cardinality({stages[n].stream : n \in Positions}) # Len(stages)
    \/ \E n \in Positions : LET d == stages[n].deps
                         IN  Cardinality(ToSet(d)) # Len(d) \/ ~(ToSet(d) \subseteq IdsOf)

\* _dependency_edges, and the stages that wait for nothing, in the stages' order.
Check ==
    /\ verdict = "none"
    /\ IF Refused THEN verdict' = "refused" /\ UNCHANGED <<edges, ready>>
       ELSE LET free(s) == s.deps = << >>
                found == SelectSeq(stages, free)
            IN  /\ verdict' = "ordering"
                /\ edges' = [i \in IdsOf |->
                               ToSet((CHOOSE s \in ToSet(stages) : s.id = i).deps)]
                /\ ready' = [n \in DOMAIN found |-> found[n].id]
    /\ UNCHANGED <<stages, seen>>

\* Fault: a stage is ready as soon as one of its dependencies is taken.
AnyTaken(i, id) == TRUE
AllTaken(i, id) == edges[i] = {id}

\* ready.pop(): the stages that waited only for this one are ready now.  A dependency that
\* is not there to be removed would raise.
Take ==
    LET id == Last(ready)
        dependents == {s.id : s \in {t \in ToSet(stages) : id \in ToSet(t.deps)}}
        next == {i \in dependents : AllTaken(i, id)}
    IN
    /\ verdict = "ordering" /\ ready # << >>
    /\ seen' = seen \cup {id}
    /\ edges' = [i \in DOMAIN edges |-> edges[i] \ {id}]
    /\ ready' = Front(ready) \o SetToSeq(next)
    /\ verdict' = IF \E i \in dependents : id \notin edges[i] THEN "error" ELSE "ordering"
    /\ UNCHANGED stages

\* Fault: what is left in a cycle is not noticed.
NoneLeft == TRUE
AllSeen == Cardinality(seen) = Len(stages)

Decide ==
    /\ verdict = "ordering" /\ ready = << >>
    /\ verdict' = IF AllSeen THEN "accepted" ELSE "refused"
    /\ UNCHANGED <<stages, edges, ready, seen>>

StageNext == Check \/ Take \/ Decide

StageSpec == StageInit /\ [][StageNext]_stageVars

--------------------------------------------------------------------------------
Runnable ==
    \E order \in [IdsOf -> 1..Cardinality(IdsOf)] :
        \A s \in ToSet(stages) : \A d \in ToSet(s.deps) :
            d \in IdsOf /\ order[d] < order[s.id]

(* Stages are accepted if and only if they can be run one after another so that each
   follows its dependencies, besides what is refused on sight, and the loop never fails on
   an edge that is gone (_topological_count, validate_stage_graph).                 *)
VerdictIsExact ==
    /\ verdict = "accepted" => ~Refused /\ Runnable
    /\ verdict = "refused" => Refused \/ ~Runnable
    /\ verdict # "error"

--------------------------------------------------------------------------------
(* The contract of a stream's pages: how a page's contract is compared with the one the
   stream is held to, and what sync_stream does with a page that does not fit it, and with
   a stream that awaits the repair someone proposed.

   A contract has fields, each with a type and the rest of its schema, the fields that are
   required, and its identifiers; normalisation is done.                            *)

CONSTANTS
    Configured,    \* contracts a host may configure for the stream, besides none
    Observed,      \* contracts of the source's pages, besides none
    MaxDriftSyncs, \* bound
    MaxPages,      \* max_pages of a sync
    None

\* A contract: field: name |-> <<type, rest of the schema>>, required, ids.
Sound(c) == c = None \/ c.required \cup c.ids \subseteq DOMAIN c.field

VARIABLES
    configured,    \* target.schema_contract, or None
    contract,      \* what the sync under way holds pages to
    policy,        \* and its evolution policy: "review" or "optional_fields"
    driftPhase,    \* of sync_stream: "idle", "extract" or "page"
    driftPage,     \* the contract of the page just extracted, or None
    pages,
    driftSyncs,
    report,        \* the last drift report: [level, old, new, policy], or None
    paused,        \* an unresolved repair proposal names the stream
    \* Observation only: no action reads these.
    submitted,     \* the page this sync submitted last, as [old, new, policy], or None
    begun          \* the stream was paused when the sync began

driftVars == <<configured, contract, policy, driftPhase, driftPage, pages, driftSyncs,
               report, paused,
               submitted, begun>>

DriftInit ==
    /\ configured \in Configured \cup {None}
    /\ contract = None /\ policy = "review" /\ driftPhase = "idle" /\ driftPage = None
    /\ pages = 0
    /\ driftSyncs = 0 /\ report = None /\ paused = FALSE /\ submitted = None /\ begun = FALSE

DriftTypeOK ==
    /\ Sound(configured) /\ Sound(contract) /\ Sound(driftPage)
    /\ policy \in {"review", "optional_fields"} /\ driftPhase \in {"idle", "extract", "page"}
    /\ pages \in 0..MaxPages /\ driftSyncs \in 0..MaxDriftSyncs /\ paused \in BOOLEAN

--------------------------------------------------------------------------------
(* classify_schema_drift *)

\* Fault: a field that was optional may go as it may come.
RemovalByPolicy(required, p) ==
    IF required THEN "BREAKING"
    ELSE IF p = "review" THEN "REQUIRES_REVIEW" ELSE "COMPATIBLE"
RemovalLevel(required, p) == IF required THEN "BREAKING" ELSE "REQUIRES_REVIEW"

AdditionLevel(required, p) ==
    IF ~required /\ p = "optional_fields" THEN "COMPATIBLE" ELSE "REQUIRES_REVIEW"

\* _property_changes
FieldLevels(old, new, p) ==
    LET was == DOMAIN old.field
        is == DOMAIN new.field
        required == old.required \cup new.required
        differ(n) == {f \in was \cap is : old.field[f][n] # new.field[f][n]}
    IN  {RemovalLevel(f \in required, p) : f \in was \ is}
          \cup {AdditionLevel(f \in required, p) : f \in is \ was}
          \cup (IF differ(1) # {} THEN {"BREAKING"} ELSE {})
          \cup (IF differ(2) # {} THEN {"REQUIRES_REVIEW"} ELSE {})

\* Fault: the required fields of one contract are not compared with the other's.
RequiredIsFree(old, new) == {}
RequiredLevels(old, new) ==
    IF old.required # new.required THEN {"REQUIRES_REVIEW"} ELSE {}

\* _contract_changes
ChangeLevels(old, new, p) ==
    IF None \in {old, new} THEN {"REQUIRES_REVIEW"}
    ELSE FieldLevels(old, new, p) \cup RequiredLevels(old, new)
           \cup (IF old.ids # new.ids THEN {"BREAKING"} ELSE {})

Classification(levels) ==
    IF "BREAKING" \in levels THEN "BREAKING"
    ELSE IF "REQUIRES_REVIEW" \in levels THEN "REQUIRES_REVIEW" ELSE "COMPATIBLE"

Drift == [level |-> Classification(ChangeLevels(contract, driftPage, policy)),
          old |-> contract, new |-> driftPage, policy |-> policy]

--------------------------------------------------------------------------------
(* sync_stream *)

\* Fault: a paused stream is synced.
NeverPaused == TRUE
NotPaused == ~paused

\* discover and _discovered_target: without a contract of its own the target takes what
\* the adapter describes at this moment; StreamPaused changes nothing.
DriftSync(described, p) ==
         /\ driftPhase = "idle" /\ driftSyncs < MaxDriftSyncs /\ NotPaused
         /\ contract' = IF configured = None THEN described ELSE configured
         /\ policy' = p /\ driftPhase' = "extract" /\ pages' = 0 /\ driftSyncs' = driftSyncs + 1
         /\ begun' = paused /\ submitted' = None
         /\ UNCHANGED <<configured, driftPage, report, paused>>

Extract(c) ==
    /\ driftPhase = "extract" /\ pages < MaxPages
    /\ driftPhase' = "page" /\ driftPage' = c /\ pages' = pages + 1
    /\ UNCHANGED <<configured, contract, policy, driftSyncs, report, paused, submitted, begun>>

\* Fault: only a breaking change is quarantined.
Unbroken(level) == level # "BREAKING"
Admitted(level) == level = "COMPATIBLE"

\* commit_page, or the page without news, after _check_drift.
Submit ==
    /\ driftPhase = "page" /\ Admitted(Drift.level) /\ driftPhase' = "extract"
    /\ driftPage' = None
    /\ submitted' = [old |-> contract, new |-> driftPage, policy |-> policy]
    /\ UNCHANGED <<configured, contract, policy, pages, driftSyncs, report, paused, begun>>

\* SchemaDriftQuarantined
Quarantine ==
    /\ driftPhase = "page" /\ ~Admitted(Drift.level) /\ driftPhase' = "idle"
    /\ driftPage' = None
    /\ report' = Drift
    /\ UNCHANGED <<configured, contract, policy, pages, driftSyncs, paused, submitted, begun>>

Finish ==
    /\ driftPhase = "extract" /\ driftPhase' = "idle"
    /\ UNCHANGED <<configured, contract, policy, driftPage, pages, driftSyncs, report, paused,
                   submitted, begun>>

\* propose_repair and record: only of a report that is not compatible.
Propose ==
    /\ report # None /\ report.level # "COMPATIBLE" /\ ~paused /\ paused' = TRUE
    /\ UNCHANGED <<configured, contract, policy, driftPhase, driftPage, pages, driftSyncs,
                   report,
                   submitted, begun>>

\* The engine activates the repair, and the host may hold the stream to what it saw, or the
\* repair is dropped; external.
Resolve ==
    /\ paused /\ paused' = FALSE
    /\ configured' \in {configured, report.new} /\ report' = None
    /\ UNCHANGED <<contract, policy, driftPhase, driftPage, pages, driftSyncs, submitted,
                   begun>>

DriftNext ==
    \/ \E d \in Configured \cup {None}, p \in {"review", "optional_fields"} : DriftSync(d, p)
    \/ \E c \in Observed \cup {None} : Extract(c)
    \/ Submit \/ Quarantine \/ Finish \/ Propose \/ Resolve

DriftSpec == DriftInit /\ [][DriftNext]_driftVars

--------------------------------------------------------------------------------
\* The records a contract admits, as the fields they have.
Shapes(c) == {s \in SUBSET DOMAIN c.field : c.required \subseteq s}

\* To a reader of the old contract, the pages of the new one are pages of the old one, and
\* the old one's records may still come.
Fits(old, new, p) ==
    /\ None \notin {old, new}
    /\ old.ids = new.ids
    /\ \A f \in DOMAIN old.field : f \in DOMAIN new.field /\ old.field[f] = new.field[f]
    /\ {s \cap DOMAIN old.field : s \in Shapes(new)} = Shapes(old)
    /\ p = "review" => old = new
    /\ \A s \in Shapes(new) : s \cap DOMAIN old.field \in Shapes(new)

(* A page that is submitted reads, to whoever knows the contract the sync holds it to, as
   a page of that contract, and nothing that does is quarantined (classify_schema_drift,
   _check_drift).                                                                   *)
DriftIsExact ==
    /\ submitted # None => Fits(submitted.old, submitted.new, submitted.policy)
    /\ report # None => ~Fits(report.old, report.new, report.policy)

(* No sync begins while a repair proposal of the stream is unresolved, so that a page that
   is extracted after a quarantine that led to one waits for its resolution (sync_stream,
   RepairProposalStore.paused).                                                     *)
PausedIsQuiet == driftPhase # "idle" => ~begun

--------------------------------------------------------------------------------
(* The cursor strategies of SourceStream.sync against a source that changes while it is
   walked.  A record is its key: the next number when it appears, which is also the time
   at which it does, and the order in which every listing gives it.  Cursors are numbers;
   as text they sort the same, which HighWaterCursor asks of its keys.              *)

CONSTANTS
    Strategies,    \* among "offset", "keyset", "window" and "high"
    PageSize,      \* records of a full page
    Window,        \* of TimeWindowCursor
    MaxKey,        \* bound: records that ever appear
    MaxCursorSyncs  \* bound

VARIABLES
    strategy,
    source,        \* records the source has
    now,           \* the last record's time; later ones are in the future
    accepted,      \* the stream's accepted cursor, or None
    cursor,        \* of the walk
    cursorPhase,   \* of sync: "idle", "fetch" or "commit"
    cursorPage,    \* records just read
    cursorSyncs,
    \* Observation only: no action reads these.
    cursorCommitted, \* records that were ever accepted
    present,       \* records the source had, before this very moment if its pages are
                   \* windows, when the sync began, and has had until now
    removed,       \* a record was ever removed
    slipped,       \* records that appeared in a window between its page and the clock
    ended          \* the last sync read until there was no next cursor

cursorVars == <<strategy, source, now, accepted, cursor, cursorPhase, cursorPage, cursorSyncs,
                cursorCommitted, present, removed, slipped, ended>>
world == <<strategy, source, now, present, removed, slipped>>

CursorInit ==
    /\ strategy \in Strategies
    /\ source = {} /\ now = 0 /\ accepted = None /\ cursor = None /\ cursorPhase = "idle"
    /\ cursorPage = {} /\ cursorSyncs = 0 /\ cursorCommitted = {} /\ present = {}
    /\ removed = FALSE
    /\ slipped = {} /\ ended = FALSE

CursorTypeOK ==
    /\ source \subseteq 1..now /\ now \in 0..MaxKey /\ cursorPage \subseteq 1..now
    /\ {accepted, cursor} \subseteq 0..(MaxKey + PageSize + Window) \cup {None}
    /\ cursorPhase \in {"idle", "fetch", "commit"} /\ cursorSyncs \in 0..MaxCursorSyncs

--------------------------------------------------------------------------------
(* The source, external *)

Appear ==
    /\ now < MaxKey /\ now' = now + 1 /\ source' = source \cup {now + 1}
    /\ slipped' = IF strategy = "window" /\ cursorPhase = "commit" THEN slipped \cup {now + 1}
                  ELSE slipped
    /\ UNCHANGED <<strategy, accepted, cursor, cursorPhase, cursorPage, cursorSyncs,
                   cursorCommitted, present,
                   removed, ended>>

Vanish ==
    /\ \E k \in source : source' = source \ {k} /\ present' = present \ {k}
    /\ removed' = TRUE
    /\ UNCHANGED <<strategy, now, accepted, cursor, cursorPhase, cursorPage, cursorSyncs,
                   cursorCommitted, slipped,
                   ended>>

FirstOf(records) ==
    LET listed == SetToSortSeq(records, LAMBDA a, b : a < b)
    IN  {listed[i] : i \in 1..Min({PageSize, Len(listed)})}

After(c) == {k \in source : c = None \/ k > c}
Skipping(n) == {k \in source : Cardinality({j \in source : j < k}) >= n}

\* fetch_page: what a source answers to a cursor of its strategy.
Listed(c) ==
    CASE strategy = "offset" -> FirstOf(Skipping(c))
      [] strategy = "window" -> {k \in source : c <= k /\ k < c + Window}
      [] OTHER -> FirstOf(After(c))

--------------------------------------------------------------------------------
(* first and advance of the strategies *)

First ==
    CASE strategy = "offset" -> 0
      [] strategy = "window" -> 1
      [] OTHER -> None

\* Fault: the next page begins one record too late.
OffsetPast(n, c) == IF n < PageSize THEN None ELSE c + n + 1
OffsetNext(n, c) == IF n < PageSize THEN None ELSE c + n

\* Fault: the cursor is the first key of the next page.
KeysetPast(records) == IF Cardinality(records) < PageSize THEN None ELSE Max(records) + 1
KeysetNext(records) == IF Cardinality(records) < PageSize THEN None ELSE Max(records)

\* Fault: a window is left although it is not over.
WindowByStart(c) == IF c >= now THEN None ELSE c + Window
\* The clock is read after the page was.
WindowNext(c) == IF c + Window >= now THEN None ELSE c + Window

\* Fault: a page of marks is the last.
HighOnce(records, c) == None
HighNext(records, c) ==
    IF records = {} THEN None ELSE Max(records \cup ({c} \ {None}))

Advance(records, c) ==
    CASE strategy = "offset" -> OffsetNext(Cardinality(records), c)
      [] strategy = "keyset" -> KeysetNext(records)
      [] strategy = "window" -> WindowNext(c)
      [] OTHER -> HighNext(records, c)

--------------------------------------------------------------------------------
(* SourceStream.sync *)

CursorSync ==
    /\ cursorPhase = "idle" /\ cursorSyncs < MaxCursorSyncs
    /\ cursorPhase' = "fetch" /\ cursorSyncs' = cursorSyncs + 1 /\ ended' = FALSE
    /\ present' = {k \in source : strategy = "window" => k < now}
    /\ cursor' = IF accepted = None THEN First ELSE accepted
    /\ UNCHANGED <<strategy, source, now, removed, slipped, accepted, cursorPage,
                   cursorCommitted>>

Fetch ==
    /\ cursorPhase = "fetch" /\ cursorPhase' = "commit" /\ cursorPage' = Listed(cursor)
    /\ UNCHANGED <<world, accepted, cursor, cursorSyncs, cursorCommitted, ended>>

\* An empty page at the end preserves the accepted cursor.
AcceptedAfter(next) == IF cursorPage = {} /\ next = None THEN accepted ELSE next

\* _sync_page: a page is accepted with its next cursor, and the walk goes on from it.
CursorCommit ==
    LET next == Advance(cursorPage, cursor)
    IN
    /\ cursorPhase = "commit" /\ cursorPage' = {}
    /\ cursorCommitted' = cursorCommitted \cup cursorPage /\ accepted' = AcceptedAfter(next)
    /\ IF next = None THEN cursorPhase' = "idle" /\ cursor' = None /\ ended' = TRUE
       ELSE cursorPhase' = "fetch" /\ cursor' = next /\ UNCHANGED ended
    /\ UNCHANGED <<world, cursorSyncs>>

\* The page is not accepted, or the source fails.
Fail ==
    /\ cursorPhase # "idle" /\ cursorPhase' = "idle" /\ cursorPage' = {} /\ cursor' = None
    /\ UNCHANGED <<world, accepted, cursorSyncs, cursorCommitted, ended>>

\* max_pages are read.
CursorStop ==
    /\ cursorPhase = "fetch" /\ cursorPhase' = "idle" /\ cursor' = None
    /\ UNCHANGED <<world, accepted, cursorPage, cursorSyncs, cursorCommitted, ended>>

CursorNext == Appear \/ Vanish \/ CursorSync \/ Fetch \/ CursorCommit \/ Fail \/ CursorStop

CursorSpec == CursorInit /\ [][CursorNext]_cursorVars

--------------------------------------------------------------------------------
(* A sync that read until there was no next cursor leaves out no record that the source
   had all along: not one that moved behind the cursor of an earlier sync that failed,
   and not one of a window that was read before it was over, unless it appeared while the
   window's page was on its way.  Positions promise it only while nothing is removed
   (advance of the strategies, AcceptedAfter).                                      *)
SyncReadsAll ==
    cursorPhase = "idle" /\ ended /\ (strategy = "offset" => ~removed) =>
        present \subseteq cursorCommitted \cup slipped

--------------------------------------------------------------------------------
(* Ingest workers that claim jobs from the engine's task queue, run them and acknowledge
   the outcome (run_ingest_worker).  The engine is external: a claim is leased, a claim
   whose lease ran out or whose body failed is delivered again, and success of a claim
   that is no longer the worker's is answered with an error unless the job succeeded. *)

CONSTANTS
    Workers,
    Jobs,
    MaxClaims      \* bound

VARIABLES
    queue,         \* queue[j]: "queued", "claimed" or "succeeded", for the engine
    holder,        \* holder[j]: the worker of the claim, or None
    pc,            \* pc[w]: "admit", "loop", "run", "returned", "failed", "commit", "ended"
    job,           \* job[w]: what the worker claimed, or None
    stop,          \* stop[w]: SIGTERM came
    claims,
    \* Observation only: no action reads these.
    returned,      \* jobs some body of which returned
    jobCommitted,  \* jobs whose commit was called
    left           \* jobs whose worker stopped when asked to, before their outcome

jobVars == <<queue, holder, pc, job, stop, claims, returned, jobCommitted, left>>

JobInit ==
    /\ queue = [j \in Jobs |-> "queued"] /\ holder = [j \in Jobs |-> None]
    /\ pc = [w \in Workers |-> "admit"] /\ job = [w \in Workers |-> None]
    /\ stop = [w \in Workers |-> FALSE] /\ claims = 0
    /\ returned = {} /\ jobCommitted = {} /\ left = {}

JobTypeOK ==
    /\ queue \in [Jobs -> {"queued", "claimed", "succeeded"}]
    /\ holder \in [Jobs -> Workers \cup {None}] /\ claims \in 0..MaxClaims
    /\ pc \in [Workers ->
                {"admit", "loop", "run", "returned", "failed", "commit", "ended"}]
    /\ job \in [Workers -> Jobs \cup {None}]

Go(w, to) == pc' = [pc EXCEPT ![w] = to]
engine == <<queue, holder, claims>>
ghosts == <<returned, jobCommitted, left>>

--------------------------------------------------------------------------------
(* run_ingest_worker *)

\* _grant: refused, or a reply without a policy value, ends the worker (WorkerStopped).
Admit(w) ==
    /\ pc[w] = "admit" /\ \E to \in {"loop", "ended"} : Go(w, to)
    /\ UNCHANGED <<engine, job, stop, ghosts>>

\* SIGTERM
Signal(w) ==
    /\ ~stop[w] /\ stop' = [stop EXCEPT ![w] = TRUE]
    /\ UNCHANGED <<engine, pc, job, ghosts>>

\* Fault: the signal ends the worker where it is.
AtOnce(w) == stop[w] /\ pc[w] # "ended"
\* should_stop is asked between two jobs.
BetweenJobs(w) == stop[w] /\ pc[w] = "loop"

JobStop(w) ==
       /\ BetweenJobs(w) /\ Go(w, "ended")
       /\ left' = left \cup ({job[w]} \ {None})
       /\ UNCHANGED <<engine, job, stop, returned, jobCommitted>>

\* task_queue_claim; without a job the worker sleeps and asks again.
Claim(w, j) ==
    /\ pc[w] = "loop" /\ ~stop[w] /\ queue[j] = "queued" /\ claims < MaxClaims
    /\ queue' = [queue EXCEPT ![j] = "claimed"] /\ holder' = [holder EXCEPT ![j] = w]
    /\ claims' = claims + 1 /\ job' = [job EXCEPT ![w] = j] /\ Go(w, "run")
    /\ UNCHANGED <<stop, ghosts>>

\* run_job returns or raises.
Body(w) ==
    /\ pc[w] = "run"
    /\ \/ Go(w, "returned") /\ returned' = returned \cup {job[w]}
       \/ Go(w, "failed") /\ UNCHANGED returned
    /\ UNCHANGED <<engine, job, stop, jobCommitted, left>>

\* Fault: commit before the acknowledgement.
CommitFirst(w) == pc[w] = "returned"
AfterAck(w) == pc[w] = "commit"

\* Fault: the outcome is not looked at.
SucceededAnyway(w) == "succeeded"
Outcome(w) == IF pc[w] = "returned" THEN "succeeded" ELSE "queued"

Settle(w) ==
    /\ queue' = [queue EXCEPT ![job[w]] = Outcome(w)]
    /\ holder' = [holder EXCEPT ![job[w]] = None]
Mine(w) == queue[job[w]] = "claimed" /\ holder[job[w]] = w

\* task_queue_ack: the engine settles the claim, or ignores what is not the worker's; a
\* failed job is queued again (retry is the engine's), and the worker takes the next one.
Ack(w) ==
    /\ pc[w] \in {"returned", "failed"}
    /\ IF Mine(w) THEN Settle(w)
       ELSE /\ pc[w] = "returned" => queue[job[w]] = "succeeded"
            /\ UNCHANGED <<queue, holder>>
    /\ IF pc[w] = "returned" THEN Go(w, "commit") /\ UNCHANGED job
       ELSE Go(w, "loop") /\ job' = [job EXCEPT ![w] = None]
    /\ UNCHANGED <<claims, stop, ghosts>>

\* task_queue_ack raises, whether or not the engine settled the claim: the worker ends.
AckError(w) ==
    /\ pc[w] \in {"returned", "failed"} /\ Go(w, "ended")
    /\ \/ Mine(w) /\ Settle(w)
       \/ UNCHANGED <<queue, holder>>
    /\ UNCHANGED <<claims, job, stop, ghosts>>

JobCommit(w) ==
    /\ AfterAck(w) /\ jobCommitted' = jobCommitted \cup {job[w]}
    /\ job' = [job EXCEPT ![w] = None] /\ Go(w, "loop")
    /\ UNCHANGED <<engine, stop, returned, left>>

\* The process dies, or commit raises.
Crash(w) ==
    /\ pc[w] # "ended" /\ Go(w, "ended")
    /\ UNCHANGED <<engine, job, stop, ghosts>>

\* The engine: a lease runs out, its worker dead or slow.
Expire(j) ==
    /\ queue[j] = "claimed"
    /\ queue' = [queue EXCEPT ![j] = "queued"] /\ holder' = [holder EXCEPT ![j] = None]
    /\ UNCHANGED <<claims, pc, job, stop, ghosts>>

JobNext ==
    \/ \E w \in Workers : Admit(w) \/ Signal(w) \/ JobStop(w) \/ Body(w) \/ Ack(w)
                            \/ AckError(w) \/ JobCommit(w) \/ Crash(w)
    \/ \E w \in Workers, j \in Jobs : Claim(w, j)
    \/ \E j \in Jobs : Expire(j)

JobSpec == JobInit /\ [][JobNext]_jobVars

--------------------------------------------------------------------------------
(* A job that was committed is one the engine will not deliver again, and a job that it
   will not deliver again is one whose body returned, however often it was delivered and
   to whom (run_job, task_queue_ack, commit).                                       *)
CommitsAreSettled ==
    /\ \A j \in jobCommitted : queue[j] = "succeeded"
    /\ \A j \in Jobs : queue[j] = "succeeded" => j \in returned

(* A worker that is asked to stop finishes the job it has: no claim is left to its lease
   (should_stop).                                                                   *)
StopLeavesNothing == left = {}
================================================================================
