--------------------------------- MODULE Sinks ---------------------------------
(* Write-back sinks: the operations a run applies to other systems, and the pushes that
   enrich them, and the proofs an effect may need.

   The sections share no state: each has its own Init, Next and Spec. *)
EXTENDS Integers, Sequences, FiniteSets

--------------------------------------------------------------------------------
(***************************************************************************)
(* run_writeback: batches of operations on systems of record.  A request   *)
(* passes the gate (enable flag, approval of high-stakes sinks), reserves  *)
(* its audit record and runs the sink, which takes the operations one by   *)
(* one, finds the record of a node by the stamp on the node, counts what   *)
(* became of each and stamps the nodes it created records for.             *)
(***************************************************************************)

CONSTANTS
    Domains,     \* targets in use
    SinkNodes,   \* nodes of the graph
    Runs,        \* invocations that may overlap
    None,
    MaxOps,      \* bound: operations of a request
    MaxRequests, \* bound: requests
    MaxFaults    \* bound: failed calls, stamps and queries, crashes

VARIABLES
    sink,        \* the sink registered for each domain
    sinkEnabled, \* domains whose enable flag is set
    sinkGraph,   \* sinkGraph[n]: ci, the domains stamped on n, and key, the last of them
    records,     \* records[d][n]: how many records the system has for a node
    queue,       \* proposals waiting for approval: [d, todo]
    run,
    excuse,      \* ghost: reasons for another record of a node
    requests, faults

sinkVars == <<sink, sinkEnabled, sinkGraph, records, queue, run, excuse, requests, faults>>

--------------------------------------------------------------------------------
(* The sinks: their tier, when they query the stamps, and the kinds of operation in
   the order they are taken.  An operation may need the record of its node, may
   always be skipped, makes one or two calls, may stamp what it creates. *)

Op(needs) == [creates |-> FALSE, needs |-> needs, calls |-> 1, skips |-> FALSE,
              stamps |-> FALSE]
Creation == [Op(FALSE) EXCEPT !.creates = TRUE]
Stamped == [Creation EXCEPT !.stamps = TRUE]
Standard(steps) == [tier |-> "standard", late |-> FALSE, steps |-> steps]
HighStakes(steps) == [Standard(steps) EXCEPT !.tier = "high_stakes"]

\* Creations, enrichments, relations, work notes, retirements.
ServiceNow == Standard(<<Stamped, Op(TRUE), Op(TRUE), Op(TRUE), Op(TRUE)>>)
\* Creations, enrichments, retirements; relations are skipped.
ErpNext == Standard(<<Stamped, Op(TRUE), Op(TRUE), [Op(FALSE) EXCEPT !.skips = TRUE]>>)
\* Relations, enrichments (fields, then a tag), creations.
LeanIx == Standard(<<Op(TRUE), [Op(TRUE) EXCEPT !.calls = 2], Creation>>)
Salesforce == Standard(<<Creation, Op(TRUE)>>)
Okta == Standard(<<Creation, Op(TRUE), Op(TRUE)>>)
Keycloak == Standard(<<Creation>>)
Archimate == Standard(<<Creation, Op(TRUE)>>)
Egeria == Standard(<<Stamped>>)
\* Stamps are queried after the creations.
Twenty == [Standard(<<Stamped, Op(TRUE)>>) EXCEPT !.late = TRUE]
Nextcloud == Standard(<<Creation, Op(FALSE)>>)
CisoAssistant == Standard(<<Creation>>)
Ansible == Standard(<<Creation>>)
HomeAssistant == Standard(<<Creation>>)
Mealie == Standard(<<Creation>>)
Wger == Standard(<<Creation>>)
IssueTrackers == Standard(<<Creation>>)
OpsSinks == Standard(<<Creation>>)
\* Orders, filings, Kafka records and stacks.
Emerald == HighStakes(<<Creation>>)
Legal == HighStakes(<<Creation>>)
Kafka == HighStakes(<<Creation>>)
Portainer == HighStakes(<<Creation>>)
\* The transition, then a comment.
Transitions == HighStakes(<<[Op(FALSE) EXCEPT !.calls = 2]>>)

Sinks == {ServiceNow, ErpNext, LeanIx, Salesforce, Okta, Keycloak, Archimate, Egeria, Twenty,
          Nextcloud, CisoAssistant, Ansible, HomeAssistant, Mealie, Wger, IssueTrackers,
          OpsSinks, Emerald, Legal, Kafka, Portainer, Transitions}

StepOf(d, k) == sink[d].steps[k]
Stamps(s) == \E k \in DOMAIN s.steps : s.steps[k].stamps

--------------------------------------------------------------------------------

Off == [phase |-> "off", d |-> None, approved |-> FALSE, open |-> FALSE, todo |-> {},
        known |-> None, done |-> 0, skipped |-> 0, errors |-> 0, effects |-> 0, asked |-> 0]

SinkTypeOK ==
    /\ sink \in [Domains -> Sinks] /\ sinkEnabled \subseteq Domains
    /\ sinkGraph \in [SinkNodes -> [ci : SUBSET Domains, key : Domains \cup {None}]]
    /\ records \in [Domains -> [SinkNodes -> 0..MaxRequests]]
    /\ \A q \in queue : q.d \in Domains /\ q.todo \subseteq (1..5) \X SinkNodes
    /\ \A r \in Runs :
         /\ run[r].phase \in {"off", "reserve", "sink", "ended"}
         /\ run[r].d \in Domains \cup {None} /\ run[r].approved \in BOOLEAN
         /\ run[r].open \in BOOLEAN /\ run[r].todo \subseteq (1..5) \X SinkNodes
         /\ run[r].known = None \/ run[r].known \subseteq SinkNodes
         /\ run[r].done + run[r].errors <= 2 * MaxOps /\ run[r].skipped <= MaxOps
    /\ excuse \in [Domains -> [SinkNodes -> Nat]]
    /\ requests \in 0..MaxRequests /\ faults \in 0..MaxFaults

SinkInit ==
    /\ sink \in [Domains -> Sinks] /\ sinkEnabled = Domains
    /\ sinkGraph = [n \in SinkNodes |-> [ci |-> {}, key |-> None]]
    /\ records = [d \in Domains |-> [n \in SinkNodes |-> 0]]
    /\ queue = {} /\ run = [r \in Runs |-> Off]
    /\ excuse = [d \in Domains |-> [n \in SinkNodes |-> 0]]
    /\ requests = 0 /\ faults = 0

Fault == faults < MaxFaults /\ faults' = faults + 1

\* An operator clears or sets an enable flag.
Toggle(d) ==
    /\ sinkEnabled' = IF d \in sinkEnabled THEN sinkEnabled \ {d} ELSE sinkEnabled \cup {d}
    /\ Fault
    /\ UNCHANGED <<sink, sinkGraph, records, queue, run, excuse, requests>>

--------------------------------------------------------------------------------
(* run_writeback *)

Created(d, todo) == {x[2] : x \in {y \in todo : StepOf(d, y[1]).creates}}

\* The inventory pass proposes records for the nodes without the target's stamp.
Proposed(d, todo) == \A n \in Created(d, todo) : d \notin sinkGraph[n].ci

\* A run under way that will create a record of the same node, or a proposal made
\* before, is a reason for a second one.
Overlaps(d, n) ==
    \/ \E r \in Runs : run[r].d = d /\ run[r].phase \in {"reserve", "sink"}
                       /\ n \in Created(d, run[r].todo)
    \/ \E q \in queue : q.d = d /\ n \in Created(d, q.todo)
Excused(d, ns) == [excuse EXCEPT ![d] = [n \in SinkNodes |-> @[n] + (IF n \in ns THEN 1 ELSE 0)]]

SinkBegin(r, d, todo, approved) ==
    run' = [run EXCEPT ![r] = [Off EXCEPT !.phase = "reserve", !.d = d, !.todo = todo,
                                          !.approved = approved, !.asked = Cardinality(todo)]]

\* Fault: the preview of a high-stakes write is applied as well.
NeverQueued(d, approved) == FALSE
Queued(d, approved) == sink[d].tier = "high_stakes" /\ ~approved

\* A live request; one that is refused, and a dry run, change nothing.
Request(r, d, todo) ==
    /\ requests < MaxRequests /\ requests' = requests + 1
    /\ run[r].phase \in {"off", "ended"} /\ Proposed(d, todo)
    /\ d \in sinkEnabled
    /\ excuse' = Excused(d, {n \in Created(d, todo) : Overlaps(d, n)})
    /\ IF Queued(d, FALSE)
       THEN queue' = queue \cup {[d |-> d, todo |-> todo]} /\ UNCHANGED run
       ELSE SinkBegin(r, d, todo, FALSE) /\ UNCHANGED queue
    /\ UNCHANGED <<sink, sinkEnabled, sinkGraph, records, faults>>

\* The engine's decision queue replays an approved proposal.
Approve(r, q) ==
    /\ run[r].phase \in {"off", "ended"} /\ q.d \in sinkEnabled
    /\ queue' = queue \ {q} /\ SinkBegin(r, q.d, q.todo, TRUE)
    /\ UNCHANGED <<sink, sinkEnabled, sinkGraph, records, excuse, requests, faults>>

--------------------------------------------------------------------------------
(* execute_governed, and the sink on its thread *)

\* FileAuditReservation.  Fault: the sink starts first.
ReserveLater(r) == run' = [run EXCEPT ![r].phase = "sink"]
ReserveAudit(r) == run' = [run EXCEPT ![r].phase = "sink", ![r].open = TRUE]

\* No client: the batch is skipped, counted as one or, by the sinks that check it
\* themselves, operation by operation.
Reserve(r) ==
    /\ run[r].phase = "reserve"
    /\ \/ ReserveAudit(r) /\ UNCHANGED faults
       \/ /\ Fault
          /\ \E many \in {1, run[r].asked} :
               run' = [run EXCEPT ![r].phase = "ended", ![r].todo = {}, ![r].skipped = many]
    /\ UNCHANGED <<sink, sinkEnabled, sinkGraph, records, queue, excuse, requests>>

\* resolve_external_id: one query, kept for the run; a query that fails finds nothing.
Due(r) ==
    /\ run[r].phase = "sink" /\ run[r].known = None
    /\ \E k \in DOMAIN sink[run[r].d].steps : StepOf(run[r].d, k).needs
    /\ ~sink[run[r].d].late \/ \A x \in run[r].todo : ~StepOf(run[r].d, x[1]).creates
Resolve(r) ==
    /\ Due(r)
    /\ \/ run' = [run EXCEPT ![r].known = {n \in SinkNodes : sinkGraph[n].key = run[r].d}]
          /\ UNCHANGED faults
       \/ Fault /\ run' = [run EXCEPT ![r].known = {}]
    /\ UNCHANGED <<sink, sinkEnabled, sinkGraph, records, queue, excuse, requests>>

\* The next operation of the batch.
NextOps(r) == {x \in run[r].todo : \A y \in run[r].todo : x[1] <= y[1]}
Ready(r) == run[r].phase = "sink" /\ ~Due(r)

Skipped(r, x) ==
    \/ StepOf(run[r].d, x[1]).skips
    \/ StepOf(run[r].d, x[1]).needs /\ x[2] \notin run[r].known

Skip(r, x) ==
    /\ Ready(r) /\ x \in NextOps(r) /\ Skipped(r, x)
    /\ run' = [run EXCEPT ![r].todo = @ \ {x}, ![r].skipped = @ + 1]
    /\ UNCHANGED <<sink, sinkEnabled, sinkGraph, records, queue, excuse, requests, faults>>

\* stamp_external_id: the domain's own stamp, and the key the query reads.
\* Fault: what was created is not stamped.
NotStamped(d, n) == UNCHANGED sinkGraph
Stamp(d, n) == sinkGraph' = [sinkGraph EXCEPT ![n] = [ci |-> @.ci \cup {d}, key |-> d]]

\* What the sink counts: each call of an enrichment, or the operation.
Units(r, x) == IF StepOf(run[r].d, x[1]).needs THEN StepOf(run[r].d, x[1]).calls ELSE 1

Added(r, x) ==
    [records EXCEPT ![run[r].d][x[2]] =
        @ + (IF StepOf(run[r].d, x[1]).creates THEN 1 ELSE 0)]

Do(r, x) ==
    LET d == run[r].d  op == StepOf(d, x[1]) IN
    /\ Ready(r) /\ x \in NextOps(r) /\ ~Skipped(r, x)
    /\ run' = [run EXCEPT ![r].todo = @ \ {x}, ![r].done = @ + Units(r, x),
                          ![r].effects = @ + Units(r, x)]
    /\ records' = Added(r, x)
    /\ \/ op.stamps /\ Stamp(d, x[2]) /\ UNCHANGED <<excuse, faults>>
       \/ op.stamps /\ Fault /\ UNCHANGED sinkGraph /\ excuse' = Excused(d, {x[2]})
       \/ ~op.stamps /\ UNCHANGED <<sinkGraph, faults, excuse>>
    /\ UNCHANGED <<sink, sinkEnabled, queue, requests>>

\* A call fails, the first or the second one, with its effect or without: the sink
\* counts an error and goes on.  Fault: the failed operation counts as done.
CountAnyway(r, x, before, took) ==
    [run EXCEPT ![r].todo = @ \ {x}, ![r].done = @ + 1, ![r].effects = @ + before + took]
CountError(r, x, before, took) ==
    [run EXCEPT ![r].todo = @ \ {x}, ![r].errors = @ + 1, ![r].effects = @ + before + took,
                ![r].done = @ + IF Units(r, x) > 1 THEN before ELSE 0]

Fail(r, x) ==
    LET d == run[r].d  op == StepOf(d, x[1]) IN
    /\ Ready(r) /\ x \in NextOps(r) /\ ~Skipped(r, x) /\ Fault
    /\ \E before \in 0..op.calls - 1, took \in 0..1 :
         /\ Units(r, x) = 1 => before + took <= 1
         /\ run' = CountError(r, x, before, took)
         /\ IF before + took > 0
            THEN records' = Added(r, x) /\ excuse' = Excused(d, {x[2]})
            ELSE UNCHANGED <<records, excuse>>
    /\ UNCHANGED <<sink, sinkEnabled, sinkGraph, queue, requests>>

\* The attempt is recorded, whatever the counts.
SinkFinish(r) ==
    /\ run[r].phase = "sink" /\ run[r].todo = {}
    /\ run' = [run EXCEPT ![r].phase = "ended", ![r].open = FALSE]
    /\ UNCHANGED <<sink, sinkEnabled, sinkGraph, records, queue, excuse, requests, faults>>

\* The process dies.
Crash(r) ==
    /\ run[r].phase \in {"reserve", "sink"} /\ Fault
    /\ run' = [run EXCEPT ![r] = Off]
    /\ UNCHANGED <<sink, sinkEnabled, sinkGraph, records, queue, excuse, requests>>

Batches == {S \in SUBSET ((1..5) \X SinkNodes) : S # {} /\ Cardinality(S) <= MaxOps}

SinkNext ==
    \/ \E d \in Domains : Toggle(d)
    \/ \E r \in Runs :
         \/ \E d \in Domains : \E todo \in Batches :
                (\A x \in todo : x[1] \in DOMAIN sink[d].steps) /\ Request(r, d, todo)
         \/ \E q \in queue : Approve(r, q)
         \/ Reserve(r) \/ Resolve(r) \/ SinkFinish(r) \/ Crash(r)
         \/ \E x \in run[r].todo : Skip(r, x) \/ Do(r, x) \/ Fail(r, x)

SinkSpec == SinkInit /\ [][SinkNext]_sinkVars

--------------------------------------------------------------------------------
(* Properties *)

\* Counts tell the truth: what is counted as done took effect, and what took effect
\* without being counted was counted as an error; every operation of a batch that
\* found a client is accounted for.
CountsAreTrue ==
    \A r \in Runs : run[r].phase = "ended" =>
        /\ run[r].done <= run[r].effects
        /\ run[r].effects <= run[r].done + run[r].errors
        /\ \/ run[r].asked <= run[r].done + run[r].errors + run[r].skipped
           \/ run[r].effects = 0 /\ run[r].skipped = 1

\* "idempotent re-runs": a sink that stamps creates one record of a node, unless an
\* answer or a stamp was lost or two passes proposed the node before either was done.
OneRecord ==
    \A d \in Domains, n \in SinkNodes :
        Stamps(sink[d]) => records[d][n] <= 1 + excuse[d][n]

\* A record changes only under an audit reservation, and that of a high-stakes
\* target only in the replay of an approved proposal.
GovernedStep ==
    \A r \in Runs : run[r].effects < run'[r].effects =>
        run[r].open /\ (sink[run[r].d].tier = "high_stakes" => run[r].approved)

--------------------------------------------------------------------------------
(***************************************************************************)
(* The sinks that push what the graph derived instead of operations on     *)
(* records of their own: ProcessSink (a process's intelligence, to the     *)
(* running instances of a Camunda process or to an ARIS model),            *)
(* CapabilitySink (a capability, to Archi and to LeanIX) and link_spec (a  *)
(* spec, to an issue of a tracker).  One job at a time, made of calls each *)
(* of which may fail; a failed call is counted, not raised.                *)
(*                                                                         *)
(* A payload stands for its hash; 0 is a payload with nothing in it.       *)
(***************************************************************************)

CONSTANTS
    Targets,     \* instances and models: [id, process, via]
    Payloads,    \* what the graph may derive of a process; 0: nothing
    EnrichNodes, \* capability nodes: [id, name, pushed]
    Trackers,    \* the capability clients
    KgNames,     \* names of Capability nodes the backend lists
    MaxJobs, MaxEdits     \* bounds

VARIABLES
    enrichGraph, \* enrichGraph[p]: the payload of process p now
    remote,      \* remote[t]: the payload a target carries, or None
    created,     \* <<tracker, name>> -> how many were created
    issue,       \* the issue: title, link, comments
    spec,        \* external_links and trackedBy of the spec
    job,         \* the job under way, or None
    edits, jobs,
    enrichBefore \* ghost: what was outside when the job began

outside == <<remote, created, issue>>
enrichVars == <<enrichGraph, remote, created, issue, spec, job, edits, jobs, enrichBefore>>

Processes == {t.process : t \in Targets}
NoIssue == [title |-> FALSE, link |-> FALSE, comments |-> 0]

EnrichTypeOK ==
    /\ enrichGraph \in [Processes -> Payloads]
    /\ remote \in [Targets -> Payloads \cup {None}]
    /\ issue \in [title : BOOLEAN, link : BOOLEAN, comments : Nat]
    /\ spec \in [external : BOOLEAN, tracked : BOOLEAN]
    /\ jobs \in 0..MaxJobs /\ edits \in 0..MaxEdits

EnrichInit ==
    /\ enrichGraph \in [Processes -> Payloads] /\ remote = [t \in Targets |-> None]
    /\ created = [x \in Trackers \X {n.name : n \in EnrichNodes} |-> 0]
    /\ issue = NoIssue /\ spec = [external |-> FALSE, tracked |-> FALSE]
    /\ job = None /\ edits = 0 /\ jobs = 0 /\ enrichBefore = <<remote, created, issue>>

Edit ==
    /\ edits < MaxEdits /\ edits' = edits + 1
    /\ \E p \in Processes : \E v \in Payloads \ {enrichGraph[p]} :
         enrichGraph' = [enrichGraph EXCEPT ![p] = v]
    /\ UNCHANGED <<remote, created, issue, spec, job, jobs, enrichBefore>>

NewJob(kind, dry, todo) ==
    [kind |-> kind, dry |-> dry, todo |-> todo, payload |-> [p \in Processes |-> None],
     through |-> {},      \* ghost: targets written or found up to date
     done |-> 0, skipped |-> 0, errors |-> 0, proposals |-> 0, status |-> "running"]

EnrichBegin(new) ==
    /\ job = None \/ (job # None /\ job.status # "running")
    /\ jobs < MaxJobs /\ jobs' = jobs + 1
    /\ job' = new /\ enrichBefore' = outside
    /\ UNCHANGED <<enrichGraph, remote, created, issue, edits>>

Running(kind) == job # None /\ job.kind = kind /\ job.status = "running"

--------------------------------------------------------------------------------
(* push_process_intelligence *)

StartProcesses ==
    /\ \E dry \in BOOLEAN : \E clients \in SUBSET {t.via : t \in Targets} :
         LET todo == {t \in Targets : t.via \in clients}
         IN EnrichBegin(IF clients = {} THEN [NewJob("process", dry, {}) EXCEPT !.skipped = 1]
                        ELSE NewJob("process", dry, todo))
    /\ UNCHANGED spec

\* gather_intelligence: the payload of one process, as the graph has it now.
Gather(p) ==
    /\ Running("process") /\ job.payload[p] = None
    /\ LET its == {t \in job.todo : t.process = p}
       IN /\ its # {}
          /\ job' = [job EXCEPT !.payload[p] = enrichGraph[p],
               !.todo = IF enrichGraph[p] = 0 \/ job.dry THEN @ \ its ELSE @,
               !.proposals = IF enrichGraph[p] # 0 /\ job.dry THEN @ + 1 ELSE @]
    /\ UNCHANGED <<enrichGraph, remote, created, issue, spec, edits, jobs, enrichBefore>>

\* Fault: a target that carries any hash is left alone.
AnyHash(t, read) == read /\ remote[t] # None
Same(t, read) == read /\ remote[t] # None /\ remote[t] = job.payload[t.process]

\* One instance: compare the hash it carries, if it can be read, and modify it.
Push(t) ==
    /\ Running("process") /\ t \in job.todo /\ job.payload[t.process] # None
    /\ \E read \in BOOLEAN : \E ok \in BOOLEAN :
         IF Same(t, read)
         THEN /\ job' = [job EXCEPT !.todo = @ \ {t}, !.through = @ \cup {t},
                                    !.skipped = @ + 1]
              /\ UNCHANGED remote
         ELSE IF ok
         THEN /\ remote' = [remote EXCEPT ![t] = job.payload[t.process]]
              /\ job' = [job EXCEPT !.todo = @ \ {t}, !.through = @ \cup {t},
                                    !.done = @ + 1]
         ELSE job' = [job EXCEPT !.todo = @ \ {t}, !.errors = @ + 1] /\ UNCHANGED remote
    /\ UNCHANGED <<enrichGraph, created, issue, spec, edits, jobs, enrichBefore>>

--------------------------------------------------------------------------------
(* push_capabilities *)

\* _should_push, and the names the backend knows.
\* Fault: the names are compared as they are written.
AnyCase(n) == FALSE
Known(n) == n.name \in KgNames

StartCapabilities ==
    /\ \E dry \in BOOLEAN : \E clients \in SUBSET Trackers :
         EnrichBegin(NewJob("capability", dry,
                            IF clients = {} THEN {} ELSE {n \in EnrichNodes : n.pushed} \X {clients}))
    /\ UNCHANGED spec

PushNode(x) ==
    /\ Running("capability") /\ x \in job.todo
    /\ LET n == x[1]
           rest == [job EXCEPT !.todo = @ \ {x}]
       IN IF Known(n) THEN job' = [rest EXCEPT !.skipped = @ + 1] /\ UNCHANGED created
          ELSE IF job.dry THEN job' = [rest EXCEPT !.proposals = @ + 1] /\ UNCHANGED created
          ELSE \E ok \in SUBSET x[2] :
                 /\ created' = [y \in DOMAIN created |->
                      IF y[1] \in ok /\ y[2] = n.name THEN created[y] + 1 ELSE created[y]]
                 /\ job' = [rest EXCEPT !.done = @ + Cardinality(ok),
                                        !.errors = @ + Cardinality(x[2] \ ok)]
    /\ UNCHANGED <<enrichGraph, remote, issue, spec, edits, jobs, enrichBefore>>

--------------------------------------------------------------------------------
(* link_spec *)

Calls == {"update", "link", "comment"}
Before(c) ==
    CASE c = "update" -> {} [] c = "link" -> {"update"}
      [] c = "comment" -> {"update", "link"}

\* <TARGET>_ENABLE_WRITE; a preview also records the link at the spec.
StartLink ==
    /\ \E dry \in BOOLEAN : \E enabled \in BOOLEAN : \E comment \in BOOLEAN :
         /\ EnrichBegin([NewJob("spec", dry, IF dry \/ ~enabled THEN {}
                                             ELSE IF comment THEN Calls ELSE Calls \ {"comment"})
                         EXCEPT !.status = IF ~dry /\ ~enabled THEN "refused"
                                           ELSE IF dry THEN "completed" ELSE "running"])
         /\ spec' = IF dry THEN [spec EXCEPT !.external = TRUE] ELSE spec

\* _push_plane and _push_jira: the calls in order; the first failure ends them.
\* Fault: the calls that follow a failed one are made.
GoesOn(c) == [job EXCEPT !.todo = @ \ {c}]
Stop(c) == [job EXCEPT !.status = "error"]

LinkCall(c) ==
    /\ Running("spec") /\ c \in job.todo /\ Before(c) \cap job.todo = {}
    /\ \/ /\ issue' = [issue EXCEPT !.title = @ \/ c = "update", !.link = @ \/ c = "link",
                                    !.comments = IF c = "comment" THEN @ + 1 ELSE @]
          /\ job' = [job EXCEPT !.todo = @ \ {c}]
       \/ job' = Stop(c) /\ UNCHANGED issue
    /\ UNCHANGED <<enrichGraph, remote, created, spec, edits, jobs, enrichBefore>>

\* _write_tracked_by logs its failure and the call is complete all the same.
Linked ==
    /\ Running("spec") /\ job.todo = {}
    /\ \E written \in BOOLEAN :
         spec' = [external |-> TRUE, tracked |-> spec.tracked \/ written]
    /\ job' = [job EXCEPT !.status = "completed"]
    /\ UNCHANGED <<enrichGraph, remote, created, issue, edits, jobs, enrichBefore>>

EnrichFinish ==
    /\ job # None /\ job.kind # "spec" /\ job.status = "running" /\ job.todo = {}
    /\ job' = [job EXCEPT !.status = "completed"]
    /\ UNCHANGED <<enrichGraph, remote, created, issue, spec, edits, jobs, enrichBefore>>

EnrichNext ==
    \/ Edit \/ StartProcesses \/ StartCapabilities \/ StartLink \/ Linked \/ EnrichFinish
    \/ \E p \in Processes : Gather(p)
    \/ \E t \in Targets : Push(t)
    \/ job # None /\ job.kind = "capability" /\ \E x \in job.todo : PushNode(x)
    \/ \E c \in Calls : LinkCall(c)

EnrichSpec == EnrichInit /\ [][EnrichNext]_enrichVars

--------------------------------------------------------------------------------

\* A preview, and a tracker without its write flag, leave everything outside alone.
PreviewsWriteNothing ==
    job # None /\ (job.dry \/ job.status = "refused") => outside = enrichBefore

\* A target a run is through with carries the payload the run gathered for its process,
\* also when the graph moves on meanwhile; a link it completed is at the issue and at
\* the spec; and nothing is created under a name the graph has.
ResultIsTrue ==
    /\ Running("process") => \A t \in job.through : remote[t] = job.payload[t.process]
    /\ job # None /\ job.kind = "spec" /\ ~job.dry /\ job.status = "completed" =>
         issue.link /\ issue.title /\ spec.external
    /\ \A x \in DOMAIN created : created[x] > 0 => x[2] \notin KgNames

--------------------------------------------------------------------------------
(* The proofs an effect on a source may need: a wallet's signature over the change set,
   verified before the effect, and for a file in a repository the approved intent, the
   file read back and the receipt bound to both.  A verification reads the clock once,
   then awaits the trusted key; other attempts, other writers of the repository and the
   revocation of a key come between.                                                *)
CONSTANTS
    Attempts,    \* attempts to apply a change set; each has its own audit reservation
    Changes,     \* change sets: [id, scope, key, effect, intent, patch]
    Keys,        \* wallet keys; a signature of nobody is by None
    Lifetime,    \* max_lifetime of a proof
    TrustEnds,   \* when the resolver's keys end to be valid
    MaxTime, MaxProofs, MaxProofEdits

VARIABLES
    now,
    revoked,     \* the keys that were revoked
    proofs,      \* wallet proofs that were sent: [by, for, nonce, issued, expires]
    attempt,     \* attempt |-> where it is
    file,        \* the file in the repository: [data, executable], or None
    revision,    \* the revision it is at
    receipts,    \* receipts that the provider issued
    proofEdits

proofVars == <<now, revoked, proofs, attempt, file, revision, receipts, proofEdits>>

Idle == [at |-> "idle"]
Lesser(m, n) == IF m < n THEN m ELSE n

ProofInit ==
    /\ now = 0 /\ revoked = {} /\ proofs = {} /\ attempt = [a \in Attempts |-> Idle]
    /\ file = None /\ revision = 0 /\ receipts = {} /\ proofEdits = 0

ProofTypeOK ==
    /\ now \in 0..MaxTime /\ revoked \subseteq Keys /\ revision \in Nat
    /\ \A a \in Attempts : attempt[a].at \in
         {"idle", "resolve", "verified", "applied", "read", "accepted", "refused"}

Move(a, fields) == attempt' = [attempt EXCEPT ![a] = fields]
Refused(a) == Move(a, [at |-> "refused"])

--------------------------------------------------------------------------------
(* Signers *)

\* A proof names the scope and the key of the change set it is for; nonce is the change
\* set's own identity.
Binding(c) == [scope |-> c.scope, key |-> c.key, effect |-> c.effect]

Send(by, c, length) ==
    /\ Cardinality(proofs) < MaxProofs
    /\ proofs' = proofs \cup {[by |-> by, for |-> Binding(c), nonce |-> c.id,
                               issued |-> now, expires |-> now + length]}
    /\ UNCHANGED <<now, revoked, attempt, file, revision, receipts, proofEdits>>

Sign == \E c \in Changes, n \in 1..(Lifetime + 1) : Send(c.key, c, n)

\* A message that no key, or another key, has signed.
SendOther == \E c \in Changes, k \in Keys \cup {None} : k # c.key /\ Send(k, c, 1)

--------------------------------------------------------------------------------
(* WalletSignatureVerifier.verify *)

\* Fault: the scope alone.
AnyNonce(p, c) == p.for = Binding(c)
SameScope(p, c) == p.for = Binding(c) /\ p.nonce = c.id

\* Fault: a proof may be of any length.
AnyLength(p) == p.issued <= now /\ now < p.expires
InTime(p) == p.issued <= now /\ now < p.expires /\ p.expires - p.issued <= Lifetime

\* _request_refusal: the clock is read here.
Verify(a) ==
    /\ attempt[a] = Idle
    /\ \E c \in Changes, p \in proofs :
         IF InTime(p) /\ SameScope(p, c)
         THEN Move(a, [at |-> "resolve", change |-> c, proof |-> p, began |-> now])
         ELSE Refused(a)
    /\ UNCHANGED <<now, revoked, proofs, file, revision, receipts, proofEdits>>

\* Fault: the signature is not looked at.
AnySignature(p, k) == TRUE
SignatureValid(p, k) == p.by = k

\* _trust_refusal, _signature_valid: the key as the resolver has it now, at the time the
\* verification began.
ResolveKey(a) ==
    /\ attempt[a].at = "resolve"
    /\ LET t == attempt[a]
       IN  IF /\ t.change.key \notin revoked /\ t.began < TrustEnds
              /\ SignatureValid(t.proof, t.change.key)
           THEN Move(a, [at |-> "verified", change |-> t.change, proof |-> t.proof,
                         began |-> t.began,
                         until |-> Lesser(t.proof.expires, TrustEnds)])
           ELSE Refused(a)
    /\ UNCHANGED <<now, revoked, proofs, file, revision, receipts, proofEdits>>

\* The resolver is unavailable.
ResolveFails(a) ==
    /\ attempt[a].at = "resolve" /\ Refused(a)
    /\ UNCHANGED <<now, revoked, proofs, file, revision, receipts, proofEdits>>

--------------------------------------------------------------------------------
(* The repository's file: intent, readback and receipt *)

\* _check_action_claims: a creation claims no file, an update claims one.
IntentHolds(i) == (i.action = "create") = (i.expected = None)

\* Fault: the intent beside the change set is believed.
AnyPatch(c) == TRUE
PatchMatches(c) == c.patch = c.intent

\* The provider, external: applied where the repository is as the intent expects it, and
\* not again when an earlier attempt of the change set was applied.
Apply(a) ==
    /\ attempt[a].at = "verified"
    /\ LET c == attempt[a].change
       IN  IF \E r \in receipts : r.change = c
           THEN /\ Move(a, [attempt[a] EXCEPT !.at = "applied"])
                /\ UNCHANGED <<file, revision, receipts>>
           ELSE IF /\ IntentHolds(c.intent) /\ PatchMatches(c)
                   /\ revision = c.intent.base /\ file = c.intent.expected
                THEN /\ file' = c.intent.file
                     /\ revision' = revision + 1
                     /\ receipts' = receipts \cup {[change |-> c, reservation |-> a,
                                                    file |-> c.intent.file]}
                     /\ Move(a, [attempt[a] EXCEPT !.at = "applied"])
                ELSE Refused(a) /\ UNCHANGED <<file, revision, receipts>>
    /\ UNCHANGED <<now, revoked, proofs, proofEdits>>

\* Fault: the bytes alone.
BytesOnly(i) == file # None => file.data = i.file.data
ReadsBack(i) == file = i.file

\* require_readback, of the file as it is now.
Readback(a) ==
    /\ attempt[a].at = "applied"
    /\ LET t == attempt[a]
       IN  IF ReadsBack(t.change.intent)
           THEN Move(a, [at |-> "read", change |-> t.change, proof |-> t.proof,
                         began |-> t.began, until |-> t.until, seen |-> file])
           ELSE Refused(a)
    /\ UNCHANGED <<now, revoked, proofs, file, revision, receipts, proofEdits>>

\* Fault: the reservation is not compared.
AnyReservation(r, a) == r.change = attempt[a].change
Bound(r, a) == r.change = attempt[a].change /\ r.reservation = a

\* require_binding, of a receipt that the provider hands over.
Accept(a) ==
    /\ attempt[a].at = "read"
    /\ \E r \in receipts :
         LET t == attempt[a]
         IN  IF Bound(r, a) /\ r.file = t.change.intent.file
             THEN Move(a, [at |-> "accepted", change |-> t.change, proof |-> t.proof,
                           began |-> t.began, until |-> t.until, seen |-> t.seen,
                           receipt |-> r])
             ELSE Refused(a)
    /\ UNCHANGED <<now, revoked, proofs, file, revision, receipts, proofEdits>>

--------------------------------------------------------------------------------
(* Others *)

Revoke ==
    /\ proofEdits < MaxProofEdits /\ proofEdits' = proofEdits + 1
    /\ \E k \in Keys \ revoked : revoked' = revoked \cup {k}
    /\ UNCHANGED <<now, proofs, attempt, file, revision, receipts>>

\* Another writer changes the file, its mode too.
Interfere ==
    /\ proofEdits < MaxProofEdits /\ proofEdits' = proofEdits + 1
    /\ \E f \in {[c.intent.file EXCEPT !.executable = ~@] : c \in Changes}
               \cup {c.intent.file : c \in Changes} \cup {None} :
         file' = f
    /\ revision' = revision + 1
    /\ UNCHANGED <<now, revoked, proofs, attempt, receipts>>

Tick ==
    /\ now < MaxTime /\ now' = now + 1
    /\ UNCHANGED <<revoked, proofs, attempt, file, revision, receipts, proofEdits>>

ProofStep(a) ==
    Verify(a) \/ ResolveKey(a) \/ ResolveFails(a) \/ Apply(a) \/ Readback(a) \/ Accept(a)

ProofNext == Sign \/ SendOther \/ (\E a \in Attempts : ProofStep(a)) \/ Revoke \/ Interfere \/ Tick

ProofSpec == ProofInit /\ [][ProofNext]_proofVars

--------------------------------------------------------------------------------
Proved(a) == attempt[a].at \in {"verified", "applied", "read", "accepted"}

(* An attempt that is past its verification has a proof that the change set's own key
   signed for this change set, and no other, that was no older than a proof may be when
   the verification began (WalletSignatureVerifier.verify).                         *)
ProofIsSigned ==
    \A a \in Attempts : Proved(a) =>
      LET t == attempt[a]
      IN  /\ t.proof.by = t.change.key /\ t.proof.nonce = t.change.id
          /\ t.proof.for = Binding(t.change)
          /\ t.began \in t.proof.issued..(t.proof.issued + Lifetime - 1)
          /\ t.until <= t.proof.expires /\ t.until > t.began

(* A receipt that was accepted is of this attempt, and the file had the approved bytes
   and mode when it was read back, whoever else wrote to the repository; the effect was
   the approved one of the change set (require_readback, require_binding).          *)
ReceiptIsBound ==
    /\ \A a \in Attempts : attempt[a].at = "accepted" =>
         LET t == attempt[a]
         IN  /\ t.receipt.reservation = a /\ t.receipt.change = t.change
             /\ t.seen = t.change.intent.file
    /\ \A r \in receipts : r.file = r.change.patch.file
    /\ \A r, s \in receipts : r.change = s.change /\ r.reservation = s.reservation => r = s
================================================================================
