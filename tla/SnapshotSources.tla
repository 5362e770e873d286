---------------------------- MODULE SnapshotSources ----------------------------
(* Sources read as a whole: the snapshot of a document source, the GraphQL read that
   produces one, and the index of a repository at one revision.

   The sections share no state: each has its own Init, Next and Spec. *)
EXTENDS Integers, Sequences, FiniteSets, SequencesExt

--------------------------------------------------------------------------------
(***************************************************************************)
(* The graphql_document source: read all pages of one query, walk the      *)
(* hierarchy of records they hold, and turn the difference to the          *)
(* checkpoint's version map into upserts and withdrawals.  The source may  *)
(* change between two pages.  The caller applies a batch together with its *)
(* checkpoint, or not at all.                                              *)
(*                                                                         *)
(* A record's version digest stands for its content and the governance it  *)
(* was read under.                                                         *)
(***************************************************************************)

CONSTANTS
    Nodes,
    Children,       \* Children[n]: the nodes nested in n's record, in order
    Seeds,          \* Seeds[i]: the top-level records of page i, in order
    Contents,
    None,
    MaxSnapshotEntities, \* max_entities
    MaxDepth,       \* max_hierarchy_depth
    AllowEmpty,     \* allow_empty_snapshot
    MaxSnapshotEdits, \* bound: edits of the source
    MaxChanges,     \* bound: changes of the operator's profile
    MaxFaults       \* bound: failed or partial pages, batches that get lost

Absent == "absent"
SnapshotNoId == "noid" \* a record without an identity, or one that renders to nothing
Records == Contents \cup {Absent, SnapshotNoId}
Pages == 1..Len(Seeds)

VARIABLES
    snapshotSource, \* snapshotSource[n]; a nested record is there when all around it are
    snapshotProfile, \* snapshot_authoritative and governance
    checkpoint,   \* versions and snapshot_authoritative of the saved checkpoint
    poll,         \* the poll under way
    snapshotBatch, \* what it returned: upserts, tombstones and the checkpoint
    engine,       \* engine[n]: the version the engine holds, or None
    forgotten,    \* nodes that left the version map without a withdrawal
    last,         \* what the source showed to an authoritative poll no edit raced
    snapshotEdits, changes, faults

operator == <<snapshotProfile, changes>>
upstream == <<snapshotSource, snapshotEdits>>
saved == <<checkpoint, engine, forgotten, last>>
snapshotVars == <<upstream, operator, saved, poll, snapshotBatch, faults>>

Versions == [Nodes -> (Contents \X Nat) \cup {None}]
NoVersions == [n \in Nodes |-> None]
Live(map) == {n \in Nodes : map[n] # None}

NoPoll == [step |-> "idle", page |-> 1, stack |-> <<>>, count |-> 0,
           incomplete |-> FALSE, versions |-> NoVersions, raced |-> FALSE]
NoBatch == [upserts |-> {}, tombstones |-> {}, versions |-> NoVersions]

SnapshotTypeOK ==
    /\ snapshotSource \in [Nodes -> Records]
    /\ snapshotProfile \in [authoritative : BOOLEAN, governance : Nat]
    /\ checkpoint \in Versions /\ engine \in Versions
    /\ poll \in [step : {"idle", "page", "walk", "polled"}, page : 1..Len(Seeds) + 1,
                 stack : Seq([node : Nodes, record : Records, depth : Nat,
                              below : [Nodes -> Records]]),
                 count : 0..MaxSnapshotEntities, incomplete : BOOLEAN, versions : Versions,
                 raced : BOOLEAN]
    /\ snapshotBatch \in [upserts : SUBSET Nodes, tombstones : SUBSET Nodes,
                          versions : Versions]
    /\ forgotten \subseteq Nodes
    /\ last \in Versions \cup {None}
    /\ snapshotEdits \in Nat /\ changes \in Nat /\ faults \in Nat

SnapshotInit ==
    /\ snapshotSource = [n \in Nodes |-> Absent]
    /\ snapshotProfile \in [authoritative : BOOLEAN, governance : {1}]
    /\ checkpoint = NoVersions /\ engine = NoVersions
    /\ poll = NoPoll /\ snapshotBatch = NoBatch
    /\ forgotten = {} /\ last = None
    /\ snapshotEdits = 0 /\ changes = 0 /\ faults = 0

Fault == faults < MaxFaults /\ faults' = faults + 1

--------------------------------------------------------------------------------
(* The source and the operator *)

SnapshotEdit ==
    /\ snapshotEdits < MaxSnapshotEdits /\ snapshotEdits' = snapshotEdits + 1
    /\ \E n \in Nodes : \E r \in Records \ {snapshotSource[n]} :
         snapshotSource' = [snapshotSource EXCEPT ![n] = r]
    /\ poll' = [poll EXCEPT !.raced = poll.step # "idle"]
    /\ UNCHANGED <<operator, saved, snapshotBatch, faults>>

\* Between polls: _resolve_profile reads the profile once in a poll.
ChangeProfile ==
    /\ poll.step = "idle"
    /\ changes < MaxChanges /\ changes' = changes + 1
    /\ \/ snapshotProfile' = [snapshotProfile EXCEPT !.authoritative = ~@]
       \/ snapshotProfile' = [snapshotProfile EXCEPT !.governance = @ + 1]
    /\ UNCHANGED <<upstream, saved, poll, snapshotBatch, faults>>

--------------------------------------------------------------------------------
(* _fetch_roots *)

Poll ==
    /\ poll.step = "idle" /\ poll' = [NoPoll EXCEPT !.step = "page"]
    /\ UNCHANGED <<upstream, operator, saved, snapshotBatch, faults>>

Item(n, files, depth) ==
    [node |-> n, record |-> files[n], depth |-> depth, below |-> files]
Present(nodes, files) == SelectSeq(nodes, LAMBDA n : files[n] # Absent)
Items(nodes, files, depth) ==
    [i \in 1..Len(Present(nodes, files)) |-> Item(Present(nodes, files)[i], files, depth)]

\* The page as it is now; with allowlisted partial errors records are missing.
Page ==
    /\ poll.step = "page" /\ poll.page \in Pages
    /\ \/ /\ poll' = [poll EXCEPT !.page = @ + 1,
                        !.stack = @ \o Items(Seeds[poll.page], snapshotSource, 0)]
          /\ UNCHANGED faults
       \/ /\ Fault
          /\ \E n \in Nodes :
               poll' = [poll EXCEPT !.page = @ + 1, !.incomplete = TRUE,
                 !.stack = @ \o Items(Seeds[poll.page], [snapshotSource EXCEPT ![n] = Absent], 0)]
    /\ UNCHANGED <<upstream, operator, saved, snapshotBatch>>

\* Errors that are not allowlisted, a bad continuation, a response or a number
\* of pages past its bound: the poll raises.
PageFails ==
    /\ poll.step = "page" /\ Fault
    /\ poll' = NoPoll
    /\ UNCHANGED <<upstream, operator, saved, snapshotBatch>>

Fetched ==
    /\ poll.step = "page" /\ poll.page \notin Pages
    /\ poll' = [poll EXCEPT !.step = "walk"]
    /\ UNCHANGED <<upstream, operator, saved, snapshotBatch, faults>>

--------------------------------------------------------------------------------
(* _mapping_hierarchy_records and _prepare_entities, one record a step *)

Version(record) == IF record \in Contents THEN <<record, snapshotProfile.governance>> ELSE None

\* Fault: children below the depth limit are left out silently.
DepthUncounted(top) == FALSE
\* _hierarchy_step: "return [], len(children)"
TooDeep(top) ==
    top.depth + 1 >= MaxDepth /\ Items(Children[top.node], top.below, 0) # <<>>

Pushable(top) ==
    IF top.depth + 1 >= MaxDepth THEN <<>>
    ELSE Items(Children[top.node], top.below, top.depth + 1)

Walk ==
    /\ poll.step = "walk" /\ poll.stack # <<>>
    /\ LET top == Head(poll.stack) IN
       poll' = IF poll.count >= MaxSnapshotEntities
               THEN [poll EXCEPT !.stack = Tail(@), !.incomplete = TRUE]
               ELSE [poll EXCEPT !.stack = Pushable(top) \o Tail(@),
                                 !.count = @ + 1,
                                 !.incomplete = @ \/ TooDeep(top) \/ top.record = SnapshotNoId,
                                 !.versions[top.node] = Version(top.record)]
    /\ UNCHANGED <<upstream, operator, saved, snapshotBatch, faults>>

--------------------------------------------------------------------------------
(* _SnapshotReconciler.reconcile *)

\* Fault: an incomplete snapshot is reconciled.
AnySnapshot == FALSE
\* _validate_snapshot_completeness
SnapshotRefused ==
    /\ snapshotProfile.authoritative
    /\ \/ poll.incomplete
       \/ ~AllowEmpty /\ Live(checkpoint) # {} /\ Live(poll.versions) = {}

Changed == {n \in Live(poll.versions) : poll.versions[n] # checkpoint[n]}
Tombstones == IF snapshotProfile.authoritative THEN Live(checkpoint) \ Live(poll.versions) ELSE {}

\* Fault: the version map keeps what was withdrawn.
Accumulated ==
    [n \in Nodes |-> IF poll.versions[n] # None THEN poll.versions[n] ELSE checkpoint[n]]
\* _build_next_checkpoint
NextVersions == poll.versions

Reconcile ==
    /\ poll.step = "walk" /\ poll.stack = <<>>
    /\ IF SnapshotRefused THEN poll' = NoPoll /\ UNCHANGED snapshotBatch
       ELSE /\ poll' = [poll EXCEPT !.step = "polled"]
            /\ snapshotBatch' = [upserts |-> Changed, tombstones |-> Tombstones,
                                 versions |-> NextVersions]
    /\ UNCHANGED <<upstream, operator, saved, faults>>

--------------------------------------------------------------------------------
(* The caller *)

\* n is in the source's answer: nested in records that are all there.
Parents(n) == {m \in Nodes : \E i \in DOMAIN Children[m] : Children[m][i] = n}
Shown(n) ==
    /\ snapshotSource[n] # Absent
    /\ \A m \in Parents(n) :
         snapshotSource[m] # Absent /\ \A k \in Parents(m) : snapshotSource[k] # Absent
Snapshot == IF snapshotProfile.authoritative /\ ~poll.raced
            THEN [n \in Nodes |-> IF Shown(n) THEN Version(snapshotSource[n]) ELSE None]
            ELSE None

Apply ==
    /\ poll.step = "polled"
    /\ engine' = [n \in Nodes |-> IF n \in snapshotBatch.tombstones THEN None
                                  ELSE IF n \in snapshotBatch.upserts THEN snapshotBatch.versions[n]
                                  ELSE engine[n]]
    /\ checkpoint' = snapshotBatch.versions
    /\ forgotten' = (forgotten
                       \cup (Live(checkpoint)
                               \ (Live(snapshotBatch.versions) \cup snapshotBatch.tombstones)))
                    \ snapshotBatch.upserts
    /\ last' = Snapshot
    /\ poll' = NoPoll /\ snapshotBatch' = NoBatch
    /\ UNCHANGED <<upstream, operator, faults>>

Lose ==
    /\ poll.step = "polled" /\ Fault
    /\ poll' = NoPoll /\ snapshotBatch' = NoBatch
    /\ UNCHANGED <<upstream, operator, saved>>

SnapshotNext ==
    \/ SnapshotEdit \/ ChangeProfile \/ Poll \/ Page \/ PageFails \/ Fetched \/ Walk
    \/ Reconcile \/ Apply \/ Lose

SnapshotSpec == SnapshotInit /\ [][SnapshotNext]_snapshotVars

--------------------------------------------------------------------------------
(* Properties *)

\* After an authoritative snapshot was applied that no edit raced, the engine
\* holds what the source showed, under the governance of then, and nothing else
\* but records that a snapshot without that authority has let go of: neither a
\* partial answer, nor one cut at a bound, has withdrawn what was there.
SnapshotIsExact ==
    last # None =>
        \A n \in Nodes : engine[n] = last[n] \/ (last[n] = None /\ n \in forgotten)

\* A record is withdrawn once: what a batch withdraws is in the engine.
WithdrawnOnce == \A n \in snapshotBatch.tombstones : engine[n] # None

--------------------------------------------------------------------------------
(***************************************************************************)
(* One read of the graphql_document source, below what the snapshot shows  *)
(* of it: the operator's profile is checked as a whole, each page is       *)
(* asked for with the full query and then with its optional-field          *)
(* fallbacks, answers with errors count only as far as the profile says,   *)
(* and the records of all pages become entities, kind by kind and within   *)
(* the bounds, whose links end at entities of the same batch.              *)
(*                                                                         *)
(* A node id is the keyed digest of kind and raw id: a pair here.          *)
(***************************************************************************)

CONSTANTS
    Sources,        \* what the source may hold: the records of each page, in order
    Kinds,          \* _ENTITY_KINDS that have a mapping, in order
    Fallbacks,      \* Fallbacks[i]: the errors the i-th fallback answers to
    Partial,        \* the errors partial_errors allows
    Errors,         \* what a server may answer with beside data
    MaxFallbacks, MaxPages, MaxGraphEntities, MaxDocuments,
    MaxBytes,       \* max_total_response_bytes, in answers
    MaxGraphEdits   \* bound: edits of the source

Checks == {"endpoint", "headers", "operation", "query", "pagination", "mappings",
           "governance"}
GraphNoId == "noid" \* a record without an identity

VARIABLES
    graphSource, graphEdits,
    graphProfile, \* [bad, dry]: the check it would fail, or None; dry_run
    read,       \* the read under way
    graphBatch, \* what it returned: entities, links, counts; or None
    posts       \* ghost: requests sent

graphVars == <<graphSource, graphEdits, graphProfile, read, graphBatch, posts>>

Idle == [step |-> "idle", page |-> 1, try |-> 0, seen |-> {}, bytes |-> 0,
         roots |-> <<>>, partial |-> 0, stable |-> {}]

GraphTypeOK ==
    /\ graphEdits \in 0..MaxGraphEdits /\ posts \in Nat
    /\ graphProfile.bad \in Checks \cup {None} /\ graphProfile.dry \in BOOLEAN
    /\ read.step \in {"idle", "resolve", "post", "continue", "build", "failed"}
    /\ read.page \in DOMAIN graphSource /\ read.try \in 0..MaxFallbacks

GraphInit ==
    /\ graphSource \in Sources /\ graphEdits = 0
    /\ graphProfile \in [bad : Checks \cup {None}, dry : BOOLEAN]
    /\ read = Idle /\ graphBatch = None /\ posts = 0

\* A record leaves the source; a read under way may have seen it.
GraphEdit ==
    /\ graphEdits < MaxGraphEdits /\ graphEdits' = graphEdits + 1
    /\ \E i \in DOMAIN graphSource : \E r \in Range(graphSource[i]) :
         /\ graphSource' = [graphSource EXCEPT ![i] = SelectSeq(@, LAMBDA x : x # r)]
         /\ read' = [read EXCEPT !.stable = @ \ {r}]
    /\ UNCHANGED <<graphProfile, graphBatch, posts>>

--------------------------------------------------------------------------------
(* _resolve_profile: every check, before the first request *)

Build ==
    /\ read.step = "idle" /\ graphBatch = None
    /\ read' = [Idle EXCEPT !.step = "resolve",
                  !.stable = UNION {Range(graphSource[i]) : i \in DOMAIN graphSource}]
    /\ UNCHANGED <<graphSource, graphEdits, graphProfile, graphBatch, posts>>

Endpoint == graphProfile.bad = "endpoint"
Headers == graphProfile.bad = "headers"
Operation == graphProfile.bad = "operation"
Query == graphProfile.bad = "query"
Pagination == graphProfile.bad = "pagination"
Mappings == graphProfile.bad = "mappings"
Governance == graphProfile.bad = "governance"

Resolve ==
    /\ read.step = "resolve"
    /\ read' = [read EXCEPT !.step =
         IF Endpoint \/ Headers \/ Operation \/ Query \/ Pagination \/ Mappings \/ Governance
         THEN "failed" ELSE "post"]
    /\ UNCHANGED <<graphSource, graphEdits, graphProfile, graphBatch, posts>>

--------------------------------------------------------------------------------
(* _page_data *)

Allowlisted(errors, allowed) == errors # {} /\ errors \subseteq allowed

Fail == read' = [read EXCEPT !.step = "failed"]

\* Fault: the fallbacks have no bound of their own.
AnyFallback(errors) == errors # {} /\ \E i \in DOMAIN Fallbacks : errors \subseteq Fallbacks[i]
FallsBack(errors) ==
    /\ read.try < MaxFallbacks /\ read.try < Len(Fallbacks)
    /\ Allowlisted(errors, Fallbacks[read.try + 1])

\* The page is taken; with errors, one of its records is missing.
Take(errors) ==
    LET page == graphSource[read.page]
        Kept(gone) == [read EXCEPT !.step = "continue", !.bytes = @ + 1,
                         !.partial = @ + Cardinality(errors),
                         !.roots = Append(@, SelectSeq(page, LAMBDA r : r \notin gone))]
    IN \E gone \in (IF errors = {} THEN {{}} ELSE {{r} : r \in Range(page)}) : read' = Kept(gone)

Post ==
    /\ read.step = "post" /\ posts' = posts + 1
    /\ \/ Fail           \* _post raised: transport, bound, no object
       \/ \E errors \in Errors :
            IF FallsBack(errors)
            THEN read' = [read EXCEPT !.try = @ + 1, !.bytes = @ + 1]
            ELSE IF ~(errors = {} \/ Allowlisted(errors, Partial)) \/ read.bytes >= MaxBytes
            THEN Fail
            ELSE Take(errors)
    /\ UNCHANGED <<graphSource, graphEdits, graphProfile, graphBatch>>

\* _next_page_cursor; a server may repeat a cursor for ever.
\* Fault: the last page within the bound ends the read as if it were all.
EndAtBound(cursor) ==
    IF cursor \in read.seen THEN Fail
    ELSE read' = [read EXCEPT !.step = IF Len(read.roots) >= MaxPages THEN "build" ELSE "post",
                    !.page = cursor, !.try = 0, !.seen = @ \cup {cursor}]

GraphRefused(cursor) == cursor \in read.seen \/ Len(read.roots) >= MaxPages

Follow(cursor) ==
    IF GraphRefused(cursor) THEN Fail
    ELSE read' = [read EXCEPT !.step = "post", !.page = cursor, !.try = 0,
                    !.seen = @ \cup {cursor}]

Continue ==
    /\ read.step = "continue"
    /\ IF read.page < Len(graphSource)
       THEN \E cursor \in {read.page, read.page + 1} : Follow(cursor)
       ELSE read' = [read EXCEPT !.step = "build"]
    /\ UNCHANGED <<graphSource, graphEdits, graphProfile, graphBatch, posts>>

--------------------------------------------------------------------------------
(* _prepare_entities, _build_envelopes and _checkpoint_batch *)

OfKind(k) == SelectSeq(FlattenSeq(read.roots), LAMBDA r : r.kind = k)
Node(r) == <<r.kind, r.id>>

\* Fault: the documents have the bound of all entities.
SharedBound(k, used) == MaxGraphEntities - used
Remaining(k, used) ==
    IF k = "document" /\ MaxDocuments < MaxGraphEntities - used THEN MaxDocuments
    ELSE MaxGraphEntities - used

\* Records without an identity, and documents that render to nothing, are counted; a
\* node seen before is passed over.
Rendered(r) == r.kind = "document" => r.text
Add(made, r) ==
    IF r.id = GraphNoId \/ ~Rendered(r) THEN [made EXCEPT !.invalid = @ + 1]
    ELSE IF \E i \in DOMAIN made.items : Node(made.items[i]) = Node(r) THEN made
    ELSE [made EXCEPT !.items = Append(@, r)]

\* Fault: what is beyond the bound is left out and not counted.
Uncounted(made, k) ==
    LET limit == Remaining(k, Len(made.items))
        all == OfKind(k)
    IN FoldLeft(Add, made, SubSeq(all, 1, IF limit < Len(all) THEN limit ELSE Len(all)))
OneKind(made, k) ==
    LET limit == Remaining(k, Len(made.items))
        all == OfKind(k)
        within == IF limit < Len(all) THEN limit ELSE Len(all)
    IN IF limit = 0 THEN [made EXCEPT !.truncated = @ + 1]
       ELSE FoldLeft(Add, [made EXCEPT !.truncated = @ + Len(all) - within],
                     SubSeq(all, 1, within))

Prepared == FoldLeft(OneKind, [items |-> <<>>, truncated |-> 0, invalid |-> 0], Kinds)

\* A reference becomes a link only to a node of this batch.
\* Fault: the link is made whether its target was read or not.
AnyTarget(kind, id, known) == IF id = None THEN {} ELSE {<<kind, id>>}
Target(kind, id, known) == IF id # None /\ <<kind, id>> \in known THEN {<<kind, id>>} ELSE {}

ParentLink(r, known) == {<<Node(r), t>> : t \in Target("hierarchy", r.parent, known)}
ApplicationLink(r, known) == {<<Node(r), t>> : t \in Target("application", r.app, known)}
DependencyLink(r, known) ==
    IF r.kind # "dependency" THEN {}
    ELSE Target("application", r.from, known) \X Target("application", r.to, known)
Links(r, known) ==
    ParentLink(r, known) \cup ApplicationLink(r, known) \cup DependencyLink(r, known)

Envelopes(items) ==
    LET known == {Node(r) : r \in Range(items)}
    IN [nodes |-> known, links |-> UNION {Links(r, known) : r \in Range(items)}]

\* dry_run keeps the counts and gives nothing away.
Given(part) == IF graphProfile.dry THEN {} ELSE part
Finish ==
    /\ read.step = "build"
    /\ LET made == Prepared
           all == Envelopes(made.items)
       IN graphBatch' = [nodes |-> Given(all.nodes), links |-> Given(all.links),
                         dropped |-> made.truncated + made.invalid + read.partial,
                         documents |-> Len(SelectSeq(made.items,
                                                     LAMBDA r : r.kind = "document")),
                         stable |-> read.stable]
    /\ read' = Idle
    /\ UNCHANGED <<graphSource, graphEdits, graphProfile, posts>>

GraphNext == GraphEdit \/ Build \/ Resolve \/ Post \/ Continue \/ Finish

GraphSpec == GraphInit /\ [][GraphNext]_graphVars

--------------------------------------------------------------------------------

\* A batch that counts nothing dropped has every record that was at the source during
\* the whole read: what bounds, missing identities and errors leave out is counted.
BatchIsWhole ==
    graphBatch # None => (graphBatch.dropped = 0 /\ ~graphProfile.dry =>
        {Node(r) : r \in {x \in graphBatch.stable : \E i \in DOMAIN Kinds : Kinds[i] = x.kind}}
            \subseteq graphBatch.nodes)

\* Links end at entities of their batch, and a batch is within its bounds.
BatchIsClosed ==
    graphBatch # None =>
        /\ \A l \in graphBatch.links : l[1] \in graphBatch.nodes /\ l[2] \in graphBatch.nodes
        /\ Cardinality(graphBatch.nodes) <= MaxGraphEntities
        /\ graphBatch.documents <= MaxDocuments

\* A server that repeats its cursors, or answers with errors, gets a bounded number of
\* requests, and one whose profile fails a check gets none.
RequestsAreBounded ==
    /\ posts <= MaxPages * (MaxFallbacks + 1)
    /\ graphProfile.bad # None => posts = 0 /\ graphBatch = None

--------------------------------------------------------------------------------
(***************************************************************************)
(* index_repository_snapshot reads the pages of one immutable revision and *)
(* submits the files to the engine in bounded batches; walk_refs reads the *)
(* trees of all refs, each tree once.  The provider may answer anything:   *)
(* what is refused is what the code refuses.                               *)
(***************************************************************************)

CONSTANTS
    Paths,       \* repository paths
    SizeOf,      \* SizeOf[p]: bytes
    Cursors,     \* continuations the provider uses
    Refs,        \* a sequence of refs, in the order of their names: the tree of each
    PageSize,    \* provider_page_size
    MaxFiles,    \* RepositoryBatchLimits.max_files
    MaxBatchBytes, \* .max_bytes
    MaxFileBytes \* .max_file_bytes

VARIABLES
    repositoryCall, \* "index", "walk", or None when it has ended
    repositoryStep,
    tree,        \* walk: the place of the ref that is walked
    repositoryCursor, seen_cursors, pages,
    seen_paths,
    pageFiles,   \* files of the page that are still to be added
    manifest,    \* manifest_files
    batcher,     \* _RepositoryBatcher.files
    ready,       \* the batch that is being submitted
    batches,     \* batches the engine accepted, in order
    indexed,     \* files that the engine indexed
    walked,      \* walk: the paths of every tree
    result       \* what the call returned, or None

repositoryVars == <<repositoryCall, repositoryStep, tree, repositoryCursor, seen_cursors, pages,
                    seen_paths, pageFiles, manifest, batcher, ready, batches, indexed, walked,
                    result>>
place == <<repositoryCursor, seen_cursors, pages, seen_paths>>
output == <<manifest, batcher, ready, batches, indexed>>

Trees == Range(Refs)
Bytes(s) == FoldLeft(LAMBDA n, p : n + SizeOf[p], 0, s)

\* Pages a provider may send: one file more than asked for, and a file twice.
ProviderPages == BoundedSeq(Paths, PageSize + 1)

RepositoryTypeOK ==
    /\ repositoryCall \in {"index", "walk", None}
    /\ repositoryStep \in {"page", "add", "submit", "last"}
    /\ tree \in DOMAIN Refs
    /\ repositoryCursor \in Cursors \cup {None} /\ seen_cursors \subseteq Cursors
    /\ seen_paths \subseteq Paths /\ indexed \subseteq Paths
    /\ \A s \in {pageFiles, manifest, batcher, ready} : Range(s) \subseteq Paths
    /\ \A k \in DOMAIN batches : Range(batches[k]) \subseteq Paths
    /\ walked \in [Trees -> {None} \cup SUBSET Paths]

RepositoryInit ==
    /\ repositoryCall \in {"index", "walk"} /\ repositoryStep = "page" /\ tree = 1
    /\ repositoryCursor = None /\ seen_cursors = {} /\ pages = 0
    /\ seen_paths = {} /\ pageFiles = <<>> /\ manifest = <<>>
    /\ batcher = <<>> /\ ready = <<>> /\ batches = <<>> /\ indexed = {}
    /\ walked = [t \in Trees |-> None] /\ result = None

Refuse == repositoryCall' = None /\ UNCHANGED result

--------------------------------------------------------------------------------
(* A page.  revision: it is of the revision asked for *)

\* _check_page, _accept_paths, _absorb_page.  Fault: a page may repeat paths.
Unchecked(page, revision) == revision /\ Len(page) <= PageSize
Admissible(page, revision) ==
    /\ revision /\ Len(page) <= PageSize
    /\ IsInjective(page) /\ Range(page) \cap seen_paths = {}

\* Fault: a provider may go round in circles.
AnyCursor(next) == FALSE
Repeated(next) == next # None /\ next \in seen_cursors

Absorb(page, next) ==
    /\ pages' = pages + 1
    /\ seen_paths' = seen_paths \cup Range(page)
    /\ repositoryCursor' = next
    /\ seen_cursors' = IF next = None THEN seen_cursors ELSE seen_cursors \cup {next}

FetchPage(page, next, revision) ==
    /\ repositoryCall = "index" /\ repositoryStep = "page"
    /\ IF ~Admissible(page, revision) \/ Repeated(next)
       THEN Refuse /\ UNCHANGED <<repositoryStep, place, pageFiles, manifest>>
       ELSE /\ Absorb(page, next)
            /\ manifest' = manifest \o page /\ pageFiles' = page /\ repositoryStep' = "add"
            /\ UNCHANGED <<repositoryCall, result>>
    /\ UNCHANGED <<tree, batcher, ready, batches, indexed, walked>>

\* A call of the provider or of the engine fails.
Fails ==
    /\ repositoryCall # None /\ repositoryStep \in {"page", "submit"}
    /\ Refuse
    /\ \/ UNCHANGED indexed
       \/ repositoryStep = "submit" /\ indexed' = indexed \cup Range(ready)
    /\ UNCHANGED <<repositoryStep, tree, place, pageFiles, manifest, batcher, ready, batches,
                   walked>>

--------------------------------------------------------------------------------
(* _RepositoryBatcher, submit_repository_batch *)

\* Fault: the file that does not fit any more is left out.
AddNothing(p) == batcher' = <<>>
AddNext(p) == batcher' = <<p>>

Full(p) ==
    \/ Len(batcher) >= MaxFiles
    \/ batcher # <<>> /\ Bytes(batcher) + SizeOf[p] > MaxBatchBytes

AddFile ==
    LET p == Head(pageFiles) IN
    /\ repositoryCall = "index" /\ repositoryStep = "add" /\ pageFiles # <<>>
    /\ IF SizeOf[p] > MaxFileBytes
       THEN Refuse /\ UNCHANGED <<repositoryStep, pageFiles, batcher, ready>>
       ELSE /\ pageFiles' = Tail(pageFiles) /\ UNCHANGED <<repositoryCall, result>>
            /\ IF Full(p)
               THEN ready' = batcher /\ AddNext(p) /\ repositoryStep' = "submit"
               ELSE batcher' = Append(batcher, p) /\ UNCHANGED <<ready, repositoryStep>>
    /\ UNCHANGED <<tree, place, manifest, batches, indexed, walked>>

\* The page is done: the next one, or what is left of the files.
FinishPage ==
    /\ repositoryCall = "index" /\ repositoryStep = "add" /\ pageFiles = <<>>
    /\ IF repositoryCursor # None
       THEN repositoryStep' = "page" /\ UNCHANGED <<batcher, ready>>
       ELSE /\ ready' = batcher /\ batcher' = <<>>
            /\ repositoryStep' = IF batcher = <<>> THEN "last" ELSE "submit"
    /\ UNCHANGED <<repositoryCall, tree, place, pageFiles, manifest, batches, indexed, walked,
                   result>>

\* outcomes: whether the engine answered for exactly the files it was sent.
Submit(outcomes) ==
    /\ repositoryCall = "index" /\ repositoryStep = "submit"
    /\ indexed' = indexed \cup Range(ready)
    /\ IF outcomes
       THEN /\ batches' = Append(batches, ready) /\ ready' = <<>>
            /\ repositoryStep' =
                 IF pageFiles = <<>> /\ batcher = <<>> /\ repositoryCursor = None
                 THEN "last" ELSE "add"
            /\ UNCHANGED <<repositoryCall, result>>
       ELSE Refuse /\ UNCHANGED <<repositoryStep, batches, ready>>
    /\ UNCHANGED <<tree, place, pageFiles, manifest, batcher, walked>>

Receipt ==
    /\ repositoryCall = "index" /\ repositoryStep = "last"
    /\ repositoryCall' = None /\ result' = [manifest |-> Range(manifest), batches |-> batches]
    /\ UNCHANGED <<repositoryStep, tree, place, pageFiles, output, walked>>

--------------------------------------------------------------------------------
(* walk_refs *)

ListTree(page, next, revision) ==
    /\ repositoryCall = "walk" /\ repositoryStep = "page" /\ walked[Refs[tree]] = None
    /\ IF ~Admissible(page, revision) \/ Repeated(next)
       THEN Refuse /\ UNCHANGED <<place, walked>>
       ELSE /\ UNCHANGED <<repositoryCall, result>>
            /\ IF next # None
               THEN Absorb(page, next) /\ UNCHANGED walked
               ELSE /\ walked' = [walked EXCEPT ![Refs[tree]] = seen_paths \cup Range(page)]
                    /\ seen_paths' = {} /\ seen_cursors' = {} /\ repositoryCursor' = None
                    /\ pages' = pages + 1
    /\ UNCHANGED <<repositoryStep, tree, pageFiles, output>>

NextRef ==
    /\ repositoryCall = "walk" /\ walked[Refs[tree]] # None
    /\ IF tree < Len(Refs)
       THEN tree' = tree + 1 /\ UNCHANGED <<repositoryCall, result>>
       ELSE repositoryCall' = None /\ result' = [trees |-> walked] /\ UNCHANGED tree
    /\ UNCHANGED <<repositoryStep, place, pageFiles, output, walked>>

RepositoryNext ==
    \/ \E page \in ProviderPages, next \in Cursors \cup {None}, revision \in BOOLEAN :
          FetchPage(page, next, revision) \/ ListTree(page, next, revision)
    \/ Fails \/ AddFile \/ FinishPage \/ Receipt \/ NextRef
    \/ \E outcomes \in BOOLEAN : Submit(outcomes)

RepositorySpec == RepositoryInit /\ [][RepositoryNext]_repositoryVars

--------------------------------------------------------------------------------
(* Properties *)

\* A receipt is complete: its batches hold every file of its manifest once, each
\* batch is within the limits, and the engine has them all.
ReceiptIsComplete ==
    result # None /\ "manifest" \in DOMAIN result =>
        /\ IsInjective(FlattenSeq(result.batches))
        /\ Range(FlattenSeq(result.batches)) = result.manifest
        /\ result.manifest \subseteq indexed
        /\ \A k \in DOMAIN result.batches :
             Len(result.batches[k]) \in 1..MaxFiles /\ Bytes(result.batches[k]) <= MaxBatchBytes

\* Nothing is indexed that the manifest does not have.
OnlyListed == indexed \subseteq Range(manifest)

\* However the provider continues, a walk ends: one page per continuation and one
\* more, and each tree is walked once.
WalkIsBounded ==
    pages <= (Cardinality(Cursors) + 1)
               * (IF repositoryCall = "index" THEN 1 ELSE Cardinality(Trees))
================================================================================
