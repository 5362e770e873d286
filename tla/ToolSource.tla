------------------------------- MODULE ToolSource ------------------------------
(***************************************************************************)
(* The MCP tool adapter with for_each, under sync_stream: a sweep reads    *)
(* the pages of every parent in turn, the checkpoint holds which parent    *)
(* and which page come next, and the watermark moves when the last parent  *)
(* is done.  Parents are read once a sweep and session; their place in     *)
(* that list is what the checkpoint names.  reconcile sweeps the same      *)
(* pages without a watermark.  The source stamps updates in order.         *)
(***************************************************************************)
EXTENDS Naturals, Sequences, FiniteSets, FiniteSetsExt, SequencesExt

CONSTANTS
    Records,     \* numbers: a parent lists its children in this order
    ParentOf,    \* ParentOf[r]
    None,
    PageSize,    \* page_size of the preset
    MaxPages,    \* max_pages of a sync, and of a reconciliation
    MaxFanOut,   \* max_fan_out
    MaxTouches,  \* bound: updates of records
    MaxEdits,    \* bound: parents that appear or go
    MaxFaults    \* bound: failures, and new sessions

VARIABLES
    source,      \* parents, as listed, and the stamp of every record
    engine,      \* the accepted checkpoint, and the stamp of the records it has
    fan_values,  \* McpToolSourceAdapter._fan_values
    task,        \* the call of sync_stream or reconcile, or None
    flight,      \* submissions whose caller has stopped waiting
    report,      \* the last ReconciliationReport, or None
    lost,        \* ghost: records that a sweep may have passed
    moved,       \* ghost: the parents changed while a sweep was under way
    edits, faults

vars == <<source, engine, fan_values, task, flight, report, lost, moved, edits, faults>>

Parents == {ParentOf[r] : r \in Records}
Lists == UNION {{s \in [1..k -> Parents] : IsInjective(s)} : k \in 0..Cardinality(Parents)}
Stamps == 0..Cardinality(Records) + MaxTouches

\* A SourceCheckpoint; fan is None, and off 0, where its position is {}.
Checkpoints == [fan : (0..Cardinality(Parents)) \cup {None}, off : 0..Cardinality(Records),
                wm : Stamps, pend : Stamps]
Origin == [fan |-> None, off |-> 0, wm |-> 0, pend |-> 0]
AtRest(cp) == cp = None \/ (cp.fan = None /\ cp.off = 0)
Watermark(cp) == IF cp = None THEN 0 ELSE cp.wm

\* Records with the stamp they were read at; before and after its checkpoints.
Contents == UNION {[S -> Stamps] : S \in SUBSET Records}
NoPage == [records |-> <<>>, before |-> None, after |-> Origin, exhausted |-> FALSE]
IsPage(p) == /\ p.records \in Contents /\ p.exhausted \in BOOLEAN
             /\ p.before \in Checkpoints \cup {None} /\ p.after \in Checkpoints

TypeOK ==
    /\ source.parents \in Lists /\ source.stamp \in [Records -> Stamps]
    /\ engine.cp \in Checkpoints \cup {None} /\ engine.stored \in [Records -> Stamps]
    /\ fan_values \in Lists \cup {None}
    /\ task # None =>
         /\ task.kind \in {"sync", "reconcile"}
         /\ task.step \in {"extract", "parents", "page", "accept", "sent"}
         /\ task.cp \in Checkpoints \cup {None} /\ task.pages \in 0..MaxPages
         /\ IsPage(task.page) /\ task.seen \subseteq Records /\ task.stable \subseteq Parents
    /\ \A p \in flight : IsPage(p)
    /\ report = None \/ (report.missing \subseteq Records /\ report.stable \subseteq Parents)
    /\ lost \subseteq Records /\ moved \in BOOLEAN
    /\ edits \in 0..MaxEdits /\ faults \in 0..MaxFaults

Init ==
    /\ source = [parents |-> SetToSortSeq(Parents, <), stamp |-> [r \in Records |-> r]]
    /\ engine = [cp |-> None, stored |-> [r \in Records |-> 0]]
    /\ fan_values = None /\ task = None /\ flight = {} /\ report = None
    /\ lost = {} /\ moved = FALSE /\ edits = 0 /\ faults = 0

Fault == faults < MaxFaults /\ faults' = faults + 1

--------------------------------------------------------------------------------
(* The source *)

UnderWay == task # None \/ ~AtRest(engine.cp) \/ flight # {}
Newest == Max({source.stamp[r] : r \in Records})

\* An update.  A sweep under way may have passed the record already.
Touch(r) ==
    /\ Newest < Cardinality(Records) + MaxTouches
    /\ source' = [source EXCEPT !.stamp[r] = Newest + 1]
    /\ lost' = IF UnderWay \/ ParentOf[r] \notin Range(source.parents)
               THEN lost \cup {r} ELSE lost \ {r}
    /\ UNCHANGED <<engine, fan_values, task, flight, report, moved, edits, faults>>

\* A parent goes, or appears: its children may be older than the watermark.
Edit(p) ==
    /\ edits < MaxEdits /\ edits' = edits + 1
    /\ source' = [source EXCEPT !.parents =
                     IF p \in Range(@) THEN SelectSeq(@, LAMBDA q : q # p) ELSE <<p>> \o @]
    /\ lost' = lost \cup {r \in Records : ParentOf[r] = p}
    /\ moved' = (moved \/ UnderWay)
    /\ task' = IF task = None THEN None ELSE [task EXCEPT !.stable = @ \ {p}]
    /\ UNCHANGED <<engine, fan_values, flight, report, faults>>

\* A page of a parent's children, from the time asked for on.
Children(p, since) ==
    SelectSeq(SetToSortSeq(Records, <),
              LAMBDA r : ParentOf[r] = p /\ source.stamp[r] >= since)
PageAt(p, cp) ==
    LET all == Children(p, cp.wm) IN
    SubSeq(all, cp.off + 1, IF cp.off + PageSize > Len(all) THEN Len(all) ELSE cp.off + PageSize)

--------------------------------------------------------------------------------
(* extract *)

\* _mapped_records: what is not newer than the watermark is left out.
Mapped(raw, since) ==
    [r \in {x \in Range(raw) : source.stamp[x] > since} |-> source.stamp[r]]

\* checkpoint_after_page
HighWater(cp, records) == Max({cp.pend} \cup Range(records))
CheckpointAfterPage(cp, records, next) ==
    IF next # None
    THEN [cp EXCEPT !.off = next, !.pend = HighWater(cp, records)]
    ELSE [Origin EXCEPT !.wm = Max({HighWater(cp, records), cp.wm})]

\* next_position, of a preset that counts records
NextPosition(cp, raw) == IF Len(raw) < PageSize THEN None ELSE cp.off + Len(raw)

\* _hold.  Fault: the watermark of the parent that is done is kept.
HoldNothing(cp, inner, next) == [inner EXCEPT !.fan = next]
Hold(cp, inner, next) ==
    [fan |-> next, off |-> 0, wm |-> cp.wm,
     pend |-> IF inner.wm # 0 THEN inner.wm ELSE cp.pend]

\* extract_fanned: one page of the parent the checkpoint is at; index counts from 0.
ExtractFanned(before, values) ==
    LET cp == IF before = None THEN Origin ELSE before
        index == IF cp.fan = None THEN 0 ELSE cp.fan
        raw == PageAt(values[index + 1], cp)
        records == Mapped(raw, cp.wm)
        next == NextPosition(cp, raw)
        inner == CheckpointAfterPage(cp, records, next)
        page(found, after, exhausted) ==
            [records |-> found, before |-> before, after |-> after, exhausted |-> exhausted]
    IN IF index >= Len(values)
       THEN page(<<>>, [Origin EXCEPT !.wm = Max({cp.pend, cp.wm})], TRUE)
       ELSE IF next # None THEN page(records, [inner EXCEPT !.fan = index], FALSE)
       ELSE IF index + 1 < Len(values) THEN page(records, Hold(cp, inner, index + 1), FALSE)
       ELSE page(records, inner, TRUE)

Call(kind) ==
    [kind |-> kind, step |-> "extract", pages |-> 0, page |-> NoPage, seen |-> {},
     cp |-> IF kind = "sync" THEN engine.cp ELSE None, stable |-> Range(source.parents)]

Start(kind) ==
    /\ task = None /\ task' = Call(kind)
    /\ UNCHANGED <<source, engine, fan_values, flight, report, lost, moved, edits, faults>>

\* A new sweep reads the parents again; one that goes on uses those it has.
\* Fault: the parents of the last sweep are used.
AnyValues(cp) == fan_values
HeldValues(cp) == IF cp = None \/ cp.fan = None THEN None ELSE fan_values

Extract ==
    /\ task # None /\ task.step = "extract"
    /\ fan_values' = HeldValues(task.cp)
    /\ task' = [task EXCEPT !.step = IF fan_values' = None THEN "parents" ELSE "page"]
    /\ UNCHANGED <<source, engine, flight, report, lost, moved, edits, faults>>

\* parent_values; too many of them end the task.  A sweep that goes on with another
\* list than it began with may pass anything.
ReadParents ==
    /\ task # None /\ task.step = "parents"
    /\ IF Len(source.parents) > MaxFanOut
       THEN task' = None /\ UNCHANGED <<fan_values, lost, moved>>
       ELSE /\ fan_values' = source.parents
            /\ task' = [task EXCEPT !.step = "page"]
            /\ IF AtRest(engine.cp) /\ flight = {}
               THEN moved' = FALSE /\ UNCHANGED lost
               ELSE lost' = (IF moved THEN Records ELSE lost) /\ UNCHANGED moved
    /\ UNCHANGED <<source, engine, flight, report, edits, faults>>

ReadPage ==
    /\ task # None /\ task.step = "page"
    /\ task' = [task EXCEPT !.step = "accept", !.page = ExtractFanned(task.cp, fan_values)]
    /\ UNCHANGED <<source, engine, fan_values, flight, report, lost, moved, edits, faults>>

--------------------------------------------------------------------------------
(* sync_stream *)

Continue(page) ==
    IF page.exhausted \/ task.pages + 1 = MaxPages THEN None
    ELSE [task EXCEPT !.step = "extract", !.cp = page.after, !.pages = @ + 1, !.page = NoPage]

\* _is_delta_noop
DeltaNoop(page) ==
    /\ page.before # None /\ page.exhausted
    /\ page.after = page.before /\ DOMAIN page.records = {}

Submit ==
    /\ task # None /\ task.kind = "sync" /\ task.step = "accept"
    /\ task' = IF DeltaNoop(task.page) THEN Continue(task.page) ELSE [task EXCEPT !.step = "sent"]
    /\ UNCHANGED <<source, engine, fan_values, flight, report, lost, moved, edits, faults>>

\* The engine takes a page whose expected checkpoint is the accepted one.
\* Fault: it takes any.
AlwaysExpected(page) == TRUE
Expected(page) == page.before = engine.cp
Take(page) ==
    IF Expected(page)
    THEN /\ engine' = [cp |-> page.after,
                       stored |-> [r \in Records |-> IF r \in DOMAIN page.records
                                                     THEN page.records[r] ELSE engine.stored[r]]]
         /\ lost' = lost \ {r \in DOMAIN page.records : page.records[r] = source.stamp[r]}
    ELSE UNCHANGED <<engine, lost>>

Answer ==
    /\ task # None /\ task.step = "sent"
    /\ Take(task.page)
    /\ task' = IF Expected(task.page) THEN Continue(task.page) ELSE None
    /\ UNCHANGED <<source, fan_values, flight, report, moved, edits, faults>>

\* A call fails or is cancelled; a submission that was sent may still arrive.
Fail ==
    /\ task # None /\ Fault
    /\ flight' = IF task.step = "sent" THEN flight \cup {task.page} ELSE flight
    /\ task' = None
    /\ UNCHANGED <<source, engine, fan_values, report, lost, moved, edits>>

Land(page) ==
    /\ flight' = flight \ {page}
    /\ Take(page)
    /\ UNCHANGED <<source, fan_values, task, report, moved, edits, faults>>

\* The worker reconnects, or its process restarts: a new adapter.
Reconnect ==
    /\ fan_values # None /\ fan_values' = None
    /\ Fault
    /\ flight' = IF task # None /\ task.step = "sent" THEN flight \cup {task.page} ELSE flight
    /\ task' = None
    /\ UNCHANGED <<source, engine, report, lost, moved, edits>>

--------------------------------------------------------------------------------
(* reconcile *)

\* The next page without a watermark.
WithoutWatermark(cp) == [cp EXCEPT !.wm = 0]

Known == {r \in Records : engine.stored[r] # 0}

Collect ==
    LET seen == task.seen \cup DOMAIN task.page.records IN
    /\ task # None /\ task.kind = "reconcile" /\ task.step = "accept"
    /\ IF task.page.exhausted
       THEN task' = None /\ report' = [missing |-> Known \ seen, stable |-> task.stable]
       ELSE /\ UNCHANGED report
            /\ task' = IF task.pages + 1 = MaxPages THEN None
                       ELSE [task EXCEPT !.step = "extract", !.pages = @ + 1, !.seen = seen,
                                         !.cp = WithoutWatermark(task.page.after),
                                         !.page = NoPage]
    /\ UNCHANGED <<source, engine, fan_values, flight, lost, moved, edits, faults>>

Next ==
    \/ \E r \in Records : Touch(r)
    \/ \E p \in Parents : Edit(p)
    \/ \E kind \in {"sync", "reconcile"} : Start(kind)
    \/ Extract \/ ReadParents \/ ReadPage
    \/ Submit \/ Answer \/ Fail \/ Reconnect \/ Collect
    \/ \E page \in flight : Land(page)

Spec == Init /\ [][Next]_vars

--------------------------------------------------------------------------------
(* Properties *)

\* The engine has every record up to the watermark as the source has it, except those
\* that a sweep may have passed: updated while it was under way, children of a
\* parent that came or went, or any when a new session found other parents.
WatermarkCovers ==
    \A r \in Records \ lost :
        source.stamp[r] <= Watermark(engine.cp) => engine.stored[r] = source.stamp[r]

\* No record that its parent lists is reported missing, unless the parent came or
\* went during the reconciliation.
MissingIsMissing ==
    report # None => \A r \in report.missing : ParentOf[r] \notin report.stable

\* The engine never goes back to an older record, nor to an older watermark.
ForwardStep ==
    /\ \A r \in Records : engine.stored[r] <= engine.stored'[r]
    /\ Watermark(engine.cp) <= Watermark(engine.cp')
================================================================================
