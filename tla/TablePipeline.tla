----------------------------- MODULE TablePipeline -----------------------------
(* Tables on their way in: cleaning and profiling.

   The sections share no state: each has its own Init, Next and Spec. *)
EXTENDS Integers, Sequences, FiniteSets, FiniteSetsExt, SequencesExt

--------------------------------------------------------------------------------
(***************************************************************************)
(* A clean plan over an Arrow table: CleanPipeline.run, which returns an   *)
(* outcome of every row in its evidence, and run_paged, which keeps one    *)
(* code per row and pages them.  Both are run over one table, one after    *)
(* the other; every step may end the run with an error, and what a run     *)
(* reports is checked by the evidence's own validators before it is        *)
(* returned ("inconsistent" is their refusal).                             *)
(*                                                                         *)
(* A table is a sequence of rows, a row a sequence of cells; the names and *)
(* the types of its columns go by position.  Row indexes start at 1.       *)
(***************************************************************************)

CONSTANTS
    CleanTables, \* [names, types, rows]
    Plans,       \* [steps, disposition, model, digest, limits]
    Registries,  \* registries of row models: ref -> [fields, accepts, digest]
    Canonical,   \* the canonical form of a name, or None
    Width,       \* bytes of a cell of a type
    CleanNull, None

VARIABLES
    cleanTable,  \* the input
    plan,        \* the caller's plan, which it may change
    pipe,        \* the pipeline's own copy
    registry,    \* the models as they were registered
    models,      \* the models as they are now
    run,         \* the run under way or ended, or None
    first        \* the ended run in list mode, while the paged one runs

cleanVars == <<cleanTable, plan, pipe, registry, models, run, first>>

Lesser(S) == CHOOSE x \in S : \A y \in S : x <= y
Kept(s, at) == LET order == SetToSortSeq(at, <) IN [k \in DOMAIN order |-> s[order[k]]]
Count(s, x) == Cardinality({k \in DOMAIN s : s[k] = x})
Running == run # None /\ run.status = "running"

\* Fault: the pipeline works on the caller's plan.
Shared == plan
Policy == pipe
Limits == Policy.limits

CleanTypeOK ==
    /\ cleanTable \in CleanTables /\ plan \in Plans /\ pipe \in Plans
    /\ run # None =>
         /\ run.mode \in {"list", "paged"}
         /\ run.status \in {"running", "validated", "done", "failed", "inconsistent"}

CleanInit ==
    /\ cleanTable \in CleanTables /\ plan \in Plans /\ pipe = plan
    /\ registry \in Registries /\ models \in Registries
    /\ run = None /\ first = None

--------------------------------------------------------------------------------
(* The bounds of a run *)

Bytes(types, n) == MapThenSumSet(LAMBDA c : Width[types[c]] * n, DOMAIN types)
Fits(names, types, rows) ==
    /\ Len(rows) <= Limits.rows /\ Len(names) <= Limits.columns
    /\ Bytes(types, Len(rows)) <= Limits.bytes
MayHold(n) == n <= Lesser({Limits.quarantine, Limits.rows})

\* resolve: the model is the approved one, and the one the plan names.
Resolves ==
    /\ Policy.model \in DOMAIN registry /\ Policy.model \in DOMAIN models
    /\ models[Policy.model].digest = registry[Policy.model].digest
    /\ Policy.digest # None => Policy.digest = registry[Policy.model].digest

Fresh(mode) ==
    [mode |-> mode, step |-> 1, names |-> cleanTable.names, types |-> cleanTable.types,
     rows |-> cleanTable.rows, ids |-> [k \in DOMAIN cleanTable.rows |-> k],
     dropped |-> 0, held |-> 0, quarantine |-> << >>, steps |-> << >>,
     outcomes |-> << >>,                          \* list mode: of [row, reason]
     codes |-> [k \in DOMAIN cleanTable.rows |-> 0], \* paged mode
     rejected |-> 0, status |-> "running"]

CleanFailed(r) == [r EXCEPT !.status = "failed"]

Start(mode) ==
    /\ IF mode = "list" THEN run = None ELSE run # None /\ run.mode = "list" /\ ~Running
    /\ run # None => run.status # "validated"
    /\ first' = run
    /\ run' = IF /\ Fits(cleanTable.names, cleanTable.types, cleanTable.rows) /\ Resolves
                 /\ mode = "list" => Len(cleanTable.rows) <= Limits.outcomes
              THEN Fresh(mode) ELSE CleanFailed(Fresh(mode))
    /\ UNCHANGED <<cleanTable, plan, pipe, registry, models>>

\* The caller changes the plan it made the pipeline from.
Alter ==
    /\ plan' \in {p \in Plans : p # plan /\ p = [plan EXCEPT !.disposition = p.disposition]}
    /\ plan = pipe /\ Running
    /\ UNCHANGED <<cleanTable, pipe, registry, models, run, first>>

--------------------------------------------------------------------------------
(* The verbs *)

Position(r, name) == CHOOSE c \in DOMAIN r.names : r.names[c] = name
Present(r, names) == \A n \in names : \E c \in DOMAIN r.names : r.names[c] = n

\* The names are made canonical; one without a canonical form, or two with the same,
\* end the run.
CanonicalNames(r) ==
    LET names == [c \in DOMAIN r.names |-> Canonical[r.names[c]]]
    IN IF None \in Range(names) \/ Cardinality(Range(names)) # Len(names) THEN CleanFailed(r)
       ELSE [r EXCEPT !.names = names]

Signed == <<"int8", "int16", "int32", "int64">>
Unsigned == <<"uint8", "uint16", "uint32", "uint64">>
Widens(ranks, a, b) == \E i, j \in DOMAIN ranks : i <= j /\ ranks[i] = a /\ ranks[j] = b
\* _lossless_cast_allowed
Lossless(a, b) ==
    \/ a = b \/ Widens(Signed, a, b) \/ Widens(Unsigned, a, b)
    \/ a = "float32" /\ b = "float64"

SafeCast(r, step) ==
    LET c == Position(r, step.column)
    IN IF /\ Present(r, {step.column}) /\ r.types[c] = step.from
          /\ Lossless(step.from, step.to)
       THEN [r EXCEPT !.types[c] = step.to] ELSE CleanFailed(r)

\* A fill is of the column's own kind; it takes the place of nulls only.
\* Fault: a fill takes the place of every cell.
Overwrite(cell, v) == v
Filled(cell, v) == IF cell = CleanNull THEN v ELSE cell
FillNulls(r, step) ==
    LET FillOf(c) == {v \in step.fills : v.column = r.names[c]}
    IN IF /\ Present(r, {v.column : v \in step.fills})
          /\ \A v \in step.fills : v.kind = r.types[Position(r, v.column)]
       THEN [r EXCEPT !.rows = [k \in DOMAIN r.rows |-> [c \in DOMAIN r.names |->
               IF FillOf(c) = {} THEN r.rows[k][c]
               ELSE Filled(r.rows[k][c], (CHOOSE v \in FillOf(c) : TRUE).value)]]]
       ELSE CleanFailed(r)

\* _record: an outcome of the rows with these ids.
Record(r, ids, reason, code) ==
    IF r.mode = "paged"
    THEN [r EXCEPT !.codes = [k \in DOMAIN @ |-> IF k \in Range(ids) THEN code ELSE @[k]]]
    ELSE [r EXCEPT !.outcomes =
            @ \o [k \in DOMAIN ids |-> [row |-> ids[k], reason |-> reason]]]

\* Fault: the positions in the table as it is now are taken for row indexes.
Positions(r, at) == SetToSortSeq(at, <)
\* The indexes of the rows at these positions.
Ids(r, at) == Kept(r.ids, at)
Without(r, at) ==
    [r EXCEPT !.rows = Kept(@, DOMAIN @ \ at), !.ids = Kept(@, DOMAIN @ \ at)]

\* _apply_null_policy and _apply_null_quarantine
NullPolicy(r, step) ==
    LET bad == {k \in DOMAIN r.rows :
                  \E n \in step.columns : r.rows[k][Position(r, n)] = CleanNull}
        n == Cardinality(bad)
    IN IF ~Present(r, step.columns) THEN CleanFailed(r)
       ELSE IF step.action = "allow" \/ bad = {} THEN r
       ELSE IF Policy.disposition = "fail" \/ ~MayHold(r.held + n) THEN CleanFailed(r)
       ELSE Without([Record(r, Ids(r, bad), "null_rejected", 3) EXCEPT
                       !.held = @ + n,
                       !.quarantine = Append(@, [reason |-> "null_rejected", n |-> n])],
                    bad)

\* Fault: of the rows with the same keys the last is kept.
LastOf(r, twins) == {k \in twins : \A j \in twins : j <= k}
\* The one of some rows with the same keys that stays.
FirstOf(r, twins) == {k \in twins : \A j \in twins : k <= j}

\* _apply_dedupe and _apply_dedupe_drop: a null is equal to a null.
Dedupe(r, step) ==
    LET Twins(k) == {j \in DOMAIN r.rows : \A n \in step.keys :
                       r.rows[j][Position(r, n)] = r.rows[k][Position(r, n)]}
        gone == {k \in DOMAIN r.rows : k \notin FirstOf(r, Twins(k))}
    IN IF ~Present(r, step.keys) THEN CleanFailed(r)
       ELSE Without([Record(r, Ids(r, gone), "deduplicated", 2) EXCEPT
                       !.dropped = @ + Cardinality(gone)], gone)

Apply(r, step) ==
    CASE step.verb = "canonical_names" -> CanonicalNames(r)
      [] step.verb = "safe_cast" -> SafeCast(r, step)
      [] step.verb = "fill_nulls" -> FillNulls(r, step)
      [] step.verb = "null_policy" -> NullPolicy(r, step)
      [] step.verb = "dedupe" -> Dedupe(r, step)

\* _run_one_step
Evidence(before, after) ==
    [verb |-> Policy.steps[before.step].verb,
     in |-> Len(before.rows), out |-> Len(after.rows),
     held |-> after.held - before.held, dropped |-> after.dropped - before.dropped]

RunStep ==
    /\ Running /\ run.step <= Len(Policy.steps)
    /\ LET r == Apply(run, Policy.steps[run.step])
       IN run' = IF r.status = "failed" \/ ~Fits(r.names, r.types, r.rows)
                    \/ Len(r.outcomes) > Limits.outcomes \/ Len(r.ids) # Len(r.rows)
                 THEN CleanFailed(run)
                 ELSE [r EXCEPT !.step = @ + 1, !.steps = Append(@, Evidence(run, r))]
    /\ UNCHANGED <<cleanTable, plan, pipe, registry, models, first>>

--------------------------------------------------------------------------------
(* The row model and the result *)

Accepts(r, model, k) == \A c \in DOMAIN r.names : r.rows[k][c] \in model.accepts[r.names[c]]

\* _finalize_model_validation
Validate ==
    /\ Running /\ run.step > Len(Policy.steps)
    /\ LET model == models[Policy.model]
           bad == {k \in DOMAIN run.rows : ~Accepts(run, model, k)}
           n == Cardinality(bad)
           cap == IF run.mode = "list" THEN Limits.outcomes ELSE Limits.rows
           marked == Record(Record(run, Ids(run, DOMAIN run.rows \ bad), "accepted", 1),
                            Ids(run, bad), "model_rejected", 4)
       IN run' = IF Range(run.names) # model.fields THEN CleanFailed(run)
                 ELSE IF bad # {} /\ Policy.disposition = "fail" THEN CleanFailed(run)
                 ELSE IF ~MayHold(run.held + n) \/ n > cap THEN CleanFailed(run)
                 ELSE Without([marked EXCEPT !.rejected = n, !.held = @ + n,
                        !.quarantine = IF n = 0 THEN @
                          ELSE Append(@, [reason |-> "model_rejected", n |-> n]),
                        !.status = "validated"], bad)
    /\ UNCHANGED <<cleanTable, plan, pipe, registry, models, first>>

Outcomes(r, reasons) ==
    Cardinality({k \in DOMAIN r.outcomes : r.outcomes[k].reason \in reasons})
\* _check_evidence_counts, _check_row_outcomes
EvidenceValid(r) ==
    /\ FoldSeq(LAMBDA q, n : q.n + n, 0, r.quarantine) = r.held
    /\ Len(r.rows) + r.dropped + r.held = Len(cleanTable.rows)
    /\ Len(r.outcomes) = Len(cleanTable.rows)
    /\ {r.outcomes[k].row : k \in DOMAIN r.outcomes} = DOMAIN cleanTable.rows
    /\ Outcomes(r, {"accepted"}) = Len(r.rows)
    /\ Outcomes(r, {"deduplicated"}) = r.dropped
    /\ Outcomes(r, {"null_rejected", "model_rejected"}) = r.held
    /\ Outcomes(r, {"model_rejected"}) = r.rejected
\* _check_outcome_codes
CodesValid(r) ==
    /\ Len(r.codes) = Len(cleanTable.rows) /\ Count(r.codes, 0) = 0
    /\ Count(r.codes, 1) = Len(r.rows) /\ Count(r.codes, 2) = r.dropped
    /\ Count(r.codes, 3) + Count(r.codes, 4) = r.held

Conclude ==
    /\ run # None /\ run.status = "validated"
    /\ run' = [run EXCEPT !.status =
         IF ~Fits(run.names, run.types, run.rows) THEN "failed"
         ELSE IF (run.mode = "list" /\ ~EvidenceValid(run))
                 \/ (run.mode = "paged" /\ ~CodesValid(run)) THEN "inconsistent"
         ELSE "done"]
    /\ UNCHANGED <<cleanTable, plan, pipe, registry, models, first>>

CleanNext ==
    \/ \E mode \in {"list", "paged"} : Start(mode)
    \/ Alter \/ RunStep \/ Validate \/ Conclude

CleanSpec == CleanInit /\ [][CleanNext]_cleanVars

--------------------------------------------------------------------------------

Done == run # None /\ run.status = "done"

\* iter_evidence_pages: what a run says of row k.
ReasonOf == <<"accepted", "deduplicated", "null_rejected", "model_rejected">>
OutcomeOf(r, k) ==
    IF r.mode = "paged" THEN ReasonOf[r.codes[k]]
    ELSE (CHOOSE o \in Range(r.outcomes) : o.row = k).reason

\* The accounting of a run is never refused: every row has one outcome and the counts
\* are those of the rows, whatever the order of the verbs.
AccountingHolds == run # None => run.status # "inconsistent"

\* What a run returns is its input: a row it returns is the input row of its index but
\* for nulls filled, in the input's order, and is one the model accepts; a row it does
\* not return is not reported accepted; a dropped one comes after one that was kept.
RowsAreTheInputs ==
    Done =>
      /\ \A k \in DOMAIN run.rows :
           /\ OutcomeOf(run, run.ids[k]) = "accepted"
           /\ k > 1 => run.ids[k - 1] < run.ids[k]
           /\ Accepts(run, models[pipe.model], k)
           /\ \A c \in DOMAIN cleanTable.names :
                LET cell == cleanTable.rows[run.ids[k]][c]
                IN cell # CleanNull => run.rows[k][c] = cell
      /\ \A k \in DOMAIN cleanTable.rows : OutcomeOf(run, k) = "deduplicated" =>
           \E j \in 1..(k - 1) : OutcomeOf(run, j) # "deduplicated"
      /\ pipe.disposition = "fail" => run.held = 0

\* The two modes agree: what the list mode completes the paged one completes, with the
\* same rows and the same outcome of each, and the paged mode completes more only when
\* the table has more rows than a list of outcomes may.
ModesAgree ==
    run # None /\ run.mode = "paged" /\ run.status \in {"done", "failed"} =>
      /\ first.status = "done" =>
           /\ run.status = "done" /\ run.rows = first.rows /\ run.ids = first.ids
           /\ run.steps = first.steps
           /\ \A k \in DOMAIN cleanTable.rows : OutcomeOf(run, k) = OutcomeOf(first, k)
      /\ run.status = "done" /\ first.status = "failed" => Len(cleanTable.rows) > Limits.outcomes

--------------------------------------------------------------------------------
(***************************************************************************)
(* The profile of a table: computed here, column by column against a       *)
(* deadline (profile_table), or by the engine over a client whose answer   *)
(* is checked against the request (profile_with_client); and the reference *)
(* an authority gives for a profile that is to be evidence.  The table may *)
(* change while it is profiled: the kernel works on the columns it was     *)
(* given, the engine on what it has.                                       *)
(*                                                                         *)
(* Of a column a profile says how many cells are null and how many         *)
(* distinct, and of its values only what occurs as often as the disclosure *)
(* threshold.  A numeric column's minimum, maximum, mean and quantiles are *)
(* one set of the values they tell.                                        *)
(***************************************************************************)

CONSTANTS
    ProfileTables, \* [schema, lsn, rows, columns]: a column is [numeric, scalar, cells]
    LimitSets,   \* [columns, cardinality, topk, quantiles, threshold, warnings]
    Selectors,   \* ordinals a request asks for, or None
    ProfileNull

VARIABLES
    profileTable, \* the table now
    request,     \* [schema, lsn, ordinals, limits], or None
    scan,        \* the kernel's scan: the table given, ordinals to do, columns done
    result,      \* [ok, profile], or None
    reference    \* [ok, profile]: the profile the authority's reference names, or None

profileVars == <<profileTable, request, scan, result, reference>>

ProfileFailed == [ok |-> FALSE, profile |-> None]
Returned(p) == [ok |-> TRUE, profile |-> p]
Profiled == result # None /\ result.ok

ProfileTypeOK ==
    /\ profileTable \in ProfileTables
    /\ request # None => request.limits \in LimitSets
    /\ scan # None => scan.given \in ProfileTables
    /\ result # None => result.ok \in BOOLEAN

ProfileInit ==
    /\ profileTable \in ProfileTables
    /\ request = None /\ scan = None /\ result = None /\ reference = None

Change ==
    /\ profileTable' \in ProfileTables \ {profileTable} /\ profileTable'.lsn > profileTable.lsn
    /\ UNCHANGED <<request, scan, result, reference>>

Ask ==
    /\ request = None
    /\ \E limits \in LimitSets : \E s \in Selectors :
         request' = [schema |-> profileTable.schema, lsn |-> profileTable.lsn,
                     limits |-> limits,
                     ordinals |-> IF s = None THEN None ELSE SetToSortSeq(s, <)]
    /\ UNCHANGED <<profileTable, scan, result, reference>>

--------------------------------------------------------------------------------
(* One column *)

Values(col) == {col.cells[k] : k \in DOMAIN col.cells} \ {ProfileNull}
Times(col, v) == Cardinality({k \in DOMAIN col.cells : col.cells[k] = v})
NonNull(col) == Len(col.cells) - Times(col, ProfileNull)

\* Fault: a column with enough cells tells the extremes of all of them.
EnoughCells(col, limits) == NonNull(col) >= limits.threshold
\* _numeric_disclosure_safe: no value is rare.
NumbersSafe(col, limits) == \A v \in Values(col) : Times(col, v) >= limits.threshold

\* Fault: the most frequent values are listed, however rare.
EveryValue(col, limits) == Values(col)
\* _normalize_topk_counts
Listable(col, limits) == {v \in Values(col) : Times(col, v) >= limits.threshold}

\* _read_top_k: the most frequent first, equals in the values' order.
Ranked(col, limits) ==
    SetToSortSeq(Listable(col, limits),
        LAMBDA v, w : \/ Times(col, v) > Times(col, w)
                      \/ Times(col, v) = Times(col, w) /\ v < w)
TopK(col, limits) ==
    LET ranked == Ranked(col, limits)
        n == IF Len(ranked) > limits.topk THEN limits.topk ELSE Len(ranked)
    IN [k \in 1..n |-> [value |-> ranked[k], count |-> Times(col, ranked[k])]]

\* _column_numeric_stats: the minimum, the maximum and the mean are of every value.
Numbers(col) == Values(col)
\* _column_quantiles: a quarter, a half and three quarters, as many as the limit allows.
Quantiles(limits) == IF limits.quantiles < 3 THEN limits.quantiles ELSE 3

\* _column_shape_warnings
ShapeWarnings(col, distinct) ==
    LET n == Len(col.cells) nulls == Times(col, ProfileNull)
    IN {w \in {"all_null", "high_null_rate", "single_value", "high_cardinality"} :
         \/ w = "all_null" /\ nulls = n
         \/ w = "high_null_rate" /\ n > 0 /\ 2 * nulls >= n
         \/ w = "single_value" /\ n > 0 /\ distinct = 1
         \/ w = "high_cardinality" /\ n > 1 /\ distinct = n}

Distinct(col) == IF col.scalar THEN Cardinality(Values(col)) ELSE None
Suppressed(col, limits) == NonNull(col) < limits.threshold

If(cond, w) == IF cond THEN {w} ELSE {}

\* _column_profile; a column that is not of scalars is not counted and not listed.
Column(ordinal, col, limits) ==
    LET distinct == Distinct(col)
        basic == [ordinal |-> ordinal, nulls |-> Times(col, ProfileNull), distinct |-> distinct,
                  numbers |-> {}, quantiles |-> 0, top |-> << >>, cut |-> FALSE,
                  warnings |-> If(distinct = None, "cardinality_unavailable")
                               \cup ShapeWarnings(col, distinct)]
        safe == col.numeric /\ NumbersSafe(col, limits)
        tops == limits.topk > 0 /\ col.scalar
        more == tops /\ Len(Ranked(col, limits)) > limits.topk
        fewer == safe /\ limits.quantiles < 3
    IN IF Suppressed(col, limits)
       THEN [basic EXCEPT !.warnings = @ \cup {"small_group_suppressed"}
               \cup If(col.numeric, "stats_suppressed")
               \cup If(limits.topk > 0, "topk_suppressed")]
       ELSE [basic EXCEPT
               !.numbers = IF safe THEN Numbers(col) ELSE {},
               !.quantiles = IF safe THEN Quantiles(limits) ELSE 0,
               !.top = IF tops THEN TopK(col, limits) ELSE << >>,
               !.cut = more \/ fewer,
               !.warnings = @ \cup If(col.numeric /\ ~safe, "stats_suppressed")
                 \cup If(limits.topk > 0 /\ ~col.scalar, "topk_suppressed")
                 \cup If(more, "topk_truncated") \cup If(fewer, "quantiles_truncated")]

--------------------------------------------------------------------------------
(* profile_table *)

\* Fault: a selector made for another schema is used all the same.
AnySchema(t) ==
    request.ordinals # None => \A o \in Range(request.ordinals) : o <= Len(t.columns)
\* _resolve_profile_ordinals
SelectorFits(t) ==
    request.ordinals # None =>
      /\ request.schema = t.schema
      /\ \A o \in Range(request.ordinals) : o <= Len(t.columns)

Ordinals(t) ==
    IF request.ordinals = None THEN [o \in DOMAIN t.columns |-> o] ELSE request.ordinals

StartScan ==
    /\ request # None /\ scan = None /\ result = None
    /\ IF SelectorFits(profileTable) /\ Len(Ordinals(profileTable)) <= request.limits.columns
       THEN /\ scan' = [given |-> profileTable, todo |-> Ordinals(profileTable), done |-> << >>]
            /\ UNCHANGED result
       ELSE result' = ProfileFailed /\ UNCHANGED scan
    /\ UNCHANGED <<profileTable, request, reference>>

\* The next column; a cardinality past the limit ends the profile.
ScanColumn ==
    /\ scan # None /\ result = None /\ scan.todo # << >>
    /\ LET o == Head(scan.todo)
           col == scan.given.columns[o]
           distinct == Distinct(col)
       IN IF distinct # None /\ distinct > request.limits.cardinality
          THEN result' = ProfileFailed /\ UNCHANGED scan
          ELSE /\ scan' = [scan EXCEPT !.todo = Tail(@),
                             !.done = Append(@, Column(o, col, request.limits))]
               /\ UNCHANGED result
    /\ UNCHANGED <<profileTable, request, reference>>

\* _check_profile_deadline, between any two parts of a column and at the end.
Expire ==
    /\ scan # None /\ result = None
    /\ result' = ProfileFailed
    /\ UNCHANGED <<profileTable, request, scan, reference>>

\* Fault: warnings past the limit are left out without a word.
DropWarnings(all, cut, limits) == [warnings |-> CHOOSE s \in SUBSET all :
    Cardinality(s) = IF Cardinality(all) > limits.warnings THEN limits.warnings
                     ELSE Cardinality(all), cut |-> cut]
\* _cap_profile_warnings: which of them stay is their order of appearance, left out here.
CapWarnings(all, cut, limits) ==
    IF Cardinality(all) <= limits.warnings THEN [warnings |-> all, cut |-> cut]
    ELSE [warnings |-> (CHOOSE s \in SUBSET all : Cardinality(s) = limits.warnings - 1)
                       \cup {"profile_truncated"}, cut |-> TRUE]

Profile(t, columns) ==
    LET all == UNION {columns[k].warnings : k \in DOMAIN columns}
               \cup If(t.rows = 0, "empty_dataset")
        capped == CapWarnings(all, \E k \in DOMAIN columns : columns[k].cut, request.limits)
    IN [by |-> "kernel", schema |-> t.schema, lsn |-> t.lsn, rows |-> t.rows,
        columns |-> columns, threshold |-> request.limits.threshold,
        warnings |-> capped.warnings, truncated |-> capped.cut]

FinishScan ==
    /\ scan # None /\ result = None /\ scan.todo = << >>
    /\ result' = Returned(Profile(scan.given, scan.done))
    /\ UNCHANGED <<profileTable, request, scan, reference>>

--------------------------------------------------------------------------------
(* profile_with_client *)

\* ProfileResult's own validators.
WellFormed(p) ==
    /\ \A j, k \in DOMAIN p.columns : p.columns[j].ordinal = p.columns[k].ordinal => j = k
    /\ \A k \in DOMAIN p.columns :
         LET c == p.columns[k]
         IN /\ c.nulls <= p.rows
            /\ c.distinct # None => c.distinct <= p.rows - c.nulls
            /\ \A i \in DOMAIN c.top : c.top[i].count >= p.threshold
            /\ p.rows - c.nulls < p.threshold => c.numbers = {} /\ c.top = << >>

\* Fault: the engine's answer is not compared with the point the request was made at.
AnyPoint(p) == p.schema = request.schema
\* validate_engine_profile: the target, its schema and its position in the log.
SamePoint(p) == p.schema = request.schema /\ p.lsn = request.lsn

\* _validate_bounds
WithinRequest(p) ==
    LET limits == request.limits
    IN /\ Len(p.columns) <= limits.columns /\ p.threshold = limits.threshold
       /\ Cardinality(p.warnings) <= limits.warnings
       /\ request.ordinals # None =>
            {p.columns[k].ordinal : k \in DOMAIN p.columns} = Range(request.ordinals)
       /\ \A k \in DOMAIN p.columns :
            /\ p.columns[k].distinct # None => p.columns[k].distinct <= limits.cardinality
            /\ Len(p.columns[k].top) <= limits.topk
            /\ p.columns[k].quantiles <= limits.quantiles

\* What an engine may answer: its profile of the table now, under these limits or
\* laxer ones, of the columns asked for or of all.
EngineAnswers ==
    {LET columns == [k \in DOMAIN os |-> Column(os[k], profileTable.columns[os[k]], limits)]
     IN [Profile(profileTable, columns) EXCEPT !.by = "engine",
         !.threshold = claims.threshold] :
       os \in {[o \in DOMAIN profileTable.columns |-> o]} \cup
              (IF SelectorFits(profileTable) THEN {Ordinals(profileTable)} ELSE {}),
       limits \in LimitSets, claims \in {request.limits} \cup LimitSets}

AskEngine ==
    /\ request # None /\ scan = None /\ result = None
    /\ \E p \in EngineAnswers : \E late \in BOOLEAN :
         result' = IF ~late /\ WellFormed(p) /\ SamePoint(p) /\ WithinRequest(p)
                   THEN Returned(p) ELSE ProfileFailed
    /\ UNCHANGED <<profileTable, request, scan, reference>>

--------------------------------------------------------------------------------

\* build_profile_evidence_reference: the authority may refuse, and name another profile.
Authorize ==
    /\ Profiled /\ reference = None
    /\ \E answer \in {"denied", "other", "this"} :
         reference' = IF answer = "this" THEN result ELSE ProfileFailed
    /\ UNCHANGED <<profileTable, request, scan, result>>

ProfileNext ==
    \/ Change \/ Ask \/ StartScan \/ ScanColumn \/ Expire \/ FinishScan \/ AskEngine
    \/ Authorize

ProfileSpec == ProfileInit /\ [][ProfileNext]_profileVars

--------------------------------------------------------------------------------

\* No profile tells a value that occurs less often than the threshold asked for: not in
\* a list of values, not as an extreme, not of a column with too few cells.
RareIsHidden ==
    Profiled => \A c \in Range(result.profile.columns) :
         /\ \A i \in DOMAIN c.top : c.top[i].count >= request.limits.threshold
         /\ result.profile.by = "kernel" =>
              LET col == scan.given.columns[c.ordinal]
              IN /\ \A v \in c.numbers : Times(col, v) >= request.limits.threshold
                 /\ \A i \in DOMAIN c.top : Times(col, c.top[i].value) = c.top[i].count

\* A profile is of what was asked for: the kernel's own passes the checks the engine's
\* has to pass, an engine's is of the table at the request, and with a selector the
\* columns are those of the schema it was made for; a reference is to that profile.
ProfileIsAsAsked ==
    /\ Profiled =>
         /\ WellFormed(result.profile)
         /\ WithinRequest(result.profile)
         /\ result.profile.by = "engine" => result.profile.lsn = request.lsn
         /\ request.ordinals # None => result.profile.schema = request.schema
    /\ reference # None /\ reference.ok => reference = result

\* What a profile leaves out is told: it is marked truncated, and so is a column's
\* warning that did not fit.
CutsAreTold ==
    Profiled /\ result.profile.by = "kernel" =>
      \A c \in Range(result.profile.columns) :
        c.cut \/ ~(c.warnings \subseteq result.profile.warnings) => result.profile.truncated
================================================================================
