----------------------------- MODULE DataProviders -----------------------------
(* Data providers: the sweeps of their lists, and the finance sources.

   The sections share no state: each has its own Init, Next and Spec. *)
EXTENDS Integers, Sequences, FiniteSets

--------------------------------------------------------------------------------
(* The streams that a connector serves from a public provider: organism occurrences,
   taxa (pages of a list, or one graph), storm events of a pinned archive and weather
   of a time window.  A call is authorised, its checkpoint is compared with the
   policy's binding, its page is read from the provider, one identifier after the
   other where the provider has no batches, and answered as a whole or not at all.
   The consumer saves the checkpoint of a page once it has the page.               *)

CONSTANTS
    Policies,      \* policies a release may register; those of one stream replace each other
    Answers,       \* stream |-> what its provider may answer: one row, or all of its rows
    MaxReleases,   \* releases with another policy, and checkpoints that are removed
    None

VARIABLES
    policy,        \* the policy that is registered
    allowed,       \* what the host's authorize answers
    call,          \* the call that is being served, or None
    streamPage,    \* a page on its way to the consumer, or None
    saved,         \* the consumer's checkpoint, or None
    taken,         \* ghost: the identifiers the consumer took since its sweep began
    releases

streamVars == <<policy, allowed, call, streamPage, saved, taken, releases>>

StreamRange(s) == {s[i] : i \in DOMAIN s}
Lesser(m, n) == IF m < n THEN m ELSE n

Paged(p) == p.stream \in {"occurrence", "taxon", "storm"}
ByOne(p) == p.stream \in {"occurrence", "taxon", "taxa"}

--------------------------------------------------------------------------------
(* What can be registered, and what a checkpoint is bound to *)

StreamDistinct(s) == \A i, j \in DOMAIN s : s[i] = s[j] => i = j

\* Every place has its region, and the places are those of the policy's own list.
ContextHolds(c) == \A id \in DOMAIN c.places : c.places[id].region \in c.regions

\* One pair of identifiers for each taxon, the provider's own one first.
CrosswalkHolds(p) ==
    /\ DOMAIN p.context.crosswalk = StreamRange(p.ids)
    /\ \A id \in StreamRange(p.ids) : p.context.crosswalk[id][1] = id
    /\ \A x, y \in StreamRange(p.ids) :
         p.context.crosswalk[x][2] = p.context.crosswalk[y][2] => x = y
    /\ p.context.roots \subseteq StreamRange(p.ids)

Registrable(p) ==
    CASE p.stream = "weather" -> p.start < p.end /\ p.max \in 1..10000
      [] OTHER ->
           /\ p.ids # << >> /\ p.batch \in 1..1000 /\ StreamDistinct(p.ids)
           /\ p.stream = "occurrence" /\ p.graph => ContextHolds(p.context)
           /\ p.stream = "taxa" => CrosswalkHolds(p) /\ Len(p.ids) <= p.batch

\* The host's admissions are functions it passes in: no digest covers them.
Binding(p) == [p EXCEPT !.admits = {}]

\* Fault: whatever list the checkpoint was of.
AnyBinding(p, state) == TRUE
SameBinding(p, state) == state.binding = Binding(p)

\* _checkpoint_offset, _authorize_generation
Accepted(p, state) ==
    state # None => SameBinding(p, state) /\ (Paged(p) => state.offset < Len(p.ids))

Offset(p, state) == IF state = None \/ ~Paged(p) THEN 0 ELSE state.offset
StreamPage(p, offset) == SubSeq(p.ids, offset + 1, Lesser(offset + p.batch, Len(p.ids)))

StreamInit ==
    /\ policy \in {p \in Policies : Registrable(p)}
    /\ allowed = TRUE /\ call = None /\ streamPage = None /\ saved = None
    /\ taken = << >> /\ releases = 0

StreamTypeOK ==
    /\ policy \in Policies /\ allowed \in BOOLEAN /\ releases \in 0..MaxReleases
    /\ call # None => call.policy \in Policies /\ call.read \in BOOLEAN
    /\ saved # None => saved.offset \in Nat

--------------------------------------------------------------------------------
(* A call: authorised, then read *)

\* Fault: any caller.
AnyCaller == TRUE
Authorized == allowed

\* _authorized_offset: state is what the consumer saved.
Ask ==
    /\ call = None /\ streamPage = None /\ Authorized /\ Accepted(policy, saved)
    /\ call' = [policy |-> policy, offset |-> Offset(policy, saved), rows |-> << >>,
                read |-> FALSE, answer |-> << >>, allowed |-> allowed]
    /\ UNCHANGED <<policy, allowed, streamPage, saved, taken, releases>>

\* Fault: the provider's record is not compared with the identifier asked for.
AnyIdentity(r, id) == TRUE
SameIdentity(r, id) == r.id = id

\* _gbif_record, _inat_record: identity, an admitted license, a time with its zone.
\* _normalize_gbif, _normalize_ncbi: identity, a name.
RowAdmitted(p, r, id) ==
    /\ SameIdentity(r, id)
    /\ IF p.stream = "occurrence" THEN r.license \in p.admits /\ r.timed ELSE r.named

\* OccurrenceProvider.read, TaxonomyProvider.read: one identifier, under its quota.
ReadOne ==
    /\ call # None /\ ByOne(call.policy) /\ ~call.read
    /\ LET wanted == StreamPage(call.policy, call.offset)
           id == wanted[Len(call.rows) + 1]
       IN  \E r \in Answers[call.policy.stream] :
             /\ RowAdmitted(call.policy, r, id)
             /\ call' = [call EXCEPT !.rows = Append(@, r),
                                     !.read = Len(call.rows) + 1 = Len(wanted)]
    /\ UNCHANGED <<policy, allowed, streamPage, saved, taken, releases>>

\* Fault: an archive that was replaced is read.
AnyArchive(p, file) == TRUE
Pinned(p, file) == file = p.archive

\* NoaaStormArchive._record: the host admits the event and knows its zone.
EventAdmitted(p, r) == r.episode /\ r.system # None /\ r.zone \in p.admits

RowOf(file, id) == CHOOSE r \in StreamRange(file) : r.id = id

\* NoaaStormArchive._read_page: the file is read as a whole; every event wanted is
\* there, once.
ReadArchive ==
    /\ call # None /\ call.policy.stream = "storm" /\ ~call.read
    /\ LET wanted == StreamPage(call.policy, call.offset)
       IN  \E file \in Answers["storm"] :
             /\ Pinned(call.policy, file)
             /\ \A id \in StreamRange(wanted) :
                  Cardinality({i \in DOMAIN file : file[i].id = id}) = 1
             /\ \A id \in StreamRange(wanted) : EventAdmitted(call.policy, RowOf(file, id))
             /\ call' = [call EXCEPT !.read = TRUE, !.answer = file,
                           !.rows = [i \in DOMAIN wanted |-> RowOf(file, wanted[i])]]
    /\ UNCHANGED <<policy, allowed, streamPage, saved, taken, releases>>

\* _noaa_row, _daily_row: station and quality are compared; Open-Meteo has neither.
\* One row that is refused refuses the answer, inside the window or not.
ValueAdmitted(p, r) ==
    p.station # None => r.station = p.station /\ r.quality \in p.admits

\* Fault: the end of the window belongs to it.
ToTheEnd(p, r) == p.start <= r.time /\ r.time <= p.end
InWindow(p, r) == p.start <= r.time /\ r.time < p.end

\* _read_rows, _observation
ReadWindow ==
    /\ call # None /\ call.policy.stream = "weather" /\ ~call.read
    /\ \E answer \in Answers["weather"] :
         LET p == call.policy
             kept == SelectSeq(answer, LAMBDA r : InWindow(p, r))
         IN  /\ \A r \in StreamRange(answer) : ValueAdmitted(p, r)
             /\ Len(kept) <= p.max
             /\ StreamDistinct([i \in DOMAIN kept |-> kept[i].time])
             /\ \A r \in StreamRange(kept) : r.finite
             /\ call' = [call EXCEPT !.read = TRUE, !.answer = answer, !.rows = kept]
    /\ UNCHANGED <<policy, allowed, streamPage, saved, taken, releases>>

--------------------------------------------------------------------------------
(* The records and the relationships of a page.  A node is <<type, id, what it says>>. *)

\* Fault: the occurrence's own coordinates.
AnyPlace(c, r) == r.id \in DOMAIN c.places
PlaceFits(c, r) == r.id \in DOMAIN c.places /\ c.places[r.id].at = r.at

OccurrencesFit(c, rows) ==
    \A r \in StreamRange(rows) :
      r.taxon \in DOMAIN c.taxa /\ c.taxa[r.taxon] = r.name /\ PlaceFits(c, r)

OccurrenceNodes(c, rows) ==
    UNION {{<<"Observation", r.id, r.at>>, <<"Taxon", r.taxon, c.taxa[r.taxon]>>,
            <<"Place", r.id, c.places[r.id].at>>,
            <<"Region", c.places[r.id].region, None>>} : r \in StreamRange(rows)}
OccurrenceEdges(c, rows) ==
    UNION {{<<"Observation", r.id, "Taxon", r.taxon>>, <<"Observation", r.id, "Place", r.id>>,
            <<"Place", r.id, "Region", c.places[r.id].region>>} : r \in StreamRange(rows)}

\* Fault: the parent may be anywhere.
AnyParent(c, rows, r) == r.parent = r.id => r.id \in c.roots
ParentFits(c, rows, r) ==
    IF r.parent = r.id THEN r.id \in c.roots ELSE r.parent \in {x.id : x \in StreamRange(rows)}

TaxaFit(c, rows) == \A r \in StreamRange(rows) : r.rank \in c.ranks /\ ParentFits(c, rows, r)

TaxaNodes(c, rows) ==
    UNION {{<<"Taxon", r.id, c.crosswalk[r.id]>>, <<"Rank", r.rank,
                                                    None>>} : r \in StreamRange(rows)}
TaxaEdges(c, rows) ==
    {<<"Taxon", r.id, "Rank", r.rank>> : r \in StreamRange(rows)}
    \cup {<<"Taxon", r.id, "Taxon",
            r.parent>> : r \in {x \in StreamRange(rows) : x.parent # x.id}}

\* Fault: the first name of a system is kept.
FirstName(rows) == TRUE
SystemsFit(rows) == \A r, s \in StreamRange(rows) : r.system = s.system => r.name = s.name

StormNodes(rows) ==
    UNION {{<<"Event", r.id, None>>, <<"System", r.system, r.name>>} : r \in StreamRange(rows)}
StormEdges(rows) == {<<"Event", r.id, "System", r.system>> : r \in StreamRange(rows)}

\* _validate_observations: the place's own coordinates, and the unit of its quality.
WeatherFits(c, rows) ==
    \A r \in StreamRange(rows) : r.at = c.at /\ (c.unit # None => r.unit = c.unit)

WeatherNodes(c, rows) ==
    {<<"Observation", r.time, r.at>> : r \in StreamRange(rows)}
    \cup {<<"Place", "p", c.at>>, <<"Region", "r", None>>}
    \cup (IF c.unit # None THEN {<<"Quality", "q", None>>} ELSE {})
WeatherEdges(c, rows) ==
    {<<"Observation", r.time, "Place", "p">> : r \in StreamRange(rows)}
    \cup {<<"Place", "p", "Region", "r">>}
    \cup (IF c.unit # None
          THEN {<<"Observation", r.time, "Quality", "q">> : r \in StreamRange(rows)} ELSE {})

StreamFits(p, rows) ==
          p.graph => CASE p.stream = "occurrence" -> OccurrencesFit(p.context, rows)
                       [] p.stream = "taxa" -> TaxaFit(p.context, rows)
                       [] p.stream = "storm" -> SystemsFit(rows)
                       [] OTHER -> WeatherFits(p.context, rows)

Nodes(p, rows) ==
    CASE ~p.graph -> {<<"Record", i, None>> : i \in DOMAIN rows}
      [] p.stream = "occurrence" -> OccurrenceNodes(p.context, rows)
      [] p.stream = "taxa" -> TaxaNodes(p.context, rows)
      [] p.stream = "storm" -> StormNodes(rows)
      [] OTHER -> WeatherNodes(p.context, rows)

Edges(p, rows) ==
    CASE ~p.graph -> {}
      [] p.stream = "occurrence" -> OccurrenceEdges(p.context, rows)
      [] p.stream = "taxa" -> TaxaEdges(p.context, rows)
      [] p.stream = "storm" -> StormEdges(rows)
      [] OTHER -> WeatherEdges(p.context, rows)

--------------------------------------------------------------------------------
(* The answer, and the consumer *)

\* Fault: the identifier after the page is taken for its last.
OneFurther(p, offset) == offset + p.batch + 1
NextOffset(p, offset) == offset + Len(StreamPage(p, offset))

\* The last page's checkpoint starts again at the first identifier.
Checkpoint(p, offset) ==
    [binding |-> Binding(p), policy |-> p,
     offset |-> IF Paged(p) /\ NextOffset(p, offset) < Len(p.ids)
                THEN NextOffset(p, offset) ELSE 0]

Answer ==
    /\ call # None /\ call.read /\ StreamFits(call.policy, call.rows)
    /\ streamPage' = [policy |-> call.policy, from |-> call.offset, rows |-> call.rows,
                      answer |-> call.answer, allowed |-> call.allowed,
                      checkpoint |-> Checkpoint(call.policy, call.offset),
                      nodes |-> Nodes(call.policy, call.rows),
                      edges |-> Edges(call.policy, call.rows)]
    /\ call' = None
    /\ UNCHANGED <<policy, allowed, saved, taken, releases>>

\* A refusal, an error or a limit of the provider, a record that is not admitted: the
\* page is refused as a whole.
Refuse ==
    /\ call # None
    /\ call' = None
    /\ UNCHANGED <<policy, allowed, streamPage, saved, taken, releases>>

\* The page did not reach the engine: the consumer keeps its checkpoint.
Lose ==
    /\ streamPage # None
    /\ streamPage' = None
    /\ UNCHANGED <<policy, allowed, call, saved, taken, releases>>

TakenIds(pg) == IF Paged(pg.policy) THEN [i \in DOMAIN pg.rows |-> pg.rows[i].id] ELSE << >>

Save ==
    /\ streamPage # None
    /\ saved' = streamPage.checkpoint
    /\ taken' = IF streamPage.from = 0 THEN TakenIds(streamPage)
                ELSE taken \o TakenIds(streamPage)
    /\ streamPage' = None
    /\ UNCHANGED <<policy, allowed, call, releases>>

--------------------------------------------------------------------------------
(* Releases, and an operator who removes a checkpoint that is refused *)

Release ==
    /\ releases < MaxReleases
    /\ \E p \in Policies :
         /\ p.stream = policy.stream /\ p # policy /\ Registrable(p)
         /\ policy' = p
    /\ call' = None
    /\ releases' = releases + 1
    /\ UNCHANGED <<allowed, streamPage, saved, taken>>

Permit ==
    /\ allowed' = ~allowed
    /\ UNCHANGED <<policy, call, streamPage, saved, taken, releases>>

Forget ==
    /\ saved # None /\ releases < MaxReleases /\ streamPage = None /\ call = None
    /\ saved' = None /\ taken' = << >>
    /\ releases' = releases + 1
    /\ UNCHANGED <<policy, allowed, call, streamPage>>

StreamNext == Ask \/ ReadOne \/ ReadArchive \/ ReadWindow \/ Answer \/ Refuse
              \/ Lose \/ Save \/ Release \/ Permit \/ Forget

StreamSpec == StreamInit /\ [][StreamNext]_streamVars

--------------------------------------------------------------------------------
(* A consumer that is at an offset has the identifiers before it, each once and in the
   order of the list its checkpoint is bound to, whatever was refused, lost or released
   between its pages; at the end of a sweep it has them all (_checkpoint_offset).   *)
SweepIsWhole ==
    saved # None /\ Paged(saved.policy) =>
      taken = SubSeq(saved.policy.ids, 1,
                     IF saved.offset = 0 THEN Len(saved.policy.ids) ELSE saved.offset)

(* A page is answered to a caller who was authorised, has the records asked for and no
   other, and for a window all the records that the provider has in it.            *)
PageIsAsked ==
    streamPage # None =>
      /\ streamPage.allowed
      /\ streamPage.policy.stream # "weather" =>
           [i \in DOMAIN streamPage.rows |-> streamPage.rows[i].id]
             = StreamPage(streamPage.policy, streamPage.from)
      /\ streamPage.policy.stream = "weather" =>
           /\ \A r \in StreamRange(streamPage.rows) :
                r.time \in streamPage.policy.start..(streamPage.policy.end - 1)
           /\ StreamRange(streamPage.rows) = {r \in StreamRange(streamPage.answer) : r.time \in
                                                streamPage.policy.start..(streamPage.policy.end - 1)}
      /\ streamPage.policy.stream = "storm" => streamPage.answer = streamPage.policy.archive

(* The graph of a page is closed: what a relationship points at is one record of the
   same page, and what an observation says of its place is what the place says.    *)
PageIsClosed ==
    streamPage # None =>
      /\ \A e \in streamPage.edges :
           /\ \E n \in streamPage.nodes : n[1] = e[1] /\ n[2] = e[2]
           /\ \E n \in streamPage.nodes : n[1] = e[3] /\ n[2] = e[4]
           /\ e[1] = "Observation" /\ e[3] = "Place" =>
                \A m, n \in streamPage.nodes :
                  m[1] = e[1] /\ m[2] = e[2] /\ n[1] = e[3] /\ n[2] = e[4] => m[3] = n[3]
      /\ \A m, n \in streamPage.nodes : m[1] = n[1] /\ m[2] = n[2] => m = n

--------------------------------------------------------------------------------
(* The finance sources.  An adapter for one kind of record wraps the tool adapter: a
   page is taken when every record of it is the source's own and well formed, and
   refused as a whole otherwise; only a multi-asset source whose tool answers snapshots
   may withdraw records or be reconciled.  A CSV export of an account's activities is
   imported when its columns are mapped without ambiguity.                          *)

CONSTANTS
    Sources,     \* adapters: [kind, delta, mine (its identities),
                 \* age, rows (what its tool holds)]
    Edits,       \* kind |-> records the tool may have in place of one of its own
    Files,       \* CSV files: [headers, mapping (sequence of [header, field]), rows]
    Required,    \* the fields an activity needs
    Currencies,  \* values that are currency codes
    PageSize, MaxPages,
    MaxEdits     \* changes of the tool's records

VARIABLES
    source, financeRows, \* the adapter, and the records of its tool
    at,               \* the consumer's place in the rows
    engine,           \* id |-> record: what the consumer has taken
    pages,            \* ghost: what the last page held, or None
    sweep, report,    \* a reconciliation under way and its report, or None
    imported,         \* the activities of the imported files
    edits

financeVars == <<source, financeRows, at, engine, pages, sweep, report, imported, edits>>

FinanceRange(s) == {s[i] : i \in DOMAIN s}
Ids(rs) == {r.id : r \in rs}
FinanceDistinct(s) == \A i, j \in DOMAIN s : s[i] = s[j] => i = j

--------------------------------------------------------------------------------
(* What a record of each kind has to be *)

\* _bar, _candle: no price is negative, high and low bound the others.
Least(p) == p.low <= p.open /\ p.low <= p.close
\* Fault: only the low is looked at.
LowOnly(p) == p.low >= 0 /\ Least(p)
PricesFit(p) ==
    /\ p.low >= 0 /\ Least(p)
    /\ p.high >= p.open /\ p.high >= p.close /\ p.high >= p.low

\* A future has all of its contract, a spot price has none of it.
CommodityFits(r) == r.contract = (IF r.basis = "future" THEN "all" ELSE "none")
RateFits(r) == r.base # r.quote /\ r.rate > 0

\* Fault: an age the source reports is believed.
BelieveAge(s, r) == r.staleness >= 0
ValuationFits(s, r) ==
    LET age == r.observed - r.valued
    IN  /\ r.value # None /\ age >= 0
        /\ age = r.staleness /\ r.stale = (age > s.age)

\* _check_value
MultiAssetFits(s, r) ==
    /\ r.of = s.mine /\ r.event = r.id
    /\ CASE s.kind = "fx" -> RateFits(r)
         [] s.kind = "commodity" -> CommodityFits(r)
         [] OTHER -> ValuationFits(s, r)

\* _position: the account's own; _positions: none of them twice.
PositionsFit(r) == FinanceDistinct(r.positions)
PositionIdentity(s, r) == r.id = <<s.mine, r.symbol>>
ActivityIdentity(r) == r.id = <<r.of, r.event>>

AccountFits(s, r) ==
    /\ r.of = s.mine
    /\ CASE s.kind = "account" -> r.id = <<s.mine>> /\ PositionsFit(r)
         [] s.kind = "position" -> PositionIdentity(s, r)
         [] OTHER -> ActivityIdentity(r)

\* A company's data set is the one asked for; a logo is what its digest says.
CompanyFits(s, r) == r.dataset = s.kind /\ (s.kind = "logo" => r.digest = r.image)

StockFits(s, r) ==
    /\ r.of = s.mine /\ r.named = r.id
    /\ IF s.kind = "bar" THEN PricesFit(r.prices) ELSE CompanyFits(s, r)

\* _fred: the identity is the series, its date and its vintage.
SeriesFits(r) == r.id = <<r.series, r.date, r.vintage>>

MarketFits(s, r) ==
    /\ r.of = s.mine /\ r.named = r.id
    /\ IF s.kind = "candle" THEN PricesFit(r.prices) ELSE SeriesFits(r)

MultiAsset(s) == s.kind \in {"fx", "commodity", "estate"}
Account(s) == s.kind \in {"account", "position", "activity"}
Market(s) == s.kind \in {"candle", "fred"}

FinanceFits(s, r) ==
           CASE MultiAsset(s) -> MultiAssetFits(s, r)
             [] Account(s) -> AccountFits(s, r)
             [] Market(s) -> MarketFits(s, r)
             [] OTHER -> StockFits(s, r)

--------------------------------------------------------------------------------
(* Pages *)

FinanceInit ==
    /\ source \in Sources /\ financeRows = source.rows /\ at = 0
    /\ engine = [id \in {} |-> None] /\ pages = None
    /\ sweep = None /\ report = None /\ imported = {} /\ edits = 0

FinanceTypeOK ==
    /\ source \in Sources /\ at \in Nat /\ edits \in 0..MaxEdits
    /\ \A id \in DOMAIN engine : engine[id].id = id

Bounded(s) == ~MultiAsset(s) \/ s.delta

Exhausted(from) == from + PageSize >= Len(financeRows)
FinancePage(from) ==
           SubSeq(financeRows, from + 1,
                  IF Exhausted(from) THEN Len(financeRows) ELSE from + PageSize)
Onward(from) == IF Exhausted(from) THEN 0 ELSE from + PageSize

\* Fault: the wrapped adapter is trusted.
AnyAssertion(s, withdrawn) == TRUE
MayAssert(s, withdrawn) == Bounded(s) => withdrawn = {}

\* Fault: two records of one identity.
EvenTwice(page) == TRUE
NoneTwice(page) == FinanceDistinct([i \in DOMAIN page |-> page[i].id])

Valid(s, page, withdrawn) ==
    /\ MayAssert(s, withdrawn)
    /\ \A r \in FinanceRange(page) : FinanceFits(s, r)
    /\ NoneTwice(page)

RecordOf(page, id) == CHOOSE r \in FinanceRange(page) : r.id = id

Taken(page, withdrawn) ==
    [id \in (DOMAIN engine \ withdrawn) \cup Ids(FinanceRange(page)) |->
       IF id \in Ids(FinanceRange(page)) THEN RecordOf(page, id) ELSE engine[id]]

\* extract: what the tool withdraws is no record that it still has.
Extract ==
    \E withdrawn \in {{}} \cup {{id} : id \in DOMAIN engine \ Ids(FinanceRange(financeRows))} :
      /\ Valid(source, FinancePage(at), withdrawn)
      /\ engine' = Taken(FinancePage(at), withdrawn)
      /\ at' = Onward(at)
      /\ pages' = FinancePage(at)
      /\ UNCHANGED <<source, financeRows, sweep, report, imported, edits>>

--------------------------------------------------------------------------------
(* MultiAssetSourceAdapter.reconcile: a sweep of its own, from the first page *)

Reconcile ==
    /\ sweep = None /\ ~Bounded(source)
    /\ sweep' = [known |-> DOMAIN engine, seen |-> {}, at |-> 0, count |-> 0,
               stable |-> TRUE]
    /\ UNCHANGED <<source, financeRows, at, engine, pages, report, imported, edits>>

\* Fault: the last page alone.
LastPage(seen, page) == Ids(FinanceRange(page))
Seen(seen, page) == seen \cup Ids(FinanceRange(page))

ReconcilePage ==
    /\ sweep # None /\ sweep.count < MaxPages
    /\ Valid(source, FinancePage(sweep.at), {})
    /\ LET seen == Seen(sweep.seen, FinancePage(sweep.at))
       IN  IF Exhausted(sweep.at)
           THEN /\ report' = [missing |-> sweep.known \ seen, unknown |-> seen \ sweep.known,
                              known |-> sweep.known, stable |-> sweep.stable,
                              ids |-> Ids(FinanceRange(financeRows))]
                /\ sweep' = None
           ELSE /\ sweep' = [sweep EXCEPT !.seen = seen, !.at = Onward(@), !.count = @ + 1]
                /\ UNCHANGED report
    /\ UNCHANGED <<source, financeRows, at, engine, pages, imported, edits>>

\* A page that is refused, or one too many: there is no report.
ReconcileFails ==
    /\ sweep # None
    /\ sweep.count >= MaxPages \/ ~Valid(source, FinancePage(sweep.at), {})
    /\ sweep' = None
    /\ UNCHANGED <<source, financeRows, at, engine, pages, report, imported, edits>>

--------------------------------------------------------------------------------
(* CSV exports.  The digest of the file and the place of the row are the identity. *)

Headers(f, field) ==
    {f.mapping[i].header : i \in {j \in DOMAIN f.mapping : f.mapping[j].field = field}}

\* Fault: a field that two columns are mapped to.
EvenBoth(f) == \A field \in Required : Headers(f, field) # {}
MappingHolds(f) ==
    /\ FinanceDistinct(f.headers)
    /\ \A field \in Required : Headers(f, field) # {}
    /\ FinanceDistinct([i \in DOMAIN f.mapping |-> f.mapping[i].field])
    /\ \A i \in DOMAIN f.mapping : f.mapping[i].header \in FinanceRange(f.headers)

Value(f, row, field) == row[CHOOSE h \in Headers(f, field) : TRUE]
CurrenciesHold(f) == \A i \in DOMAIN f.rows : Value(f, f.rows[i], "currency") \in Currencies

\* Fault: the account and the amounts.
ByContent(f, i) == <<f, f.rows[i]>>
RowIdentity(f, i) == <<f, i>>

\* import_activities, register_csv_activity_tool: all of a file, when the tool is made.
Import ==
    \E f \in Files :
      /\ MappingHolds(f) /\ CurrenciesHold(f)
      /\ imported' = imported \cup
           {[id |-> RowIdentity(f, i), file |-> f,
             fields |-> [x \in Required |-> Value(f, f.rows[i], x)]] : i \in DOMAIN f.rows}
      /\ UNCHANGED <<source, financeRows, at, engine, pages, sweep, report, edits>>

--------------------------------------------------------------------------------
(* The tool's records change *)

Edit ==
    /\ edits < MaxEdits
    /\ \/ \E i \in DOMAIN financeRows, r \in Edits[source.kind] :
            financeRows' = [financeRows EXCEPT ![i] = r]
       \/ financeRows # << >> /\ financeRows' = Tail(financeRows)
    /\ sweep' = IF sweep = None THEN None ELSE [sweep EXCEPT !.stable = FALSE]
    /\ edits' = edits + 1
    /\ UNCHANGED <<source, at, engine, pages, report, imported>>

FinanceNext == Extract \/ Reconcile \/ ReconcilePage \/ ReconcileFails \/ Import \/ Edit

FinanceSpec == FinanceInit /\ [][FinanceNext]_financeVars

--------------------------------------------------------------------------------
(* The engine holds only what belongs to the source: prices within their bounds, a
   valuation as old as its dates say, an account's positions once each (_check).    *)
HeldIsSound ==
    \A id \in DOMAIN engine :
      LET r == engine[id]
      IN  /\ r.of = source.mine
          /\ source.kind \in {"bar", "candle"} =>
               /\ \A x \in {r.prices.open, r.prices.close} : x \in r.prices.low..r.prices.high
               /\ r.prices.low >= 0
          /\ source.kind = "estate" =>
               (r.stale <=> r.observed - r.valued > source.age)
          /\ source.kind = "account" =>
               Cardinality(FinanceRange(r.positions)) = Len(r.positions)

(* A report of a reconciliation whose source did not change meanwhile is the difference
   between the identities known and those of the source (reconcile).                *)
ReportIsExact ==
    report # None /\ report.stable =>
      /\ report.missing = report.known \ report.ids
      /\ report.unknown = report.ids \ report.known

(* Each row of an imported file is one activity with the values of its own columns. *)
ActivitiesAreRows ==
    \A f \in {a.file : a \in imported} :
      LET of == {a \in imported : a.file = f}
      IN  /\ Cardinality(of) = Len(f.rows)
          /\ \A i \in DOMAIN f.rows : \E a \in of :
               \A j \in DOMAIN f.mapping :
                 f.mapping[j].field \in Required =>
                   a.fields[f.mapping[j].field] = f.rows[i][f.mapping[j].header]

(* A step takes every record of a page or none, and a bounded source takes nothing away
   from what the engine has (_validate_bounded_page).                               *)
PageStep ==
    /\ pages' # pages =>
         \A i \in DOMAIN pages' : engine'[pages'[i].id] = pages'[i]
    /\ Bounded(source) => DOMAIN engine \subseteq DOMAIN engine'
PagesAreWhole == [][PageStep]_financeVars
================================================================================
