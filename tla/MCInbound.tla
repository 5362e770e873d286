------------------------------- MODULE MCInbound -------------------------------
(* The sources that are read, each module an instance of its own: a behaviour is of
   one of them, chosen by the initial state. *)
EXTENDS Integers, Sequences, TLC

CONSTANTS
    r1, r2, r3, i1, None

\* part: which of them this behaviour is of.  x1, x2, ... are its variables,
\* the ones it has no use for stay None.
VARIABLES part,
    x1, x2, x3, x4, x5, x6, x7, x8, x9, x10, x11, x12, x13, x14, x15

\* Budgets: more than enough, and ones that end a run part-way.
Mixed == {[pages |-> 6, records |-> 5], [pages |-> 1, records |-> 5],
          [pages |-> 4, records |-> 5], [pages |-> 6, records |-> 3]}

\* Cursor values as text of fixed width, such as timestamps.
FixedWidth == [n \in 0..6 |-> <<n>>]

\* The children of two parents; records are listed twice.
TwoPagedSweeps == <<<<r1, r2, r1, r3>>, <<r2>>>>

\* c is nested in r, and d in c; s has its own page.
Nested == "r" :> <<"c">> @@ "c" :> <<"d">> @@ "d" :> <<>> @@ "s" :> <<>>

\* Short and long ways to p and q, links back, and links listed twice.
SomeSites ==
    {"base" :> b @@ "a" :> a @@ "b" :> <<"d">> @@ "d" :> d @@ "p" :> p @@ "q" :> <<"base">> :
        b \in {<<"a", "b">>, <<"b", "a", "b">>, <<"base">>},
        a \in {<<"p">>, <<"base", "p">>, <<>>},
        d \in {<<"p">>, <<"p", "q">>, <<>>},
        p \in {<<"q">>, <<"a">>}}

\* One file fits with any other of its batch, two do not fit together, one fits none.
FileSizes == "a" :> 1 @@ "b" :> 2 @@ "c" :> 2 @@ "d" :> 4

\* Two hosts over both schemes, and a private address.
SomeUrls ==
    {[scheme |-> s, host |-> h, port |-> 1] : s \in {"http", "https"}, h \in {"a", "b"}}
        \cup {[scheme |-> "https", host |-> "x2", port |-> 1]}
\* Exports with rows that repeat an id, alike or not, and one with a bad row.
Row(id, text) == [id |-> id, text |-> text]
SomeExports ==
    {<<Row("a", "x"), Row("b", "x"), Row(y, t), Row("c", "x"), Row(z, "x")>> :
        y \in {"a", "b"}, z \in {"a", "d"}, t \in {"x", "y"}}
        \cup {<<>>, <<Row("a", "x"), Row("b", "bad")>>}

\* Pages of a GraphQL source: with a record twice, with more documents than the bound,
\* and with records that are not taken.
Of(k, i) == [kind |-> k, id |-> i, parent |-> None, app |-> None, from |-> None, to |-> None,
             text |-> TRUE]
Doc == [Of("document", "1") EXCEPT !.app = "1", !.parent = "1"]
Uses == [Of("dependency", "1") EXCEPT !.from = "1", !.to = "2"]
SomeGraphs == {<<<<Of("hierarchy", "1"), Doc>>, <<Of("application", "1"), Uses, Doc>>>>,
               <<<<Doc, Uses>>, <<Of("document", "2"), Of("document", "3")>>>>,
               <<<<Of("application", "1"), Of("document", "noid")>>, <<Doc>>,
                 <<[Doc EXCEPT !.text = FALSE]>>>>}
SomeKinds == <<"hierarchy", "document", "application", "dependency">>
SomeFallbacks == <<{"a"}, {"a", "b"}>>

\* Tables of three rows, in every order, and an empty one; plans whose verbs drop, hold
\* back, fill and widen them in different orders, within limits that some outgrow.
SomeTables == {[names |-> <<"A", "b">>, types |-> <<"int8", "int8">>, rows |-> r] :
                 r \in {<< >>} \cup [1..3 -> {<<1, None>>, <<1, 2>>, <<None, 2>>, <<2, 2>>}]}
Rejecting(n) == [verb |-> "null_policy", columns |-> {n}, action |-> "reject"]
Deduping(n) == [verb |-> "dedupe", keys |-> {n}]
Filling(n, t) == [verb |-> "fill_nulls", fills |-> {[column |-> n, kind |-> t, value |-> 3]}]
Casting(n, t) == [verb |-> "safe_cast", column |-> n, from |-> "int8", to |-> t]
Naming == [verb |-> "canonical_names"]
TableLimits == [rows |-> 3, columns |-> 2, bytes |-> 10, quarantine |-> 2, outcomes |-> 3]
SomePlans ==
    {[steps |-> s, disposition |-> d, model |-> "m", digest |-> 1, limits |-> l] :
       d \in {"fail", "quarantine"},
       l \in {TableLimits, [TableLimits EXCEPT !.outcomes = 2, !.quarantine = 1]},
       s \in {<<Naming, Rejecting("a"), Deduping("b")>>,
              <<Deduping("b"), Naming, Rejecting("a"), Filling("b", "int8")>>,
              <<Naming, Filling("a", "int8"), Deduping("a"), Deduping("b")>>,
              <<Naming, Casting("a", "int16"), Filling("a", "int16")>>,
              <<Filling("b", "int8"), Rejecting("b"), Casting("b", "int64")>>}}
SomeModels ==
    {"m" :> [fields |-> {"a", "b"}, accepts |-> [a |-> {1, 3}, b |-> {2, 3, None}],
             digest |-> d] : d \in {1, 2}}
CanonicalNames == [A |-> "a", b |-> "b", a |-> "a"]
CellWidth == [int8 |-> 1, int16 |-> 2, int64 |-> 8]

\* A table that changes as it is profiled: frequent and rare values, nulls, no rows,
\* another schema, a column that cannot be counted.
ColumnOf(numeric, scalar, cells) == [numeric |-> numeric, scalar |-> scalar, cells |-> cells]
TableAt(schema, lsn, columns) ==
    [schema |-> schema, lsn |-> lsn, rows |-> Len(columns[1].cells), columns |-> columns]
ProfiledTables ==
    {TableAt(1, 1, <<ColumnOf(TRUE, TRUE, <<1, 1, 2, 2>>),
                     ColumnOf(FALSE, TRUE, <<5, 5, 6, None>>)>>),
     TableAt(1, 2, <<ColumnOf(TRUE, TRUE, <<1, 1, 1, 2>>),
                     ColumnOf(FALSE, FALSE, <<7, 7, 8, 8>>)>>),
     TableAt(1, 3, <<ColumnOf(TRUE, TRUE, << >>), ColumnOf(FALSE, TRUE, << >>)>>),
     TableAt(2, 4, <<ColumnOf(TRUE, TRUE, <<None, None, None, 3>>)>>),
     TableAt(2, 5, <<ColumnOf(FALSE, TRUE, <<1, 2, 3, 4>>)>>)}
ProfileLimits(topk, quantiles, threshold, warnings) ==
    [columns |-> 2, cardinality |-> 3, topk |-> topk, quantiles |-> quantiles,
     threshold |-> threshold, warnings |-> warnings]
SomeLimits == {ProfileLimits(1, 3, 2, 2), ProfileLimits(2, 2, 2, 8), ProfileLimits(0, 0, 3, 1)}

\* Lists that replace each other, archives and windows; answers of another record, of a
\* taxon without its parent, of a place that moved, of a license nobody admitted.
StreamPolicy(s, ids, batch, admits) ==
    [stream |-> s, ids |-> ids, batch |-> batch, admits |-> admits, graph |-> FALSE]
WithGraph(p, c) ==
    [stream |-> p.stream, ids |-> p.ids, batch |-> p.batch, admits |-> p.admits,
     graph |-> TRUE, context |-> c]
Storm(id, system, name, zone) ==
    [id |-> id, episode |-> TRUE, system |-> system, name |-> name, zone |-> zone]
StormFile == <<Storm(1, "s", "n", "utc"), Storm(2, "s", "m", "utc"), Storm(3, "t", "n", "utc"),
               Storm(3, "t", "n", "utc"), Storm(4, None, "n", "utc")>>
StormPolicies ==
    {[stream |-> "storm", ids |-> ids, batch |-> 2, admits |-> a, graph |-> TRUE,
      archive |-> StormFile] :
       ids \in {<<1, 2>>, <<1, 4, 2>>, <<3, 1>>, <<2, 5, 1>>}, a \in {{"utc"}}}
StormFile2 == <<Storm(1, "s", "n", "utc"), Storm(5, "t", "n", "utc"), Storm(2, "s", "n", "utc")>>
Weather(t, at, unit, q) ==
    [time |-> t, station |-> "w", quality |-> q, finite |-> TRUE, unit |-> unit, at |-> at]
WeatherPolicy(g, s, c) ==
    [stream |-> "weather", ids |-> << >>, start |-> 1, end |-> 3, max |-> 2, station |-> s,
     admits |-> {1}, graph |-> g, context |-> c]
SomeStreams ==
    {StreamPolicy("occurrence", ids, 2, a) : ids \in {<<1, 2, 3>>, <<3, 1, 2, 4>>}, a \in {{"cc"}}}
    \cup {WithGraph(StreamPolicy("occurrence", <<2, 1>>, 2, {"cc"}),
            [taxa |-> "t" :> "oak", regions |-> {"r"},
             places |-> 1 :> [at |-> 5, region |-> "r"] @@ 2 :> [at |-> 6, region |-> "r"]])}
    \cup {StreamPolicy("taxon", <<1, 2, 3>>, b, {}) : b \in {1, 2}}
    \cup {WithGraph(StreamPolicy("taxa", ids, 2, {}),
            [crosswalk |-> [id \in {1, 2} |-> <<id, id + 10>>], ranks |-> {"genus", "species"},
             roots |-> {1}]) : ids \in {<<1, 2>>, <<2, 1>>}}
    \cup {[p EXCEPT !.archive = StormFile2] : p \in StormPolicies} \cup StormPolicies
    \cup {WeatherPolicy(FALSE, None, None), WeatherPolicy(FALSE, "w", None)}
    \cup {WeatherPolicy(TRUE, "w", [at |-> 5, unit |-> u]) : u \in {"c", None}}
Organism(id, l, n, at) ==
    [id |-> id, license |-> l, timed |-> TRUE, taxon |-> "t", name |-> n, at |-> at]
TaxonRow(id, r, p) == [id |-> id, named |-> TRUE, rank |-> r, parent |-> p]
StreamAnswers ==
    [occurrence |-> {Organism(id, "cc", "oak", 4 + id) : id \in 1..4}
                    \cup {Organism(1, "cc", "elm", 5), Organism(1, "c", "oak", 5),
                          Organism(2, "cc", "oak", 5)},
     taxon |-> {TaxonRow(id, "genus", 1) : id \in 1..3},
     taxa |-> {TaxonRow(1, "genus", 1), TaxonRow(2, "species", 1), TaxonRow(2, "species", 2),
               TaxonRow(2, "genus", 3), TaxonRow(1, "order", 1)},
     storm |-> {StormFile, StormFile2},
     weather |-> {<<Weather(0, 5, "c", 1), Weather(1, 5, "c", 1), Weather(2, 5, "c", 1)>>,
                  <<Weather(2, 5, "f", 1), Weather(3, 5, "c", 1)>>,
                  <<Weather(1, 6, "c", 1), Weather(1, 5, "c", 1)>>,
                  <<Weather(1, 6, "c", 1)>>, <<Weather(1, 5, "c", 2)>>, << >>}]

\* One source of each kind; records of another account, with prices out of bounds, an age
\* that is not theirs or an identity used twice; files whose columns are ambiguous.
Bar(id, p) == [id |-> id, named |-> id, of |-> "m", prices |-> p]
Ohlc(o, h, l, c) == [open |-> o, high |-> h, low |-> l, close |-> c]
Rate(id, b, q) == [id |-> id, event |-> id, of |-> "m", base |-> b, quote |-> q, rate |-> 1]
Price(id, b, c) == [id |-> id, event |-> id, of |-> "m", basis |-> b, contract |-> c]
Valued(id, v, s, stale) ==
    [id |-> id, event |-> id, of |-> "m", value |-> 1, valued |-> v, observed |-> 3,
     staleness |-> s, stale |-> stale]
Holding(n, a, s) == [id |-> <<n, s>>, of |-> a, symbol |-> s]
Activity(e, n) == [id |-> <<"m", n>>, of |-> "m", event |-> e]
Balance(p) == [id |-> <<"m">>, of |-> "m", positions |-> p]
Logo(id, s, d) == [id |-> id, named |-> id, of |-> s, dataset |-> "logo", image |-> 1, digest |-> d]
Fred(d, v) == [id |-> <<"s", d, 1>>, named |-> <<"s", d, 1>>, of |-> "m", series |-> "s", date |-> d, vintage |-> v]
FinanceSource(kind, delta, rs) == [kind |-> kind, delta |-> delta, mine |-> "m", age |-> 1, rows |-> rs]
SomeSources ==
    {FinanceSource("fx", d, <<Rate(1, "a", "b"), Rate(2, "b", "c"), Rate(3, "c", "a")>>) : d \in BOOLEAN}
    \cup {FinanceSource("commodity", FALSE, <<Price(1, "spot", "none"), Price(2, "future", "all")>>),
          FinanceSource("estate", FALSE, <<Valued(1, 1, 2, TRUE), Valued(2, 2, 1, FALSE)>>),
          FinanceSource("account", TRUE, <<Balance(<<"x", "y">>)>>),
          FinanceSource("position", TRUE, <<Holding("m", "m", "x"), Holding("m", "m", "y")>>),
          FinanceSource("activity", TRUE, <<Activity(1, 1), Activity(2, 2)>>),
          FinanceSource("bar", TRUE, <<Bar(1, Ohlc(2, 3, 1, 2)), Bar(2, Ohlc(1, 1, 1, 1))>>),
          FinanceSource("candle", TRUE, <<Bar(1, Ohlc(2, 3, 0, 0))>>),
          FinanceSource("fred", TRUE, <<Fred(1, 1), Fred(2, 1)>>),
          FinanceSource("logo", TRUE, <<Logo(1, "m", 1), Logo(2, "m", 1)>>)}
SourceEdits ==
    [fx |-> {Rate(1, "a", "a"), Rate(4, "a", "b"), Rate(3, "a", "b")},
     commodity |-> {Price(2, "future", "some"), Price(2, "spot", "none"), Price(1, "spot", "all")},
     estate |-> {Valued(1, 1, 1, FALSE), Valued(3, 3, 0, FALSE), Valued(1, 4, 0, FALSE)},
     account |-> {Balance(<<"x", "x">>), Balance(<<>>)},
     position |-> {Holding("m", "n", "x"), Holding("n", "m", "x"), Holding("m", "m", "x")},
     activity |-> {Activity(1, 2), Activity(2, 2), Activity(3, 3)},
     bar |-> {Bar(1, Ohlc(3, 2, 1, 2)), Bar(3, Ohlc(1, 1, 0, 1)), Bar(2, Ohlc(1, 2, 2, 2))},
     candle |-> {Bar(1, Ohlc(0, 1, -1, 0)), Bar(2, Ohlc(1, 2, 0, 2))},
     fred |-> {Fred(1, 2), Fred(3, 1)},
     logo |-> {Logo(1, "n", 1), Logo(1, "m", 2), Logo(3, "m", 1)}]
To(h, f) == [header |-> h, field |-> f]
Csv(hs, m, rs) == [headers |-> hs, mapping |-> m, rows |-> rs]
SomeFiles ==
    LET row == [A |-> 1, B |-> 2, C |-> 0]
    IN  {Csv(<<"A", "B", "C">>, m, <<row, row>>) :
           m \in {<<To("A", "amount"), To("B", "currency")>>, <<To("A", "amount"), To("C", "currency")>>,
                  <<To("A", "amount"), To("B", "currency"), To("C", "amount")>>,
                  <<To("B", "currency")>>}}
        \cup {Csv(<<"A", "B", "B">>, <<To("A", "amount"), To("B", "currency")>>, <<row>>)}

SomeAlerts == {[price |-> 1, above |-> TRUE], [price |-> 0, above |-> FALSE]}

TwoWatches == <<{"x"}, {"x", "y"}>>

\* A field of three schemas, and one that comes or goes.
DriftFields ==
    [{"a"} -> {<<"text", 0>>, <<"text", 1>>, <<"number", 0>>}]
      \cup [{"a", "b"} -> {<<"text", 0>>}] \cup [{"b"} -> {<<"text", 0>>}]
DriftPages ==
    UNION {{[field |-> f, required |-> r, ids |-> i] :
                r \in SUBSET DOMAIN f, i \in SUBSET ({"a"} \cap DOMAIN f)} : f \in DriftFields}
DriftContracts ==
    {c \in DriftPages : c.field = [f \in {"a"} |-> <<"text", 0>>] /\ c.required = c.ids}

\* Cycles of one, two and three stages, a dependency named twice, and an unknown one.
StageIds == {<<1, 2, 3>>, <<1, 2, 1>>}
StageDeps == {<< >>, <<1>>, <<2>>, <<3>>, <<1, 2>>, <<3, 1>>, <<2, 2>>, <<4>>}

Git ==
    INSTANCE GitDocuments WITH
        Paths <- {"a", "b"}, Pack <- {"a", "b"}, Texts <- {"x", "y"},
        Governed <- {"y"}, MaxFaults <- 1, MaxCommits <- 3, MaxRewrites <- 1,
        engine <- x1, cursor <- x2, run <- x3, refused <- x4, faults <- x5,
        commits <- x6, head <- x7, known <- x8, rewrites <- x9, relisted <- x10

File ==
    INSTANCE FileDocuments WITH
        Paths <- {"a", "b"}, Order <- <<"a", "b">>, Texts <- {"x", "y"},
        Governed <- {"y"}, MaxFaults <- 1, MaxTime <- 2, MaxEdits <- 3,
        engine <- x1, cursor <- x2, run <- x3, refused <- x4, faults <- x5,
        clock <- x6, file <- x7, todo <- x8, newest <- x9, seen <- x10,
        raced <- x11, edits <- x12

Snapshots ==
    INSTANCE SnapshotSources WITH
        Nodes <- {"r", "c", "d", "s"}, Children <- Nested,
        Seeds <- <<<<"r">>, <<"s">>>>, Contents <- {"x"}, MaxSnapshotEntities <- 2,
        MaxDepth <- 2, AllowEmpty <- FALSE, MaxSnapshotEdits <- 3, MaxChanges <- 1,
        MaxFaults <- 1, Sources <- SomeGraphs, Kinds <- SomeKinds,
        Fallbacks <- SomeFallbacks, Partial <- {"b"}, Errors <- SUBSET {"a", "b"},
        MaxFallbacks <- 1, MaxPages <- 2, MaxGraphEntities <- 4, MaxDocuments <- 2,
        MaxBytes <- 3, MaxGraphEdits <- 1,
        snapshotSource <- x1, snapshotProfile <- x2, checkpoint <- x3, poll <- x4,
        snapshotBatch <- x5, engine <- x6, forgotten <- x7, last <- x8,
        snapshotEdits <- x9, changes <- x10, faults <- x11, graphSource <- x1,
        graphEdits <- x2, graphProfile <- x3, read <- x4, graphBatch <- x5,
        posts <- x6, Paths <- {"a", "b", "c", "d"}, SizeOf <- FileSizes,
        Cursors <- {1, 2}, Refs <- <<1, 2, 1>>, PageSize <- 2, MaxFiles <- 2,
        MaxBatchBytes <- 3, MaxFileBytes <- 3, repositoryCall <- x1,
        repositoryStep <- x2, tree <- x3, repositoryCursor <- x4, seen_cursors <- x5,
        pages <- x6, seen_paths <- x7, pageFiles <- x8, manifest <- x9,
        batcher <- x10, ready <- x11, batches <- x12, indexed <- x13, walked <- x14,
        result <- x15

Web ==
    INSTANCE WebSources WITH
        Urls <- {"base", "a", "b", "d", "p", "q"}, Base <- "base",
        Sites <- SomeSites, MaxDepth <- 3, MaxPages <- 2, FrontierLimit <- 5,
        MaxCrawlFaults <- 1, MaxCrawls <- 2, Tasks <- {1, 2, 3},
        OriginOf <- <<"a", "a", "b">>, DomainOf <- "a" :> "d" @@ "b" :> "d",
        Interval <- 2, Ttl <- 1, MaxTime <- 3, MaxPolicyEdits <- 1,
        MaxPolicyFaults <- 1, Lists <- {<<>>, <<"a", "b">>, <<"a", "b", "c">>,
        <<"b", "a">>}, MaxSweepEdits <- 2, MaxSweepFaults <- 2,
        crawlSite <- x1, crawlSaved <- x2, polling <- x3, crawlQueue <- x4,
        visited <- x5, fetched <- x6, documents <- x7, emitted <- x8, skipped <- x9,
        finished <- x10, crawls <- x11, crawlFaults <- x12, now <- x1,
        policySite <- x2, task <- x3, rules <- x4, asking <- x5, next <- x6,
        policyQueue <- x7, left <- x8, arrived <- x9, policyEdits <- x10,
        policyFaults <- x11, urls <- x1, serves <- x2, sweepSaved <- x3, page <- x4,
        engine <- x5, legacy <- x6, sweepEdits <- x7, sweepFaults <- x8

Paged ==
    INSTANCE SourceSync WITH
        Runs <- {i1}, Records <- {r1, r2, r3}, Sweeps <- 2,
        Listing0 <- TwoPagedSweeps, Stamp0 <- r1 :> 1 @@ r2 :> 2 @@ r3 :> 3,
        TextOf <- FixedWidth, Incremental <- FALSE, Ascending <- FALSE,
        Paged <- TRUE, PageSize <- 2, ParentPages <- 2, Budgets <- Mixed,
        BatchSize <- 2, MaxDigests <- 2, MaxTouches <- 1, MaxFaults <- 1,
        content <- x1, stamp <- x2, listing <- x3, kv <- x4, current <- x5,
        accepted <- x6, run <- x7, faults <- x8, ever <- x9, untouched <- x10

Polled ==
    INSTANCE PolledSources WITH
        Feeds <- {"f", "g"}, Entries <- {1, 2, 3}, FeedOf <- <<"f", "f", "g">>,
        Undated <- {2}, SeenCap <- 2, MaxFeedTime <- 2, MaxFeedFaults <- 1,
        Records <- {1, 2, 3}, PageSize <- 2, MaxRows <- 2, MaxBatches <- 3,
        MaxRecordTime <- 3, MaxEdits <- 2, MaxRecordFaults <- 1,
        feedClock <- x1, date <- x2, gone <- x3, feedSaved <- x4, feedSweep <- x5,
        emitted <- x6, again <- x7, raced <- x8, evicted <- x9, shown <- x10,
        feedFaults <- x11, kind <- x1, bound <- x2, row <- x3, recordClock <- x4,
        edits <- x5, recordSaved <- x6, run <- x7, engine <- x8, recordSweep <- x9,
        late <- x10, repeats <- x11, recordFaults <- x12

Events ==
    INSTANCE EventFeed WITH
        Tasks <- {1, 2}, Payloads <- {0, 1}, PageSize <- 2, MaxPages <- 2,
        MaxEntries <- 2, MaxLog <- 3, MaxFaults <- 1,
        log <- x1, engine <- x2, tracker <- x3, extracting <- x4, pending <- x5,
        task <- x6, flight <- x7, faults <- x8

\* A shorter log, and faults that follow one another.
Outage ==
    INSTANCE EventFeed WITH
        Tasks <- {1, 2}, Payloads <- {0, 1}, PageSize <- 2, MaxPages <- 2,
        MaxEntries <- 2, MaxLog <- 2, MaxFaults <- 2,
        log <- x1, engine <- x2, tracker <- x3, extracting <- x4, pending <- x5,
        task <- x6, flight <- x7, faults <- x8

Tools ==
    INSTANCE ToolSource WITH
        Records <- {1, 2, 3}, ParentOf <- <<1, 1, 2>>, PageSize <- 2, MaxPages <- 2,
        MaxFanOut <- 2, MaxTouches <- 2, MaxEdits <- 1, MaxFaults <- 1,
        source <- x1, engine <- x2, fan_values <- x3, task <- x4, flight <- x5,
        report <- x6, lost <- x7, moved <- x8, edits <- x9, faults <- x10

Transport ==
    INSTANCE SourceTransport WITH
        Urls <- SomeUrls, Private <- {"b"}, Redirectable <- {"b", "x2"},
        Literal <- {"x2"}, Answers <- {<<>>, <<"x1">>, <<"x2">>, <<"x1", "x3">>},
        KindOf <- "x1" :> "public" @@ "x2" :> "private" @@ "x3" :> "metadata",
        MaxRedirects <- 2, MaxBytes <- 2, Chunks <- {1, 2}, Consumers <- {1, 2},
        MaxTotal <- 4, Sizes <- {1, 2}, ItemLimits <- {0, 3, 9},
        PageLimits <- {2, 9}, MaxPageFaults <- 1, Threads <- {1, 2},
        Kinds <- {"oauth2", "api_key"}, MaxObjects <- 2, MaxTokens <- 4,
        MaxCredentialFaults <- 2,
        call <- x1, dns <- x2, fetchStep <- x3, current <- x4, hop <- x5, pin <- x6,
        body <- x7, tls <- x8, result <- x9, sent <- x10, mode <- x1, total <- x2,
        size <- x3, sized <- x4, limits <- x5, base <- x6, lock <- x7, owner <- x8,
        walk <- x9, consumer <- x10, last <- x11, pageFaults <- x12,
        descriptor <- x1, cached <- x2, object <- x3, readable <- x4, newest <- x5,
        expired <- x6, thread <- x7, holder <- x8, given <- x9, reused <- x10,
        credentialFaults <- x11

Reads ==
    INSTANCE FileReads WITH
        Downloads <- {1, 2},
        Bodies <- {<<"a", "b">>, <<"b">>, <<>>, <<"a", "b", "c">>},
        Readable <- {<<"a", "b">>, <<"a">>}, MaxBytes <- 2, Attempts <- 2,
        MaxPaperFaults <- 1, Files <- <<"a", "b", "a">>, MaxTasks <- 2,
        MaxWorkspaceEdits <- 1, MaxWorkspaceFaults <- 2, Exports <- SomeExports,
        Sizes <- {1, 2, 3}, MaxExportEdits <- 2, MaxWalks <- 1,
        paperCall <- x1, inode <- x2, temps <- x3, linked <- x4, worker <- x5,
        damaged <- x6, crashed <- x7, paperFaults <- x8, content <- x1, task <- x2,
        process <- x3, wait <- x4, workspaceCall <- x5, outcome <- x6,
        workspaceEdits <- x7, workspaceFaults <- x8, file <- x1, vocabulary <- x2,
        walk <- x3, walks <- x4, exportEdits <- x5

Live ==
    INSTANCE LiveStreams WITH
        Publishers <- {1, 2}, Listener <- 1, Subscribers <- {"s", "t"},
        Topics <- {"a", "b"}, Patterns <- {"a", "*"},
        Matching <- {<<"a", "a">>, <<"*", "a">>, <<"*", "b">>}, MaxHistory <- 1,
        MaxMessages <- 2, MaxBusChanges <- 3, Tasks <- {1, 2}, Prices <- {-1, 2},
        Sizes <- {1, 2}, MaxTicks <- 3, MaxTime <- 1, Alerts <- SomeAlerts,
        Watches <- TwoWatches, Resources <- {"x", "y"}, MaxListenChanges <- 3,
        table <- x1, lists <- x2, history <- x3, number <- x4, pub <- x5,
        link <- x6, got <- x7, changes <- x8, now <- x1, count <- x2, aggs <- x3,
        alerts <- x4, task <- x5, running <- x6, log <- x7, streams <- x1,
        listening <- x2, previous <- x3, opened <- x4, phase <- x5, pending <- x6,
        taken <- x7, announced <- x8

Vendor ==
    INSTANCE VendorSources WITH
        Ids <- {1, 2}, MaxRows <- 2, MaxEvents <- 1,
        Threads <- {1, 2}, Bases <- {"a", "b"}, CacheSize <- 1, MaxVersions <- 2,
        MaxCalls <- 3,
        plan <- x1, at <- x2, parents <- x3, source <- x4, page <- x5,
        entities <- x6, links <- x7, result <- x8, always <- x9, ever <- x10,
        failed <- x11, events <- x12, served <- x1, tagged <- x2, cache <- x3,
        call <- x4, last <- x5, calls <- x6

Pipeline ==
    INSTANCE TablePipeline WITH
        CleanTables <- SomeTables, Plans <- SomePlans, Registries <- SomeModels,
        Canonical <- CanonicalNames, Width <- CellWidth, CleanNull <- None,
        ProfileTables <- ProfiledTables, LimitSets <- SomeLimits,
        Selectors <- {{1}, {2}, {1, 2}, None}, ProfileNull <- None,
        cleanTable <- x1, plan <- x2, pipe <- x3, registry <- x4, models <- x5,
        run <- x6, first <- x7, profileTable <- x1, request <- x2, scan <- x3,
        result <- x4, reference <- x5

Provider ==
    INSTANCE DataProviders WITH
        Policies <- SomeStreams, Answers <- StreamAnswers, MaxReleases <- 2,
        Sources <- SomeSources, Edits <- SourceEdits, Files <- SomeFiles,
        Required <- {"amount", "currency"}, Currencies <- {2}, PageSize <- 2,
        MaxPages <- 2, MaxEdits <- 1,
        policy <- x1, allowed <- x2, call <- x3, streamPage <- x4, saved <- x5,
        taken <- x6, releases <- x7, source <- x1, financeRows <- x2, at <- x3,
        engine <- x4, pages <- x5, sweep <- x6, report <- x7, imported <- x8,
        edits <- x9

Contracts ==
    INSTANCE StreamContracts WITH
        Strategies <- {"offset", "keyset", "window", "high"}, PageSize <- 2,
        Window <- 3, MaxKey <- 4, MaxCursorSyncs <- 2, Configured <- DriftContracts,
        Observed <- DriftPages, MaxDriftSyncs <- 2, MaxPages <- 1, Ids <- StageIds,
        Dependencies <- StageDeps, Workers <- {"w1", "w2"}, Jobs <- {"j1", "j2"},
        MaxClaims <- 3,
        strategy <- x1, source <- x2, now <- x3, accepted <- x4, cursor <- x5,
        cursorPhase <- x6, cursorPage <- x7, cursorSyncs <- x8,
        cursorCommitted <- x9, present <- x10, removed <- x11, slipped <- x12,
        ended <- x13, configured <- x1, contract <- x2, policy <- x3,
        driftPhase <- x4, driftPage <- x5, pages <- x6, driftSyncs <- x7,
        report <- x8, paused <- x9, submitted <- x10, begun <- x11, stages <- x1,
        edges <- x2, ready <- x3, seen <- x4, verdict <- x5, queue <- x1,
        holder <- x2, pc <- x3, job <- x4, stop <- x5, claims <- x6, returned <- x7,
        jobCommitted <- x8, left <- x9

\* The variables after the first k.
After5 == <<x6, x7, x8, x9, x10, x11, x12, x13, x14, x15>>
After6 == <<x7, x8, x9, x10, x11, x12, x13, x14, x15>>
After7 == <<x8, x9, x10, x11, x12, x13, x14, x15>>
After8 == <<x9, x10, x11, x12, x13, x14, x15>>
After9 == <<x10, x11, x12, x13, x14, x15>>
After10 == <<x11, x12, x13, x14, x15>>
After11 == <<x12, x13, x14, x15>>
After12 == <<x13, x14, x15>>
After13 == <<x14, x15>>

Unused13 ==
    x14 = None /\ x15 = None
Unused12 ==
    x13 = None /\ Unused13
Unused11 ==
    x12 = None /\ Unused12
Unused10 ==
    x11 = None /\ Unused11
Unused9 ==
    x10 = None /\ Unused10
Unused8 ==
    x9 = None /\ Unused9
Unused7 ==
    x8 = None /\ Unused8
Unused6 ==
    x7 = None /\ Unused7
Unused5 ==
    x6 = None /\ Unused6

Init ==
    \/ part = "git" /\ Git!Init /\ Unused10
    \/ part = "file" /\ File!Init /\ Unused12
    \/ part = "snapshot" /\ Snapshots!SnapshotInit /\ Unused11
    \/ part = "web" /\ Web!CrawlInit /\ Unused12
    \/ part = "paged" /\ Paged!Init /\ Unused10
    \/ part = "feed" /\ Polled!FeedInit /\ Unused11
    \/ part = "events" /\ Events!Init /\ Unused8
    \/ part = "outage" /\ Outage!Init /\ Unused8
    \/ part = "tools" /\ Tools!Init /\ Unused10
    \/ part = "repository" /\ Snapshots!RepositoryInit
    \/ part = "fetch" /\ Transport!FetchInit /\ Unused10
    \/ part = "pages" /\ Transport!PageInit /\ Unused12
    \/ part = "records" /\ Polled!RecordInit /\ Unused12
    \/ part = "download" /\ Reads!PaperInit /\ Unused8
    \/ part = "credential" /\ Transport!CredentialInit /\ Unused11
    \/ part = "policy" /\ Web!PolicyInit /\ Unused11
    \/ part = "workspace" /\ Reads!WorkspaceInit /\ Unused8
    \/ part = "sweep" /\ Web!SweepInit /\ Unused8
    \/ part = "export" /\ Reads!ExportInit /\ Unused5
    \/ part = "bus" /\ Live!BusInit /\ Unused8
    \/ part = "vendor" /\ Vendor!VendorInit /\ Unused12
    \/ part = "card" /\ Vendor!CardInit /\ Unused6
    \/ part = "graphql" /\ Snapshots!GraphInit /\ Unused6
    \/ part = "clean" /\ Pipeline!CleanInit /\ Unused7
    \/ part = "profile" /\ Pipeline!ProfileInit /\ Unused5
    \/ part = "streams" /\ Provider!StreamInit /\ Unused7
    \/ part = "finance" /\ Provider!FinanceInit /\ Unused9
    \/ part = "market" /\ Live!MarketInit /\ Unused7
    \/ part = "listen" /\ Live!ListenInit /\ Unused8
    \/ part = "cursor" /\ Contracts!CursorInit /\ Unused13
    \/ part = "drift" /\ Contracts!DriftInit /\ Unused11
    \/ part = "stages" /\ Contracts!StageInit /\ Unused5
    \/ part = "jobs" /\ Contracts!JobInit /\ Unused9

Next ==
    \/ part = "git" /\ Git!Next /\ UNCHANGED <<part, After10>>
    \/ part = "file" /\ File!Next /\ UNCHANGED <<part, After12>>
    \/ part = "snapshot" /\ Snapshots!SnapshotNext /\ UNCHANGED <<part, After11>>
    \/ part = "web" /\ Web!CrawlNext /\ UNCHANGED <<part, After12>>
    \/ part = "paged" /\ Paged!Next /\ UNCHANGED <<part, After10>>
    \/ part = "feed" /\ Polled!FeedNext /\ UNCHANGED <<part, After11>>
    \/ part = "events" /\ Events!Next /\ UNCHANGED <<part, After8>>
    \/ part = "outage" /\ Outage!Next /\ UNCHANGED <<part, After8>>
    \/ part = "tools" /\ Tools!Next /\ UNCHANGED <<part, After10>>
    \/ part = "repository" /\ Snapshots!RepositoryNext /\ UNCHANGED part
    \/ part = "fetch" /\ Transport!FetchNext /\ UNCHANGED <<part, After10>>
    \/ part = "pages" /\ Transport!PageNext /\ UNCHANGED <<part, After12>>
    \/ part = "records" /\ Polled!RecordNext /\ UNCHANGED <<part, After12>>
    \/ part = "download" /\ Reads!PaperNext /\ UNCHANGED <<part, After8>>
    \/ part = "credential" /\ Transport!CredentialNext /\ UNCHANGED <<part, After11>>
    \/ part = "policy" /\ Web!PolicyNext /\ UNCHANGED <<part, After11>>
    \/ part = "workspace" /\ Reads!WorkspaceNext /\ UNCHANGED <<part, After8>>
    \/ part = "sweep" /\ Web!SweepNext /\ UNCHANGED <<part, After8>>
    \/ part = "export" /\ Reads!ExportNext /\ UNCHANGED <<part, After5>>
    \/ part = "bus" /\ Live!BusNext /\ UNCHANGED <<part, After8>>
    \/ part = "vendor" /\ Vendor!VendorNext /\ UNCHANGED <<part, After12>>
    \/ part = "card" /\ Vendor!CardNext /\ UNCHANGED <<part, After6>>
    \/ part = "graphql" /\ Snapshots!GraphNext /\ UNCHANGED <<part, After6>>
    \/ part = "clean" /\ Pipeline!CleanNext /\ UNCHANGED <<part, After7>>
    \/ part = "profile" /\ Pipeline!ProfileNext /\ UNCHANGED <<part, After5>>
    \/ part = "streams" /\ Provider!StreamNext /\ UNCHANGED <<part, After7>>
    \/ part = "finance" /\ Provider!FinanceNext /\ UNCHANGED <<part, After9>>
    \/ part = "market" /\ Live!MarketNext /\ UNCHANGED <<part, After7>>
    \/ part = "listen" /\ Live!ListenNext /\ UNCHANGED <<part, After8>>
    \/ part = "cursor" /\ Contracts!CursorNext /\ UNCHANGED <<part, After13>>
    \/ part = "drift" /\ Contracts!DriftNext /\ UNCHANGED <<part, After11>>
    \/ part = "stages" /\ Contracts!StageNext /\ UNCHANGED <<part, After5>>
    \/ part = "jobs" /\ Contracts!JobNext /\ UNCHANGED <<part, After9>>

vars == <<part, x1, x2, x3, x4, x5, x6, x7, x8, x9, x10, x11, x12, x13, x14, x15>>
Spec == Init /\ [][Next]_vars

--------------------------------------------------------------------------------
(* Properties, as the modules state them. *)

\* Every part keeps its types: the crawl frontier stays within its limit.
TypeOK ==
    /\ part = "git" => Git!TypeOK
    /\ part = "file" => File!TypeOK
    /\ part = "snapshot" => Snapshots!SnapshotTypeOK
    /\ part = "web" => Web!CrawlTypeOK
    /\ part = "feed" => Polled!FeedTypeOK
    /\ part = "events" => Events!TypeOK
    /\ part = "outage" => Outage!TypeOK
    /\ part = "tools" => Tools!TypeOK
    /\ part = "repository" => Snapshots!RepositoryTypeOK
    /\ part = "fetch" => Transport!FetchTypeOK
    /\ part = "pages" => Transport!PageTypeOK
    /\ part = "records" => Polled!RecordTypeOK
    /\ part = "download" => Reads!PaperTypeOK
    /\ part = "credential" => Transport!CredentialTypeOK
    /\ part = "policy" => Web!PolicyTypeOK
    /\ part = "workspace" => Reads!WorkspaceTypeOK
    /\ part = "sweep" => Web!SweepTypeOK
    /\ part = "export" => Reads!ExportTypeOK
    /\ part = "bus" => Live!BusTypeOK
    /\ part = "vendor" => Vendor!VendorTypeOK
    /\ part = "card" => Vendor!CardTypeOK
    /\ part = "graphql" => Snapshots!GraphTypeOK
    /\ part = "clean" => Pipeline!CleanTypeOK
    /\ part = "profile" => Pipeline!ProfileTypeOK
    /\ part = "streams" => Provider!StreamTypeOK
    /\ part = "finance" => Provider!FinanceTypeOK
    /\ part = "market" => Live!MarketTypeOK
    /\ part = "listen" => Live!ListenTypeOK
    /\ part = "cursor" => Contracts!CursorTypeOK
    /\ part = "drift" => Contracts!DriftTypeOK
    /\ part = "stages" => Contracts!StageTypeOK
    /\ part = "jobs" => Contracts!JobTypeOK

\* Documents: where nothing was refused and no cursor lost the engine holds the
\* git pack, and the cursor of the file source hides no file the engine has not
\* got.  The strategies of a stream's cursor pass over no record that was there
\* all along.
CursorsHideNothing ==
    /\ part = "git" => Git!PackIsMirrored
    /\ part = "file" => File!CursorHidesNothing
    /\ part = "cursor" => Contracts!SyncReadsAll

\* After an authoritative snapshot the engine holds exactly what the source
\* showed, and a node is withdrawn once.  The receipt of a repository snapshot has
\* every file of its manifest in one batch within the limits, the engine has
\* nothing that the manifest lacks, and no provider can keep a walk going.  A
\* downloaded paper is under its digest only once it is whole, whatever an
\* abandoned thread still writes, and no temporary file stays.  A workspace file
\* is ok only with the bytes its manifest declares, and no parser process outlives
\* the call.  The pages of a bookmark export are of one file, and together have
\* each of its ids once.  The change set of a vendor extractor has every record
\* that was there throughout and could be read, and its relationships end where
\* they should.  An agent card is the one its server had during the call.  A
\* GraphQL batch that counts nothing dropped is whole, and its links end in it.  A
\* cleaned table is its input, every row accounted for.  A profile is of the table
\* asked for and tells no rare value.  A page is submitted if it reads as one of
\* its stream's contract, and only then.  Stages are accepted if they can be put
\* in order, and only then.
SnapshotIsExact ==
    /\ part = "snapshot" => Snapshots!SnapshotIsExact /\ Snapshots!WithdrawnOnce
    /\ part = "repository" => /\ Snapshots!ReceiptIsComplete
                              /\ Snapshots!OnlyListed
                              /\ Snapshots!WalkIsBounded
    /\ part = "download" => Reads!ArtifactIsWhole /\ Reads!LeavesNothing
    /\ part = "workspace" => Reads!ProcessesEnd /\ Reads!OutcomesAreTrue
    /\ part = "export" => Reads!ExportIsExact
    /\ part = "vendor" => Vendor!EntitiesAreExact /\ Vendor!LinksAreExplained
    /\ part = "card" => Vendor!CardsAreCurrent
    /\ part = "graphql" => /\ Snapshots!BatchIsWhole
                           /\ Snapshots!BatchIsClosed
                           /\ Snapshots!RequestsAreBounded
    /\ part = "clean" => /\ Pipeline!AccountingHolds
                         /\ Pipeline!RowsAreTheInputs
                         /\ Pipeline!ModesAgree
    /\ part = "profile" => /\ Pipeline!RareIsHidden
                           /\ Pipeline!ProfileIsAsAsked
                           /\ Pipeline!CutsAreTold
    /\ part = "drift" => Contracts!DriftIsExact /\ Contracts!PausedIsQuiet
    /\ part = "stages" => Contracts!VerdictIsExact

\* A finished crawl has visited exactly the pages within its depth, every entry of a
\* feed that a complete poll listed was emitted, and neither a page nor, while the
\* seen ids fit their cap, an entry is emitted twice.
ListedIsEmitted ==
    /\ part = "web" => Web!CrawlIsExact /\ Web!EmittedOnce
    /\ part = "feed" => Polled!ListedIsEmitted /\ Polled!NeverAgain

\* A fetch goes only to hosts and addresses that were approved for its hop, sends its
\* credentials only to the origin they are for, never falls back to http, writes once
\* and gives its TLS profile back, through redirects and names that change.
\* The credential of a source follows its descriptor and is refreshed by one thread at a
\* time; a token known to have expired is given only if its refresh failed (materialize
\* keeps the old header then, although the class says that "a failed refresh
\* contributes no header").  Pages are judged by fresh robots rules and
\* fetched in turn, at least the interval apart.
FetchesAreApproved ==
    /\ part = "fetch" => Transport!RequestsAreApproved /\ Transport!CallsAreClean
    /\ part = "credential" => /\ Transport!RefreshIsOnce
                              /\ Transport!GivenIsCurrent
                              /\ Transport!CachedIsCurrent
    /\ part = "policy" => Web!Spaced /\ Web!RulesAreFresh

\* A declared source: a run that completed has covered what was listed throughout,
\* the engine holds nothing older than the checkpoint vouches for, and no run reads
\* more pages or records than its budget.
CompletedRunCovers ==
    part = "paged" => /\ Paged!CompletedRunCovers
                      /\ Paged!EngineNotOlder
                      /\ Paged!WithinBudget

\* An event feed: whatever a page listed that the checkpoint moved past is
\* accepted with its payload, nothing behind the watermark or the position is
\* missing, only accepted events suppress redeliveries, and the adapter is busy
\* only for a task that will finish its page.  A message of the stream bus reaches
\* those subscribed to it throughout its publication, nobody else, and in its
\* publisher's order.  A tick is in every bar it belongs to, once.  A change of a
\* watched resource that was announced since the last stream was acknowledged is not
\* lost; one announced on the earlier stream may go with it, although watch says
\* that none published during the switch does.  A job that was
\* committed is settled, and one that is settled was done.
EventsAreKept ==
    /\ part = "events" => /\ Events!PassedIsAccepted
                          /\ Events!NothingBehind
                          /\ Events!KnownIsAccepted
                          /\ Events!BusyIsServed
    /\ part = "outage" => /\ Outage!PassedIsAccepted
                          /\ Outage!NothingBehind
                          /\ Outage!KnownIsAccepted
                          /\ Outage!BusyIsServed
    /\ part = "bus" => /\ Live!PublishReaches
                       /\ Live!OnlySubscribed
                       /\ Live!PublisherInOrder
    /\ part = "market" => Live!BarsAreTicks /\ Live!TicksAreKept
    /\ part = "listen" => Live!ChangesAreHeld
    /\ part = "jobs" => Contracts!CommitsAreSettled /\ Contracts!StopLeavesNothing

\* Sweeps.  A tool source that fans out over parents: no step lets the watermark
\* pass a record, reports as missing one that its parent lists, or takes the engine
\* back to an older record or watermark.  A sweep may pass records that changed
\* while it was under way, children of parents that came or went, and, if a session
\* that reconnected in its middle found other parents, any record: it does not then
\* resume "at the same parent".  A pagination iterator: a consumer gets the records in order and
\* once, a sweep that is not truncated has them all, and its next cursor resumes
\* where it ended. A polled record source: a sweep that ended covers what was
\* listed throughout, no row is hidden by the watermark unless it was written
\* behind it or during the poll that moved it, and none is repeated. A download gives a receipt only for an artifact that
\* is there and whole.  A sweep of the URLs of a web source that ended has read
\* every one of them.  A provider's list is served once, in order, a closed page
\* at a time.  A finance page is the source's own and taken as a whole.
SweepCovers ==
    [][/\ part = "tools" => /\ Tools!WatermarkCovers'
                            /\ Tools!MissingIsMissing'
                            /\ Tools!ForwardStep
       /\ part = "pages" => Transport!InOrder' /\ Transport!Resumable' /\ Transport!LockIsHeld'
       /\ part = "records" => /\ Polled!EndsStep
                              /\ Polled!WatermarkCovers'
                              /\ Polled!NoRepeats'
       /\ part = "download" => Reads!ReceiptStep
       /\ part = "sweep" => Web!SweptIsRead'
       /\ part = "streams" => /\ Provider!SweepIsWhole'
                              /\ Provider!PageIsAsked'
                              /\ Provider!PageIsClosed'
       /\ part = "finance" => /\ Provider!HeldIsSound'
                              /\ Provider!ReportIsExact'
                              /\ Provider!ActivitiesAreRows'
                              /\ Provider!PageStep]_vars
================================================================================
