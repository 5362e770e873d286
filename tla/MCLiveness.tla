------------------------------- MODULE MCLiveness -------------------------------
(* Progress of the sync runner, of declared source syncs and of the ingest stream.
   A behaviour is of one of them, chosen by the initial state; the runner's state
   stays as it was initially in a behaviour of another. *)
EXTENDS SyncRunner, TLC

CONSTANTS n1, d1, d2, r1, r2, i1, g1, w1, p1, p2, Nobody

VARIABLES
    part,
    content, stamp, listing, kv, current, run, untouched,   \* SourceSync
    flight, task, lock, writes, pass,                       \* IngestStream
    taken, failures, ever                                   \* either

\* Connector n1 has presets 1 (announced) and 2 (only scheduled).
Single == 1 :> n1 @@ 2 :> n1
\* Preset 1 gets a second page; preset 2 has more than one cycle reads.
First == 1 :> 1 @@ 2 :> 3
Lengths == 1 :> 2 @@ 2 :> 3

\* A budget that covers a source of two pages, and one that ends on its first page.
Ample == [pages |-> 5, records |-> 5]
Short == [pages |-> 5, records |-> 1]

\* A watermark over a tool that lists everything at once.
Watermark ==
    INSTANCE SourceSync WITH
        Runs <- {i1}, Records <- {r1, r2}, Sweeps <- 1, Listing0 <- <<<<r1, r2>>>>,
        Stamp0 <- r1 :> 1 @@ r2 :> 2, TextOf <- [n \in 0..6 |-> <<n>>],
        Incremental <- TRUE, Ascending <- TRUE, Paged <- FALSE, PageSize <- 2,
        ParentPages <- 0, Budgets <- {Ample}, BatchSize <- 1,
        MaxDigests <- 1, MaxTouches <- 1, MaxFaults <- 1,
        accepted <- taken, faults <- failures

\* Digests over a tool that lists page by page, for callers with either budget.
Paging ==
    INSTANCE SourceSync WITH
        Runs <- {i1}, Records <- {r1, r2}, Sweeps <- 1, Listing0 <- <<<<r1, r2>>>>,
        Stamp0 <- r1 :> 1 @@ r2 :> 2, TextOf <- [n \in 0..6 |-> <<n>>],
        Incremental <- FALSE, Ascending <- TRUE, Paged <- TRUE, PageSize <- 1,
        ParentPages <- 0, Budgets <- {Ample, Short}, BatchSize <- 1,
        MaxDigests <- 2, MaxTouches <- 1, MaxFaults <- 1,
        accepted <- taken, faults <- failures

Stream ==
    INSTANCE IngestStream WITH
        Pagers <- {g1}, Writers <- {w1}, Procs <- {p1, p2},
        ProcOf <- g1 :> p1 @@ w1 :> p2, Pages <- 3, LastEmpty <- FALSE,
        Loops <- FALSE, Submissions <- 2, MaxPages <- 2, Resume <- {TRUE},
        Attempts <- 2, MaxWrites <- 2, MaxFaults <- 1,
        accepted <- taken, faults <- failures, requests <- flight

syncVars == <<content, stamp, listing, kv, current, run, untouched>>
streamVars == <<flight, task, lock, writes, pass>>
sharedVars == <<taken, failures, ever>>
allVars == <<part, vars, syncVars, streamVars, sharedVars>>

NoSync ==
    /\ content = None /\ stamp = None /\ listing = None /\ kv = None
    /\ current = None /\ run = None /\ untouched = None
NoStream ==
    flight = None /\ task = None /\ lock = None /\ writes = None /\ pass = None
NoRunner == Init /\ registry = [n \in Connectors |-> None]

LiveInit ==
    \/ /\ part = "runner" /\ Init /\ NoSync /\ NoStream
       /\ taken = None /\ failures = None /\ ever = None
    \/ part = "watermark" /\ Watermark!Init /\ NoStream /\ NoRunner
    \/ part = "paging" /\ Paging!Init /\ NoStream /\ NoRunner
    \/ part = "stream" /\ Stream!StreamInit /\ NoSync /\ NoRunner

OfRunner(A) ==
    part = "runner" /\ A /\ UNCHANGED <<part, syncVars, streamVars, sharedVars>>
OfWatermark(A) == part = "watermark" /\ A /\ UNCHANGED <<part, vars, streamVars>>
OfPaging(A) == part = "paging" /\ A /\ UNCHANGED <<part, vars, streamVars>>
OfStream(A) == part = "stream" /\ A /\ UNCHANGED <<part, vars, syncVars>>

Served(s) == WorkerStep(n1, s) \/ Answer(n1, s)
StreamStep(t) == Stream!ReadStatus(t) \/ Stream!Send(t) \/ Stream!Engine(t)

LiveNext ==
    \/ OfRunner(Next) \/ OfWatermark(Watermark!Next) \/ OfPaging(Paging!Next)
    \/ OfStream(Stream!StreamNext)

\* The fairness of the modules.  A behaviour is of one part, so that the fairness of
\* steps of different parts together is that of each.  Of the callers of the paged
\* source, one whose budget covers it calls again and again, whatever the others do.
LiveSpec ==
    /\ LiveInit /\ [][LiveNext]_allVars
    /\ WF_allVars(\/ OfRunner(Reconcile)
                  \/ OfWatermark(Watermark!RunStep(i1)) \/ OfPaging(Paging!RunStep(i1))
                  \/ OfStream(StreamStep(g1)))
    /\ WF_allVars(\/ OfRunner(Beat)
                  \/ OfWatermark(Watermark!Start(i1, "incremental", Ample))
                  \/ OfStream(StreamStep(w1)))
    /\ WF_allVars(OfRunner(StartWorker(n1)) \/ OfStream(Stream!Fetch(g1)))
    /\ WF_allVars(OfRunner(Served(1)) \/ OfStream(Stream!StartSync(g1, TRUE)))
    /\ WF_allVars(OfRunner(Served(2)))
    /\ SF_allVars(\/ OfRunner(Borrow(n1, 1)) \/ OfStream(Stream!Acquire(g1))
                  \/ OfPaging(Paging!Start(i1, "incremental", Ample)))
    /\ SF_allVars(OfRunner(Borrow(n1, 2)) \/ OfStream(Stream!Acquire(w1)))
    /\ \A s \in Slots : /\ WF_allVars(OfRunner(Follow(n1, s) \/ Scheduled(n1, s)))
                        /\ WF_allVars(OfRunner(Unwind(n1, s)))

--------------------------------------------------------------------------------
(* Properties, as the modules state them. *)

\* Once the source stops changing and calls stop failing, every record that stays
\* listed is accepted as it is, provided that runs whose budget covers the whole
\* source keep being called: budgets that end runs part-way do no lasting harm.
\* Without that proviso it fails, see EventuallyAccepted of SourceSync.
EverythingAccepted ==
    <>[](/\ part = "watermark" => Watermark!AllAccepted
         /\ part = "paging" => Paging!AllAccepted)

\* Every page of the stream is walked in the end.
EventuallyWalked == <>(part = "stream" => Stream!AllWalked)
================================================================================
