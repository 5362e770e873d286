------------------------------ MODULE WebSources -------------------------------
(* Sources on the web: the crawl of a site, the rules and the pace its pages are fetched
   under, and the sweep of a list of URLs.

   The sections share no state: each has its own Init, Next and Spec. *)
EXTENDS Integers, Sequences, FiniteSets, SequencesExt

--------------------------------------------------------------------------------
(***************************************************************************)
(* The web source: a breadth-first crawl that fetches at most MaxPages in  *)
(* one poll and leaves the rest of its frontier in the checkpoint.  A page *)
(* that cannot be fetched is skipped.  The caller keeps a poll's documents *)
(* and checkpoint together, or neither.                                    *)
(***************************************************************************)

CONSTANTS
    Urls, Base,
    Sites,           \* functions from Urls to the links of a page, in order
    MaxDepth,        \* max_depth
    MaxPages,        \* max_pages of one poll
    FrontierLimit,   \* _FRONTIER_LIMIT
    MaxCrawlFaults,  \* bound: pages that cannot be fetched, polls that get lost
    MaxCrawls        \* bound: crawls begun

VARIABLES
    crawlSite,
    crawlSaved, \* the checkpoint: has_more, seen_ids, and the frontier of "state"
    polling,
    crawlQueue, visited, \* the frontier
    fetched,    \* pages of this poll
    documents,  \* of this poll
    emitted,    \* emitted[u]: how often the caller got u's document
    skipped,    \* a page of this crawl could not be fetched
    finished,   \* pages of the last crawl that ended, if it skipped none
    crawls, crawlFaults

frontier == <<crawlQueue, visited>>
crawlVars == <<crawlSite, crawlSaved, polling, frontier, fetched, documents, emitted, skipped,
               finished, crawls, crawlFaults>>

Frontier == [queue : Seq([url : Urls, depth : Nat]), visited : SUBSET Urls]
Fresh == [queue |-> <<[url |-> Base, depth |-> 0]>>, visited |-> {}]
Empty == [queue |-> <<>>, visited |-> {}]

CrawlTypeOK ==
    /\ crawlSite \in Sites
    /\ crawlSaved \in [more : BOOLEAN, seen : SUBSET Urls, state : Frontier, skipped : BOOLEAN]
    /\ polling \in BOOLEAN
    /\ [queue |-> crawlQueue, visited |-> visited] \in Frontier
    /\ Len(crawlQueue) <= FrontierLimit /\ Cardinality(visited) <= FrontierLimit
    /\ fetched \in 0..MaxPages /\ documents \subseteq Urls
    /\ emitted \in [Urls -> Nat]
    /\ skipped \in BOOLEAN /\ finished \subseteq Urls
    /\ crawls \in Nat /\ crawlFaults \in Nat

CrawlInit ==
    /\ crawlSite \in Sites
    /\ crawlSaved = [more |-> FALSE, seen |-> {}, state |-> Empty, skipped |-> FALSE]
    /\ polling = FALSE
    /\ crawlQueue = <<>> /\ visited = {}
    /\ fetched = 0 /\ documents = {}
    /\ emitted = [u \in Urls |-> 0]
    /\ skipped = FALSE /\ finished = {}
    /\ crawls = 0 /\ crawlFaults = 0

CrawlFault == crawlFaults < MaxCrawlFaults /\ crawlFaults' = crawlFaults + 1

--------------------------------------------------------------------------------
(* _FrontierCodec.resume *)

Resumed == IF crawlSaved.more THEN crawlSaved.state ELSE Fresh

Poll ==
    /\ ~polling /\ polling' = TRUE
    /\ crawlSaved.more \/ crawls < MaxCrawls
    /\ crawls' = IF crawlSaved.more THEN crawls ELSE crawls + 1
    /\ crawlQueue' = Resumed.queue /\ visited' = Resumed.visited
    /\ skipped' = (crawlSaved.more /\ crawlSaved.skipped)
    /\ fetched' = 0 /\ documents' = {}
    /\ UNCHANGED <<crawlSite, crawlSaved, emitted, finished, crawlFaults>>

--------------------------------------------------------------------------------
(* _FrontierRunner.drain, one page a step *)

\* Fault: the newest entry is taken first.
Newest == crawlQueue[Len(crawlQueue)]
NextEntry == Head(crawlQueue)

Others(entry) == SelectSeq(crawlQueue, LAMBDA e : e # entry)
InQueue(u) == \E i \in DOMAIN crawlQueue : crawlQueue[i].url = u

\* Links in order, each once, that are neither visited nor queued.
NewLinks(u) ==
    LET links == crawlSite[u] IN
    SelectSeq([i \in 1..Len(links) |-> IF \E j \in 1..i - 1 : links[j] = links[i]
                                       THEN u ELSE links[i]],
              LAMBDA l : l \notin visited \cup {u} /\ ~InQueue(l))

\* _enqueue_links
Enqueued(entry) ==
    IF entry.depth >= MaxDepth THEN <<>>
    ELSE [i \in 1..Len(NewLinks(entry.url)) |->
            [url |-> NewLinks(entry.url)[i], depth |-> entry.depth + 1]]

\* "web crawl frontier exceeds its bound": before the page is fetched, or while
\* its links are queued.
\* Fault: the visited pages have no bound.
Unbounded == FALSE
VisitedFull == Cardinality(visited) >= FrontierLimit
QueueFull(entry) ==
    /\ Enqueued(entry) # <<>>
    /\ Len(Others(entry)) + Len(Enqueued(entry)) > FrontierLimit

More == polling /\ crawlQueue # <<>> /\ fetched < MaxPages

Fetch ==
    /\ More /\ ~VisitedFull
    /\ LET entry == NextEntry IN
       /\ visited' = visited \cup {entry.url}
       /\ \/ /\ ~QueueFull(entry)
             /\ crawlQueue' = Others(entry) \o Enqueued(entry)
             /\ documents' = documents \cup ({entry.url} \ crawlSaved.seen)
             /\ UNCHANGED <<skipped, crawlFaults>>
          \/ /\ CrawlFault /\ skipped' = TRUE
             /\ crawlQueue' = Others(entry) /\ UNCHANGED documents
    /\ fetched' = fetched + 1
    /\ UNCHANGED <<crawlSite, crawlSaved, polling, emitted, finished, crawls>>

\* The poll raises; the caller has the checkpoint it had.
Overflow ==
    /\ More /\ (VisitedFull \/ QueueFull(NextEntry))
    /\ polling' = FALSE
    /\ UNCHANGED <<crawlSite, crawlSaved, frontier, fetched, documents, emitted, skipped,
                   finished, crawls, crawlFaults>>

--------------------------------------------------------------------------------
(* The checkpoint *)

\* Fault: only the queue is kept.
QueueOnly == [queue |-> crawlQueue, visited |-> {}]
\* _FrontierCodec.state
State == IF crawlQueue = <<>> THEN Empty ELSE [queue |-> crawlQueue, visited |-> visited]

\* Fault: the ids of this poll replace the earlier ones.
OwnIds == documents
SeenIds == crawlSaved.seen \cup documents

End ==
    /\ polling /\ ~More /\ polling' = FALSE
    /\ crawlSaved' = [more |-> crawlQueue # <<>>, seen |-> SeenIds, state |-> State,
                      skipped |-> skipped]
    /\ emitted' = [u \in Urls |-> emitted[u] + IF u \in documents THEN 1 ELSE 0]
    /\ finished' = IF crawlQueue = <<>> /\ ~skipped THEN visited ELSE finished
    /\ UNCHANGED <<crawlSite, frontier, fetched, documents, skipped, crawls, crawlFaults>>

\* The process ends before the caller has kept anything.
CrawlLose ==
    /\ polling /\ CrawlFault /\ polling' = FALSE
    /\ crawls' = IF crawlSaved.more THEN crawls ELSE crawls - 1
    /\ UNCHANGED <<crawlSite, crawlSaved, frontier, fetched, documents, emitted, skipped,
                   finished>>

CrawlNext == Poll \/ Fetch \/ Overflow \/ End \/ CrawlLose

CrawlSpec == CrawlInit /\ [][CrawlNext]_crawlVars

--------------------------------------------------------------------------------
(* Properties *)

\* The pages that a path of at most MaxDepth links leads to.
Within ==
    LET reach[d \in 0..MaxDepth] ==
          IF d = 0 THEN {Base}
          ELSE reach[d - 1] \cup
               UNION {{crawlSite[u][i] : i \in DOMAIN crawlSite[u]} : u \in reach[d - 1]}
    IN reach[MaxDepth]

\* A crawl that ends and skipped no page has visited exactly the pages within
\* MaxDepth of its base, however it was cut into polls and whatever was lost.
CrawlIsExact == finished # {} => finished = Within

\* A document is emitted once, over all polls and crawls.
EmittedOnce == \A u \in Urls : emitted[u] <= 1

--------------------------------------------------------------------------------
(* The policy of page connectors: RobotsRules asks the robots.txt of an origin once
   and keeps it, DomainRateLimiter (and RateLimiter, which has one domain) spaces
   requests.  Tasks of one event loop ask for the rules, then for their turn, then
   fetch; each may be cancelled at an await.                                       *)

CONSTANTS
    Tasks,
    OriginOf,    \* task -> the origin of its page
    DomainOf,    \* origin -> its domain
    Interval,    \* min_interval_s
    Ttl,         \* ttl_s
    MaxTime,
    MaxPolicyEdits, \* times a site changes its robots.txt
    MaxPolicyFaults, \* cancelled tasks, reads of robots.txt that are refused
    None

VARIABLES
    now,
    policySite, \* origin -> what its robots.txt says: "allow", "disallow", "broken" (5xx)
    task,      \* task -> its state
    rules,     \* origin -> the rules kept: when they expire, what they say; or None
    asking,    \* origin -> the queue at its lock, the first one holds it
    next,      \* domain -> when its next request may leave, 0 at first
    policyQueue, \* domain -> the queue at its lock
    left,      \* domain -> when its requests left, and which
    arrived,   \* domain -> tasks in the order they asked for their turn
    policyEdits, policyFaults

policyVars == <<now, policySite, task, rules, asking, next, policyQueue, left, arrived,
                policyEdits, policyFaults>>

Origins == {OriginOf[t] : t \in Tasks}
Domains == {DomainOf[o] : o \in Origins}
Origin(t) == OriginOf[t]
Domain(t) == DomainOf[OriginOf[t]]
At(t, step) == task[t].step = step
Goto(t, step) == task' = [task EXCEPT ![t].step = step]
PolicyFault == policyFaults < MaxPolicyFaults /\ policyFaults' = policyFaults + 1
Without(q, t) == SelectSeq(q, LAMBDA x : x # t)

PolicyTypeOK ==
    /\ now \in 0..MaxTime
    /\ \A t \in Tasks : task[t].step \in {"idle", "ask", "load", "turn", "sleep", "fetched",
                                          "refused", "cancelled"}
    /\ \A o \in Origins : rules[o] # None => rules[o].until <= MaxTime + Ttl
    /\ \A d \in Domains : next[d] <= MaxTime + Interval

PolicyInit ==
    /\ now = 0
    /\ policySite \in [Origins -> {"allow", "disallow"}]
    /\ task = [t \in Tasks |-> [step |-> "idle", until |-> 0, age |-> None]]
    /\ rules = [o \in Origins |-> None]
    /\ asking = [o \in Origins |-> <<>>]
    /\ next = [d \in Domains |-> 0]
    /\ policyQueue = [d \in Domains |-> <<>>]
    /\ left = [d \in Domains |-> <<>>]
    /\ arrived = [d \in Domains |-> <<>>]
    /\ policyEdits = 0 /\ policyFaults = 0

--------------------------------------------------------------------------------
(* RobotsRules.allowed *)

\* Fault: rules are kept for ever.
KnownAtAll(o) == rules[o] # None
Current(o) == rules[o] # None /\ rules[o].until >= now

\* can_fetch: the task goes on to its turn, or is refused.
Judge(t, said, age) ==
    /\ task' = [task EXCEPT ![t].step = IF said = "allow" THEN "turn" ELSE "refused",
                            ![t].age = age]
    /\ IF said = "allow"
       THEN /\ policyQueue' = [policyQueue EXCEPT ![Domain(t)] = Append(@, t)]
            /\ arrived' = [arrived EXCEPT ![Domain(t)] = Append(@, t)]
       ELSE UNCHANGED <<policyQueue, arrived>>

\* Rules that are current need no lock; otherwise the task queues at the origin's.
Allowed(t) ==
    /\ At(t, "idle")
    /\ \/ Current(Origin(t)) /\ Judge(t, rules[Origin(t)].says,
                                      now - rules[Origin(t)].at) /\ UNCHANGED asking
       \/ /\ ~Current(Origin(t)) /\ Goto(t, "ask")
          /\ asking' = [asking EXCEPT ![Origin(t)] = Append(@, t)]
          /\ UNCHANGED <<policyQueue, arrived>>
    /\ UNCHANGED <<now, policySite, rules, next, left, policyEdits, policyFaults>>

\* Fault: what another task has read while this one waited is read again.
ReadAgain(o) == FALSE
ReadMeanwhile(o) == Current(o)

Locked(t) ==
    /\ At(t, "ask") /\ Head(asking[Origin(t)]) = t
    /\ \/ /\ ReadMeanwhile(Origin(t)) /\ Judge(t, rules[Origin(t)].says,
                                               now - rules[Origin(t)].at)
          /\ asking' = [asking EXCEPT ![Origin(t)] = Tail(@)]
       \/ /\ ~ReadMeanwhile(Origin(t)) /\ Goto(t, "load")
          /\ UNCHANGED <<asking, policyQueue, arrived>>
    /\ UNCHANGED <<now, policySite, rules, next, left, policyEdits, policyFaults>>

\* _load: 4xx allows, 5xx and a read that fails disallow until the entry expires.
Loaded(t) ==
    /\ At(t, "load")
    /\ \E says \in {policySite[Origin(t)], "broken"} :
         /\ IF says # policySite[Origin(t)] THEN PolicyFault ELSE UNCHANGED policyFaults
         /\ rules' = [rules EXCEPT ![Origin(t)] = [until |-> now + Ttl, says |-> says,
                                                   at |-> now]]
         /\ Judge(t, says, 0)
    /\ asking' = [asking EXCEPT ![Origin(t)] = Tail(@)]
    /\ UNCHANGED <<now, policySite, next, left, policyEdits>>

\* The loader is refused by the egress policy: nothing is kept.
NotLoaded(t) ==
    /\ At(t, "load") /\ PolicyFault /\ Goto(t, "refused")
    /\ asking' = [asking EXCEPT ![Origin(t)] = Tail(@)]
    /\ UNCHANGED <<now, policySite, rules, next, policyQueue, left, arrived, policyEdits>>

--------------------------------------------------------------------------------
(* DomainRateLimiter.acquire *)

Leave(t) ==
    /\ Goto(t, "fetched")
    /\ next' = [next EXCEPT ![Domain(t)] = now + Interval]
    /\ left' = [left EXCEPT ![Domain(t)] = Append(@, <<now, t>>)]
    /\ policyQueue' = [policyQueue EXCEPT ![Domain(t)] = Tail(@)]

\* Fault: the lock is given up while its holder sleeps.
Jump(t) == t \in Range(policyQueue[Domain(t)])
First(t) == Head(policyQueue[Domain(t)]) = t

Acquire(t) ==
    /\ At(t, "turn") /\ First(t)
    /\ \/ next[Domain(t)] <= now /\ Leave(t)
       \/ /\ next[Domain(t)] > now
          /\ task' = [task EXCEPT ![t].step = "sleep", ![t].until = next[Domain(t)]]
          /\ UNCHANGED <<next, left, policyQueue>>
    /\ UNCHANGED <<now, policySite, rules, asking, arrived, policyEdits, policyFaults>>

Wake(t) ==
    /\ At(t, "sleep") /\ now >= task[t].until
    /\ Leave(t)
    /\ UNCHANGED <<now, policySite, rules, asking, arrived, policyEdits, policyFaults>>

--------------------------------------------------------------------------------
(* Others *)

\* A task that is cancelled gives up its place in the queues.
Cancel(t) ==
    /\ task[t].step \in {"ask", "load", "turn", "sleep"} /\ PolicyFault /\ Goto(t, "cancelled")
    /\ asking' = [asking EXCEPT ![Origin(t)] = Without(@, t)]
    /\ policyQueue' = [policyQueue EXCEPT ![Domain(t)] = Without(@, t)]
    /\ arrived' = [arrived EXCEPT ![Domain(t)] = Without(@, t)]
    /\ UNCHANGED <<now, policySite, rules, next, left, policyEdits>>

Tick ==
    /\ now < MaxTime /\ now' = now + 1
    /\ UNCHANGED <<policySite, task, rules, asking, next, policyQueue, left, arrived,
                   policyEdits, policyFaults>>

Edit ==
    /\ policyEdits < MaxPolicyEdits /\ policyEdits' = policyEdits + 1
    /\ \E o \in Origins, says \in {"allow",
                                   "disallow"} : policySite' = [policySite EXCEPT ![o] = says]
    /\ UNCHANGED <<now, task, rules, asking, next, policyQueue, left, arrived, policyFaults>>

Step(t) ==
    \/ Allowed(t) \/ Locked(t) \/ Loaded(t) \/ NotLoaded(t) \/ Acquire(t) \/ Wake(t)
    \/ Cancel(t)

PolicyNext == (\E t \in Tasks : Step(t)) \/ Tick \/ Edit

PolicySpec == PolicyInit /\ [][PolicyNext]_policyVars

--------------------------------------------------------------------------------
(* Properties *)

\* Requests to a domain leave at least the interval apart and in the order in which
\* their tasks asked, whoever is cancelled while asleep.
Spaced ==
    \A d \in Domains :
        /\ \A i, j \in DOMAIN left[d] : i < j => left[d][j][1] >= left[d][i][1] + Interval
        /\ IsPrefix([i \in DOMAIN left[d] |-> left[d][i][2]], arrived[d])

\* A robots.txt is read by one task at a time and not again while the rules are
\* current; a page is judged by rules that were read at most ttl_s ago.
RulesAreFresh ==
    /\ \A t, u \in Tasks : At(t, "load") /\ At(u, "load") /\ Origin(t) = Origin(u) => t = u
    /\ \A t \in Tasks : At(t, "load") => rules[Origin(t)] = None \/ rules[Origin(t)].until < now
    /\ \A t \in Tasks : task[t].age # None => task[t].age <= Ttl

--------------------------------------------------------------------------------
(* WebFetchSourceAdapter: a list of URLs is read one page at a time through the tool
   web_extract of a connector.  The checkpoint is an index into the list with a digest
   of the list; a checkpoint of an earlier release has no digest.  A new release of
   the connector may come with another list.                                       *)

CONSTANTS
    Lists,       \* url lists a release may have: sequences of urls
    MaxSweepEdits, \* releases with another list, and changes of the connector's tools
    MaxSweepFaults  \* refused and malformed pages, pages that are not written

VARIABLES
    urls,        \* the adapter's list
    serves,      \* the connector has both contract tools
    sweepSaved,  \* the checkpoint: [index, list], or None
    page,        \* a page that is on its way to the engine, or None
    engine,      \* the urls whose page the engine has
    legacy,      \* ghost: a checkpoint without a digest was resumed under another list
    sweepEdits, sweepFaults

sweepVars == <<urls, serves, sweepSaved, page, engine, legacy, sweepEdits, sweepFaults>>

Listed(list) == {list[i] : i \in DOMAIN list}
SweepFault == sweepFaults < MaxSweepFaults /\ sweepFaults' = sweepFaults + 1

SweepTypeOK ==
    /\ urls \in Lists /\ serves \in BOOLEAN /\ legacy \in BOOLEAN
    /\ sweepSaved = None \/ (sweepSaved.list \in Lists \cup {None} /\ sweepSaved.index \in Nat)
    /\ engine \subseteq UNION {Listed(l) : l \in Lists}

\* A checkpoint that an earlier release left behind is of the first list.
SweepInit ==
    /\ urls \in Lists /\ serves = TRUE /\ page = None /\ legacy = FALSE
    /\ \/ sweepSaved = None /\ engine = {}
       \/ \E n \in 1..Len(urls) :
            /\ sweepSaved = [index |-> n, list |-> None, of |-> urls]
            /\ engine = {urls[i] : i \in 1..n}
    /\ sweepEdits = 0 /\ sweepFaults = 0

--------------------------------------------------------------------------------
(* _page_index, _next_checkpoint *)

InRange(cp) == cp.index <= Len(urls)

\* Fault: the digest is not compared.
AnyList(cp) == TRUE
SameList(cp) == cp.list \in {None, urls}

Resumable == sweepSaved # None => InRange(sweepSaved) /\ SameList(sweepSaved)
Index == IF sweepSaved = None THEN 0 ELSE sweepSaved.index

Lesser(m, n) == IF m < n THEN m ELSE n

\* Fault: a sweep that has ended moves on.
PastEnd(n) == n + 1
NextIndex(n) == Lesser(n + 1, Len(urls))

NextCheckpoint ==
    IF sweepSaved # None /\ Index = NextIndex(Index) THEN sweepSaved
    ELSE [index |-> NextIndex(Index), list |-> urls, of |-> urls]

--------------------------------------------------------------------------------
(* extract *)

\* The tools are looked at only while there is a page to read.
Extract ==
    /\ page = None /\ Resumable
    /\ Index < Len(urls) => serves
    /\ page' = [url |-> IF Index < Len(urls) THEN urls[Index + 1] ELSE None,
                checkpoint |-> NextCheckpoint,
                exhausted |-> NextIndex(Index) >= Len(urls)]
    /\ legacy' = (legacy \/ (sweepSaved # None /\ sweepSaved.list = None
                             /\ sweepSaved.of # urls))
    /\ UNCHANGED <<urls, serves, sweepSaved, engine, sweepEdits, sweepFaults>>

\* contract_uncertified, a checkpoint of another list, a refusal, an empty page or one
\* that is not what its digest says: the checkpoint stays.
Refused ==
    /\ page = None
    /\ (~Resumable \/ (Index < Len(urls) /\ (~serves \/ sweepFaults < MaxSweepFaults)))
    /\ sweepFaults' = IF Resumable /\ serves THEN sweepFaults + 1 ELSE sweepFaults
    /\ UNCHANGED <<urls, serves, sweepSaved, page, engine, legacy, sweepEdits>>

\* The engine takes the record and the checkpoint together.
Write ==
    /\ page # None /\ page' = None
    /\ sweepSaved' = page.checkpoint
    /\ engine' = engine \cup (IF page.url = None THEN {} ELSE {page.url})
    /\ UNCHANGED <<urls, serves, legacy, sweepEdits, sweepFaults>>

SweepLose ==
    /\ page # None /\ SweepFault /\ page' = None
    /\ UNCHANGED <<urls, serves, sweepSaved, engine, legacy, sweepEdits>>

--------------------------------------------------------------------------------
(* Others *)

\* The adapter of a new release starts with the checkpoint that is there.
Release ==
    /\ sweepEdits < MaxSweepEdits /\ sweepEdits' = sweepEdits + 1
    /\ urls' \in Lists \ {urls} /\ page' = None
    /\ UNCHANGED <<serves, sweepSaved, engine, legacy, sweepFaults>>

Tools ==
    /\ sweepEdits < MaxSweepEdits /\ sweepEdits' = sweepEdits + 1 /\ serves' = ~serves
    /\ UNCHANGED <<urls, sweepSaved, page, engine, legacy, sweepFaults>>

SweepNext == Extract \/ Refused \/ Write \/ SweepLose \/ Release \/ Tools

SweepSpec == SweepInit /\ [][SweepNext]_sweepVars

--------------------------------------------------------------------------------
(* Properties *)

\* Whatever releases, refusals and lost pages there were: the engine has every page of
\* the list before the index that the sweep goes on from, and the whole list when a
\* page says exhausted; unless a checkpoint without a digest met another list.
SweptIsRead ==
    ~legacy =>
        /\ (sweepSaved # None /\ sweepSaved.list = urls) =>
             \A i \in 1..sweepSaved.index : i <= Len(urls) /\ urls[i] \in engine
        /\ (page # None /\ page.exhausted) => Listed(urls) \subseteq engine \cup {page.url}
================================================================================
