------------------------------ MODULE MCOutbound -------------------------------
(* Calls that leave the process and calls that it serves, each module an instance of
   its own: a behaviour is of one of them, chosen by the initial state. *)
EXTENDS Integers, TLC

CONSTANTS
    cs1, cs2, k1, c1, c2, t1, t2, t3, m1, m2, m3, h1, h2, p1, p2, b1, b2, None

\* part: which of them this behaviour is of.  x1, x2, ... are its variables,
\* the ones it has no use for stay None.
VARIABLES part,
    x1, x2, x3, x4, x5, x6, x7, x8, x9, x10, x11, x12, x13, x14, x15, x16, x17

\* Two change sets reuse one idempotency key; the second was prepared against
\* the version the first one produces, so only the key stands between them.
ReusedKey == cs1 :> k1 @@ cs2 :> k1
Bases == cs1 :> 0 @@ cs2 :> 1

\* A payment that fits the day once, one that is too large, one of another currency and
\* one without an identifier.
Pay(amount, currency, named) ==
    [amount |-> amount, currency |-> currency, chain |-> "base", named |-> named]
SomeChallenges == {Pay(2, "USDC", TRUE), Pay(3, "USDC", TRUE), Pay(1, "X", TRUE),
                   Pay(1, "USDC", FALSE)}

\* Servers: one that may serve over a network, and ones that lack one thing each.
Safe == [transport |-> "http", loopback |-> FALSE, auth |-> "jwt", complete |-> TRUE,
         cert |-> TRUE, key |-> TRUE, terminated |-> FALSE, cidrs |-> FALSE,
         hosts |-> {"h"}, origins |-> {"o"}, audience |-> TRUE, override |-> FALSE]
SomeConfigs ==
    {Safe, [Safe EXCEPT !.transport = "stdio"], [Safe EXCEPT !.auth = "none"],
     [Safe EXCEPT !.auth = None], [Safe EXCEPT !.cert = FALSE, !.key = FALSE],
     [Safe EXCEPT !.auth = None, !.loopback = TRUE, !.override = TRUE],
     [Safe EXCEPT !.terminated = TRUE, !.cidrs = TRUE]}

\* Tools, a policy that shows two of them, and calls: one in order, and ones that fail
\* one of the checks each.
Tool(name, marked, token) == [name |-> name, tags |-> {}, marked |-> marked,
                              delete |-> FALSE, token |-> token, resource |-> "r1"]
SomeTools == {Tool("get", None, FALSE), Tool("delete", None, TRUE), Tool("hidden", FALSE, TRUE)}
OnlyTwo == [names |-> {"get", "delete"}, offNames |-> {}, tags |-> {}, offTags |-> {},
            rejects |-> FALSE]
Filter(names) == [query |-> FALSE, invalid |-> FALSE, names |-> names, offNames |-> {},
                  tags |-> {}, offTags |-> {}]
User == [subject |-> "u", tenant |-> "t", scopes |-> {"s"}, caps |-> {<<"k", "r1">>},
         expires |-> 1, issued |-> 0]
Get == [trusted |-> TRUE, host |-> "h", origin |-> None, length |-> None, body |-> <<1>>,
        token |-> User, query |-> Filter({}), headers |-> Filter({}), action |-> "get",
        arguments |-> 1, modern |-> TRUE]
Wipe == [Get EXCEPT !.action = "wipe"]
SomeOffers ==
    {Get, Wipe, [Wipe EXCEPT !.modern = FALSE], [Get EXCEPT !.host = "x"],
     [Get EXCEPT !.trusted = FALSE], [Get EXCEPT !.body = <<1, 2>>], [Get EXCEPT !.token = None],
     [Get EXCEPT !.token = [User EXCEPT !.subject = "v", !.scopes = {}]],
     [Wipe EXCEPT !.token = [User EXCEPT !.subject = "w", !.caps = {}]],
     [Get EXCEPT !.query = Filter({"hidden"}), !.action = "hidden"]}

\* Clients that pin their requests and one that does not, hosts with an address and
\* names, and what a name may resolve to.
Pinned == [scheme |-> "https", host |-> "api", plaintext |-> FALSE, pin |-> TRUE,
           private |-> {}, loopback |-> FALSE, proxy |-> FALSE, credentials |-> FALSE,
           attempts |-> 2, renews |-> TRUE, state |-> "new"]
SomeSettings ==
    {Pinned, [Pinned EXCEPT !.private = {"corp"}, !.host = "corp"],
     [Pinned EXCEPT !.pin = FALSE, !.proxy = TRUE], [Pinned EXCEPT !.scheme = "http"],
     [Pinned EXCEPT !.loopback = TRUE, !.scheme = "http", !.host = "x3"]}
SomeTargets ==
    {[scheme |-> "https", host |-> "api", method |-> "POST"],
     [scheme |-> "https", host |-> "corp", method |-> "GET"],
     [scheme |-> "http", host |-> "x3", method |-> "GET"]}
AddressClass == "x1" :> "public" @@ "x2" :> "private" @@ "x3" :> "loopback"
SomeAnswers == {<<"x1">>, <<"x2", "x1">>, <<>>}

\* Rate headers: none, a wait and limits, a point in time, and a number of seconds.
RateHeaders ==
    {[retry |-> None, reset |-> None, limit |-> FALSE],
     [retry |-> 9, reset |-> None, limit |-> TRUE],
     [retry |-> None, reset |-> 102, limit |-> FALSE],
     [retry |-> None, reset |-> 1, limit |-> FALSE]}

\* Requests to an enterprise system: writes in order, a read, and ones that lack one
\* thing each.
Whole == [small |-> TRUE, authenticated |-> TRUE, tenantOwn |-> TRUE, actorOwn |-> TRUE,
          declared |-> TRUE, revision |-> TRUE, bound |-> TRUE, company |-> TRUE,
          write |-> TRUE, ownChange |-> TRUE, admission |-> TRUE, change |-> 1, who |-> "a"]
SomeOperations ==
    {Whole, [Whole EXCEPT !.who = "b"], [Whole EXCEPT !.change = 2],
     [Whole EXCEPT !.write = FALSE], [Whole EXCEPT !.small = FALSE],
     [Whole EXCEPT !.tenantOwn = FALSE], [Whole EXCEPT !.declared = FALSE],
     [Whole EXCEPT !.bound = FALSE], [Whole EXCEPT !.company = FALSE],
     [Whole EXCEPT !.ownChange = FALSE], [Whole EXCEPT !.admission = FALSE]}

\* Registrations of a connector: routers whose actions computations, branches, tables and
\* literals serve, one whose actions are not known, one over the client; names that
\* collide; a client without a factory.
How(via, refs, c) == [via |-> via, refs |-> refs, computes |-> c]
Router(name, actions) ==
    [name |-> name, actions |-> actions, client |-> None, read |-> FALSE,
     destructive |-> FALSE, computes |-> TRUE]
Op(m, n) == [method |-> m, name |-> n, read |-> TRUE]
RouterX == Router(<<"x">>, [list |-> How("branch", {<<"items">>}, TRUE),
                            purge |-> How("branch", {}, TRUE),
                            show |-> How("branch", {<<"items">>}, FALSE)])
RouterXList == Router(<<"x", "list">>, [get |-> How("literal", {<<"one">>}, TRUE),
                                        find |-> How("table", {<<"one">>, <<"items">>}, FALSE)])
Bare == Router(<<"bare">>, << >>)
Over == [Bare EXCEPT !.name = <<"over">>, !.client = "c"]
PlainTool == [Bare EXCEPT !.name = <<"p">>, !.actions = None]
SurfaceNames == {<<"x">>, <<"bare">>, <<"over">>, <<"p">>, <<"x", "list">>, <<"s", "items">>,
              <<"s", "one">>, <<"v">>, <<"s", "p">>}
Surface(tools, ops, factory, keep, verbose, class) ==
    [registrars |-> tools, operations |-> ops, factory |-> factory, keep |-> keep,
     verbose |-> verbose, classes |-> [n \in SurfaceNames |-> class]]
Adds(tools) == [adds |-> tools, on |-> TRUE]
SomeOps == {Op(<<"items">>, None), Op(<<"one">>, None)}
SomeSurfaces ==
    {Surface({Adds({RouterX, PlainTool}), Adds({Bare, Over})}, SomeOps, TRUE, FALSE, None, c) :
       c \in {"read", "write"}}
    \cup {Surface({Adds({RouterX}), [adds |-> {RouterXList}, on |-> on]}, SomeOps, f, k,
                  <<"v">>, "write") : on \in BOOLEAN, f \in BOOLEAN, k \in BOOLEAN}
    \cup {Surface({Adds({PlainTool, [PlainTool EXCEPT !.name = <<"s", "p">>], RouterX})}, o,
                  TRUE, FALSE, v, "write") :
            o \in {{}, {Op(<<"q">>, <<"s", "p">>)},
                   {Op(<<"items">>, <<"s", "x">>), Op(<<"list">>, None)}},
            v \in {None, <<"p">>}}

\* An instance and a model of two processes; capabilities the graph knows, lacks, holds back.
PushTargets == {[id |-> 1, process |-> 1, via |-> "camunda"],
                [id |-> 3, process |-> 2, via |-> "aris"]}
SomeNodes == {[id |-> 1, name |-> "a", pushed |-> TRUE], [id |-> 2, name |-> "b", pushed |-> TRUE],
              [id |-> 3, name |-> "b", pushed |-> FALSE]}

\* A job; a signer of the algorithm and one of another; observations that add up and that do not.
OneJob == [ref |-> "j1", backend |-> "b", policy |-> "p", expires |-> 1]
SomeSigners == {None, [id |-> "s", algorithm |-> "ed25519"], [id |-> "s", algorithm |-> "rsa"]}
SomeObservations ==
    {[status |-> s, total |-> t, passed |-> p, failed |-> f, codes |-> c, report |-> r] :
       s \in {"passed", "failed"}, t \in 0..1, p \in 0..1, f \in 0..1,
       c \in {{}, {"policy_denied"}},
       r \in {None, [ref |-> "r", policy |-> "p"], [ref |-> "r", policy |-> "q"]}}

\* A file that is created, the same file updated, and a change set whose patch is not
\* the approved intent.
ApprovedFile(n) == [data |-> n, executable |-> FALSE]
Intended(n, base, expected) ==
    [action |-> IF expected = None THEN "create" ELSE "update", base |-> base,
     expected |-> expected, file |-> ApprovedFile(n)]
SomeChanges ==
    LET c == [id |-> 1, scope |-> "s", key |-> "k", effect |-> "e",
              intent |-> Intended(1, 0, None), patch |-> Intended(1, 0, None)]
    IN  {c, [c EXCEPT !.id = 2, !.intent = Intended(2, 1, ApprovedFile(1)),
                      !.patch = Intended(2, 1, ApprovedFile(1))],
         [c EXCEPT !.id = 3, !.key = "l", !.intent = Intended(2, 0, None)]}

\* What a selection may observe; one that succeeded, yet selected nothing, is refused.
PreferredFirst == <<"p", "q", "off", "bare">>
Outcome(b, ok) == [backend |-> b, ok |-> ok]
SomeOutcomes ==
    {<<Outcome("p", TRUE)>>, <<Outcome("p", FALSE), Outcome("p", TRUE)>>,
     <<Outcome("p", FALSE), Outcome("q", TRUE)>>, <<Outcome("p", FALSE)>>,
     <<Outcome("q", TRUE), Outcome("q", FALSE)>>,
     <<Outcome("p", TRUE), Outcome("p", FALSE), Outcome("q", TRUE)>>}

\* A write-back that is always logged, a sampled routing, a call on the engine's own loop
\* and a point without a binding.
DecisionCall(sync, mode, pick) ==
    [sync |-> sync, onLoop |-> FALSE, runner |-> TRUE, bounded |-> ~sync, bound |-> TRUE,
     offered |-> {"write", "no_write"}, pick |-> pick, mode |-> mode, every |-> 2]
DecisionCalls ==
    << DecisionCall(TRUE, "always", "no_write"), DecisionCall(FALSE, "sampled", "write"),
       [DecisionCall(TRUE, "never", "write") EXCEPT !.onLoop = TRUE],
       [DecisionCall(FALSE, "always", "other") EXCEPT !.bounded = FALSE, !.bound = FALSE] >>

Restart ==
    INSTANCE WriteBack WITH
        ChangeSets <- {cs1, cs2}, Keys <- {k1}, KeyOf <- ReusedKey, BaseOf <- Bases,
        Connectors <- {c1}, Callers <- {t1, t2}, HomeOf <- t1 :> c1 @@ t2 :> c1,
        SplitCommit <- FALSE, MaxVersion <- 1, MaxCalls <- 4, MaxCrashes <- 1,
        registered <- x1, receipts <- x2, version <- x3, effects <- x4,
        reservations <- x5, expired <- x6, revoked <- x7, unresolved <- x8,
        inflight <- x9, step <- x10, target <- x11, outcome <- x12, calls <- x13,
        crashes <- x14, mutations <- x15, reported <- x16, lapsed <- x17

File ==
    INSTANCE WriteBack WITH
        ChangeSets <- {cs1, cs2}, Keys <- {k1}, KeyOf <- ReusedKey, BaseOf <- Bases,
        Connectors <- {c1}, Callers <- {t1}, HomeOf <- t1 :> c1,
        SplitCommit <- TRUE, MaxVersion <- 1, MaxCalls <- 4, MaxCrashes <- 1,
        registered <- x1, receipts <- x2, version <- x3, effects <- x4,
        reservations <- x5, expired <- x6, revoked <- x7, unresolved <- x8,
        inflight <- x9, step <- x10, target <- x11, outcome <- x12, calls <- x13,
        crashes <- x14, mutations <- x15, reported <- x16, lapsed <- x17

Quota ==
    INSTANCE PaperQuota WITH
        Tasks <- {t1, t2, t3}, HostOf <- t1 :> c1 @@ t2 :> c1 @@ t3 :> c2,
        PolicyOf <- t1 :> 1 @@ t2 :> 1 @@ t3 :> 2, Allowance <- 2, Retries <- 1,
        Pauses <- {1, 2}, MaxTime <- 3, MaxFaults <- 1,
        now <- x1, slot <- x2, task <- x3, retained <- x4, lastEnd <- x5,
        banned <- x6, faults <- x7

Foreign ==
    INSTANCE ForeignRead WITH
        Calls <- {m1, m2, m3}, Handles <- {h1, h2}, MaxExecutions <- 1,
        MaxRows <- 1, Reissues <- TRUE, MaxFaults <- 2,
        server <- x1, executions <- x2, expected <- x3, tombstones <- x4,
        pending <- x5, call <- x6, requests <- x7, expired <- x8, known <- x9,
        told <- x10, faults <- x11

Channel ==
    INSTANCE ChannelSelection WITH
        Count <- 3, Enabled <- {1, 3}, MaxAttempts <- 2, Backoff <- 1,
        Pauses <- {2, 4}, Deadline <- 5, Channels <- {1, 2, 3},
        StatusBackends <- PreferredFirst, Observations <- SomeOutcomes,
        Disabled <- {"off"}, Unconfigured <- {"bare"}, Readers <- {1}, Ttl <- 1,
        Entries <- 2, MaxTime <- 1, MaxRecords <- 3,
        fallbackNow <- x1, pinned <- x2, step <- x3, at <- x4, try <- x5,
        wake <- x6, attempts <- x7, inflight <- x8, skipped <- x9, result <- x10,
        reads <- x11, embargo <- x12, statusNow <- x1, store <- x2, reader <- x3,
        records <- x4, recent <- x5

Mount ==
    INSTANCE SourceMount WITH
        Paths <- {p1, p2}, Blobs <- {b1, b2}, Flushes <- {t1}, Readers <- {t2},
        MaxRevisions <- 3, MaxWrites <- 2, MaxFaults <- 1,
        repo <- x1, served <- x2, base <- x3, pending <- x4, listed <- x5,
        cache <- x6, receipts <- x7, flush <- x8, reader <- x9, written <- x10,
        overlapped <- x11, writes <- x12, faults <- x13

Auth ==
    INSTANCE Authentication WITH
        TokenRequests <- {t1, t2}, Posts <- {t1}, MaxAttempts <- 2,
        MaxAccessTokens <- 3, MaxTokenFaults <- 2, LoginCallers <- {t1, t2},
        MaxLogins <- 2, MaxLoginTokens <- 1, MaxLoginFaults <- 1,
        SecretRequests <- {t1, t2}, MaxIssued <- 4, MaxSecretFaults <- 2,
        CallerRequests <- {1, 2, 3}, TokenHolders <- {"a", "b"}, CacheSize <- 1,
        Skew <- 1, Lifetimes <- {1, 2}, MaxTime <- 2, MaxCallerFaults <- 1,
        endpoint <- x1, tokenIssued <- x2, tokenLive <- x3, tokenCache <- x4,
        rotated <- x5, tokenReq <- x6, effects <- x7, lost <- x8, tokenFaults <- x9,
        file <- x1, port <- x2, codefile <- x3, loginCaller <- x4, logins <- x5,
        grants <- x6, aged <- x7, shared <- x8, loginFaults <- x9, kind <- x1,
        store <- x2, secretLive <- x3, secretIssued <- x4, held <- x5,
        secretReq <- x6, excused <- x7, secretFaults <- x8, callerReq <- x1,
        holder <- x2, callerCache <- x3, callerIssued <- x4, now <- x5,
        callerFaults <- x6

\* One login whose tokens are renewed; Auth has two logins whose tokens are not.
Renewal ==
    INSTANCE Authentication WITH
        TokenRequests <- {t1, t2}, Posts <- {t1}, MaxAttempts <- 2,
        MaxAccessTokens <- 3, MaxTokenFaults <- 2, LoginCallers <- {t1, t2},
        MaxLogins <- 1, MaxLoginTokens <- 2, MaxLoginFaults <- 1,
        SecretRequests <- {t1, t2}, MaxIssued <- 4, MaxSecretFaults <- 2,
        CallerRequests <- {1, 2, 3}, TokenHolders <- {"a", "b"}, CacheSize <- 1,
        Skew <- 1, Lifetimes <- {1, 2}, MaxTime <- 2, MaxCallerFaults <- 1,
        endpoint <- x1, tokenIssued <- x2, tokenLive <- x3, tokenCache <- x4,
        rotated <- x5, tokenReq <- x6, effects <- x7, lost <- x8, tokenFaults <- x9,
        file <- x1, port <- x2, codefile <- x3, loginCaller <- x4, logins <- x5,
        grants <- x6, aged <- x7, shared <- x8, loginFaults <- x9, kind <- x1,
        store <- x2, secretLive <- x3, secretIssued <- x4, held <- x5,
        secretReq <- x6, excused <- x7, secretFaults <- x8, callerReq <- x1,
        holder <- x2, callerCache <- x3, callerIssued <- x4, now <- x5,
        callerFaults <- x6

Sink ==
    INSTANCE Sinks WITH
        Domains <- {"d"}, SinkNodes <- {"n"}, Runs <- {1, 2}, MaxOps <- 2,
        MaxRequests <- 3, MaxFaults <- 1, Targets <- PushTargets,
        Payloads <- {0, 1, 2}, EnrichNodes <- SomeNodes,
        Trackers <- {"archi", "leanix"}, KgNames <- {"a"}, MaxJobs <- 2,
        MaxEdits <- 1, Attempts <- {1, 2}, Changes <- SomeChanges, Keys <- {"k", "l"},
        Lifetime <- 1, TrustEnds <- 2, MaxTime <- 1, MaxProofs <- 2, MaxProofEdits <- 1,
        sink <- x1, sinkEnabled <- x2, sinkGraph <- x3, records <- x4, queue <- x5,
        run <- x6, excuse <- x7, requests <- x8, faults <- x9, enrichGraph <- x1,
        remote <- x2, created <- x3, issue <- x4, spec <- x5, job <- x6,
        edits <- x7, jobs <- x8, enrichBefore <- x9,
        now <- x1, revoked <- x2, proofs <- x3, attempt <- x4, file <- x5,
        revision <- x6, receipts <- x7, proofEdits <- x8

Support ==
    INSTANCE CallSupport WITH
        Attempts <- {1, 2, 3}, Fallbacks <- 0..3, MaxFallbacks <- 2,
        Challenges <- SomeChallenges, Allowed <- {<<"USDC", "base">>}, Single <- 2,
        Daily <- 3, Monthly <- 4, Approval <- 2, MaxPayments <- 2, MaxRecords <- 3, MaxResets <- 1,
        Processes <- {1, 2, 3}, Patience <- 1, MaxUses <- 1, MaxCrashes <- 1,
        Calls <- DecisionCalls, Digests <- {0, 1}, Strange <- "strange",
        asked <- x1, state <- x2, made <- x3, payments <- x1, daily <- x2,
        monthly <- x3, count <- x4, records <- x5, today <- x6, month <- x7,
        strayed <- x8, resets <- x9, held <- x1, proc <- x2, file <- x3, seen <- x4, updates <- x5,
        torn <- x6, crashes <- x7, caller <- x1, task <- x2, loop <- x3, log <- x4,
        unlogged <- x5

Mcp ==
    INSTANCE McpServer WITH
        Nowhere <- None, Configs <- SomeConfigs, Policy <- OnlyTwo,
        Tools <- SomeTools, Requests <- {1, 2}, Offers <- SomeOffers,
        Aliases <- "wipe" :> "delete", Arguments <- {1, 2}, Namespace <- "k",
        Grants <- "w" :> {<<"", "r1">>}, Required <- {"s"}, MaxBytes <- 2,
        Burst <- 1, MaxServedTime <- 1, Tasks <- {1, 2}, Keys <- {"a", "b"},
        Values <- {"x"}, MaxEntries <- 1, Deadline <- 2, SendTimeout <- 1,
        Amounts <- {1, 2}, Calls <- 2, MaxScopeTime <- 2, LeaseTtl <- 3,
        MaxLeaseTime <- 6,
        config <- x1, server <- x2, call <- x3, bound <- x4, bucket <- x5,
        asked <- x6, done <- x7, servedNow <- x8, entries <- x1, closed <- x2,
        admitting <- x3, last <- x4, finished <- x5, sending <- x6, sent <- x7,
        told <- x8, calls <- x9, scopeNow <- x10, leaseNow <- x1, lease <- x2,
        beat <- x3, missed <- x4

Http ==
    INSTANCE HttpClients WITH
        Settings <- SomeSettings, Targets <- SomeTargets, ClientRequests <- {1, 2},
        Addresses <- {"x1", "x2", "x3"}, ClassOf <- AddressClass,
        Answers <- SomeAnswers, MaxRetryAfter <- 2, RetryAfters <- {1, 3},
        MaxChanges <- 1, Threads <- {1, 2}, MaxRetries <- 1, Cap <- 2, Epoch <- 100,
        Headers <- RateHeaders, MaxApiTime <- 1, PaceRequests <- {1, 2, 3},
        MinInterval <- 3, MaxPaceTime <- 7,
        client <- x1, airgap <- x2, dns <- x3, origins <- x4, req <- x5,
        dialled <- x6, got <- x7, changes <- x8, call <- x1, token <- x2,
        valid <- x3, apiLast <- x4, seen <- x5, acted <- x6, apiNow <- x7,
        paceNow <- x1, queue <- x2, holder <- x3, paceLast <- x4, sent <- x5,
        rest <- x6

Enterprise ==
    INSTANCE EnterpriseCalls WITH
        Requests <- {1, 2}, Offers <- SomeOperations, PageSize <- 1, MaxPages <- 2,
        MaxReceipts <- 3, Jobs <- {OneJob}, Backends <- {None, "b"},
        Signers <- SomeSigners, Observations <- SomeObservations, MaxTime <- 1,
        MaxRuns <- 2,
        req <- x1, ledger <- x2, effects <- x3, now <- x1, run <- x2, signed <- x3,
        ran <- x4, runs <- x5

Tools ==
    INSTANCE ToolSurface WITH
        Surfaces <- SomeSurfaces, Prefix <- "s",
        ReadWords <- {"list", "show", "get", "find"}, MutatingWords <- {"purge"},
        DestructiveWords <- {"purge"},
        given <- x1, phase <- x2, todo <- x3, tools <- x4, gated <- x5,
        report <- x6, gone <- x7

\* The variables after the first k.
After3 == <<x4, x5, x6, x7, x8, x9, x10, x11, x12, x13, x14, x15, x16, x17>>
After4 == <<x5, x6, x7, x8, x9, x10, x11, x12, x13, x14, x15, x16, x17>>
After5 == <<x6, x7, x8, x9, x10, x11, x12, x13, x14, x15, x16, x17>>
After6 == <<x7, x8, x9, x10, x11, x12, x13, x14, x15, x16, x17>>
After7 == <<x8, x9, x10, x11, x12, x13, x14, x15, x16, x17>>
After8 == <<x9, x10, x11, x12, x13, x14, x15, x16, x17>>
After9 == <<x10, x11, x12, x13, x14, x15, x16, x17>>
After10 == <<x11, x12, x13, x14, x15, x16, x17>>
After11 == <<x12, x13, x14, x15, x16, x17>>
After12 == <<x13, x14, x15, x16, x17>>
After13 == <<x14, x15, x16, x17>>

Unused13 ==
    x14 = None /\ x15 = None /\ x16 = None /\ x17 = None
Unused12 ==
    x13 = None /\ Unused13
Unused11 ==
    x12 = None /\ Unused12
Unused10 ==
    x11 = None /\ Unused11
Unused9 ==
    x10 = None /\ Unused10
Unused8 ==
    x9 = None /\ Unused9
Unused7 ==
    x8 = None /\ Unused8
Unused6 ==
    x7 = None /\ Unused7
Unused5 ==
    x6 = None /\ Unused6
Unused4 ==
    x5 = None /\ Unused5
Unused3 ==
    x4 = None /\ Unused4

Init ==
    \/ part = "restart" /\ Restart!Init
    \/ part = "file" /\ File!Init
    \/ part = "quota" /\ Quota!Init /\ Unused7
    \/ part = "foreign" /\ Foreign!Init /\ Unused11
    \/ part = "fallback" /\ Channel!FallbackInit /\ Unused12
    \/ part = "mount" /\ Mount!Init /\ Unused13
    \/ part = "token" /\ Auth!TokenInit /\ Unused9
    \/ part = "sink" /\ Sink!SinkInit /\ Unused9
    \/ part = "login" /\ Auth!LoginInit /\ Unused9
    \/ part = "renewal" /\ Renewal!LoginInit /\ Unused9
    \/ part = "secret" /\ Auth!SecretInit /\ Unused8
    \/ part = "resilience" /\ Support!ResilienceInit /\ Unused3
    \/ part = "payment" /\ Support!PaymentInit /\ Unused9
    \/ part = "caller" /\ Auth!CallerInit /\ Unused6
    \/ part = "served" /\ Mcp!ServedInit /\ Unused8
    \/ part = "scope" /\ Mcp!ScopeInit /\ Unused10
    \/ part = "client" /\ Http!ClientInit /\ Unused8
    \/ part = "api" /\ Http!ApiInit /\ Unused7
    \/ part = "lock" /\ Support!LockInit /\ Unused7
    \/ part = "enterprise" /\ Enterprise!EnterpriseInit /\ Unused3
    \/ part = "tools" /\ Tools!Init /\ Unused7
    \/ part = "enrich" /\ Sink!EnrichInit /\ Unused9
    \/ part = "certify" /\ Enterprise!CertifyInit /\ Unused5
    \/ part = "proof" /\ Sink!ProofInit /\ Unused8
    \/ part = "status" /\ Channel!StatusInit /\ Unused5
    \/ part = "lease" /\ Mcp!LeaseInit /\ Unused4
    \/ part = "pace" /\ Http!PaceInit /\ Unused6
    \/ part = "decide" /\ Support!DecisionInit /\ Unused5

Next ==
    \/ part = "restart" /\ Restart!Next /\ UNCHANGED part
    \/ part = "file" /\ File!Next /\ UNCHANGED part
    \/ part = "quota" /\ Quota!Next /\ UNCHANGED <<part, After7>>
    \/ part = "foreign" /\ Foreign!Next /\ UNCHANGED <<part, After11>>
    \/ part = "fallback" /\ Channel!FallbackNext /\ UNCHANGED <<part, After12>>
    \/ part = "mount" /\ Mount!Next /\ UNCHANGED <<part, After13>>
    \/ part = "token" /\ Auth!TokenNext /\ UNCHANGED <<part, After9>>
    \/ part = "sink" /\ Sink!SinkNext /\ UNCHANGED <<part, After9>>
    \/ part = "login" /\ Auth!LoginNext /\ UNCHANGED <<part, After9>>
    \/ part = "renewal" /\ Renewal!LoginNext /\ UNCHANGED <<part, After9>>
    \/ part = "secret" /\ Auth!SecretNext /\ UNCHANGED <<part, After8>>
    \/ part = "resilience" /\ Support!ResilienceNext /\ UNCHANGED <<part, After3>>
    \/ part = "payment" /\ Support!PaymentNext /\ UNCHANGED <<part, After9>>
    \/ part = "caller" /\ Auth!CallerNext /\ UNCHANGED <<part, After6>>
    \/ part = "served" /\ Mcp!ServedNext /\ UNCHANGED <<part, After8>>
    \/ part = "scope" /\ Mcp!ScopeNext /\ UNCHANGED <<part, After10>>
    \/ part = "client" /\ Http!ClientNext /\ UNCHANGED <<part, After8>>
    \/ part = "api" /\ Http!ApiNext /\ UNCHANGED <<part, After7>>
    \/ part = "lock" /\ Support!LockNext /\ UNCHANGED <<part, After7>>
    \/ part = "enterprise" /\ Enterprise!EnterpriseNext /\ UNCHANGED <<part, After3>>
    \/ part = "tools" /\ Tools!Next /\ UNCHANGED <<part, After7>>
    \/ part = "enrich" /\ Sink!EnrichNext /\ UNCHANGED <<part, After9>>
    \/ part = "certify" /\ Enterprise!CertifyNext /\ UNCHANGED <<part, After5>>
    \/ part = "proof" /\ Sink!ProofNext /\ UNCHANGED <<part, After8>>
    \/ part = "status" /\ Channel!StatusNext /\ UNCHANGED <<part, After5>>
    \/ part = "lease" /\ Mcp!LeaseNext /\ UNCHANGED <<part, After4>>
    \/ part = "pace" /\ Http!PaceNext /\ UNCHANGED <<part, After6>>
    \/ part = "decide" /\ Support!DecisionNext /\ UNCHANGED <<part, After5>>

vars == <<part, x1, x2, x3, x4, x5, x6, x7, x8, x9, x10, x11, x12, x13, x14, x15, x16, x17>>
Spec == Init /\ [][Next]_vars

\* The behaviours of the tool surface alone.
SurfaceSpec == Init /\ part = "tools" /\ [][Next]_vars

--------------------------------------------------------------------------------
(* Properties, as the modules state them. *)

\* Every part keeps its types: the tables of the clients are within their bounds.
TypeOK ==
    /\ part = "quota" => Quota!TypeOK
    /\ part = "foreign" => Foreign!TypeOK
    /\ part = "fallback" => Channel!FallbackTypeOK
    /\ part = "mount" => Mount!TypeOK
    /\ part = "token" => Auth!TokenTypeOK
    /\ part = "sink" => Sink!SinkTypeOK
    /\ part = "login" => Auth!LoginTypeOK
    /\ part = "renewal" => Renewal!LoginTypeOK
    /\ part = "secret" => Auth!SecretTypeOK
    /\ part = "resilience" => Support!ResilienceTypeOK
    /\ part = "payment" => Support!PaymentTypeOK
    /\ part = "caller" => Auth!CallerTypeOK
    /\ part = "served" => Mcp!ServedTypeOK
    /\ part = "scope" => Mcp!ScopeTypeOK
    /\ part = "lock" => Support!LockTypeOK
    /\ part = "client" => Http!ClientTypeOK
    /\ part = "api" => Http!ApiTypeOK
    /\ part = "enterprise" => Enterprise!EnterpriseTypeOK
    /\ part = "tools" => Tools!TypeOK
    /\ part = "enrich" => Sink!EnrichTypeOK
    /\ part = "certify" => Enterprise!CertifyTypeOK
    /\ part = "proof" => Sink!ProofTypeOK
    /\ part = "status" => Channel!StatusTypeOK
    /\ part = "lease" => Mcp!LeaseTypeOK
    /\ part = "pace" => Http!PaceTypeOK
    /\ part = "decide" => Support!DecisionTypeOK

\* Write-back through restarts: what the ledger holds explains every receipt, and
\* over files, whose commit is two writes, the source changes once per key and the
\* receipts of applied change sets are true.  The spending a payment guard counts
\* is what was recorded as confirmed, each with a proof that names its challenge,
\* and as often as it was recorded: only a host that has one payment approved at a
\* time, and confirms it once, stays within the budget; the client enforces neither.
\* An enterprise system is written only with what was authorised, and a result
\* says what happened.  A certification's verdict is the one observed and signed,
\* under the sample's policy.  An effect's proof is signed for it, and its receipt
\* bound to it.
ReceiptsAreExplained ==
    /\ part = "restart" => Restart!ReceiptsReplayable
    /\ part = "file" => File!OneEffectPerKey /\ File!AppliedReceiptIsTrue
    /\ part = "payment" => /\ Support!SpendIsTrue
                           /\ Support!ConfirmedIsProved
                           /\ Support!WithinBudget
    /\ part = "enterprise" => Enterprise!WritesAreAdmitted /\ Enterprise!ResultsAreTrue
    /\ part = "certify" => /\ Enterprise!PublishedIsSigned
                           /\ Enterprise!DeniedShowsNothing
                           /\ Enterprise!OneVerdict
    /\ part = "proof" => Sink!ProofIsSigned /\ Sink!ReceiptIsBound

\* No apply changes the source for a change set whose outcome is uncertain, and a
\* receipt that permits a retry is only written when there was no effect.
UncertainIsHeld == [][part = "restart" => Restart!HeldStep /\ Restart!ProvenStep]_vars

\* Searches of one credential group call their providers one at a time, as far
\* apart as the policy of either asks, and not while a Retry-After runs.  A
\* platform read tries a backend only after those before it failed for a reason to
\* move on, never again before its Retry-After is over, and lists every attempt. A
\* call of the resilience helpers is made again only if its caller says that is
\* safe and after an error it lists, in the order of the plan.  The HTTP clients
\* have a request acted on once unless its method is idempotent, connect only
\* where their policy allows, and wait no longer than their cap.  A session's
\* requests leave at least their interval apart.  A choice is the call site's own
\* or one the engine executed for it, and is logged.
CallsAreEarned ==
    [][/\ part = "quota" => Quota!Exclusive' /\ Quota!SpacedStep /\ Quota!HonouredStep
       /\ part = "fallback" => /\ Channel!FallbackIsEarned'
                               /\ Channel!AttemptsAccount'
                               /\ Channel!PauseStep
       /\ part = "resilience" => Support!SecondCallIsEarned' /\ Support!PlanIsFollowed'
       /\ part = "client" => /\ Http!DialsAreApproved'
                             /\ Http!NamesAreApart'
                             /\ Http!ActsOnce'
       /\ part = "api" => Http!SentWithinReason' /\ Http!LimitsAreCurrent'
       /\ part = "pace" => Http!RequestsArePaced'
       /\ part = "decide" => Support!ChoiceIsEarned' /\ Support!DecisionIsLogged']_vars

\* The foreign-read client holds no more executions than _MAX_EXECUTIONS, its
\* reservations are those of the opens under way, it agrees with the server on the
\* next sequence, and no phase is sent for an execution that ended.  An execution
\* whose open result the client validated is tracked or was told to end, also when
\* its caller is cancelled before it is installed; one whose result was lost,
\* refused, or not validated when the caller was cancelled is left to the server's
\* expiry (open: "a cancellation before this point has no opaque handle to abort").
ExecutionsAccounted ==
    [][part = "foreign" => /\ Foreign!WithinCapacity'
                           /\ Foreign!ReservationsAreHeld'
                           /\ Foreign!InStep'
                           /\ Foreign!NoHandleLeft'
                           /\ Foreign!OpenStep]_vars

\* A host that awaits each call of its mount loses no write, and its reads return
\* what the mount showed when it asked.  No update that was begun under the file lock
\* is lost, and half of one is read only if its writer died between the halves, until
\* the next whole write: the lock orders writers, it does not make writes atomic.
WritesAreKept ==
    /\ part = "mount" => Mount!WritesAreKept /\ Mount!ReadsAreCurrent
    /\ part = "lock" => Support!UpdatesAreKept

\* A served tool runs only for a request that the listener, the verifier, the
\* profile, the visibility policy and the entitlements let through, under the
\* actor of that request, and if it is destructive after its user accepted it with
\* its arguments. What a request kept is gone when it ends, and its progress only
\* grows, until then.  The tools of a server serve the actions of the connector's,
\* held back and classified, but for those left to a tool that was split in its turn
\* or to an operation nobody registered: EveryActionIsServed shows the first.  A channel's status is told while it is
\* fresh, and kept while it is used.  A server's lease outlasts a heartbeat that
\* failed.
ServedCallsAreSound ==
    [][/\ part = "served" => /\ Mcp!CallsAreAdmitted'
                             /\ Mcp!ActorIsOwn'
                             /\ Mcp!DestructiveIsConfirmed'
       /\ part = "scope" => /\ Mcp!ClosedIsEmpty'
                            /\ Mcp!ProgressGrows'
                            /\ Mcp!EndedStep
       /\ part = "tools" => /\ Tools!ActionsAreServed'
                            /\ Tools!ComputationsAreKept'
                            /\ Tools!SurfaceIsGated'
       /\ part = "status" => Channel!StatusIsFresh' /\ Channel!RecentAreHeld'
       /\ part = "lease" => Mcp!LeaseLasts']_vars

\* OAuth: the token endpoint sees a refresh token once unless an answer was lost, the
\* provider has the one it takes next, a request whose method is not idempotent has
\* at most one effect, and a second 401 is of a token minted after the first.
\* A browser login presents only its own code, whatever redirects arrive, and unless
\* calls overlap or an answer is lost the token file has the newest set of its login
\* and no replaced refresh token is presented.
\* A request with a rotating secret or a login session is refused in the end only if
\* the API or another request changed the secret or the session under it.
\* A delegated token is the one that was exchanged for its caller, and is still valid
\* for a while when it is given out.
CredentialsAreCurrent ==
    /\ part = "token" => /\ Auth!RefreshPresentedOnce
                         /\ Auth!RefreshInStep
                         /\ Auth!PostOnce
                         /\ Auth!RefusedTwice
    /\ part = "login" => /\ Auth!CodesAreOwn
                         /\ Auth!RefreshIsCurrent
                         /\ Auth!FileIsCurrent
    /\ part = "renewal" => /\ Renewal!CodesAreOwn
                           /\ Renewal!RefreshIsCurrent
                           /\ Renewal!FileIsCurrent
    /\ part = "secret" => Auth!RefusalIsExcused
    /\ part = "caller" => Auth!TokenIsOwn /\ Auth!CacheIsCurrent

\* The sinks of run_writeback: their counts are true, a sink that stamps makes one
\* record of a node unless an answer or a stamp was lost, and a record changes
\* only under an audit reservation and, in a high-stakes system, after an
\* approval.  What the graph derived is pushed as the run gathered it, and a
\* preview pushes nothing.
SinkWritesAccounted ==
    [][/\ part = "sink" => Sink!CountsAreTrue' /\ Sink!OneRecord' /\ Sink!GovernedStep
       /\ part = "enrich" => Sink!PreviewsWriteNothing' /\ Sink!ResultIsTrue']_vars

\* What a requirement says of the actions of split routers, as ToolSurface states it.
EveryActionIsServed == part = "tools" => Tools!EveryActionIsServed
================================================================================
