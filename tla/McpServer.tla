------------------------------- MODULE McpServer -------------------------------
(* The MCP server: what a served call passes through, the scope of a request, and the
   lease that keeps one server per name.

   The sections share no state: each has its own Init, Next and Spec. *)
EXTENDS Naturals, Sequences, FiniteSets

--------------------------------------------------------------------------------
(* VisibilityPolicy: the server's allow and deny lists for the names and tags of its
   tools, resources and prompts, which the query and then the headers of a request
   may only narrow.  A filter is a record of the values one of them carries.  *)

CONSTANTS
    Nowhere   \* EMPTY_INTERSECTION: a name or tag that no component has

\* The entry of an allow list of names that stands for every name.
All == "all"

\* No restriction.
Open == [names |-> {}, offNames |-> {}, tags |-> {}, offTags |-> {}, rejects |-> FALSE]

\* Fault: an intersection that is empty is left empty, which restricts nothing.
PlainIntersection(current, requested) ==
    IF requested = {} THEN current
    ELSE IF current = {} THEN requested ELSE current \cap requested
NarrowValues(current, requested) ==
    IF requested = {} THEN current
    ELSE IF current = {} THEN requested
    ELSE IF current \cap requested = {} THEN {Nowhere} ELSE current \cap requested

\* narrowed: a semantic query, or a value that bounded_filter_values refuses, shows
\* nothing; "all" is one of those.
Malformed(filter) == filter.query \/ filter.invalid \/ All \in filter.names \cup filter.tags
Narrowed(policy, filter) ==
    IF Malformed(filter) THEN [policy EXCEPT !.rejects = TRUE]
    ELSE [policy EXCEPT !.names = NarrowValues(@, filter.names),
                        !.offNames = @ \cup filter.offNames,
                        !.tags = NarrowValues(@, filter.tags),
                        !.offTags = @ \cup filter.offTags]

ForRequest(policy, query, headers) == Narrowed(Narrowed(policy, query), headers)

NamePermitted(policy, name) ==
    LET enabled == policy.names \ {All}
    IN  (enabled = {} \/ name \in enabled) /\ name \notin policy.offNames

TagsPermitted(policy, tags) ==
    IF tags = {} THEN policy.tags = {}
    ELSE /\ policy.tags = {} \/ tags \cap policy.tags # {}
         /\ tags \cap policy.offTags = {}

\* A component is its name and its tags.
Permits(policy, component) ==
    /\ ~policy.rejects
    /\ NamePermitted(policy, component.name) /\ TagsPermitted(policy, component.tags)

Visible(policy, components) == {c \in components : Permits(policy, c)}

--------------------------------------------------------------------------------
(* A connector's MCP server: create_mcp_server, the boundary of its listener, the
   served security profile, the binding of the actor, the rate limit, and a tool call
   that is routed by its action and confirmed when it is destructive.  Requests
   overlap; a client asks again with its answer to a confirmation.  *)

CONSTANTS
    Configs,      \* how the operator may start the server
    Policy,       \* the server's visibility policy
    Tools,        \* the tools: name, tags, how each is marked, what it reaches
    Requests,
    Offers,       \* the calls of clients: peer, host, origin, length, body, token, filters,
                  \* action, arguments and whether the protocol is a modern one
    Aliases,      \* actions that stand for another name
    Arguments,    \* arguments that a call may be repeated with
    Namespace,    \* of the resources that the tools reach
    Grants,       \* CONNECTOR_PRINCIPAL_GRANTS: capabilities by subject
    Required,     \* CONNECTOR_REQUIRED_SCOPES
    MaxBytes,     \* max_request_bytes
    Burst,        \* requests a bucket has
    MaxServedTime,
    None

VARIABLES
    config, server,
    call,      \* each request
    bound,     \* the actor of each context
    bucket,    \* what is left of each caller's bucket
    asked,     \* confirmations asked for: what of, and the answer given
    done,      \* calls of client methods
    servedNow

servedVars == <<config, server, call, bound, bucket, asked, done, servedNow>>

Idle == [at |-> "idle", offer |-> None, action |-> None, arguments |-> None, tool |-> None,
         state |-> None, modern |-> TRUE, verified |-> 0]

\* What a request may be, and a question put to a user.
Stages ==
    {"idle", "boundary", "called", "auth", "verified", "bound", "routed", "confirm", "asked",
     "eliciting", "go", "done", "rejected", "limited", "refused", "cancelled"}
RequestState ==
    [at : Stages,
     offer : Offers \cup {None}, action : {o.action : o \in Offers} \cup {None},
     arguments : {o.arguments : o \in Offers} \cup Arguments \cup {None},
     tool : Tools \cup {None}, state : Nat \cup {None},
     modern : {o.modern : o \in Offers} \cup {TRUE}, verified : 0..MaxServedTime]
Choice == [tool : {t.name : t \in Tools},
           arguments : {o.arguments : o \in Offers} \cup Arguments \cup {None}]
Question == [of : Choice, answer : BOOLEAN \cup {None}, shown : Choice]

ServedTypeOK ==
    /\ config \in Configs /\ server \in {"new", "refused", "serving"}
    /\ call \in [Requests -> RequestState] /\ DOMAIN bound = Requests
    /\ asked \in Seq(Question)
    /\ \A b \in DOMAIN bucket : bucket[b] \in 0..Burst
    /\ servedNow \in 0..MaxServedTime

ServedInit ==
    /\ config \in Configs /\ server = "new"
    /\ call = [r \in Requests |-> Idle]
    /\ bound = [r \in Requests |-> None]
    /\ bucket = <<>> /\ asked = <<>> /\ done = {} /\ servedNow = 0

--------------------------------------------------------------------------------
(* create_mcp_server.  auth is None if the operator set no --auth-type. *)

Network == config.transport # "stdio"

TlsPresent == config.cert \/ config.terminated

\* _validate_remote_boundary
Exposable ==
    config.loopback \/ config.auth = "none" \/ (config.auth # None /\ TlsPresent)

\* NetworkServingConfig
ListenerValid ==
    /\ config.cert = config.key
    /\ config.terminated => config.cidrs
    /\ Exposable
    /\ config.hosts # {} \/ config.loopback

\* configure_auth; the settings of a mode are complete or it is refused.
Provider == config.auth \notin {None, "none"}
AuthValid == Provider => config.complete

\* apply_served_security_profile: whether it is active.
Profile == Network /\ ~config.override /\ config.auth # "none"
ProfileValid == Profile => Provider /\ config.audience

Start ==
    /\ server = "new"
    /\ server' = IF (Network => ListenerValid) /\ AuthValid /\ ProfileValid
                 THEN "serving" ELSE "refused"
    /\ UNCHANGED <<config, call, bound, bucket, asked, done, servedNow>>

--------------------------------------------------------------------------------
(* The boundary of the listener, and the body *)

Leave(r, how) == call' = [call EXCEPT ![r].at = how]

Arrive(r, offer) ==
    /\ server = "serving" /\ call[r].at = "idle"
    /\ call' = [call EXCEPT ![r] =
           [at |-> IF Network THEN "boundary" ELSE "called", offer |-> offer,
            action |-> offer.action, arguments |-> offer.arguments, tool |-> None,
            state |-> None, modern |-> offer.modern, verified |-> 0]]
    /\ UNCHANGED <<config, server, bound, bucket, asked, done, servedNow>>

Hosts == IF config.hosts = {} THEN {"localhost"} ELSE config.hosts

\* Peer, host and origin; a header that comes twice or malformed has no value.
Admitted(offer) ==
    /\ config.terminated => offer.trusted
    /\ offer.host \in Hosts
    /\ offer.origin = None \/ offer.origin \in config.origins

Sum(body) == IF Len(body) = 0 THEN 0 ELSE IF Len(body) = 1 THEN body[1] ELSE body[1] + body[2]

\* Fault: only the length that is declared counts.
Declared(offer) == offer.length # None => offer.length <= MaxBytes
\* A body: its declared length, then its chunks, within the limit.
BodyFits(offer) ==
    /\ offer.length # None => offer.length <= MaxBytes
    /\ Sum(offer.body) <= MaxBytes

\* The middlewares of the listener; a disconnected or timed out body ends the request.
Boundary(r) ==
    /\ call[r].at = "boundary"
    /\ \/ Leave(r, IF Admitted(call[r].offer)
                /\ BodyFits(call[r].offer) THEN "auth" ELSE "rejected")
       \/ Leave(r, "rejected")
    /\ UNCHANGED <<config, server, bound, bucket, asked, done, servedNow>>

--------------------------------------------------------------------------------
(* Authentication, the profile and the actor *)

\* claims_are_current, or the expiry of a static token.
Current(token) == token.expires >= servedNow /\ token.issued <= servedNow

\* The verifier of the provider; without one a request is let through.
Verify(r) ==
    /\ call[r].at = "auth"
    /\ LET token == call[r].offer.token
       IN  call' = [call EXCEPT ![r] =
             IF Provider /\ (IF token = None THEN TRUE ELSE ~Current(token))
             THEN [call[r] EXCEPT !.at = "rejected"]
             ELSE [call[r] EXCEPT !.at = "verified", !.verified = servedNow]]
    /\ UNCHANGED <<config, server, bound, bucket, asked, done, servedNow>>

\* A capability is a pair of a namespace and a resource; a bare word has no namespace.
Bare(word) == <<"", word>>

System == [id |-> "system", type |-> "system", tenant |-> "local",
           caps |-> {Bare("system")}, authenticated |-> TRUE]
Anonymous == [id |-> "anonymous", type |-> "anonymous", tenant |-> None, caps |-> {},
              authenticated |-> FALSE]

\* token_actor: the subject may be the client id, the tenant the issuer.
TokenActor(token) ==
    [id |-> token.subject, type |-> "human", tenant |-> token.tenant, authenticated |-> TRUE,
     caps |-> token.caps \cup
              IF token.subject \in DOMAIN Grants THEN Grants[token.subject] ELSE {}]

\* request_actor
RequestActor(r, noAuth) ==
    IF ~Network THEN System
    ELSE IF ~Provider THEN (IF noAuth THEN System ELSE Anonymous)
    ELSE TokenActor(call[r].offer.token)

\* Fault: the scopes of a token are not looked at.
AnyScopes(token) == token.tenant # None
ProfileAdmits(token) == token.tenant # None /\ Required \subseteq token.scopes

\* Fault: one variable for the process.
OneContext(r) == CHOOSE q \in Requests : \A p \in Requests : q <= p
\* The context variable of the request's task.
Context(r) == r

\* The profile, then the actor is bound for the rest of the request.
Bind(r) ==
    /\ call[r].at \in {"verified", "called"}
    /\ IF Profile /\ ~ProfileAdmits(call[r].offer.token)
       THEN Leave(r, "rejected") /\ UNCHANGED bound
       ELSE /\ Leave(r, "bound")
            /\ bound' = [bound EXCEPT ![Context(r)] = RequestActor(r, config.auth = "none")]
    /\ UNCHANGED <<config, server, bucket, asked, done, servedNow>>

\* current_actor: without a binding the transport tells.
Actor(r) == IF bound[Context(r)] = None THEN RequestActor(r, FALSE) ELSE bound[Context(r)]

\* The binding ends with the request.
Ended == {"limited", "refused", "asked", "cancelled", "done"}
To(r, how) ==
    /\ call' = [call EXCEPT ![r].at = how]
    /\ bound' = IF how \in Ended THEN [bound EXCEPT ![Context(r)] = None] ELSE bound

\* rate_limit_client_id: anonymous callers share one.
Bucket(r) == IF Actor(r).type = "anonymous" THEN <<"anonymous">>
             ELSE <<Actor(r).id, Actor(r).tenant>>
Left(b) == IF b \in DOMAIN bucket THEN bucket[b] ELSE Burst

Limit(r) ==
    /\ call[r].at = "bound"
    /\ IF Actor(r).type = "system" THEN To(r, "routed") /\ UNCHANGED bucket
       ELSE IF Left(Bucket(r)) = 0 THEN To(r, "limited") /\ UNCHANGED bucket
       ELSE /\ To(r, "routed")
            /\ bucket' = [b \in DOMAIN bucket \cup {Bucket(r)} |->
                             IF b = Bucket(r) THEN Left(b) - 1 ELSE bucket[b]]
    /\ UNCHANGED <<config, server, asked, done, servedNow>>

--------------------------------------------------------------------------------
(* dispatch_async: the action, what it reaches, its confirmation, the call *)

Named(action) == {t \in Tools : t.name = action}

\* canonicalize: the name itself, then an alias or a plural.
Resolve(action) ==
    IF Named(action) # {} THEN Named(action)
    ELSE IF action \in DOMAIN Aliases THEN Named(Aliases[action]) ELSE {}

\* Fault: the action is judged as it was written.
AsWritten(r, t) == t.marked = TRUE \/ (t.marked = None /\ t.token /\ t.name = call[r].action)
\* is_destructive_action: what the operation says of itself, then its method or name.
Destructive(r, t) ==
    IF t.marked # None THEN t.marked ELSE t.delete \/ t.token

GrantsAll(caps) ==
    \/ caps \cap {Bare("admin"), Bare("system")} # {}
    \/ caps \cap {<<Namespace, w>> : w \in {"*", "admin", "all"}} # {}
\* is_entitled, and entitled_resources of a list
Entitled(caps, resource) ==
    GrantsAll(caps) \/ <<Namespace, resource>> \in caps \/ Bare(resource) \in caps
EntitledResources(caps, available) ==
    IF GrantsAll(caps) THEN available
    ELSE {x \in available : <<Namespace, x>> \in caps \/ Bare(x) \in caps}

\* require_entitled, which a tool calls for the resource it reaches
Reaches(actor, resource) ==
    /\ actor.authenticated /\ actor.tenant # None
    /\ Entitled(actor.caps, resource)

Permitted(r, t) ==
    IF Network THEN Permits(ForRequest(Policy, call[r].offer.query, call[r].offer.headers), t)
    ELSE Permits(Policy, t)

Route(r) ==
    /\ call[r].at = "routed"
    /\ LET open == {t \in Resolve(call[r].action) :
                       Permitted(r, t) /\ Reaches(Actor(r), t.resource)}
       IN  IF open = {} THEN To(r, "refused")
           ELSE /\ \E t \in open : call' = [call EXCEPT ![r].tool = t,
                        ![r].at = IF Destructive(r, t) THEN "confirm" ELSE "go"]
                /\ UNCHANGED bound
    /\ UNCHANGED <<config, server, bucket, asked, done, servedNow>>

\* Fault: the confirmation is of the action whatever its arguments.
OfAction(r) == [tool |-> call[r].tool.name, arguments |-> None]
Binding(r) == [tool |-> call[r].tool.name, arguments |-> call[r].arguments]

\* The first round: the client is asked, in a modern connection by the result, in an
\* older one by a request of its own.  A binding stands for its digest.
Ask(r) ==
    /\ call[r].at = "confirm" /\ call[r].state = None
    /\ Len(asked) < Cardinality(Requests)
    /\ asked' = Append(asked, [of |-> Binding(r), answer |-> None, shown |->
                               [tool |-> call[r].tool.name, arguments |-> call[r].arguments]])
    /\ call' = [call EXCEPT ![r].at = IF call[r].modern THEN "asked" ELSE "eliciting",
                            ![r].state = Len(asked) + 1]
    /\ bound' = IF call[r].modern THEN [bound EXCEPT ![Context(r)] = None] ELSE bound
    /\ UNCHANGED <<config, server, bucket, done, servedNow>>

\* The user's answer to what was shown; no answer at all denies.
Answer(n, accepted) ==
    /\ asked[n].answer = None
    /\ asked' = [asked EXCEPT ![n].answer = accepted]
    /\ UNCHANGED <<config, server, call, bound, bucket, done, servedNow>>

Elicited(r) ==
    /\ call[r].at = "eliciting"
    /\ To(r, IF asked[call[r].state].answer = TRUE THEN "go" ELSE "cancelled")
    /\ UNCHANGED <<config, server, bucket, asked, done, servedNow>>

\* A modern client asks again in another request with the answer to some question; the
\* model may have changed the arguments meanwhile.
Retry(r, q, arguments) ==
    /\ call[r].at = "asked" /\ asked[call[r].state].answer # None
    /\ call[q].at = "confirm" /\ call[q].state = None
    /\ call' = [call EXCEPT ![q].state = call[r].state, ![q].arguments = arguments]
    /\ UNCHANGED <<config, server, bound, bucket, asked, done, servedNow>>

Confirm(r) ==
    /\ call[r].at = "confirm" /\ call[r].state # None
    /\ To(r, IF asked[call[r].state].of = Binding(r) /\ asked[call[r].state].answer = TRUE
                THEN "go" ELSE "cancelled")
    /\ UNCHANGED <<config, server, bucket, asked, done, servedNow>>

\* invoke_client_method, under the actor that is bound; the binding then ends.
Invoke(r) ==
    /\ call[r].at = "go"
    /\ done' = done \cup {[request |-> r, actor |-> Actor(r)]}
    /\ To(r, "done")
    /\ UNCHANGED <<config, server, bucket, asked, servedNow>>

ServedTick ==
    /\ servedNow < MaxServedTime /\ servedNow' = servedNow + 1
    /\ UNCHANGED <<config, server, call, bound, bucket, asked, done>>

ServedNext ==
    \/ Start \/ ServedTick
    \/ \E r \in Requests :
         \/ \E offer \in Offers : Arrive(r, offer)
         \/ Boundary(r) \/ Verify(r) \/ Bind(r) \/ Limit(r) \/ Route(r)
         \/ Ask(r) \/ Elicited(r) \/ Confirm(r) \/ Invoke(r)
         \/ \E q \in Requests, arguments \in Arguments : Retry(r, q, arguments)
    \/ \E n \in DOMAIN asked, accepted \in BOOLEAN : Answer(n, accepted)

ServedSpec == ServedInit /\ [][ServedNext]_servedVars

--------------------------------------------------------------------------------
(* Properties *)

\* A client method runs over a network only for a request that the boundary, the
\* verifier and the profile of a server that may serve let through, and for a tool
\* that the server's own policy shows, whatever filters the request carries.
CallsAreAdmitted ==
    \A d \in done : LET c == call[d.request]
                        token == c.offer.token
                    IN  /\ Permits(Policy, c.tool)
                        /\ Network => c.offer.host \in Hosts /\ Sum(c.offer.body) <= MaxBytes
                        /\ Network /\ ~config.override /\ config.auth # "none" =>
                             /\ token.expires >= c.verified /\ token.tenant # None
                             /\ Required \subseteq token.scopes
                             /\ config.loopback \/ TlsPresent

\* The actor that a client method runs under is the one its own request carries, and it
\* may reach what the tool reaches: the local principal only locally or by choice.
ActorIsOwn ==
    \A d \in done :
        /\ d.actor = RequestActor(d.request, config.auth = "none")
        /\ d.actor.type = "system" => ~Network \/ config.auth = "none"
        /\ call[d.request].tool.resource \in
             EntitledResources(d.actor.caps, {t.resource : t \in Tools})

\* A destructive call runs only after its user was shown that action with those
\* arguments and accepted it, whatever name the client called it by.
DestructiveIsConfirmed ==
    \A d \in done : LET t == call[d.request].tool IN
        (IF t.marked # None THEN t.marked ELSE t.delete \/ t.token) =>
            \E n \in DOMAIN asked :
                /\ asked[n].answer = TRUE
                /\ asked[n].shown = [tool |-> t.name, arguments |-> call[d.request].arguments]

--------------------------------------------------------------------------------
(* What one tool execution keeps until its deadline: a RequestCache, whose admit
   callback may itself call the cache again or take long, and a ProgressReporter, which
   sends its summaries one at a time.  Threads share the cache, tasks the reporter.  *)

CONSTANTS
    Tasks, Keys, Values,
    MaxEntries,   \* max_entries
    Deadline,     \* of the execution's context
    SendTimeout,  \* send_timeout
    Amounts,      \* completed values a task may report
    Calls,        \* operations a task makes
    MaxScopeTime

VARIABLES
    entries, closed,            \* the cache: [key, value], the longest unused first
    admitting,                  \* put under way in admit, by the task that holds the lock
    last, finished, sending,    \* the reporter; the task in its sender, and since when
    sent,                       \* summaries the sender was given
    told,                       \* what the tasks were told: for the properties
    calls, scopeNow

scopeVars == <<entries, closed, admitting, last, finished, sending, sent, told, calls,
               scopeNow>>

ScopeTypeOK ==
    /\ Len(entries) <= MaxEntries
    /\ closed \in BOOLEAN /\ finished \in BOOLEAN
    /\ \A t \in Tasks : calls[t] <= Calls

ScopeInit ==
    /\ entries = <<>> /\ closed = FALSE /\ admitting = None
    /\ last = [number |-> 0, completed |-> None, total |-> None]
    /\ finished = FALSE /\ sending = None /\ sent = <<>> /\ told = {}
    /\ calls = [t \in Tasks |-> 0] /\ scopeNow = 0

Calling(t) == calls[t] < Calls /\ calls' = [calls EXCEPT ![t] = @ + 1]

--------------------------------------------------------------------------------
(* RequestCache.  The lock is re-entrant: admit may use the cache in the same task. *)

Free(t) == admitting # None => admitting.task = t
Live == ~closed /\ scopeNow < Deadline
\* _check_live empties the cache when it meets the deadline.
Expire == IF Live THEN UNCHANGED <<entries, closed>> ELSE entries' = <<>> /\ closed' = TRUE

Without(key) == SelectSeq(entries, LAMBDA e : e.key # key)
Trim(list) == IF Len(list) > MaxEntries THEN SubSeq(list, 2, Len(list)) ELSE list

Get(t, key) ==
    /\ Calling(t) /\ Free(t)
    /\ IF Live
       THEN LET found == SelectSeq(entries, LAMBDA e : e.key = key)
            IN  /\ entries' = IF found = <<>> THEN entries ELSE Without(key) \o found
                /\ UNCHANGED closed
                /\ told' = told \cup {[key |-> key, at |-> scopeNow, found |->
                                       IF found = <<>> THEN None ELSE found[1].value]}
       ELSE Expire /\ UNCHANGED told
    /\ UNCHANGED <<admitting, last, finished, sending, sent, scopeNow>>

\* put, up to admit
BeginPut(t, key, value) ==
    /\ Calling(t) /\ admitting = None
    /\ IF Live THEN admitting' = [task |-> t, key |-> key,
                                  value |-> value] /\ UNCHANGED <<entries, closed>>
       ELSE Expire /\ UNCHANGED admitting
    /\ UNCHANGED <<last, finished, sending, sent, told, scopeNow>>

\* Fault: the cache is not looked at again after admit.
StillLive == TRUE
LiveAfterAdmit == Live

\* admit's answer, then the rest of put.
EndPut(admitted) ==
    /\ admitting # None /\ admitting' = None
    /\ IF admitted /\ LiveAfterAdmit
       THEN /\ entries' = Trim(Append(Without(admitting.key),
                                      [key |-> admitting.key, value |-> admitting.value]))
            /\ UNCHANGED closed
       ELSE IF admitted THEN Expire ELSE UNCHANGED <<entries, closed>>
    /\ UNCHANGED <<last, finished, sending, sent, told, calls, scopeNow>>

Close(t) ==
    /\ Calling(t) /\ Free(t)
    /\ entries' = <<>> /\ closed' = TRUE
    /\ UNCHANGED <<admitting, last, finished, sending, sent, told, scopeNow>>

--------------------------------------------------------------------------------
(* ProgressReporter.  sending is the lock, held through the sender. *)

\* Fault: a summary may go back.
AnyAmount(completed, total) == ~finished
\* _check_transition
Acceptable(completed, total) ==
    /\ ~finished
    /\ last.total # None => total = last.total
    /\ last.completed # None => completed >= last.completed
    /\ total # None => completed <= total

\* Sending only while the context gave a progress token, which these do.
Update(t, completed, total) ==
    /\ Calling(t) /\ sending = None
    /\ Acceptable(completed, total) /\ scopeNow < Deadline
    /\ IF completed = last.completed
       THEN last' = [last EXCEPT !.total = total] /\ UNCHANGED <<sending, sent>>
       ELSE /\ last' = [number |-> last.number + 1, completed |-> completed, total |-> total]
            /\ sending' = [task |-> t, since |-> scopeNow]
            /\ sent' = Append(sent, last')
    /\ UNCHANGED <<entries, closed, admitting, finished, told, scopeNow>>

\* The sender ends or fails, or the time-out cancels it.
Sent ==
    /\ sending # None /\ sending' = None
    /\ UNCHANGED <<entries, closed, admitting, last, finished, sent, told, calls, scopeNow>>

Finish(t) ==
    /\ Calling(t) /\ sending = None /\ finished' = TRUE
    /\ UNCHANGED <<entries, closed, admitting, last, sending, sent, told, scopeNow>>

\* Time; a sender is cancelled at its time-out or the deadline, whichever is first.
Patience == IF sending = None THEN MaxScopeTime
            ELSE IF sending.since + SendTimeout < Deadline
                 THEN sending.since + SendTimeout ELSE Deadline
ScopeTick ==
    /\ scopeNow < MaxScopeTime /\ scopeNow < Patience /\ scopeNow' = scopeNow + 1
    /\ UNCHANGED <<entries, closed, admitting, last, finished, sending, sent, told, calls>>

ScopeNext ==
    \/ \E t \in Tasks :
         \/ \E key \in Keys : Get(t, key) \/ \E value \in Values : BeginPut(t, key, value)
         \/ Close(t) \/ Finish(t)
         \/ \E completed \in Amounts, total \in Amounts \cup {None} :
              Update(t, completed, total)
    \/ (\E admitted \in BOOLEAN : EndPut(admitted)) \/ Sent \/ ScopeTick

ScopeSpec == ScopeInit /\ [][ScopeNext]_scopeVars

--------------------------------------------------------------------------------
(* Properties *)

\* A closed cache keeps nothing, whatever put was in admit when it was closed or the
\* deadline passed, and no value is given out after the deadline.
ClosedIsEmpty ==
    /\ closed => entries = <<>>
    /\ \A g \in told : g.at < Deadline
    /\ \A m, n \in DOMAIN entries : entries[m].key = entries[n].key => m = n

\* The client sees summaries that grow under one total, numbered without a gap, and
\* none once the progress is finished or its deadline passed.
ProgressGrows ==
    \A n \in DOMAIN sent :
        /\ sent[n].number = n
        /\ n > 1 => sent[n].completed > sent[n - 1].completed
        /\ \A m \in 1..(n - 1) : sent[m].total \in {None, sent[n].total}
        /\ sent[n].total # None => sent[n].completed <= sent[n].total
EndedStep == finished => sent' = sent

--------------------------------------------------------------------------------
(* The fleet registration of a served connector: a lease in the server registry, that a
   heartbeat renews for as long as the server runs.                                 *)

CONSTANTS
    LeaseTtl,      \* lease_ttl_seconds: never below MIN_LEASE_TTL_SECONDS
    MaxLeaseTime

VARIABLES
    leaseNow,
    lease,         \* when the registry's entry ends
    beat,          \* when the next heartbeat is, or None once the server stopped
    missed         \* heartbeats that failed in a row

leaseVars == <<leaseNow, lease, beat, missed>>

LeaseInit == leaseNow = 0 /\ lease = 0 /\ beat = 0 /\ missed = 0

LeaseTypeOK == leaseNow \in 0..MaxLeaseTime /\ lease \in Nat /\ missed \in Nat

\* Fault: the lease is renewed when it ends.
AtItsEnd == LeaseTtl
Interval == IF LeaseTtl >= 3 THEN LeaseTtl \div 3 ELSE 1

\* A heartbeat that fails, or that the registry refuses, is only logged: the next one is
\* as far away.
Heartbeat ==
    /\ beat # None /\ leaseNow >= beat
    /\ \/ lease' = leaseNow + LeaseTtl /\ missed' = 0
       \/ lease' = lease /\ missed' = missed + 1
    /\ beat' = leaseNow + Interval
    /\ UNCHANGED leaseNow

\* registration_lifespan cancels the heartbeat; the lease is left to run out.
Stop ==
    /\ beat # None /\ beat' = None
    /\ UNCHANGED <<leaseNow, lease, missed>>

\* The loop's sleep is woken when it ends.
LeaseTick ==
    /\ leaseNow < MaxLeaseTime /\ (beat # None => leaseNow < beat)
    /\ leaseNow' = leaseNow + 1
    /\ UNCHANGED <<lease, beat, missed>>

LeaseNext == Heartbeat \/ Stop \/ LeaseTick

LeaseSpec == LeaseInit /\ [][LeaseNext]_leaseVars

--------------------------------------------------------------------------------
(* Once a server that runs was registered, its lease has not ended unless more heartbeats
   than one have failed since the last that was accepted (maintain_registration).   *)
LeaseLasts == lease > 0 /\ beat # None /\ missed <= 1 => leaseNow < lease
================================================================================
