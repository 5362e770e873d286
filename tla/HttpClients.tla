------------------------------ MODULE HttpClients ------------------------------
(* The HTTP clients: the governed client that decides where a request may go, the
   client of a generated API, and the pacing of requests.

   The sections share no state: each has its own Init, Next and Spec. *)
EXTENDS Integers, Sequences

--------------------------------------------------------------------------------
(* The governed HTTP client: HttpClientOptions, create_http_client and what a request
   passes through: the air-gap check, the transport that pins each request to one
   address, and the transport that tries again.  Requests overlap, names change their
   addresses, and an authentication that is refused sends the same request again. *)

CONSTANTS
    Settings,     \* the options a client may be built with
    Targets,      \* what requests name: scheme, host and method
    ClientRequests,
    Addresses,    \* literal addresses: hosts of their own
    ClassOf,      \* of each address: "public", "private", "shared", "loopback", "other"
    Answers,      \* lists of addresses that a name may resolve to
    MaxRetryAfter,\* max_retry_after
    RetryAfters,  \* what a server may ask for
    MaxChanges,   \* changes of DNS and of AIRGAP_MODE
    None

VARIABLES
    client,    \* its options, and its state: new, built or refused
    airgap,    \* AIRGAP_MODE
    dns,       \* what names resolve to now
    origins,   \* _origin_hosts: the host of each scheme and address
    req,       \* each request
    dialled,   \* connections a request was sent on
    got,       \* by request, how often the server acted on it
    changes

clientVars == <<client, airgap, dns, origins, req, dialled, got, changes>>

ClientIdle == [at |-> "idle", scheme |-> None, host |-> None, name |-> None, method |-> None,
               address |-> None, attempt |-> 0, checked |-> FALSE, again |-> FALSE,
               end |-> None]

ClientTypeOK ==
    /\ \A r \in ClientRequests : req[r].attempt \in 0..10 /\ got[r] \in Nat
    /\ DOMAIN origins \subseteq {"http", "https"} \X Addresses

ClientInit ==
    /\ client \in Settings /\ airgap \in BOOLEAN /\ dns \in Answers
    /\ origins = <<>> /\ req = [r \in ClientRequests |-> ClientIdle]
    /\ dialled = {} /\ got = [r \in ClientRequests |-> 0] /\ changes = 0

Literal(host) == host \in Addresses
Loopback(host) == IF Literal(host) THEN ClassOf[host] = "loopback" ELSE host = "localhost"
Resolved(host) == IF Literal(host) THEN <<host>> ELSE dns

--------------------------------------------------------------------------------
(* HttpClientOptions and create_http_client *)

\* The private-host boundary, and the public one.
PrivateSpace(address) == ClassOf[address] \in {"loopback", "private", "shared"}
\* egress_ip_is_blocked
Blocked(address) ==
    IF ClassOf[address] = "loopback" THEN ~client.loopback ELSE ClassOf[address] # "public"

OptionsValid ==
    /\ client.scheme = "http" => Loopback(client.host) \/ client.plaintext
    /\ client.private # {} \/ client.loopback => client.pin
    /\ client.pin => ~client.proxy
    /\ ~client.credentials

\* _check_pinned_base_host
BaseValid ==
    LET allowed == client.host \in client.private
    IN  /\ Loopback(client.host) => client.loopback \/ allowed
        /\ Literal(client.host) =>
             IF allowed THEN PrivateSpace(client.host) ELSE ~Blocked(client.host)

Build ==
    /\ client.state = "new"
    /\ client' = [client EXCEPT !.state =
            IF OptionsValid /\ (client.pin => BaseValid) THEN "built" ELSE "refused"]
    /\ UNCHANGED <<airgap, dns, origins, req, dialled, got, changes>>

--------------------------------------------------------------------------------
(* A request *)

To(r, place) == req' = [req EXCEPT ![r].at = place]
End(r, how) == req' = [req EXCEPT ![r].at = "ended", ![r].end = how]

\* An absolute URL may name any host.
ClientBegin(r, target) ==
    /\ client.state = "built" /\ req[r].at = "idle"
    /\ req' = [req EXCEPT ![r] = [ClientIdle EXCEPT !.at = "airgap", !.scheme = target.scheme,
                  !.host = target.host, !.name = target.host, !.method = target.method]]
    /\ UNCHANGED <<client, airgap, dns, origins, dialled, got, changes>>

\* _airgap_local
Local(host) ==
    host = "localhost" \/ (Literal(host) /\ ClassOf[host] \in {"private", "loopback"})

CheckAirgap(r) ==
    /\ req[r].at = "airgap"
    /\ IF airgap /\ (client.proxy \/ ~Local(req[r].host)) THEN End(r, "airgap")
       ELSE req' = [req EXCEPT ![r].at = IF client.pin THEN "resolve" ELSE "send",
                               ![r].attempt = 1, ![r].checked = airgap]
    /\ UNCHANGED <<client, airgap, dns, origins, dialled, got, changes>>

\* Fault: one good address among the answers is enough.
SomeApproved(host, ips) ==
    \E n \in DOMAIN ips :
        IF host \in client.private THEN PrivateSpace(ips[n]) ELSE ~Blocked(ips[n])
\* _candidate_ips
Approved(host, ips) ==
    \A n \in DOMAIN ips :
        IF host \in client.private THEN PrivateSpace(ips[n]) ELSE ~Blocked(ips[n])

\* _resolve_pinned_request: the request is rewritten to the address.
Resolve(r) ==
    /\ req[r].at = "resolve"
    /\ LET host == req[r].host
           ips == Resolved(host)
       IN  IF /\ ips # <<>> /\ Approved(host, ips)
              /\ req[r].scheme = "http" =>
                   ClassOf[ips[1]] = "loopback" \/ host \in client.private
           THEN req' = [req EXCEPT ![r].at = "bind", ![r].address = ips[1], ![r].name = host]
           ELSE End(r, "violation")
    /\ UNCHANGED <<client, airgap, dns, origins, dialled, got, changes>>

\* Fault: hosts that share an address share its connections.
ShareAddress(r, prior) == TRUE
OwnAddress(r, prior) == prior = req[r].name

\* _PinState.bind
Bind(r) ==
    /\ req[r].at = "bind"
    /\ LET key == <<req[r].scheme, req[r].address>>
           prior == IF key \in DOMAIN origins THEN origins[key] ELSE req[r].name
       IN  /\ origins' = [k \in DOMAIN origins
                          \cup {key} |-> IF k = key THEN prior ELSE origins[k]]
           /\ req' = [req EXCEPT ![r] = IF OwnAddress(r, prior)
                       THEN [@ EXCEPT !.at = "send", !.host = req[r].address]
                       ELSE [@ EXCEPT !.at = "ended", !.end = "crossed"]]
    /\ UNCHANGED <<client, airgap, dns, dialled, got, changes>>

--------------------------------------------------------------------------------
(* GovernedTransport and RetryPolicy *)

Idempotent == {"GET", "PUT"}

\* Fault: an error after the request was sent is retried whatever the method.
AnyMethod(r, outcome) == outcome.kind \in {"unsent", "lost"}
\* delay_after_response and delay_after_error: whether there is another attempt.
Retryable(r, outcome) ==
    \/ outcome.kind = "unsent"
    \/ outcome.kind = "lost" /\ req[r].method \in Idempotent
    \/ /\ outcome.kind = "busy" /\ req[r].method \in Idempotent
       /\ outcome.after # None => outcome.after <= MaxRetryAfter

Outcomes ==
    [kind : {"unsent", "lost", "tls", "answer", "unauthorized"}, after : {None}]
        \cup [kind : {"busy"}, after : RetryAfters \cup {None}]

\* One attempt: a connection to the address, which for a client that does not pin is
\* one of what the name resolves to now; what comes back; and the wait if there is to
\* be another.  The server acts on a request that it answers, or whose answer is lost.
ClientSend(r, outcome) ==
          /\ req[r].at = "send"
          /\ \E n \in DOMAIN Resolved(req[r].host) :
               LET address == IF client.pin THEN req[r].address ELSE Resolved(req[r].host)[n]
               IN  dialled' = IF outcome.kind \in {"unsent", "tls"} THEN dialled
                              ELSE dialled \cup {[scheme |-> req[r].scheme, address |-> address,
                                                  name |-> req[r].name, checked |-> req[r].checked]}
          /\ got' = [got EXCEPT ![r] = IF outcome.kind \in {"lost", "answer"} THEN @ + 1 ELSE @]
          /\ IF req[r].attempt < client.attempts /\ Retryable(r, outcome)
             THEN req' = [req EXCEPT ![r].attempt = @ + 1]
             ELSE CASE outcome.kind \in {"answer", "busy"} -> End(r, "answer")
                    [] outcome.kind = "unauthorized" -> To(r, "refused")
                    [] OTHER -> End(r, "error")
          /\ UNCHANGED <<client, airgap, dns, origins, changes>>

\* The auth flow gets the answer.  One that can renew its credential sends the request
\* object once more, through the whole client.
Renew(r) ==
    /\ req[r].at = "refused"
    /\ IF client.renews /\ ~req[r].again
       THEN req' = [req EXCEPT ![r].at = "airgap", ![r].again = TRUE]
       ELSE End(r, "answer")
    /\ UNCHANGED <<client, airgap, dns, origins, dialled, got, changes>>

--------------------------------------------------------------------------------
(* Surroundings *)

Move(ips) ==
    /\ changes < MaxChanges /\ changes' = changes + 1
    /\ dns' = ips
    /\ UNCHANGED <<client, airgap, origins, req, dialled, got>>

Toggle ==
    /\ changes < MaxChanges /\ changes' = changes + 1
    /\ airgap' = ~airgap
    /\ UNCHANGED <<client, dns, origins, req, dialled, got>>

ClientNext ==
    \/ Build \/ Toggle
    \/ \E ips \in Answers : Move(ips)
    \/ \E r \in ClientRequests :
         \/ \E target \in Targets : ClientBegin(r, target)
         \/ CheckAirgap(r) \/ Resolve(r) \/ Bind(r) \/ Renew(r)
         \/ \E outcome \in Outcomes : ClientSend(r, outcome)

ClientSpec == ClientInit /\ [][ClientNext]_clientVars

--------------------------------------------------------------------------------
(* Properties *)

\* A client that pins connects only to addresses that its policy allows for the name,
\* whatever the name resolves to later, and without TLS only to private ones.  Under
\* an air gap that its check saw a request goes to a local host only.
DialsAreApproved ==
    \A d \in dialled :
        /\ client.pin =>
             /\ d.name \in client.private => PrivateSpace(d.address)
             /\ d.name \notin client.private => ~Blocked(d.address)
             /\ d.scheme = "http" =>
                  ClassOf[d.address] = "loopback" \/ d.name \in client.private
        /\ d.checked => Local(d.name) /\ ~client.proxy

\* A client that pins never has the requests of two names on connections to one
\* address, which its pool would share.
NamesAreApart ==
    client.pin => \A c, d \in dialled :
        c.scheme = d.scheme /\ c.address = d.address => c.name = d.name

\* The server acts at most once on a request whose method is not idempotent, through
\* retries and renewed credentials, and on any no more often than there are attempts.
ActsOnce ==
    \A r \in ClientRequests :
        /\ req[r].method \notin Idempotent => got[r] <= 1
        /\ got[r] <= client.attempts * (IF req[r].again THEN 2 ELSE 1)

--------------------------------------------------------------------------------
(* BaseApiClient: one client that threads share, which waits and sends again after a
   429, renews its credential once after a 401, and keeps the rate limits that its
   responses carried last. *)

CONSTANTS
    Threads,
    MaxRetries,    \* max_retries_429
    Cap,           \* retry_after_cap_s
    Epoch,         \* numbers above it are points in time
    Headers,       \* rate headers of responses: retry, reset and limit, each may be None
    MaxApiTime

VARIABLES
    call,      \* each thread's request
    token,     \* the credential of the auth strategy
    valid,     \* the credential the server takes
    apiLast,   \* _last_rate_limit: its number
    seen,      \* snapshots observed so far, numbered
    acted,     \* by thread, how often the server acted on its request
    apiNow

apiVars == <<call, token, valid, apiLast, seen, acted, apiNow>>

ApiIdle == [at |-> "idle", attempts |-> 0, refreshed |-> FALSE, sends |-> 0, until |-> 0,
            own |-> None, with |-> None, end |-> None]

ApiTypeOK ==
    /\ \A t \in Threads : call[t].attempts \in 0..MaxRetries
    /\ apiLast \in 0..seen /\ apiNow \in 0..MaxApiTime

ApiInit ==
    /\ call = [t \in Threads |-> ApiIdle] /\ token = 1 /\ valid \in {1, 2}
    /\ apiLast = 0 /\ seen = 0 /\ acted = [t \in Threads |-> 0] /\ apiNow = 0

Least(m, n) == IF m < n THEN m ELSE n
Most(m, n) == IF m > n THEN m ELSE n

\* Fault: what the server asks for is waited for whatever it is.
AsAsked(headers) ==
    IF headers.retry # None THEN headers.retry
    ELSE IF headers.reset = None THEN 1
    ELSE IF headers.reset > Epoch THEN Most(0,
                                            headers.reset - Epoch - apiNow) ELSE headers.reset
\* _backoff_seconds; a point in time is Epoch and the time since.
Backoff(headers) ==
    LET delay == IF headers.retry # None THEN headers.retry
                 ELSE IF headers.reset = None THEN 1
                 ELSE IF headers.reset > Epoch THEN Most(0, headers.reset - Epoch - apiNow)
                 ELSE headers.reset
    IN  Least(Most(delay, 0), Cap)

ApiBegin(t) ==
    /\ call[t].at = "idle"
    /\ call' = [call EXCEPT ![t].at = "send"]
    /\ UNCHANGED <<token, valid, apiLast, seen, acted, apiNow>>

\* _merged_headers asks the strategy at every send.
ApiSend(t) ==
       /\ call[t].at = "send" /\ call[t].until <= apiNow
       /\ call' = [call EXCEPT ![t].at = "sent", ![t].sends = @ + 1, ![t].with = token]
       /\ UNCHANGED <<token, valid, apiLast, seen, acted, apiNow>>

\* Fault: a server error is sent again as well.
RetriesErrors(status) == status \in {429, 500}
Limited(status) == status = 429

\* The response: its snapshot is kept, then a 429, a 401, or the end.
Observe(t, headers) ==
    IF headers.limit \/ headers.reset # None
    THEN seen' = seen + 1 /\ apiLast' = seen + 1
    ELSE UNCHANGED <<seen, apiLast>>

Renews(t, status) == status = 401 /\ ~call[t].refreshed

Receive(t, status, headers) ==
    /\ call[t].at = "sent"
    /\ status = 401 <=> call[t].with # valid
    /\ Observe(t, headers)
    /\ acted' = [acted EXCEPT ![t] = IF status \in {200, 500} THEN @ + 1 ELSE @]
    /\ LET own == IF seen' = seen THEN call[t].own ELSE seen'
       IN  IF Limited(status) /\ call[t].attempts < MaxRetries
           THEN /\ call' = [call EXCEPT ![t].attempts = @ + 1, ![t].at = "send",
                                        ![t].until = apiNow + Backoff(headers), ![t].own = own]
                /\ UNCHANGED token
           ELSE IF Renews(t, status)
           THEN /\ call' = [call EXCEPT ![t].refreshed = TRUE, ![t].at = "send", ![t].own = own]
                /\ token' = valid
           ELSE /\ call' = [call EXCEPT ![t].at = "parse", ![t].end = status, ![t].own = own]
                /\ UNCHANGED token
    /\ UNCHANGED <<valid, apiNow>>

\* An error of the transport is raised at once: the request may have been acted on.
Lose(t, reached) ==
    /\ call[t].at = "sent"
    /\ call' = [call EXCEPT ![t].at = "raised"]
    /\ acted' = [acted EXCEPT ![t] = IF reached THEN @ + 1 ELSE @]
    /\ UNCHANGED <<token, valid, apiLast, seen, apiNow>>

\* request: the mapped exception, or the envelope with the client's snapshot.
Return(t) ==
    /\ call[t].at = "parse"
    /\ call' = [call EXCEPT ![t].at = IF call[t].end >= 400 THEN "raised" ELSE "returned",
                            ![t].with = apiLast]
    /\ UNCHANGED <<token, valid, apiLast, seen, acted, apiNow>>

\* The credential the server takes changes.
Rotate ==
    /\ valid = 1 /\ valid' = 2
    /\ UNCHANGED <<call, token, apiLast, seen, acted, apiNow>>

ApiTick ==
    /\ apiNow < MaxApiTime /\ apiNow' = apiNow + 1
    /\ UNCHANGED <<call, token, valid, apiLast, seen, acted>>

ApiNext ==
    \/ Rotate \/ ApiTick
    \/ \E t \in Threads :
         \/ ApiBegin(t) \/ ApiSend(t) \/ Return(t)
         \/ \E status \in {200, 401, 429, 500}, headers \in Headers :
              Receive(t, status, headers)
         \/ \E reached \in BOOLEAN : Lose(t, reached)

ApiSpec == ApiInit /\ [][ApiNext]_apiVars

--------------------------------------------------------------------------------
(* Properties *)

\* The server acts on a request at most once, whatever it answers and however often it
\* is sent; no request is sent more often than the retries and one renewal allow, and
\* none waits longer than the cap.
SentWithinReason ==
    \A t \in Threads :
        /\ acted[t] <= 1
        /\ call[t].sends <= MaxRetries + 2
        /\ call[t].until <= apiNow + Cap

\* A call is told the limits of its own last response that had any, or newer ones.
LimitsAreCurrent ==
    \A t \in Threads : call[t].at = "returned" /\ call[t].own # None =>
        call[t].with >= call[t].own

--------------------------------------------------------------------------------
(* RateLimiter: the requests of one MCP session, paced by one limiter.  A request waits
   for the lock in its turn, sleeps with the lock held, and may be cancelled at either. *)

CONSTANTS
    PaceRequests,  \* requests of the session, each sent once
    MinInterval,   \* mcp_min_interval_seconds
    MaxPaceTime

VARIABLES
    paceNow,
    queue,         \* requests that wait for the lock, in the order they came
    holder,        \* [request, until]: who holds the lock and sleeps, or None
    paceLast,      \* _last_call, or None
    sent,          \* ghost: [request, at], in the order they left
    rest           \* requests that did not start yet

paceVars == <<paceNow, queue, holder, paceLast, sent, rest>>

PaceInit ==
    /\ paceNow = 0 /\ queue = << >> /\ holder = None /\ paceLast = None /\ sent = << >>
    /\ rest = PaceRequests

PaceTypeOK ==
    /\ paceNow \in 0..MaxPaceTime /\ rest \subseteq PaceRequests
    /\ paceLast \in 0..MaxPaceTime \cup {None}

Request(r) ==
    /\ r \in rest /\ rest' = rest \ {r} /\ queue' = Append(queue, r)
    /\ UNCHANGED <<paceNow, holder, paceLast, sent>>

\* Fault: what remains is counted from the interval's other end.
Elapsed == IF paceLast # None THEN paceNow - paceLast ELSE 0
Delay == IF paceLast # None /\ paceLast + MinInterval > paceNow
         THEN paceLast + MinInterval - paceNow ELSE 0

Leave(r) == paceLast' = paceNow /\ sent' = Append(sent, [request |-> r, at |-> paceNow])

Acquire ==
    /\ holder = None /\ queue # << >> /\ queue' = Tail(queue)
    /\ IF Delay > 0
       THEN /\ holder' = [request |-> Head(queue), until |-> paceNow + Delay]
            /\ UNCHANGED <<paceLast, sent>>
       ELSE Leave(Head(queue)) /\ UNCHANGED holder
    /\ UNCHANGED <<paceNow, rest>>

\* The sleep ends, late or not.
Wake ==
    /\ holder # None /\ paceNow >= holder.until
    /\ Leave(holder.request) /\ holder' = None
    /\ UNCHANGED <<paceNow, queue, rest>>

\* Fault: a request that is cancelled has left for the limiter.
Counted == paceNow
Uncounted == paceLast

Cancel ==
    /\ \/ holder # None /\ holder' = None /\ UNCHANGED queue
       \/ /\ UNCHANGED holder
          /\ \E i \in DOMAIN queue :
               queue' = SubSeq(queue, 1, i - 1) \o SubSeq(queue, i + 1, Len(queue))
    /\ paceLast' = Uncounted
    /\ UNCHANGED <<paceNow, sent, rest>>

PaceTick ==
    /\ paceNow < MaxPaceTime /\ paceNow' = paceNow + 1
    /\ UNCHANGED <<queue, holder, paceLast, sent, rest>>

PaceNext == (\E r \in PaceRequests : Request(r)) \/ Acquire \/ Wake \/ Cancel \/ PaceTick

PaceSpec == PaceInit /\ [][PaceNext]_paceVars

--------------------------------------------------------------------------------
(* Requests leave at least the interval apart, whatever was cancelled between them, and
   nobody waits for a request that never left: who sleeps does so until the interval
   after the last that did (RateLimiter.wait).                                      *)
RequestsArePaced ==
    /\ \A i \in 1..(Len(sent) - 1) : sent[i + 1].at - sent[i].at >= MinInterval
    /\ holder # None => sent # << >> /\ holder.until = sent[Len(sent)].at + MinInterval
================================================================================
