---------------------------- MODULE SourceTransport ----------------------------
(* What sources fetch with: the request with its redirects, the credential, and the walk
   over pages.

   The sections share no state: each has its own Init, Next and Spec. *)
EXTENDS Naturals, Sequences, FiniteSets, FiniteSetsExt

--------------------------------------------------------------------------------
(***************************************************************************)
(* One call of the source HTTP boundary: safe_get_bytes, which follows     *)
(* redirects hop by hop, or a POST or DELETE, which does not.  The name    *)
(* service and the server are the environment: an address may change       *)
(* between any two steps, and every answer is possible.                    *)
(***************************************************************************)

CONSTANTS
    Urls,            \* URLs of valid shape, as origins: [scheme, host, port]
    Private,         \* allowed_private_hosts
    Redirectable,    \* allowed_redirect_hosts
    Literal,         \* hosts that are addresses
    Answers,         \* answers of the name service: sequences of addresses
    KindOf,          \* KindOf[a]: "public", "private" or "metadata"
    None,
    MaxRedirects,    \* max_redirects
    MaxBytes,        \* max_bytes
    Chunks           \* lengths of chunks, and of declared bodies

Hosts == {u.host : u \in Urls}

VARIABLES
    call,     \* [method, url, injected, proxy]: the request, whether the
              \* caller brought a transport, and the proxy of the TLS profile
    dns,      \* dns[h]: what the name service answers for h
    fetchStep,
    current,  \* state.current
    hop,
    pin,      \* the pinned address of this hop, None with an injected transport
    body,     \* bytes read
    tls,      \* the TLS profile: "none", "held" or "released"
    result,   \* "none", "ok" or "error"
    sent      \* ghost: the requests, in order

fetchVars == <<call, dns, fetchStep, current, hop, pin, body, tls, result, sent>>

Calls == [method : {"GET", "POST", "DELETE"}, url : Urls, injected : BOOLEAN,
          proxy : {"none", "http", "socks"}]
Addresses == DOMAIN KindOf

FetchTypeOK ==
    /\ call \in Calls
    /\ dns \in [Hosts \ Literal -> Answers]
    /\ fetchStep \in {"open", "client", "resolve", "send", "answer", "body", "close", "done"}
    /\ current \in Urls /\ hop \in 0..MaxRedirects
    /\ pin \in Addresses \cup {None} /\ body \in 0..MaxBytes
    /\ tls \in {"none", "held", "released"} /\ result \in {"none", "ok", "error"}
    /\ Len(sent) <= MaxRedirects + 1

FetchInit ==
    /\ call \in Calls /\ (call.injected => call.proxy = "none")
    /\ dns \in [Hosts \ Literal -> Answers]
    /\ fetchStep = "open" /\ current = call.url /\ hop = 0 /\ pin = None /\ body = 0
    /\ tls = "none" /\ result = "none" /\ sent = <<>>

Goto(s) == fetchStep' = s
End(r) == result' = r /\ Goto("close")
Permitted == {call.url.host} \cup Redirectable

--------------------------------------------------------------------------------
(* _open_fetch, _open_write *)

\* A literal address is checked before anything is opened.
SafeLiteral(u) == u.host \in Literal => u.host \in Private \/ KindOf[u.host] = "public"

Open ==
    /\ fetchStep = "open" /\ call.method = "GET"
    /\ IF SafeLiteral(call.url) THEN Goto("client") /\ UNCHANGED result
       ELSE result' = "error" /\ Goto("done")
    /\ UNCHANGED <<call, dns, current, hop, pin, body, tls, sent>>

\* The payload of a POST may not be JSON, or be too long.
OpenWrite ==
    /\ fetchStep = "open" /\ call.method # "GET"
    /\ \/ SafeLiteral(call.url) /\ Goto("client") /\ UNCHANGED result
       \/ ~SafeLiteral(call.url) /\ result' = "error" /\ Goto("done")
       \/ call.method = "POST" /\ result' = "error" /\ Goto("done")
    /\ UNCHANGED <<call, dns, current, hop, pin, body, tls, sent>>

\* _prepare_client; a proxy that can not be pinned releases the profile.
Prepare ==
    /\ fetchStep = "client"
    /\ \/ call.injected /\ Goto("resolve") /\ UNCHANGED <<tls, result>>
       \/ ~call.injected /\ tls' = "held" /\ Goto("resolve") /\ UNCHANGED result
       \/ /\ ~call.injected /\ call.proxy # "none"
          /\ tls' = "released" /\ result' = "error" /\ Goto("done")
    /\ UNCHANGED <<call, dns, current, hop, pin, body, sent>>

--------------------------------------------------------------------------------
(* _resolve_hop and _plan_hop *)

\* Every address of the answer must do, although only the first is used.
Global(a) == KindOf[a] = "public"
ApprovedPrivate(a) == KindOf[a] # "metadata"
Approved(h, answer) ==
    answer # <<>> /\ \A k \in DOMAIN answer :
        IF h \in Private THEN ApprovedPrivate(answer[k]) ELSE Global(answer[k])

\* _require_proxy_target_compatibility
Proxied(u) == call.proxy # "http" \/ u.scheme = "http" \/ u.host \in Literal

Lookup(h) == IF h \in Literal THEN <<h>> ELSE dns[h]

Resolve ==
    LET answer == Lookup(current.host) IN
    /\ fetchStep = "resolve"
    /\ IF call.injected
       THEN pin' = None /\ Goto("send") /\ UNCHANGED result
       ELSE IF Approved(current.host, answer) /\ Proxied(current)
               /\ current.host \in Permitted
       THEN pin' = answer[1] /\ Goto("send") /\ UNCHANGED result
       ELSE End("error") /\ UNCHANGED pin
    /\ UNCHANGED <<call, dns, current, hop, body, tls, sent>>

--------------------------------------------------------------------------------
(* The request *)

\* _headers_for_hop.  Fault: credentials go wherever the redirects lead.
AllHeaders(u) == TRUE
SecretFor(u) == u = call.url

\* _pinned_url.  Fault: the client looks the name up again.
LookAgain ==
    IF call.injected \/ Lookup(current.host) = <<>> THEN pin ELSE Lookup(current.host)[1]
Target == pin

\* A proxy connects where it is told to.  The call may fail before it is sent.
Send ==
    /\ fetchStep = "send"
    /\ \/ /\ sent' = Append(sent, [method |-> call.method, url |-> current,
                                   secret |-> SecretFor(current), to |-> Target])
          /\ Goto("answer") /\ UNCHANGED result
       \/ End("error") /\ UNCHANGED sent
    /\ UNCHANGED <<call, dns, current, hop, pin, body, tls>>

--------------------------------------------------------------------------------
(* The answer *)

\* _next_redirect_url.  Fault: a redirect may leave https.
AnyScheme(u) == u.host \in Permitted /\ SafeLiteral(u)
MayFollow(u) ==
    u.host \in Permitted /\ SafeLiteral(u) /\ ~(current.scheme = "https" /\ u.scheme = "http")

\* Fault: one redirect more.
OneMore == hop <= MaxRedirects
MoreHops == hop < MaxRedirects

\* _require_direct_peer: without a proxy the peer has to be the pinned address.
Stranger ==
    /\ fetchStep = "answer" /\ ~call.injected /\ call.proxy = "none" /\ End("error")
    /\ UNCHANGED <<call, dns, current, hop, pin, body, tls, sent>>

\* A GET goes on to its destination, unless it has none or may not go there.
Redirected ==
    /\ fetchStep = "answer" /\ call.method = "GET"
    /\ \/ \E u \in Urls :
            /\ MoreHops /\ MayFollow(u)
            /\ current' = u /\ hop' = hop + 1 /\ Goto("resolve") /\ UNCHANGED result
       \/ End("error") /\ UNCHANGED <<current, hop>>
    /\ UNCHANGED <<call, dns, pin, body, tls, sent>>

\* "State-changing source redirect is forbidden"
RefuseRedirect ==
    /\ fetchStep = "answer" /\ call.method # "GET" /\ End("error")
    /\ UNCHANGED <<call, dns, current, hop, pin, body, tls, sent>>

\* An answer that is no redirect: a body to read, an error status, or a declared
\* length over the limit.
Answered ==
    /\ fetchStep = "answer"
    /\ (Goto("body") /\ UNCHANGED result) \/ End("error")
    /\ UNCHANGED <<call, dns, current, hop, pin, body, tls, sent>>

\* _append_chunk.  Fault: a chunk is looked at by itself.
EachFits(n) == n <= MaxBytes
Fits(n) == n <= MaxBytes - body

Read ==
    /\ fetchStep = "body"
    /\ \E n \in Chunks : IF Fits(n) THEN body' = body + n /\ UNCHANGED <<fetchStep, result>>
                         ELSE End("error") /\ UNCHANGED body
    /\ UNCHANGED <<call, dns, current, hop, pin, tls, sent>>

\* The end of the body.  The answer to a write has to be JSON.
Finish ==
    /\ fetchStep = "body"
    /\ End("ok") \/ (call.method # "GET" /\ End("error"))
    /\ UNCHANGED <<call, dns, current, hop, pin, body, tls, sent>>

\* The finally of the call.
Close ==
    /\ fetchStep = "close" /\ Goto("done")
    /\ tls' = IF tls = "held" THEN "released" ELSE tls
    /\ UNCHANGED <<call, dns, current, hop, pin, body, result, sent>>

\* The name service answers differently from now on.
Rebind ==
    /\ fetchStep \in {"resolve", "send"}
    /\ \E h \in Hosts \ Literal, answer \in Answers : dns' = [dns EXCEPT ![h] = answer]
    /\ UNCHANGED <<call, fetchStep, current, hop, pin, body, tls, result, sent>>

FetchNext ==
    \/ Open \/ OpenWrite \/ Prepare \/ Resolve \/ Send
    \/ Stranger \/ Redirected \/ RefuseRedirect \/ Answered \/ Read \/ Finish \/ Close
    \/ Rebind

FetchSpec == FetchInit /\ [][FetchNext]_fetchVars

--------------------------------------------------------------------------------
(* Properties *)

Requests == {sent[k] : k \in DOMAIN sent}

\* However redirects go round and names change their addresses, a request goes to a
\* host the caller named, at an address that is public or, for a host the operator
\* approved, private; credentials only to the origin they were given for, and never
\* in plain text once the call has used https.
RequestsAreApproved ==
    /\ \A q \in Requests :
         /\ q.url.host \in Permitted
         /\ q.secret => q.url = call.url
         /\ q.to # None => \/ KindOf[q.to] = "public"
                           \/ q.url.host \in Private /\ KindOf[q.to] = "private"
    /\ \A j, k \in DOMAIN sent :
         j < k /\ sent[j].url.scheme = "https" => sent[k].url.scheme = "https"

\* A write is sent once at most, and a call that is over holds no TLS profile and, if
\* it returned, sent a request.
CallsAreClean ==
    /\ call.method # "GET" => Len(sent) <= 1
    /\ fetchStep = "done" => tls # "held" /\ (result = "ok" => sent # <<>>)

--------------------------------------------------------------------------------
(* SourceCredentials: the outbound credential of a source, built from its descriptor
   on first use and kept; an OAuth2 credential refreshes itself in place.  Threads
   share both.

   A secret in the secret store opens a line of tokens, numbered as they are issued.
   The token server takes only the newest refresh token of a line.                 *)

CONSTANTS
    Threads,
    Kinds,        \* the credential types a descriptor may name
    MaxObjects,   \* credentials built
    MaxTokens,    \* tokens of a line
    MaxCredentialFaults  \* secrets that cannot be read, token requests that fail, expiries

VARIABLES
    descriptor,   \* the source's descriptor: its version, type and secret
    cached,       \* the credential in the cache, or None
    object,       \* the credentials built
    readable,     \* the secret store answers
    newest,       \* secret -> the newest token of its line
    expired,      \* <<secret, access token>> within the skew of the expiry, or past it
    thread,       \* where a thread is in get and materialize
    holder,       \* credential -> the thread that holds its lock
    given,        \* thread -> what its last materialize gave
    reused,       \* a refresh token was presented again
    credentialFaults

credentialVars == <<descriptor, cached, object, readable, newest, expired, thread, holder,
                    given,
                    reused, credentialFaults>>

Objects == 1..MaxObjects
At(t, step) == thread[t].step = step
Of(t) == object[thread[t].of]
Lapsed(o) == <<object[o].secret, object[o].access>> \in expired
CredentialFault ==
    credentialFaults < MaxCredentialFaults /\ credentialFaults' = credentialFaults + 1

CredentialTypeOK ==
    /\ descriptor.kind \in Kinds /\ descriptor.version \in 1..MaxObjects
    /\ descriptor.secret \in Objects
    /\ cached \in (DOMAIN object) \cup {None}
    /\ DOMAIN object \subseteq Objects
    /\ newest \in [Objects -> 1..MaxTokens] /\ expired \subseteq Objects \X (1..MaxTokens)
    /\ \A t \in Threads :
         /\ thread[t].step \in {"idle", "decide", "enter", "post", "store", "give"}
         /\ thread[t].of \in (DOMAIN object) \cup {None}

CredentialInit ==
    /\ descriptor \in [version : {1}, kind : Kinds, secret : {1}]
    /\ cached = None /\ object = <<>> /\ readable = TRUE
    /\ newest = [o \in Objects |-> 1] /\ expired = {}
    /\ thread = [t \in Threads |-> [step |-> "idle", of |-> None, token |-> 0, stale |-> 0,
                                    failed |-> FALSE]]
    /\ holder = [o \in Objects |-> None]
    /\ given = [t \in Threads |-> None]
    /\ reused = FALSE /\ credentialFaults = 0

--------------------------------------------------------------------------------
(* The cache *)

\* from_descriptor.  A credential that cannot be built is keyless.  The secret of an
\* OAuth2 credential has the first tokens of its line, which no refresh replaces there,
\* and perhaps their lifetime; without it they are taken not to expire.
Built(timed) ==
    [kind |-> IF readable THEN descriptor.kind ELSE "none", version |-> descriptor.version,
     secret |-> descriptor.secret, access |-> 1, refresh |-> 1, timed |-> timed,
     unread |-> ~readable, lost |-> newest[descriptor.secret] # 1]

\* get holds the lock from the lookup to the store.
Get(t) ==
    /\ At(t, "idle")
    /\ \/ /\ cached # None
          /\ thread' = [thread EXCEPT ![t].step = "decide", ![t].of = cached]
          /\ UNCHANGED <<cached, object>>
       \/ /\ cached = None
          /\ LET o == Cardinality(DOMAIN object) + 1
             IN  /\ o \in Objects /\ cached' = o
                 /\ \E timed \in BOOLEAN :
                      object' = [x \in 1..o |-> IF x = o THEN Built(timed) ELSE object[x]]
                 /\ thread' = [thread EXCEPT ![t].step = "decide", ![t].of = o]
    /\ given' = [given EXCEPT ![t] = None]
    /\ UNCHANGED <<descriptor, readable, newest, expired, holder, reused, credentialFaults>>

\* Fault: the credential that was built before stays.
Kept == cached
AfterRegister == None

Register ==
    /\ descriptor.version < MaxObjects
    /\ \E k \in Kinds, x \in {descriptor.secret, descriptor.version + 1} :
         descriptor' = [version |-> descriptor.version + 1, kind |-> k, secret |-> x]
    /\ cached' = AfterRegister
    /\ UNCHANGED <<object, readable, newest, expired, thread, holder, given, reused,
                   credentialFaults>>

--------------------------------------------------------------------------------
(* materialize *)

\* A token that is known to have expired.
Known(o) == object[o].kind = "oauth2" /\ object[o].timed /\ Lapsed(o)

\* Fault: a token is renewed only once it is missing.
NeverExpires(o) == FALSE
NeedsRefresh(o) == Known(o)

Decide(t) ==
    /\ At(t, "decide")
    /\ LET need == NeedsRefresh(thread[t].of)
       IN  thread' = [thread EXCEPT ![t].step = IF need THEN "enter" ELSE "give",
                                    ![t].stale = IF Known(thread[t].of) THEN Of(t).access ELSE 0,
                                    ![t].failed = FALSE]
    /\ UNCHANGED <<descriptor, cached, object, readable, newest, expired, holder, given, reused,
                   credentialFaults>>

\* Fault: threads refresh at the same time.
AnyTime(o) == TRUE
LockFree(o) == holder[o] = None

\* The refresh token is read under the lock.
Enter(t) ==
    /\ At(t, "enter") /\ LockFree(thread[t].of)
    /\ holder' = [holder EXCEPT ![thread[t].of] = t]
    /\ thread' = [thread EXCEPT ![t].step = "post", ![t].token = Of(t).refresh]
    /\ UNCHANGED <<descriptor, cached, object, readable, newest, expired, given, reused,
                   credentialFaults>>

\* The token server answers with new tokens, unless the refresh token was used before.
\* A request that fails may have been served, and then the new tokens are lost; no
\* other credential of the same secret learns of them either.
Newest(t) == newest[Of(t).secret]
Issue(t) ==
    /\ Newest(t) < MaxTokens
    /\ newest' = [newest EXCEPT ![Of(t).secret] = @ + 1]
Loses(t, all) ==
    object' = [o \in DOMAIN object |->
                  IF object[o].secret = Of(t).secret /\ (all \/ o # thread[t].of)
                  THEN [object[o] EXCEPT !.lost = TRUE] ELSE object[o]]
Fails(t) ==
    /\ thread' = [thread EXCEPT ![t].step = "give", ![t].failed = TRUE]
    /\ holder' = [holder EXCEPT ![thread[t].of] = None]

Post(t) ==
    /\ At(t, "post")
    /\ \/ /\ thread[t].token = Newest(t) /\ Issue(t) /\ Loses(t, FALSE)
          /\ thread' = [thread EXCEPT ![t].step = "store"]
          /\ UNCHANGED <<holder, reused, credentialFaults>>
       \/ /\ thread[t].token = Newest(t) /\ CredentialFault /\ Fails(t)
          /\ \/ Issue(t) /\ Loses(t, TRUE)
             \/ UNCHANGED <<newest, object>>
          /\ UNCHANGED reused
       \/ /\ thread[t].token # Newest(t) /\ Fails(t)
          /\ reused' = (reused \/ ~Of(t).lost)
          /\ UNCHANGED <<object, newest, credentialFaults>>
    /\ UNCHANGED <<descriptor, cached, readable, expired, given>>

\* Fault: the refresh token that was used is kept.
KeepsRefresh(t) == Of(t).refresh
NextRefresh(t) == Newest(t)

Store(t) ==
    /\ At(t, "store")
    /\ object' = [object EXCEPT ![thread[t].of].access = Newest(t),
                                ![thread[t].of].refresh = NextRefresh(t),
                                ![thread[t].of].timed = TRUE]
    /\ thread' = [thread EXCEPT ![t].step = "give"]
    /\ holder' = [holder EXCEPT ![thread[t].of] = None]
    /\ UNCHANGED <<descriptor, cached, readable, newest, expired, given, reused,
                   credentialFaults>>

\* Whatever the field holds by now, after a refresh that failed too.
Give(t) ==
    /\ At(t, "give")
    /\ given' = [given EXCEPT ![t] = [of |-> thread[t].of, kind |-> Of(t).kind,
                                      again |-> Of(t).access = thread[t].stale,
                                      failed |-> thread[t].failed]]
    /\ thread' = [thread EXCEPT ![t].step = "idle", ![t].of = None]
    /\ UNCHANGED <<descriptor, cached, object, readable, newest, expired, holder, reused,
                   credentialFaults>>

--------------------------------------------------------------------------------
(* Others *)

Expire ==
    /\ CredentialFault /\ expired' = expired \cup {<<x, newest[x]>> : x \in Objects}
    /\ UNCHANGED <<descriptor, cached, object, readable, newest, thread, holder, given, reused>>

SecretStore ==
    /\ readable' = ~readable
    /\ IF readable THEN CredentialFault ELSE UNCHANGED credentialFaults
    /\ UNCHANGED <<descriptor, cached, object, newest, expired, thread, holder, given, reused>>

Step(t) == Get(t) \/ Decide(t) \/ Enter(t) \/ Post(t) \/ Store(t) \/ Give(t)

CredentialNext == (\E t \in Threads : Step(t)) \/ Register \/ Expire \/ SecretStore

CredentialSpec == CredentialInit /\ [][CredentialNext]_credentialVars

--------------------------------------------------------------------------------
(* Properties *)

\* Threads that refresh one credential at the same time never present a refresh token
\* twice, unless the answer that replaced it was lost.
RefreshIsOnce == ~reused

\* A token that was known to have expired when materialize began is given only if its
\* token request failed; and a source is keyless only if its descriptor says so or its
\* secret could not be read when the credential was built.
GivenIsCurrent ==
    \A t \in Threads : given[t] # None =>
        LET o == object[given[t].of]
        IN  /\ given[t].again => given[t].failed
            /\ given[t].kind = "none" => "none" \in Kinds \/ o.unread

\* The cache holds a credential of the descriptor that was registered last.
CachedIsCurrent == cached # None => object[cached].version = descriptor.version

--------------------------------------------------------------------------------
(***************************************************************************)
(* PaginationIterator over one HTTP collection, in all its modes, and the  *)
(* consumers that iterate it.  The fields of the iterator and of its walk  *)
(* are shared; a consumer has only its next request.                       *)
(*                                                                         *)
(* Records are numbered in the order the server lists them.  A cursor, an  *)
(* id and a next URL all say how many records come before the page.        *)
(***************************************************************************)

CONSTANTS
    Consumers,
    MaxTotal,    \* bound: records of the collection
    Sizes,       \* page sizes
    ItemLimits,  \* max_items
    PageLimits,  \* max_pages
    MaxPageFaults \* bound: fetches that fail, cursors the server repeats

Numbered == {"page", "offset"}
Linked == {"link", "next_url"}
Tokened == {"cursor", "since_id"}
Modes == Numbered \cup Linked \cup Tokened
Positions == 0..(MaxTotal + 1)

VARIABLES
    mode, total, size, sized, limits,   \* the collection and the configuration; sized:
                 \* the client asks for pages of this size
    base,        \* the cursor the caller resumes from, or None
    lock,        \* _iteration_lock: the consumer that has it, or None
    owner,       \* fields of the iterator
    walk,        \* fields of _PageWalk
    consumer,    \* consumer[c]: its step, its next request, the records it got, and
                 \* whether the server repeated a cursor
    last,        \* ghost: the consumer that began last
    pageFaults

pageVars == <<mode, total, size, sized, limits, base, lock, owner, walk, consumer, last,
              pageFaults>>
config == <<mode, total, size, sized, limits, base>>

First == IF base = None THEN 0 ELSE base

PageTypeOK ==
    /\ mode \in Modes /\ total \in 0..MaxTotal /\ size \in Sizes /\ sized \in BOOLEAN
    /\ limits \in [items : ItemLimits, pages : PageLimits]
    /\ base \in Positions \cup {None} /\ lock \in Consumers \cup {None}
    /\ owner.truncated \in BOOLEAN /\ owner.pages \in 0..limits.pages
    /\ owner.items \in 0..limits.items /\ owner.next \in Positions \cup {None}
    /\ owner.budget \in 0..limits.items
    /\ walk.at \in Positions /\ walk.seen \subseteq Positions
    /\ walk.next \in Positions \cup {None}
    /\ walk.loop \in BOOLEAN
    /\ \A c \in Consumers :
         /\ consumer[c].step \in {"idle", "fetch", "done", "refused", "failed"}
         /\ consumer[c].request \in Positions \cup {None}
         /\ consumer[c].looped \in BOOLEAN
    /\ last \in Consumers \cup {None} /\ pageFaults \in 0..MaxPageFaults

NewOwner == [truncated |-> FALSE, pages |-> 0, items |-> 0, next |-> None,
             budget |-> limits.items]
\* A URL is seen from the start, a cursor only if the caller gave one.
NewWalk ==
    [at |-> First, next |-> None, loop |-> FALSE,
     seen |-> IF base # None \/ mode \in Linked THEN {First} ELSE {}]

PageInit ==
    /\ mode \in Modes /\ total \in 0..MaxTotal /\ size \in Sizes
    /\ sized \in IF mode \in Numbered THEN BOOLEAN ELSE {FALSE}
    /\ limits \in [items : ItemLimits, pages : PageLimits]
    /\ base \in {None} \cup IF mode \in Numbered THEN {} ELSE 1..total
    /\ lock = None /\ owner = NewOwner /\ walk = NewWalk
    /\ consumer = [c \in Consumers |-> [step |-> "idle", request |-> None, got |-> <<>>,
                                    looped |-> FALSE]]
    /\ last = None /\ pageFaults = 0

PageFault == pageFaults < MaxPageFaults /\ pageFaults' = pageFaults + 1

--------------------------------------------------------------------------------
(* _claim and _iterate *)

\* Fault: two consumers share the walk.
NoClaim == TRUE
Free == lock = None

Begin(c) ==
    /\ consumer[c].step # "fetch"
    /\ IF Free
       THEN /\ lock' = c /\ owner' = NewOwner /\ walk' = NewWalk
            /\ consumer' = [consumer EXCEPT ![c] = [step |-> "fetch", request |-> First,
                                                    got |-> <<>>, looped |-> FALSE]]
            /\ last' = c
       ELSE /\ consumer[c].step = "idle"
            /\ consumer' = [consumer EXCEPT ![c].step = "refused"]
            /\ UNCHANGED <<lock, owner, walk, last>>
    /\ UNCHANGED <<config, pageFaults>>

\* The records of the page at position p.
From(p) == [k \in 1..(IF p >= total THEN 0 ELSE Min({size, total - p})) |-> p + k]

\* What the server says comes next, if it says: it may end with an empty page.
Offered(p, items) ==
    IF mode = "since_id" THEN (IF items = <<>> THEN {None} ELSE {items[Len(items)]})
    ELSE IF p + Len(items) < total THEN {p + Len(items)}
    ELSE IF items = <<>> THEN {None} ELSE {None, p + Len(items)}

\* _advance_token, _follow_url.  Fault: what was seen is followed again.
Forgotten(token) == TRUE
NotSeen(token) == token \notin walk.seen

Advance(token) ==
    IF token = None THEN [walk EXCEPT !.next = None]
    ELSE IF NotSeen(token)
    THEN [walk EXCEPT !.next = token, !.seen = @ \cup {token}, !.at = token]
    ELSE [walk EXCEPT !.next = None, !.loop = TRUE]

\* _advance_numbered: an empty page is the last, and a short one if the client knows
\* the size.  Fault: so is a full one.
FullEnds(items) == Len(items) <= size
Ends(items) == items = <<>> \/ (sized /\ Len(items) < size)

Numbering(items) ==
    IF Ends(items) THEN walk ELSE [walk EXCEPT !.at = @ + Len(items)]

--------------------------------------------------------------------------------
(* _consume_page *)

\* Fault: a page that was cut is resumed after its end.
KeepNext(w) == w
NoNext(w) == [w EXCEPT !.next = None]

Taken(items) == SubSeq(items, 1, Min({Len(items), owner.budget}))
Sliced(items) == Len(items) > owner.budget

\* w: the walk after the page; more: whether there is a next request.
Consumed(items, w, more) ==
    LET budget == owner.budget - Len(Taken(items))
        pages == owner.pages + 1
        stop == Sliced(items) \/ (more /\ (budget = 0 \/ pages >= limits.pages))
    IN  [truncated |-> stop \/ w.loop, pages |-> pages,
         items |-> owner.items + Len(Taken(items)), budget |-> budget,
         next |-> w.next, go |-> more /\ ~stop]

Fetch(c) ==
    LET p == consumer[c].request
        items == From(p)
    IN
    /\ consumer[c].step = "fetch"
    /\ \E token \in IF mode \in Numbered THEN {None}
                    ELSE Offered(p, items) \cup IF pageFaults < MaxPageFaults /\ mode # "since_id"
                                                THEN walk.seen \cup {First} ELSE {} :
         LET advanced == IF mode \in Numbered THEN Numbering(items) ELSE Advance(token)
             more == IF mode \in Numbered THEN ~Ends(items)
                     ELSE token # None /\ ~advanced.loop
             w == IF Sliced(items) THEN NoNext(advanced) ELSE advanced
             o == Consumed(items, w, more)
             back == mode \notin Numbered /\ token \notin Offered(p, items)
         IN  /\ walk' = w
             /\ owner' = [truncated |-> o.truncated, pages |-> o.pages, items |-> o.items,
                          budget |-> o.budget, next |-> o.next]
             /\ consumer' = [consumer EXCEPT
                               ![c] = [step |-> IF o.go THEN "fetch" ELSE "done",
                                       request |-> IF o.go THEN w.at ELSE None,
                                       got |-> @.got \o Taken(items),
                                       looped |-> @.looped \/ back]]
             /\ lock' = IF o.go THEN lock ELSE None
             /\ pageFaults' = IF back THEN pageFaults + 1 ELSE pageFaults
    /\ UNCHANGED <<config, last>>

\* A fetch fails, a URL leaves the origin, a page has no records list, or the
\* consumer is closed: the lock is given back.
Leave(c) ==
    /\ consumer[c].step = "fetch" /\ PageFault
    /\ consumer' = [consumer EXCEPT ![c].step = "failed", ![c].request = None]
    /\ lock' = None
    /\ UNCHANGED <<config, owner, walk, last>>

PageNext == \E c \in Consumers : Begin(c) \/ Fetch(c) \/ Leave(c)

PageSpec == PageInit /\ [][PageNext]_pageVars

--------------------------------------------------------------------------------
(* Properties *)

\* The records after p, up to q.
Run(p, q) == [k \in 1..(q - p) |-> p + k]

\* While the server does not repeat itself every consumer gets the records in order
\* and once, whoever began, failed or was refused meanwhile.
InOrder ==
    \A c \in Consumers :
        ~consumer[c].looped => consumer[c].got = Run(First, First + Len(consumer[c].got))

Described ==
    last # None /\ consumer[last].step = "done" /\ ~consumer[last].looped =>
        /\ ~owner.truncated => consumer[last].got = Run(First, total)
        /\ owner.next # None => owner.next = First + Len(consumer[last].got)
        /\ owner.truncated /\ owner.next = None => mode \in Numbered \/ owner.budget = 0

\* "truncated" and "next_cursor" describe the sweep (Okta-style resume): a finished
\* sweep that was not truncated has every record, a next cursor is where the yielded
\* records end, so that resuming from it skips none, and a sweep without one had to
\* cut a page or is in a mode that has no cursor.  A sweep that the server sent back to
\* a cursor the walk knows is reported as truncated.
Resumable ==
    /\ last # None /\ consumer[last].step = "done" /\ consumer[last].looped
         /\ (base # None \/ mode \in Linked) => owner.truncated
    /\ Described

\* Nobody holds the lock of an iterator that is not being iterated.
LockIsHeld == \A c \in Consumers : lock = c <=> consumer[c].step = "fetch"
================================================================================
