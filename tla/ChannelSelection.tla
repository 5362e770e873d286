--------------------------- MODULE ChannelSelection ----------------------------
(* Which backend of a channel a call uses, and what is remembered about the selection.

   The sections share no state: each has its own Init, Next and Spec. *)
EXTENDS Integers, Sequences, FiniteSets

--------------------------------------------------------------------------------
(***************************************************************************)
(* One platform read or search: authorize, then the admitted backends in   *)
(* policy order, each with its attempts, under one deadline.  Only a       *)
(* transient failure moves on to the next attempt or backend.  The list of *)
(* attempts holds a placeholder while a backend is being read, because the *)
(* deadline may end the request at any await.                              *)
(***************************************************************************)

CONSTANTS
    Count,         \* capability.backends are 1..Count, in policy order
    Enabled,       \* backends whose policy is enabled
    MaxAttempts,   \* min(policy.max_attempts, retry.max_attempts)
    Backoff,       \* retry.backoff
    Pauses,        \* Retry-After values a backend may send
    None,
    Deadline       \* request.deadline_ms; also the bound of the clock

FallbackBackends == 1..Count
Transient == {"timeout", "upstream_unavailable"}
Terminal == {"rate_limited", "unauthorized", "invalid_response"}
Reasons == Transient \cup Terminal

VARIABLES
    fallbackNow,
    pinned,    \* continuation.backend_id, or None
    step,      \* the await the request is at
    at, try,   \* the backend and the number of its attempt
    wake,
    attempts,  \* ctx.attempts
    inflight,  \* the last of them is a placeholder
    skipped,   \* ctx.skipped
    result,    \* reason, attempts, selected backend and recorded status, or None
    reads,     \* backend.read calls and how they ended
    embargo    \* embargo[b]: when backend b lets calls in again

fallbackVars == <<fallbackNow, pinned, step, at, try, wake, attempts, inflight, skipped, result,
                  reads, embargo>>
observed == <<reads, embargo>>

Attempts == Seq([backend : FallbackBackends, outcome : Reasons \cup {"ok"}])

FallbackTypeOK ==
    /\ fallbackNow \in 0..Deadline /\ pinned \in FallbackBackends \cup {None}
    /\ step \in {"authorize", "choose", "admit", "read", "validate", "sleep", "done"}
    /\ at \in 1..Count + 1 /\ try \in 0..MaxAttempts /\ wake \in Nat
    /\ attempts \in Attempts /\ inflight \in BOOLEAN
    /\ skipped \subseteq FallbackBackends
    /\ result \in {None} \cup
         [reason : STRING, attempts : Attempts, selected : FallbackBackends \cup {None},
          recorded : BOOLEAN]
    /\ reads \in Seq([backend : FallbackBackends, outcome : Reasons \cup {"ok", "open"}])
    /\ embargo \in [FallbackBackends -> Nat]

FallbackInit ==
    /\ fallbackNow = 0 /\ pinned \in FallbackBackends \cup {None}
    /\ step = "authorize" /\ at = 1 /\ try = 0 /\ wake = 0
    /\ attempts = <<>> /\ inflight = FALSE /\ skipped = {}
    /\ result = None
    /\ reads = <<>> /\ embargo = [b \in FallbackBackends |-> 0]

Front(s) == SubSeq(s, 1, Len(s) - 1)

--------------------------------------------------------------------------------
(* Results *)

Finish(reason, list, selected, recorded) ==
    /\ step' = "done"
    /\ result' = [reason |-> reason, attempts |-> list, selected |-> selected,
                  recorded |-> recorded]

\* _refused: nothing is recorded.
Refused(reason, list) == Finish(reason, list, None, FALSE)
\* _observed_refusal: the status store learns of what was observed.
ObservedRefusal(reason, list) ==
    Finish(reason, list, None,
           list # <<>> /\ reason \notin {"unauthorized", "trust_failed"})

Authorize ==
    /\ step = "authorize"
    /\ \/ step' = "choose" /\ UNCHANGED result
       \/ \E reason \in {"unauthorized", "invalid_request", "trust_failed"} :
            Refused(reason, <<>>)
    /\ UNCHANGED <<fallbackNow, pinned, at, try, wake, attempts, inflight, skipped, observed>>

--------------------------------------------------------------------------------
(* Backends in policy order *)

\* _run and the head of _run_backend, up to the next await.
Choose ==
    /\ step = "choose"
    /\ \/ /\ at > Count
          /\ ObservedRefusal(IF attempts # <<>> THEN "chain_exhausted" ELSE "no_backend",
                             attempts)
          /\ UNCHANGED <<at, skipped>>
       \/ /\ at \in FallbackBackends /\ pinned \notin {None, at}
          /\ at' = at + 1 /\ UNCHANGED <<step, skipped, result>>
       \/ /\ at \in FallbackBackends \ Enabled /\ pinned \in {None, at}
          /\ skipped' = skipped \cup {at} /\ at' = at + 1
          /\ UNCHANGED <<step, result>>
       \/ /\ at \in Enabled /\ pinned \in {None, at}
          /\ step' = "admit" /\ UNCHANGED <<at, skipped, result>>
    /\ UNCHANGED <<fallbackNow, pinned, try, wake, attempts, inflight, observed>>

\* The first part of _attempt, up to backend.read.
StartRead(number) ==
    /\ step' = "read" /\ try' = number
    /\ attempts' = Append(attempts, [backend |-> at, outcome |-> "timeout"])
    /\ inflight' = TRUE
    /\ reads' = Append(reads, [backend |-> at, outcome |-> "open"])

Admit ==
    /\ step = "admit"
    /\ \/ /\ skipped' = skipped \cup {at} /\ at' = at + 1 /\ step' = "choose"
          /\ UNCHANGED <<try, attempts, inflight, reads, result>>
       \/ /\ Refused("trust_failed", attempts)
          /\ UNCHANGED <<at, try, attempts, inflight, skipped, reads>>
       \/ StartRead(1) /\ UNCHANGED <<at, skipped, result>>
    /\ UNCHANGED <<fallbackNow, pinned, wake, embargo>>

--------------------------------------------------------------------------------
(* One attempt *)

ReadEnds(outcome) == reads' = [reads EXCEPT ![Len(reads)].outcome = outcome]

\* Fault: an error that another backend might not have moves on to it.
AnyFailure(reason) == TRUE
MovesOn(reason) == reason \in Transient

\* Fault: the next attempt follows after the ordinary backoff.
OwnPace(after) == Backoff
Delay(after) == IF after = None THEN Backoff ELSE after

\* _after_failure, with the attempts it finds.
AfterFailure(reason, after, list) ==
    LET more == try < MaxAttempts
        paused == reason = "rate_limited" /\ more /\ after # None
        delay == IF paused THEN Delay(after) ELSE Backoff IN
    \/ /\ paused \/ (MovesOn(reason) /\ more)
       /\ fallbackNow + delay < Deadline
       /\ step' = "sleep" /\ wake' = fallbackNow + delay
       /\ UNCHANGED <<at, result>>
    \/ /\ paused \/ (MovesOn(reason) /\ more)
       /\ fallbackNow + delay >= Deadline
       /\ ObservedRefusal(IF paused THEN "rate_limited" ELSE "deadline_exceeded", list)
       /\ UNCHANGED <<at, wake>>
    \/ /\ ~paused /\ ~MovesOn(reason)
       /\ ObservedRefusal(reason, list) /\ UNCHANGED <<at, wake>>
    \/ /\ ~paused /\ MovesOn(reason) /\ ~more
       /\ step' = "choose" /\ at' = at + 1 /\ UNCHANGED <<wake, result>>

\* Fault: the last attempt is dropped, placeholder or not.
DropLast(list, held) == Front(list)
\* "if ctx.inflight: ctx.attempts.pop()"
Settled(list, held) == IF held THEN Front(list) ELSE list

\* The second part of _attempt: the placeholder, if it is still there, becomes
\* the failure.
Fails(reason, after, found, held) ==
    LET list == Append(Settled(found, held), [backend |-> at, outcome |-> reason]) IN
    /\ attempts' = list /\ inflight' = FALSE
    /\ ReadEnds(reason)
    /\ embargo' = IF reason = "rate_limited" /\ after # None
                  THEN [embargo EXCEPT ![at] = fallbackNow + after] ELSE embargo
    /\ AfterFailure(reason, after, list)
    /\ UNCHANGED <<fallbackNow, pinned, try, skipped>>

\* The backend fails, or times out.
ReadFails ==
    /\ step = "read"
    /\ \E reason \in Reasons, after \in Pauses \cup {None} :
         Fails(reason, after, attempts, inflight)

ReadPage ==
    /\ step = "read" /\ step' = "validate"
    /\ UNCHANGED <<fallbackNow, pinned, at, try, wake, attempts, inflight, skipped, result,
                   observed>>

\* _validated: the page is refused, or its validation takes too long.
PageRefused ==
    /\ step = "validate"
    /\ \E reason \in {"timeout", "invalid_response"} :
         Fails(reason, None, attempts, inflight)

\* The placeholder is gone already when the result cannot be built.
ResultRefused ==
    /\ step = "validate"
    /\ Fails("invalid_response", None, Front(attempts), FALSE)

PageAccepted ==
    /\ step = "validate"
    /\ attempts' = Front(attempts) /\ inflight' = FALSE
    /\ Finish("ok", Append(Front(attempts), [backend |-> at, outcome |-> "ok"]), at, TRUE)
    /\ ReadEnds("ok")
    /\ UNCHANGED <<fallbackNow, pinned, at, try, wake, skipped, embargo>>

Wake ==
    /\ step = "sleep" /\ fallbackNow >= wake
    /\ StartRead(try + 1)
    /\ UNCHANGED <<fallbackNow, pinned, at, wake, skipped, result, embargo>>

--------------------------------------------------------------------------------
(* The deadline and the clock *)

\* anyio.fail_after in execute: a placeholder stands for the read that was cut.
TimesOut ==
    /\ step \in {"authorize", "admit", "read", "validate", "sleep"} /\ fallbackNow >= Deadline
    /\ ObservedRefusal("deadline_exceeded", attempts)
    /\ IF inflight THEN ReadEnds("timeout") ELSE UNCHANGED reads
    /\ UNCHANGED <<fallbackNow, pinned, at, try, wake, attempts, inflight, skipped, embargo>>

FallbackTick ==
    /\ fallbackNow < Deadline /\ step # "done"
    /\ fallbackNow' = fallbackNow + 1
    /\ UNCHANGED <<pinned, step, at, try, wake, attempts, inflight, skipped, result,
                   observed>>

FallbackNext ==
    \/ Authorize \/ Choose \/ Admit \/ ReadFails \/ ReadPage \/ PageRefused
    \/ ResultRefused \/ PageAccepted \/ Wake \/ TimesOut \/ FallbackTick

FallbackSpec == FallbackInit /\ [][FallbackNext]_fallbackVars

--------------------------------------------------------------------------------
(* Properties *)

\* The result lists every read of a backend, in order, with the way it ended:
\* none is lost and none invented, wherever the deadline or a failure struck.
AttemptsAccount == result # None => result.attempts = reads

\* A page comes from a backend only when every enabled backend before it was
\* skipped by admission or used up its attempts on transient failures.
FallbackIsEarned ==
    result # None /\ result.selected # None =>
        \A b \in (1..result.selected - 1) \cap Enabled :
            LET own == SelectSeq(reads, LAMBDA r : r.backend = b) IN
            \/ pinned # None \/ b \in skipped
            \/ /\ Len(own) = MaxAttempts /\ own[MaxAttempts].outcome \in Transient
               /\ \A i \in DOMAIN own : own[i].outcome \in Transient \cup {"rate_limited"}

\* No backend is read again before the Retry-After it sent is over.
PauseStep ==
    Len(reads') > Len(reads) => fallbackNow >= embargo[reads'[Len(reads')].backend]
HonoursPause == [][PauseStep]_fallbackVars

--------------------------------------------------------------------------------
(* PlatformStatusStore: what was observed of the backends of a channel the last time it
   was used, for a while and for so many channels.  Threads record and read under one
   lock, and read the clock after they let it go.                                   *)

CONSTANTS
    Channels,      \* the keys: tenant, principal, connector, platform, channel, ...
    StatusBackends, \* sequence of backend ids, the preferred one first
    Disabled,      \* backends that the policy has disabled
    Observations,  \* attempts in their order: sequences of [backend, ok]
    Unconfigured,  \* backends that a selection skips for want of a configuration
    Readers,       \* threads that read
    Ttl, Entries,  \* DEFAULT_STATUS_TTL_SECONDS, DEFAULT_STATUS_ENTRIES
    MaxTime, MaxRecords

VARIABLES
    statusNow,
    store,         \* sequence of [key, status, expires], the least recently used first
    reader,        \* reader |-> [at, key, entry] or what it answered
    records,       \* how many were recorded
    recent         \* ghost: the channels in the order they were used last

statusVars == <<statusNow, store, reader, records, recent>>

Range(s) == {s[i] : i \in DOMAIN s}
Idle == [at |-> "idle"]

StatusInit ==
    /\ statusNow = 0 /\ store = << >> /\ reader = [r \in Readers |-> Idle] /\ records = 0
    /\ recent = << >>

StatusTypeOK ==
    /\ statusNow \in 0..MaxTime /\ Len(store) <= Entries /\ records \in 0..MaxRecords
    /\ \A r \in Readers : reader[r].at \in {"idle", "read", "answered"}

--------------------------------------------------------------------------------
(* record *)

Selected(obs) == IF obs[Len(obs)].ok THEN obs[Len(obs)].backend ELSE None

\* _validate_observation
ObservationHolds(obs) ==
    Selected(obs) = None => \A i \in DOMAIN obs : ~obs[i].ok

\* Fault: the first attempt of a backend is told.
First(obs, b) ==
    CHOOSE i \in DOMAIN obs :
      obs[i].backend = b /\ \A j \in 1..(i - 1) : obs[j].backend # b
Latest(obs, b) ==
    CHOOSE i \in DOMAIN obs :
      obs[i].backend = b /\ \A j \in (i + 1)..Len(obs) : obs[j].backend # b

\* _observed_state, _unobserved_health
State(obs, b) ==
    IF \E i \in DOMAIN obs : obs[i].backend = b
    THEN IF obs[Latest(obs, b)].ok THEN "healthy" ELSE "failed"
    ELSE IF b \in Disabled THEN "disabled"
    ELSE IF b \in Unconfigured THEN "unconfigured" ELSE "untested"

\* _channel_health
Health(selected) ==
    CASE selected = None -> "unavailable"
      [] selected = StatusBackends[1] -> "healthy"
      [] OTHER -> "degraded"

Status(obs) ==
    [health |-> Health(Selected(obs)), selected |-> Selected(obs), of |-> obs,
     observed |-> statusNow,
     states |-> [i \in DOMAIN StatusBackends |-> State(obs, StatusBackends[i])]]

Others(k) == SelectSeq(store, LAMBDA e : e.key # k)
Used(k) == recent' = Append(SelectSeq(recent, LAMBDA j : j # k), k)

\* Fault: the newest entry makes room.
DropNewest(s) == IF Len(s) > Entries THEN SubSeq(s, 1, Entries - 1) \o <<s[Len(s)]>> ELSE s
Trimmed(s) == IF Len(s) > Entries THEN Tail(s) ELSE s

Record(k) ==
    /\ records < MaxRecords
    /\ \E obs \in Observations :
         /\ ObservationHolds(obs)
         /\ store' = Trimmed(Append(Others(k),
                       [key |-> k, status |-> Status(obs), expires |-> statusNow + Ttl]))
    /\ records' = records + 1 /\ Used(k)
    /\ UNCHANGED <<statusNow, reader>>

--------------------------------------------------------------------------------
(* get *)

Entry(k) == IF \E e \in Range(store) : e.key = k
            THEN CHOOSE e \in Range(store) : e.key = k ELSE None

Get(r, k) ==
    /\ reader[r].at # "read"
    /\ reader' = [reader EXCEPT ![r] = [at |-> "read", key |-> k, entry |-> Entry(k)]]
    /\ IF Entry(k) = None
       THEN UNCHANGED <<store, recent>>
       ELSE store' = Append(Others(k), Entry(k)) /\ Used(k)
    /\ UNCHANGED <<statusNow, records>>

\* Fault: what was observed is told for ever.
NeverExpired(entry) == FALSE
Expired(entry) == statusNow >= entry.expires

Unknown(states) ==
    [health |-> "unknown", selected |-> None, states |-> states]
Untested(state) == IF state \in {"healthy", "failed"} THEN "untested" ELSE state

Told(entry) ==
    IF entry = None
    THEN Unknown([i \in DOMAIN StatusBackends |->
                    IF StatusBackends[i] \in Disabled THEN "disabled" ELSE "untested"])
    ELSE IF Expired(entry)
    THEN Unknown([i \in DOMAIN StatusBackends |-> Untested(entry.status.states[i])])
    ELSE [health |-> entry.status.health, selected |-> entry.status.selected,
          states |-> entry.status.states]

Answer(r) ==
    /\ reader[r].at = "read"
    /\ reader' = [reader EXCEPT ![r] =
         [at |-> "answered", key |-> @.key, entry |-> @.entry, when |-> statusNow,
          told |-> Told(@.entry)]]
    /\ UNCHANGED <<statusNow, store, records, recent>>

StatusTick ==
    /\ statusNow < MaxTime
    /\ statusNow' = statusNow + 1
    /\ UNCHANGED <<store, reader, records, recent>>

StatusNext == (\E k \in Channels : Record(k) \/ \E r \in Readers : Get(r, k))
              \/ (\E r \in Readers : Answer(r)) \/ StatusTick

StatusSpec == StatusInit /\ [][StatusNext]_statusVars

--------------------------------------------------------------------------------
(* A reader is told that a backend works only when the last attempt of that backend says
   so and is not older than the status may be when it is told; a selection is never the
   one of an observation that has expired (get, _observed_state).                   *)
StatusIsFresh ==
    \A r \in Readers : reader[r].at = "answered" =>
      LET a == reader[r]
      IN  /\ a.told.health \in {"healthy", "degraded", "unavailable"} =>
               a.entry # None /\ a.when - a.entry.status.observed < Ttl
          /\ \A i \in DOMAIN StatusBackends : a.told.states[i] = "healthy" =>
               LET obs == a.entry.status.of
                   own == {j \in DOMAIN obs : obs[j].backend = StatusBackends[i]}
               IN  \E j \in own : obs[j].ok /\ \A k \in own : k <= j
          /\ a.told.selected # None =>
               \E i \in DOMAIN StatusBackends :
                 StatusBackends[i] = a.told.selected /\ a.told.states[i] = "healthy"

(* The store holds the channels that were recorded or read last, so many as it may hold:
   one that is read is kept, however long ago it was recorded (record, get).        *)
RecentAreHeld ==
    LET n == IF Len(recent) < Entries THEN Len(recent) ELSE Entries
    IN  [i \in DOMAIN store |-> store[i].key] =
          SubSeq(recent, Len(recent) - n + 1, Len(recent))
================================================================================
