------------------------------- MODULE WriteBack -------------------------------
(***************************************************************************)
(* Governed write-back: DurableWritableConnector (writeback/connector.py)  *)
(* around GovernedWriteBack (writeback/service.py), its append-only ledger *)
(* of receipts, the audit reservation port and a compare-and-apply source  *)
(* transport (writeback/memory.py, writeback/durable_transport.py).        *)
(*                                                                         *)
(* A caller is one task awaiting apply() or reconcile() on one connector   *)
(* instance.  Every await at which another task, another instance, the     *)
(* source's other writers, the clock or a crash can change what the call   *)
(* later relies on is a step of its own.                                   *)
(***************************************************************************)
EXTENDS Naturals, Sequences, FiniteSets

CONSTANTS
    ChangeSets,   \* canonical change sets; equal digest means equal element
    Keys,         \* idempotency keys (with their tenant)
    KeyOf,        \* KeyOf[cs]: the idempotency key of a change set
    BaseOf,       \* BaseOf[cs]: its base_source_version
    Connectors,   \* connector instances (processes)
    Callers,      \* tasks calling a connector
    HomeOf,       \* HomeOf[t]: the connector instance a task calls
    None,         \* no change set
    SplitCommit,  \* TRUE: FileWriteBackTransport, FALSE: InMemoryWriteBackTransport
    MaxVersion,   \* bound: other writers stop at this source version
    MaxCalls,     \* bound: apply/reconcile calls started
    MaxCrashes    \* bound: connector crashes

ASSUME WriteBackAssumption ==
    /\ KeyOf \in [ChangeSets -> Keys]
    /\ BaseOf \in [ChangeSets -> Nat]
    /\ HomeOf \in [Callers -> Connectors]
    /\ None \notin ChangeSets
    /\ SplitCommit \in BOOLEAN
    /\ MaxVersion \in Nat /\ MaxCalls \in Nat /\ MaxCrashes \in Nat

VARIABLES
    registered,    \* change sets in the ledger
    receipts,      \* the ledger's append-only receipts, per change set
    version,       \* source version of the entity the change sets target
    effects,       \* the source's effect record, per idempotency key
    reservations,  \* durable audit reservations, per idempotency key
    expired,       \* change sets whose expires_at_ms has passed
    revoked,       \* change sets whose recorded approval no longer stands
    unresolved,    \* GovernedWriteBack._unresolved, per connector
    inflight,      \* _InFlight._keys, per connector
    step,          \* where the task's call is
    target,        \* the change set it is about
    outcome,       \* the effect status it carries to the ledger
    calls,         \* calls started so far
    crashes,       \* crashes so far
    \* Observation only: no action reads these.
    mutations,     \* times the source was changed on behalf of a change set
    reported,      \* change sets a caller was told are applied
    lapsed         \* tasks whose authority had lapsed when the audit reserved

durable == <<registered, receipts, reservations>>
source == <<version, effects>>
authority == <<expired, revoked>>
memory == <<unresolved, inflight>>
locals == <<step, target, outcome>>
bounds == <<calls, crashes>>
history == <<mutations, reported, lapsed>>
vars == <<durable, source, authority, memory, locals, bounds, history>>

Statuses == {"applied", "no_effect", "outcome_uncertain"}

\* What record_attempt and record_reconciliation append.
Receipts ==
    [kind : {"attempt"}, status : {"applied", "outcome_uncertain"}]
      \cup [kind : {"reconciliation"}, status : Statuses]

ApplySteps ==
    {"authorize", "replay", "prior", "govern", "base", "reserve", "verify",
     "effect", "index", "record"}
ReconcileSteps == {"recall", "ask", "recordObservation"}

Steps == {"idle"} \cup ApplySteps \cup ReconcileSteps

TypeOK ==
    /\ registered \in SUBSET ChangeSets
    /\ receipts \in [ChangeSets -> Seq(Receipts)]
    /\ version \in Nat
    /\ effects \in [Keys -> ChangeSets \cup {None}]
    /\ reservations \in [Keys -> ChangeSets \cup {None}]
    /\ expired \in SUBSET ChangeSets
    /\ revoked \in SUBSET ChangeSets
    /\ unresolved \in [Connectors -> [Keys -> ChangeSets \cup {None}]]
    /\ inflight \in [Connectors -> SUBSET Keys]
    /\ step \in [Callers -> Steps]
    /\ target \in [Callers -> ChangeSets \cup {None}]
    /\ outcome \in [Callers -> Statuses \cup {"none"}]
    /\ \A t \in Callers :
         /\ step[t] # "idle" => target[t] \in ChangeSets
         /\ step[t] = "index" => outcome[t] = "applied"
         /\ step[t] = "record" => outcome[t] \in {"applied", "outcome_uncertain"}
         /\ step[t] = "recordObservation" => outcome[t] \in Statuses
    /\ calls \in Nat /\ crashes \in Nat
    /\ mutations \in [ChangeSets -> Nat]
    /\ reported \in SUBSET ChangeSets
    /\ lapsed \in SUBSET Callers

Init ==
    /\ registered = {}
    /\ receipts = [cs \in ChangeSets |-> <<>>]
    /\ version = 0
    /\ effects = [k \in Keys |-> None]
    /\ reservations = [k \in Keys |-> None]
    /\ expired = {} /\ revoked = {}
    /\ unresolved = [c \in Connectors |-> [k \in Keys |-> None]]
    /\ inflight = [c \in Connectors |-> {}]
    /\ step = [t \in Callers |-> "idle"]
    /\ target = [t \in Callers |-> None]
    /\ outcome = [t \in Callers |-> "none"]
    /\ calls = 0 /\ crashes = 0
    /\ mutations = [cs \in ChangeSets |-> 0]
    /\ reported = {} /\ lapsed = {}

--------------------------------------------------------------------------------
(* Replaying the ledger: writeback/recovery.py *)

\* _record_state: the recovery state one receipt puts the change set in.
RecordState(r) ==
    CASE r.status = "applied"           -> "APPLIED"
      [] r.status = "outcome_uncertain" -> "UNCERTAIN"
      [] r.status = "no_effect"         -> "RETRYABLE"

\* _consume_page raises when a receipt after an APPLIED one is not APPLIED.
Replayable(s) ==
    \A i, j \in 1..Len(s) :
        i < j /\ RecordState(s[i]) = "APPLIED" => RecordState(s[j]) = "APPLIED"

\* _receipt_recovery_state of a stream it does not reject: the last one decides.
RecoveryState(s) == IF s = <<>> THEN "FRESH" ELSE RecordState(s[Len(s)])

--------------------------------------------------------------------------------
(* The call as a whole *)

Goto(t, s) == step' = [step EXCEPT ![t] = s] /\ UNCHANGED <<target, outcome>>

Carry(t, s, status) ==
    /\ step' = [step EXCEPT ![t] = s]
    /\ outcome' = [outcome EXCEPT ![t] = status]
    /\ UNCHANGED target

\* Fault: the claim's exit forgets where the task was.
ReleaseKeepsStep(t) ==
    /\ target' = [target EXCEPT ![t] = None]
    /\ UNCHANGED <<step, outcome>>
    /\ inflight' = [inflight EXCEPT ![HomeOf[t]] = @ \ {KeyOf[target[t]]}]

\* _InFlight.claim on exit: the `finally` of the context manager.
Release(t) ==
    /\ step' = [step EXCEPT ![t] = "idle"]
    /\ target' = [target EXCEPT ![t] = None]
    /\ outcome' = [outcome EXCEPT ![t] = "none"]
    /\ inflight' = [inflight EXCEPT ![HomeOf[t]] = @ \ {KeyOf[target[t]]}]

\* The call ends in an exception or in a result that changes nothing else.
Leave(t) ==
    /\ Release(t)
    /\ UNCHANGED <<durable, source, authority, unresolved, bounds, history>>

\* Fault: no overlap guard.
ClaimOverlapping(t, cs, first) ==
    /\ step[t] = "idle"
    /\ calls < MaxCalls
    /\ inflight' = [inflight EXCEPT ![HomeOf[t]] = @ \cup {KeyOf[cs]}]
    /\ step' = [step EXCEPT ![t] = first]
    /\ target' = [target EXCEPT ![t] = cs]
    /\ UNCHANGED outcome
    /\ calls' = calls + 1
    /\ lapsed' = lapsed \ {t}
    /\ UNCHANGED <<durable, source, authority, unresolved, crashes,
                   mutations, reported>>

\* _InFlight.claim on entry; a key already claimed raises and nothing changes.
Claim(t, cs, first) ==
    /\ step[t] = "idle"
    /\ calls < MaxCalls
    /\ KeyOf[cs] \notin inflight[HomeOf[t]]
    /\ inflight' = [inflight EXCEPT ![HomeOf[t]] = @ \cup {KeyOf[cs]}]
    /\ step' = [step EXCEPT ![t] = first]
    /\ target' = [target EXCEPT ![t] = cs]
    /\ UNCHANGED outcome
    /\ calls' = calls + 1
    /\ lapsed' = lapsed \ {t}
    /\ UNCHANGED <<durable, source, authority, unresolved, crashes,
                   mutations, reported>>

\* GovernedWriteBack._validate on an isolated canonical copy: only time moves it.
Valid(cs) == cs \notin expired

\* _authoritative, then _authorize: a registered record, validated around an
\* authorization decision that still stands.
Authorized(cs) == cs \in registered /\ Valid(cs) /\ cs \notin revoked

--------------------------------------------------------------------------------
(* apply *)

StartApply(t, cs) == Claim(t, cs, "authorize")

\* DurableWritableConnector._apply up to _authorize.
Authorize(t) ==
    /\ step[t] = "authorize"
    /\ \/ /\ Authorized(target[t])
          /\ Goto(t, "replay")
          /\ UNCHANGED <<durable, source, authority, memory, bounds, history>>
       \/ /\ ~Authorized(target[t])
          /\ Leave(t)

\* Fault: a durable uncertain outcome does not stop apply.
ReplayIgnoresUncertain(t) ==
    LET s == receipts[target[t]] IN
    /\ step[t] = "replay"
    /\ Goto(t, IF RecoveryState(s) = "APPLIED" THEN "prior" ELSE "govern")
    /\ UNCHANGED <<durable, source, authority, memory, bounds, history>>

\* The receipts are replayed: refuse, return the prior effect, or go on.
Replay(t) ==
    LET s == receipts[target[t]] IN
    /\ step[t] = "replay"
    /\ \/ /\ ~Replayable(s) \/ RecoveryState(s) = "UNCERTAIN"
          /\ Leave(t)
       \/ /\ Replayable(s)
          /\ RecoveryState(s) # "UNCERTAIN"
          /\ Goto(t, IF RecoveryState(s) = "APPLIED" THEN "prior" ELSE "govern")
          /\ UNCHANGED <<durable, source, authority, memory, bounds, history>>

\* An applied receipt: the source must still know the effect, which is returned.
ReturnPrior(t) ==
    LET cs == target[t] IN
    /\ step[t] = "prior"
    /\ \/ /\ effects[KeyOf[cs]] = cs /\ Authorized(cs)
          /\ Release(t)
          /\ reported' = reported \cup {cs}
          /\ UNCHANGED <<durable, source, authority, unresolved, bounds,
                         mutations, lapsed>>
       \/ /\ effects[KeyOf[cs]] # cs \/ ~Authorized(cs)
          /\ Leave(t)

\* Fault: a prior effect under the key is returned without check_prior_effect.
GovernTrustsKey(t) ==
    LET cs == target[t]
        free == unresolved[HomeOf[t]][KeyOf[cs]] = None
    IN
    /\ step[t] = "govern"
    /\ free /\ Authorized(cs)
    /\ \/ effects[KeyOf[cs]] # None /\ Carry(t, "record", "applied")
       \/ effects[KeyOf[cs]] = None /\ Goto(t, "base")
    /\ UNCHANGED <<durable, source, authority, memory, bounds, history>>

\* GovernedWriteBack.apply up to prior_effect: an unresolved key refuses; a prior
\* effect of this very change set is recorded again, of another one refuses.
Govern(t) ==
    LET cs == target[t]
        free == unresolved[HomeOf[t]][KeyOf[cs]] = None
        prior == effects[KeyOf[cs]]
    IN
    /\ step[t] = "govern"
    /\ \/ /\ free /\ Authorized(cs) /\ prior = cs
          /\ Carry(t, "record", "applied")
          /\ UNCHANGED <<durable, source, authority, memory, bounds, history>>
       \/ /\ free /\ Authorized(cs) /\ prior = None
          /\ Goto(t, "base")
          /\ UNCHANGED <<durable, source, authority, memory, bounds, history>>
       \/ /\ ~free \/ ~Authorized(cs) \/ prior \notin {cs, None}
          /\ Leave(t)

\* read_current and require_base, then the first authorization of the effect.
ReadBase(t) ==
    LET cs == target[t] IN
    /\ step[t] = "base"
    /\ \/ /\ version = BaseOf[cs] /\ Authorized(cs)
          /\ Goto(t, "reserve")
          /\ UNCHANGED <<durable, source, authority, memory, bounds, history>>
       \/ /\ version # BaseOf[cs] \/ ~Authorized(cs)
          /\ Leave(t)

\* AuditReservationPort.reserve: one durable reservation per key.
\* _require_bound_reservation refuses the reservation of another digest.
AnyReservation(cs) == TRUE  \* Fault: the reservation's digest is not compared.
BoundReservation(cs) == reservations[KeyOf[cs]] \in {cs, None}

Reserve(t) ==
    LET cs == target[t] IN
    /\ step[t] = "reserve"
    /\ \/ /\ BoundReservation(cs)
          /\ reservations' = [reservations EXCEPT ![KeyOf[cs]] = cs]
          /\ Goto(t, "verify")
          /\ lapsed' = IF Authorized(cs) THEN lapsed ELSE lapsed \cup {t}
          /\ UNCHANGED <<registered, receipts, source, authority, memory,
                         bounds, mutations, reported>>
       \/ /\ ~BoundReservation(cs)
          /\ Leave(t)

\* Fault: no verification after the reservation.
VerifySkipped(t) ==
    /\ step[t] = "verify"
    /\ Goto(t, "effect")
    /\ UNCHANGED <<durable, source, authority, memory, bounds, history>>

\* The second authorization, on the isolated copy, after the reservation.
Verify(t) ==
    /\ step[t] = "verify"
    /\ \/ /\ Authorized(target[t])
          /\ Goto(t, "effect")
          /\ UNCHANGED <<durable, source, authority, memory, bounds, history>>
       \/ /\ ~Authorized(target[t])
          /\ Leave(t)

\* The version check of transport.apply; expected_version is the base read before.
NoComparison(cs) == TRUE  \* Fault: apply without compare.
CompareVersion(cs) == version = BaseOf[cs]

\* What the transport's commit does to the source: the entity moves to a new
\* version, and with InMemoryWriteBackTransport the effect is known at once.
Commit(cs) ==
    /\ version' = version + 1
    /\ effects' = IF SplitCommit THEN effects
                  ELSE [effects EXCEPT ![KeyOf[cs]] = cs]
    /\ mutations' = [mutations EXCEPT ![cs] = @ + 1]

\* transport.apply: compare and commit.  The file transport has yet to write
\* effects.json ("index").
Apply(t) ==
    LET cs == target[t] IN
    /\ step[t] = "effect"
    /\ CompareVersion(cs)
    /\ Commit(cs)
    /\ Carry(t, IF SplitCommit THEN "index" ELSE "record", "applied")
    /\ UNCHANGED <<durable, authority, memory, bounds, reported, lapsed>>

\* FileWriteBackTransport.apply writes effects.json after entities.json.
IndexEffect(t) ==
    /\ step[t] = "index"
    /\ effects' = [effects EXCEPT ![KeyOf[target[t]]] = target[t]]
    /\ Goto(t, "record")
    /\ UNCHANGED <<durable, version, authority, memory, bounds, history>>

\* transport.apply, where it succeeds.
TransportApply(t) == IF step[t] = "index" THEN IndexEffect(t) ELSE Apply(t)

\* transport.apply raises SourceVersionConflictError: the source is untouched.
ApplyConflict(t) ==
    /\ step[t] = "effect"
    /\ ~CompareVersion(target[t])
    /\ Leave(t)

\* transport.apply raises OutcomeUncertainError, before or after its commit:
\* the key is remembered as unresolved and an uncertain attempt is recorded.
ApplyUncertain(t) ==
    LET cs == target[t] IN
    /\ step[t] = "effect"
    /\ ~SplitCommit
    /\ \/ UNCHANGED <<source, mutations>>
       \/ CompareVersion(cs) /\ Commit(cs)
    /\ unresolved' = [unresolved EXCEPT ![HomeOf[t]][KeyOf[cs]] = cs]
    /\ Carry(t, "record", "outcome_uncertain")
    /\ UNCHANGED <<durable, authority, inflight, bounds, reported, lapsed>>

\* The ledger's append.
AppendReceipt(cs, kind, status) ==
    receipts' = [receipts EXCEPT
                   ![cs] = Append(@, [kind |-> kind, status |-> status])]

\* Fault: apply returns although the append failed.
RecordAttemptLater(t) ==
    /\ step[t] = "record"
    /\ Release(t)
    /\ reported' = IF outcome[t] = "applied"
                   THEN reported \cup {target[t]} ELSE reported
    /\ UNCHANGED <<durable, source, authority, unresolved, bounds, mutations,
                   lapsed>>

\* record_attempt, then apply returns: the caller learns what was recorded, or
\* the append's own answer is lost and the call raises.
RecordAttempt(t) ==
    LET cs == target[t] IN
    /\ step[t] = "record"
    /\ AppendReceipt(cs, "attempt", outcome[t])
    /\ Release(t)
    /\ \/ reported' = IF outcome[t] = "applied"
                      THEN reported \cup {cs} ELSE reported
       \/ UNCHANGED reported
    /\ UNCHANGED <<registered, reservations, source, authority, unresolved,
                   bounds, mutations, lapsed>>

--------------------------------------------------------------------------------
(* reconcile *)

StartReconcile(t, cs) == Claim(t, cs, "recall")

\* _authoritative and the replay: only a durable uncertain outcome reconciles.
Recall(t) ==
    LET cs == target[t]
        open == /\ cs \in registered
                /\ Replayable(receipts[cs])
                /\ RecoveryState(receipts[cs]) = "UNCERTAIN"
    IN
    /\ step[t] = "recall"
    /\ \/ /\ open
          /\ Goto(t, "ask")
          /\ UNCHANGED <<durable, source, authority, memory, bounds, history>>
       \/ /\ ~open
          /\ Leave(t)

\* The status InMemoryWriteBackTransport.reconcile gives, by the effect record of
\* the key: a record of another digest raises; a source that cannot tell answers
\* outcome_uncertain.  (FileWriteBackTransport never leaves an uncertain outcome
\* to reconcile.)
Observations(cs) ==
    LET prior == effects[KeyOf[cs]] IN
    {"outcome_uncertain"}
      \cup (IF prior = cs THEN {"applied"} ELSE {})
      \cup (IF prior = None THEN {"no_effect"} ELSE {})

\* GovernedWriteBack.reconcile: expiry, the key's binding, the transport's answer.
Ask(t) ==
    LET cs == target[t]
        bound == unresolved[HomeOf[t]][KeyOf[cs]]
        open == Valid(cs) /\ bound \in {cs, None}
    IN
    /\ step[t] = "ask"
    /\ \/ /\ open
          /\ \E status \in Observations(cs) :
               /\ Carry(t, "recordObservation", status)
               /\ unresolved' =
                    IF status = "outcome_uncertain" THEN unresolved
                    ELSE [unresolved EXCEPT ![HomeOf[t]][KeyOf[cs]] = None]
          /\ UNCHANGED <<durable, source, authority, inflight, bounds, history>>
       \/ /\ ~open
          /\ Leave(t)

RecordObservation(t) ==
    /\ step[t] = "recordObservation"
    /\ AppendReceipt(target[t], "reconciliation", outcome[t])
    /\ Release(t)
    /\ UNCHANGED <<registered, reservations, source, authority, unresolved,
                   bounds, mutations, reported, lapsed>>

--------------------------------------------------------------------------------
(* What a call does not choose *)

\* Any await may raise (ledger or audit unavailable, wallet proof refused) or be
\* cancelled; the claim is released and nothing else is undone.
Abort(t) == step[t] # "idle" /\ Leave(t)

\* DurableWritableConnector.register.
Register(cs) ==
    /\ cs \notin registered
    /\ registered' = registered \cup {cs}
    /\ UNCHANGED <<receipts, reservations, source, authority, memory, locals,
                   bounds, history>>

\* The process of one connector instance dies and is replaced: its tasks, its
\* claims and _unresolved are gone.
Crash(c) ==
    /\ crashes < MaxCrashes
    /\ crashes' = crashes + 1
    /\ step' = [t \in Callers |-> IF HomeOf[t] = c THEN "idle" ELSE step[t]]
    /\ target' = [t \in Callers |-> IF HomeOf[t] = c THEN None ELSE target[t]]
    /\ outcome' = [t \in Callers |-> IF HomeOf[t] = c THEN "none" ELSE outcome[t]]
    /\ inflight' = [inflight EXCEPT ![c] = {}]
    /\ unresolved' = [unresolved EXCEPT ![c] = [k \in Keys |-> None]]
    /\ UNCHANGED <<durable, source, authority, calls, history>>

\* Somebody else changes the entity at the source.
OtherWrite ==
    /\ version < MaxVersion
    /\ version' = version + 1
    /\ UNCHANGED <<durable, effects, authority, memory, locals, bounds, history>>

Expire(cs) ==
    /\ cs \notin expired
    /\ expired' = expired \cup {cs}
    /\ UNCHANGED <<durable, source, revoked, memory, locals, bounds, history>>

Revoke(cs) ==
    /\ cs \notin revoked
    /\ revoked' = revoked \cup {cs}
    /\ UNCHANGED <<durable, source, expired, memory, locals, bounds, history>>

CallStep(t) ==
    \/ Authorize(t) \/ Replay(t) \/ ReturnPrior(t) \/ Govern(t) \/ ReadBase(t)
    \/ Reserve(t) \/ Verify(t) \/ TransportApply(t)
    \/ ApplyConflict(t) \/ ApplyUncertain(t) \/ RecordAttempt(t)
    \/ Recall(t) \/ Ask(t) \/ RecordObservation(t)

Environment ==
    \/ \E cs \in ChangeSets : Register(cs) \/ Expire(cs) \/ Revoke(cs)
    \/ \E c \in Connectors : Crash(c)
    \/ OtherWrite

Next ==
    \/ \E t \in Callers, cs \in ChangeSets :
          StartApply(t, cs) \/ StartReconcile(t, cs)
    \/ \E t \in Callers : CallStep(t) \/ Abort(t)
    \/ Environment

Spec == Init /\ [][Next]_vars

--------------------------------------------------------------------------------
(* Properties *)

\* The source is changed at most once per idempotency key, whatever crashes,
\* overlapping instances, lost acknowledgements and key reuse do: an identical
\* retry finds the effect or a moved version, and another change set under the
\* key finds the audit reservation of the first.
OneEffectPerKey ==
    \A a, b \in ChangeSets :
        mutations[a] > 0 /\ mutations[b] > 0 /\ KeyOf[a] = KeyOf[b]
            => a = b /\ mutations[a] = 1

\* What the source took and what the ledger acknowledges, per key.
Taken ==
    [k \in Keys |-> {cs \in ChangeSets : KeyOf[cs] = k /\ mutations[cs] > 0}]
Acknowledged ==
    {cs \in ChangeSets :
        \E i \in 1..Len(receipts[cs]) : receipts[cs][i].status = "applied"}

Promise == INSTANCE EffectOnce WITH taken <- Taken, acknowledged <- Acknowledged

\* Every step of the connectors is a step of EffectOnce or invisible to it: the
\* source moves on behalf of a change set only from that change set's base
\* version and only for the first change set of its key, and the ledger
\* acknowledges only what the source took.
KeepsPromise == Promise!Spec

\* Why OneEffectPerKey holds, as an inductive invariant: a change moves the version past its
\* base, is made under the key's write-once reservation, and what the source, the
\* tasks and the receipts call applied is the change of that reservation.
EffectInv ==
    /\ \A cs \in ChangeSets :
         /\ mutations[cs] \in {0, 1}
         /\ mutations[cs] = 1
              => version > BaseOf[cs] /\ reservations[KeyOf[cs]] = cs
    /\ \A k \in Keys :
         effects[k] # None => KeyOf[effects[k]] = k /\ mutations[effects[k]] = 1
    /\ \A t \in Callers :
         /\ step[t] \in {"verify", "effect", "index"}
              => reservations[KeyOf[target[t]]] = target[t]
         /\ step[t] = "index" => mutations[target[t]] = 1
         /\ step[t] \in {"record", "recordObservation"} /\ outcome[t] = "applied"
              => effects[KeyOf[target[t]]] = target[t]
    /\ \A cs \in ChangeSets : \A i \in 1..Len(receipts[cs]) :
         receipts[cs][i].status = "applied" => effects[KeyOf[cs]] = cs

\* A durable receipt that says APPLIED, from an attempt or from a
\* reconciliation, is about a change the source really took and still knows
\* under the key: a retry of record_attempt or a reconcile never invents one.
AppliedReceiptIsTrue ==
    \A cs \in ChangeSets : \A i \in 1..Len(receipts[cs]) :
        receipts[cs][i].status = "applied"
            => mutations[cs] = 1 /\ effects[KeyOf[cs]] = cs

\* A caller is told "applied" only about a change whose APPLIED receipt is
\* already durable: apply() appends the attempt before it returns.
ReportedIsDurable ==
    \A cs \in reported : \E i \in 1..Len(receipts[cs]) :
        receipts[cs][i].status = "applied"

\* No sequence of calls, crashes and lost answers of one connector instance at
\* a time writes a receipt stream that _consume_page rejects ("durable applied
\* receipt cannot be reversed"), which would close the change set for good.
ReceiptsReplayable == \A cs \in ChangeSets : Replayable(receipts[cs])

\* While the ledger's last word on a change set is "outcome uncertain", no
\* transport apply of that change set changes the source.
HeldStep ==
    \A cs \in ChangeSets :
        RecoveryState(receipts[cs]) = "UNCERTAIN" => mutations'[cs] = mutations[cs]
UncertainIsNotRetried == [][HeldStep]_vars

\* A NO_EFFECT receipt, which is what permits a retry, is appended only while
\* the change set indeed has had no effect.
ProvenStep ==
    \A cs \in ChangeSets :
        receipts'[cs] # receipts[cs] /\ RecoveryState(receipts'[cs]) = "RETRYABLE"
            => mutations[cs] = 0
NoEffectIsProven == [][ProvenStep]_vars

\* Authority that had lapsed (expired or revoked) by the time the audit
\* reservation came back is noticed by the second verification: that call does
\* not change the source.
LapsedAuthorityHasNoEffect ==
    [][\A t \in Callers :
         t \in lapsed /\ step[t] = "effect" => UNCHANGED mutations]_vars

\* connector.py: "No retry decision is held only in memory."  A key that
\* _unresolved keeps closed after its call ended is closed in the ledger too, so
\* that the reconcile() the refusal asks for is accepted.
NoDecisionOnlyInMemory ==
    \A c \in Connectors, k \in Keys :
        unresolved[c][k] # None /\ k \notin inflight[c]
            => RecoveryState(receipts[unresolved[c][k]]) = "UNCERTAIN"
================================================================================
