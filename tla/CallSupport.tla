------------------------------ MODULE CallSupport ------------------------------
(* What calls lean on: retries and fallbacks, the lock file, the payment budget and the
   decision points.

   The sections share no state: each has its own Init, Next and Spec. *)
EXTENDS Naturals, Sequences, FiniteSets, FiniteSetsExt

--------------------------------------------------------------------------------
(* run_with_resilience and its blocking form: the primary is called up to max_attempts
   times and then each fallback once, as long as the errors may be retried.  *)

CONSTANTS
    Attempts,     \* max_attempts a policy may have
    Fallbacks,    \* how many fallbacks there may be
    MaxFallbacks  \* the most that _validate admits: ten in the code

VARIABLES
    asked,   \* what the caller asked for
    state,   \* new, waiting, calling, refused, returned or raised
    made     \* the calls made: 0 for the primary, n for fallback n; and how they ended

resilienceVars == <<asked, state, made>>

Outcomes == {"value", "listed", "unlisted", "timeout", "tls", "cancelled"}

ResilienceTypeOK ==
    /\ state \in {"new", "waiting", "calling", "refused", "returned", "raised"}
    /\ Len(made) <= asked.attempts + asked.fallbacks

ResilienceInit ==
    /\ asked \in [attempts : Attempts, fallbacks : Fallbacks, safe : BOOLEAN,
                  timeout : BOOLEAN, blocking : BOOLEAN]
    /\ state = "new" /\ made = <<>>

\* Fault: a fallback is no second call.
RetriesAffirmed == asked.attempts > 1 => asked.safe
Affirmed == asked.attempts > 1 \/ asked.fallbacks > 0 => asked.safe

Valid ==
    /\ Affirmed /\ asked.fallbacks <= MaxFallbacks
    /\ asked.blocking => ~asked.timeout

Start ==
    /\ state = "new"
    /\ state' = IF Valid THEN "waiting" ELSE "refused"
    /\ UNCHANGED <<asked, made>>

\* What _plan has at each place.
Plan(place) == IF place <= asked.attempts THEN 0 ELSE place - asked.attempts
Places == asked.attempts + asked.fallbacks

\* The next call, after a delay if it is another attempt of the primary; only then can
\* the caller be cancelled between two calls.
Call ==
    /\ state = "waiting"
    /\ \/ /\ made' = Append(made, [call |-> Plan(Len(made) + 1), end |-> "under way"])
          /\ state' = "calling"
       \/ /\ ~asked.blocking /\ Len(made) \in 1..(asked.attempts - 1)
          /\ state' = "raised" /\ UNCHANGED made
    /\ UNCHANGED asked

\* Fault: a call that timed out is made again.
TimeoutsToo(end) == end \in {"listed", "timeout"}
Retryable(end) == end = "listed"

Last == Len(made) = Places

Answer(end) ==
    /\ state = "calling"
    /\ end = "cancelled" => ~asked.blocking
    /\ made' = [made EXCEPT ![Len(made)].end = end]
    /\ state' = IF end = "value" THEN "returned"
                ELSE IF Last \/ ~Retryable(end) THEN "raised" ELSE "waiting"
    /\ UNCHANGED asked

ResilienceNext == Start \/ Call \/ \E end \in Outcomes : Answer(end)

ResilienceSpec == ResilienceInit /\ [][ResilienceNext]_resilienceVars

--------------------------------------------------------------------------------
(* Properties *)

\* There is a second call only of operations that the caller affirmed are safe to
\* repeat, and only after a call that ended with an error of retry_on: never after a
\* time-out, a cancellation or a certificate that failed, which may have had an effect.
SecondCallIsEarned ==
    \A n \in 2..Len(made) : asked.safe /\ made[n - 1].end = "listed"

\* Fallbacks come in order and after every attempt of the primary; an error is raised
\* only when no call is left that it allows, and a value is the last call's.
PlanIsFollowed ==
    /\ \A m, n \in DOMAIN made : m <= n => made[m].call <= made[n].call
    /\ \A n \in DOMAIN made : made[n].call > 0 =>
         \A c \in 0..(made[n].call - 1) :
            Cardinality({m \in DOMAIN made : made[m].call = c}) = IF c = 0 THEN asked.attempts ELSE 1
    /\ state = "returned" <=> \E n \in DOMAIN made : made[n].end = "value"
    /\ state = "raised" /\ made[Len(made)].end = "listed" =>
         Len(made) = Places \/ Len(made) < asked.attempts

--------------------------------------------------------------------------------
(* file_lock and library_state: advisory locks of a file's sibling, exclusive or
   shared, which the kernel gives up when their holder dies.  Writers read the file,
   change it and write it back in two parts; readers hold the shared lock.  The lock
   orders them and no more: who dies between the two parts leaves a file of neither
   state, which the next holder of the lock finds.  *)

CONSTANTS
    Processes,
    Patience,    \* tries of file_lock before its time-out
    MaxUses,     \* uses of the file by a process
    MaxCrashes,
    None

VARIABLES
    held,     \* by process, the mode it holds the lock in, or None
    proc,     \* what each process does
    file,     \* the file: two halves
    seen,     \* what readers read, and whether a writer had died over it
    updates,  \* updates that were begun
    torn,     \* ghost: the last writer died between the halves
    crashes

lockVars == <<held, proc, file, seen, updates, torn, crashes>>

LockIdle == [at |-> "idle", tries |-> 0, read |-> 0, uses |-> 0]

LockTypeOK ==
    /\ held \in [Processes -> {"exclusive", "shared", None}]
    /\ updates \in Nat /\ torn \in BOOLEAN
    /\ \A p \in Processes : proc[p].tries \in 0..Patience

LockInit ==
    /\ held = [p \in Processes |-> None] /\ proc = [p \in Processes |-> LockIdle]
    /\ file = <<0, 0>> /\ seen = {} /\ updates = 0 /\ torn = FALSE /\ crashes = 0

--------------------------------------------------------------------------------

Others(p) == {held[q] : q \in Processes \ {p}} \ {None}
\* Fault: a reader is no obstacle for a writer.
IgnoreReaders(p, mode) == "exclusive" \notin Others(p)
\* LOCK_EX and LOCK_SH, or LockFileEx with and without LOCKFILE_EXCLUSIVE_LOCK.
Available(p, mode) ==
    IF mode = "exclusive" THEN Others(p) = {} ELSE "exclusive" \notin Others(p)

At(p, place) == proc' = [proc EXCEPT ![p].at = place]

\* file_lock tries and sleeps until its deadline; lock_shared waits in the kernel.
Begin(p, place) ==
    /\ proc[p].at = "idle" /\ proc[p].uses < MaxUses
    /\ proc' = [proc EXCEPT ![p].at = place, ![p].tries = 0, ![p].uses = @ + 1]
    /\ UNCHANGED <<held, file, seen, updates, torn, crashes>>

TryLock(p) ==
    /\ proc[p].at = "trying"
    /\ IF Available(p, "exclusive")
       THEN held' = [held EXCEPT ![p] = "exclusive"] /\ At(p, "reading")
       ELSE /\ IF proc[p].tries = Patience THEN At(p, "idle")
               ELSE proc' = [proc EXCEPT ![p].tries = @ + 1]
            /\ UNCHANGED held
    /\ UNCHANGED <<file, seen, updates, torn, crashes>>

LockShared(p) ==
    /\ proc[p].at = "waiting" /\ Available(p, "shared")
    /\ held' = [held EXCEPT ![p] = "shared"] /\ At(p, "looking")
    /\ UNCHANGED <<file, seen, updates, torn, crashes>>

\* The block under the lock: the caller's.
LockRead(p) ==
        /\ proc[p].at = "reading"
        /\ proc' = [proc EXCEPT ![p].at = "writing", ![p].read = file[1]]
        /\ UNCHANGED <<held, file, seen, updates, torn, crashes>>
Write(p, part) ==
    /\ proc[p].at = IF part = 1 THEN "writing" ELSE "rest"
    /\ file' = [file EXCEPT ![part] = proc[p].read + 1]
    /\ At(p, IF part = 1 THEN "rest" ELSE "leaving")
    /\ updates' = IF part = 1 THEN updates + 1 ELSE updates
    /\ torn' = IF part = 2 THEN FALSE ELSE torn
    /\ UNCHANGED <<held, seen, crashes>>
Look(p) ==
    /\ proc[p].at = "looking"
    /\ seen' = seen \cup {[file |-> file, torn |-> torn]} /\ At(p, "leaving")
    /\ UNCHANGED <<held, file, updates, torn, crashes>>

Unlock(p) ==
    /\ proc[p].at = "leaving"
    /\ held' = [held EXCEPT ![p] = None] /\ At(p, "idle")
    /\ UNCHANGED <<file, seen, updates, torn, crashes>>

\* A process dies, between the halves of a write too: the kernel unlocks what it held,
\* and nothing repairs the file.
Crash(p) ==
    /\ crashes < MaxCrashes /\ crashes' = crashes + 1
    /\ proc[p].at # "idle"
    /\ held' = [held EXCEPT ![p] = None] /\ At(p, "idle")
    /\ torn' = IF proc[p].at = "rest" THEN TRUE ELSE torn
    /\ UNCHANGED <<file, seen, updates>>

LockNext ==
    \E p \in Processes :
        \/ Begin(p, "trying") \/ Begin(p, "waiting") \/ TryLock(p) \/ LockShared(p)
        \/ LockRead(p) \/ Write(p, 1) \/ Write(p, 2) \/ Look(p) \/ Unlock(p) \/ Crash(p)

LockSpec == LockInit /\ [][LockNext]_lockVars

--------------------------------------------------------------------------------
(* Properties *)

\* No update that was begun is lost, whatever process times out, waits or dies with the
\* lock; halves that differ are of a writer at work, whom nobody else sees, or were left
\* by one that died between them, until the next update is whole; and a dead process
\* holds nothing.
UpdatesAreKept ==
    /\ file[1] = updates
    /\ (\A p \in Processes : proc[p].at # "rest") => file[2] = file[1] \/ torn
    /\ \A s \in seen : s.file[1] = s.file[2] \/ s.torn
    /\ \A p \in Processes : proc[p].at \in {"idle", "trying", "waiting"} => held[p] = None

--------------------------------------------------------------------------------
(* X402PaymentClient and PaymentGuard: parsing a challenge, checking it against the
   budget, making a proof and recording the payment are calls that know nothing of each
   other.  The client counts what is recorded and checks what it is asked about; that a
   payment is checked, and recorded once, is up to its host.  *)

CONSTANTS
    Challenges,     \* challenges there may be: [amount, currency, chain, named]
    Allowed,        \* allowed pairs of currency and chain
    Single, Daily, Monthly, Approval,  \* BudgetLimits
    MaxPayments,    \* challenges handled
    MaxRecords,     \* payments recorded
    MaxResets

VARIABLES
    payments,  \* each challenge, whether a proof was made for it, and as a ghost
               \* whether it was approved and not recorded since
    daily, monthly, count, records,
    today,     \* ghost: the records counted since the last reset_daily
    month,     \* ghost: and since the last reset_monthly
    strayed,   \* ghost: the host did not keep to the workflow
    resets

paymentVars == <<payments, daily, monthly, count, records, today, month, strayed, resets>>

Amount(n) == payments[records[n].payment].challenge.amount
Total(f) == FoldSet(LAMBDA n, sum : Amount(n) + sum, 0, f)
Confirmed == {n \in DOMAIN records : records[n].status = "confirmed"}

PaymentTypeOK ==
    /\ daily \in Nat /\ monthly \in Nat /\ count \in 0..MaxRecords
    /\ today \cup month \subseteq Confirmed

PaymentInit ==
    /\ payments = <<>> /\ records = <<>>
    /\ daily = 0 /\ monthly = 0 /\ count = 0
    /\ today = {} /\ month = {} /\ strayed = FALSE /\ resets = 0

Handle(c) ==
    /\ Len(payments) < MaxPayments
    /\ payments' = Append(payments, [challenge |-> c, proved |-> FALSE, granted |-> FALSE])
    /\ UNCHANGED <<daily, monthly, count, records, today, month, strayed, resets>>

\* Fault: a payment that just fits the day is not counted with what was spent.
FitsAlone(amount) == amount <= Daily /\ monthly + amount <= Monthly
Fits(amount) == daily + amount <= Daily /\ monthly + amount <= Monthly

Approved(c) ==
    /\ <<c.currency, c.chain>> \in Allowed
    /\ c.amount <= Single /\ Fits(c.amount) /\ c.amount <= Approval

\* Payments approved and not recorded since.
Pending == {p \in DOMAIN payments : payments[p].granted}

\* authorize_payment: an answer, of which the client keeps nothing.  The workflow has
\* one payment at a time: another that is approved meanwhile is checked without it.
Authorize(p) ==
    /\ payments' = [payments EXCEPT ![p].granted = Approved(payments[p].challenge)]
    /\ strayed' = (strayed \/ (Approved(payments[p].challenge) /\ Pending \ {p} # {}))
    /\ UNCHANGED <<daily, monthly, count, records, today, month, resets>>

\* create_proof, for a transaction the wallet signed: of any challenge.
CreateProof(p) ==
    /\ payments' = [payments EXCEPT ![p].proved = TRUE]
    /\ UNCHANGED <<daily, monthly, count, records, today, month, strayed, resets>>

\* Fault: any proof will do.
AnyProof(p, proof) == proof # None
ProofMatches(p, proof) == proof = p /\ payments[p].challenge.named

\* record_payment, with a proof of any payment or none: as often as it is called, whatever
\* the guard said; a confirmed one raises if its proof does not match.  The workflow has
\* a payment confirmed at most once after each approval.
Record(p, proof, status) ==
    /\ Len(records) < MaxRecords
    /\ IF status = "confirmed" /\ ~ProofMatches(p, proof) THEN UNCHANGED paymentVars
       ELSE LET paid == status = "confirmed"
                spent == IF paid THEN payments[p].challenge.amount ELSE 0
                counted == IF paid THEN {Len(records) + 1} ELSE {}
            IN  /\ records' = Append(records, [payment |-> p, status |-> status])
                /\ payments' = [payments EXCEPT ![p].granted = FALSE]
                /\ daily' = daily + spent /\ monthly' = monthly + spent
                /\ count' = count + Cardinality(counted)
                /\ today' = today \cup counted /\ month' = month \cup counted
                /\ strayed' = (strayed \/ (paid /\ ~payments[p].granted))
                /\ UNCHANGED resets

ResetDaily ==
    /\ resets < MaxResets /\ resets' = resets + 1
    /\ daily' = 0 /\ today' = {}
    /\ UNCHANGED <<payments, monthly, count, records, month, strayed>>

ResetMonthly ==
    /\ resets < MaxResets /\ resets' = resets + 1
    /\ monthly' = 0 /\ month' = {}
    /\ UNCHANGED <<payments, daily, count, records, today, strayed>>

Proofs == {p \in DOMAIN payments : payments[p].proved} \cup {None}

PaymentNext ==
    \/ \E c \in Challenges : Handle(c)
    \/ \E p \in DOMAIN payments :
         \/ Authorize(p) \/ CreateProof(p)
         \/ \E proof \in Proofs, status \in {"confirmed", "failed"} : Record(p, proof, status)
    \/ ResetDaily \/ ResetMonthly

PaymentSpec == PaymentInit /\ [][PaymentNext]_paymentVars

--------------------------------------------------------------------------------
(* Properties *)

\* The amounts are those of the payments confirmed since the resets, a payment that is
\* recorded twice among them twice.
SpendIsTrue == daily = Total(today) /\ monthly = Total(month)

\* A payment is recorded as confirmed only with a proof made for its own challenge, and
\* each that is counts.
ConfirmedIsProved ==
    /\ count = Cardinality(Confirmed)
    /\ \A n \in Confirmed :
         payments[records[n].payment].proved /\ payments[records[n].payment].challenge.named

\* Whatever resets come in between, a host that has one payment at a time checked and,
\* after its approval, confirmed at most once stays within the budget of the day and of
\* the month and pays only what the limits allow.  The client enforces none of that: a host
\* that strays from it can exceed every limit.
WithinBudget ==
    ~strayed =>
      /\ daily <= Daily /\ monthly <= Monthly
      /\ \A n \in Confirmed :
           LET c == payments[records[n].payment].challenge
           IN  /\ c.amount <= Single /\ c.amount <= Approval
               /\ <<c.currency, c.chain>> \in Allowed

--------------------------------------------------------------------------------
(* EpistemicGraphDecisionRunner: a decision point asks the engine first and keeps its own
   rule as the fallback.  A synchronous call site runs the question on the engine's loop,
   waits for so long, and falls back; the question it left behind goes on.          *)

CONSTANTS
    Calls,       \* call |-> [sync, onLoop, runner, bounded, bound, offered, pick, mode,
                 \*           every]
    Digests,     \* digests of decision records, as numbers
    Strange      \* an option that nobody offered

VARIABLES
    caller,      \* call |-> [at] or [at, choice]
    task,        \* call |-> [at, answer, reading]: the question on the engine's loop
    loop,        \* "up" or "closed"
    log,         \* durable decision records: [call, answer]
    unlogged     \* ghost: calls whose record could not be logged

decisionVars == <<caller, task, loop, log, unlogged>>

DecisionIdle == [at |-> "idle"]
NoTask == [at |-> "none"]

DecisionInit ==
    /\ caller = [c \in DOMAIN Calls |-> DecisionIdle] /\ task = [c \in DOMAIN Calls |-> NoTask]
    /\ loop = "up" /\ log = {} /\ unlogged = {}

DecisionTypeOK ==
    /\ loop \in {"up", "closed"} /\ unlogged \subseteq DOMAIN Calls
    /\ \A c \in DOMAIN Calls :
         /\ caller[c].at \in {"idle", "waiting", "done"}
         /\ task[c].at \in {"none", "decide", "log", "settle", "done"}

Choice(option, decided, reason) ==
    [option |-> option, decided |-> decided, reason |-> reason]
Fallback(c, reason) == Choice(Calls[c].pick, FALSE, reason)
Return(c, choice) ==
    caller' = [caller EXCEPT ![c] = [at |-> "done", choice |-> choice]]
Reading(option, reason) == [option |-> option, reason |-> reason]

--------------------------------------------------------------------------------
(* choose, achoose, _prepare *)

\* _bounded_choice: a pick outside the candidates is not a decision.
Asked(c) ==
    Calls[c].runner /\ (Calls[c].bounded => Calls[c].pick \in Calls[c].offered)

\* GeneratedTransport.run: the loop's own thread may not wait for it.
MayBlock(c) == Calls[c].sync => loop = "up" /\ ~Calls[c].onLoop

Choose(c) ==
    /\ caller[c] = DecisionIdle
    /\ IF Asked(c) /\ MayBlock(c)
       THEN /\ caller' = [caller EXCEPT ![c] = [at |-> "waiting"]]
            /\ task' = [task EXCEPT ![c] =
                 IF Calls[c].bound THEN [at |-> "decide"]
                 ELSE [at |-> "settle", answer |-> None,
                       reading |-> Reading(None, "unbound")]]
       ELSE Return(c, Fallback(c, "unasked")) /\ UNCHANGED task
    /\ UNCHANGED <<loop, log, unlogged>>

--------------------------------------------------------------------------------
(* _consult *)

\* The question of an asynchronous call site runs on the loop of its own.
Runs(c) == Calls[c].sync => loop = "up"

\* What the engine may answer: a record whose outcome executes an option, advises or
\* abstains; a record without an outcome; no record.
Answers(c) ==
    [kind : {"acted", "explored"}, option : Calls[c].offered \cup {Strange},
     digest : Digests]
    \cup [kind : {"advisory", "abstained", "malformed", "empty"}, option : {None},
          digest : Digests]

\* Fault: an option of the engine's own is taken.
AnyOption(c, a) ==
    IF a.kind \in {"acted", "explored"} THEN Reading(a.option, a.kind)
    ELSE Reading(None, a.kind)
DecisionRead(c, a) ==
            IF a.kind \in {"acted", "explored"} /\ a.option \in Calls[c].offered
            THEN Reading(a.option, a.kind)
            ELSE Reading(None, a.kind)

Decide(c) ==
    /\ Runs(c) /\ task[c].at = "decide"
    /\ \E a \in Answers(c) :
         task' = [task EXCEPT ![c] =
                    [at |-> "log", answer |-> a, reading |-> DecisionRead(c, a)]]
    /\ UNCHANGED <<caller, loop, log, unlogged>>

DecideFails(c) ==
    /\ Runs(c) /\ task[c].at = "decide"
    /\ task' = [task EXCEPT ![c] = [at |-> "settle", answer |-> None,
                                    reading |-> Reading(None, "unavailable")]]
    /\ UNCHANGED <<caller, loop, log, unlogged>>

\* Fault: only the records of executed options are kept.
OnlyExecuted(c, a) == a.kind \in {"acted", "explored"} /\ Calls[c].mode = "always"

Sampled(c, a) == a.digest % Calls[c].every = 0
Loggable(c, a) ==
    /\ a.kind # "empty"
    /\ Calls[c].mode = "always" \/ (Calls[c].mode = "sampled" /\ Sampled(c, a))

\* _log: a failure is a warning.
Log(c) ==
    /\ Runs(c) /\ task[c].at = "log"
    /\ IF Loggable(c, task[c].answer)
       THEN \/ log' = log \cup {[call |-> c, answer |-> task[c].answer]}
               /\ UNCHANGED unlogged
            \/ unlogged' = unlogged \cup {c} /\ UNCHANGED log
       ELSE UNCHANGED <<log, unlogged>>
    /\ task' = [task EXCEPT ![c].at = "settle"]
    /\ UNCHANGED <<caller, loop>>

\* Fault: the engine's outcome is the choice, whatever it was read as.
Told(c, r) == Choice(r.option, TRUE, r.reason)

\* _settle
Settled(c, r) ==
    IF r.option # None THEN Choice(r.option, TRUE, r.reason) ELSE Fallback(c, r.reason)

\* The caller that still waits has the task's choice; one that timed out does not.
Settle(c) ==
    /\ Runs(c) /\ task[c].at = "settle"
    /\ task' = [task EXCEPT ![c].at = "done"]
    /\ IF caller[c].at = "waiting" THEN Return(c, Settled(c, task[c].reading))
       ELSE UNCHANGED caller
    /\ UNCHANGED <<loop, log, unlogged>>

\* future.result(timeout): the question is not cancelled.
Timeout(c) ==
    /\ Calls[c].sync /\ caller[c].at = "waiting"
    /\ Return(c, Fallback(c, "unavailable"))
    /\ UNCHANGED <<task, loop, log, unlogged>>

CloseLoop ==
    /\ loop = "up" /\ loop' = "closed"
    /\ UNCHANGED <<caller, task, log, unlogged>>

Step(c) ==
    Choose(c) \/ Decide(c) \/ DecideFails(c) \/ Log(c) \/ Settle(c) \/ Timeout(c)

DecisionNext == (\E c \in DOMAIN Calls : Step(c)) \/ CloseLoop

DecisionSpec == DecisionInit /\ [][DecisionNext]_decisionVars

--------------------------------------------------------------------------------
(* A choice is the call site's own pick, or an option that it offered and that the engine
   executed for this very question; an advice, an abstention, an option of nobody's, a
   failure or a late answer leaves the pick (_settle, _read_outcome, run).          *)
ChoiceIsEarned ==
    \A c \in DOMAIN Calls : caller[c].at = "done" =>
      LET choice == caller[c].choice
      IN  IF choice.decided
          THEN /\ choice.option \in Calls[c].offered
               /\ task[c].answer.option = choice.option
               /\ task[c].answer.kind \in {"acted", "explored"}
          ELSE choice.option = Calls[c].pick

(* Once a call site acts on a decision of a point whose records are all kept, and on what
   its engine said otherwise, the record is durable or its loss was reported; no call has
   two records, and none is of a point that keeps no records (_consult, _log).      *)
DecisionIsLogged ==
    /\ \A c \in DOMAIN Calls :
         task[c].at = "done" /\ task[c].answer # None /\ Calls[c].mode = "always" =>
           \/ c \in unlogged \/ task[c].answer.kind = "empty"
           \/ [call |-> c, answer |-> task[c].answer] \in log
    /\ \A c \in DOMAIN Calls : caller[c].at = "done" /\ caller[c].choice.decided =>
         task[c].at = "done"
    /\ \A r, s \in log : r.call = s.call => r = s
    /\ \A r \in log : Calls[r.call].mode # "never" /\ Calls[r.call].bound
================================================================================
