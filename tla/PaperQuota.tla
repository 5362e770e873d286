------------------------------- MODULE PaperQuota ------------------------------
(***************************************************************************)
(* Paper providers that share one upstream limit share one slot, a key of  *)
(* EG's compare-and-swap store.  A search takes the slot, waits out the    *)
(* minimum spacing, calls the provider, calls it again after a failure,    *)
(* and gives the slot back, unless the provider asked for a pause that the *)
(* search cannot wait for: then the slot stays taken until an operator     *)
(* frees it.                                                               *)
(***************************************************************************)
EXTENDS Integers, FiniteSets

CONSTANTS
    Tasks,       \* searches of one provider
    HostOf,      \* HostOf[t]: the process t runs in (one SharedPaperQuota each)
    PolicyOf,    \* PolicyOf[t]: the minimum spacing of t's admitted policy
    None,
    Allowance,   \* query.deadline_seconds
    Retries,     \* binding.retries
    Pauses,      \* Retry-After values a provider may send
    MaxTime,     \* bound: the clock
    MaxFaults    \* bound: crashes, failed or lost calls, cancelled callers

VARIABLES
    now,
    slot,       \* the key: version, owner, policy; policy None when absent
    task,       \* task[t]: step, version read or held, wake, deadline, attempt
    retained,   \* QuotaSlot._retained
    lastEnd,    \* when the last provider call ended, and the policy it was under
    banned,     \* until when the provider refuses calls; None: it did not say
    faults

vars == <<now, slot, task, retained, lastEnd, banned, faults>>
provider == <<lastEnd, banned>>

Longer(a, b) == IF a < b THEN b ELSE a

\* Steps in which a task holds the slot, or believes so.
Holding == {"spacing", "pause", "penalty", "calling", "release", "clear"}
\* Steps inside "async with self._kv_lock", past its acquisition.
Locking == {"swap", "clear"}

PolicyValues == {PolicyOf[t] : t \in Tasks}

TypeOK ==
    /\ now \in Nat
    /\ slot \in [version : Nat, owner : Tasks \cup {None},
                 policy : PolicyValues \cup {None}]
    /\ task \in [Tasks -> [step : {"idle", "read", "swap", "done"} \cup Holding,
                           version : Nat, wake : Nat, deadline : Nat, attempt : Nat]]
    /\ retained \in [Tasks -> BOOLEAN]
    /\ lastEnd \in [at : Int, policy : Nat]
    /\ banned \in Nat \cup {None}
    /\ faults \in Nat

Init ==
    /\ now = 0
    /\ slot = [version |-> 0, owner |-> None, policy |-> None]
    /\ task = [t \in Tasks |-> [step |-> "idle", version |-> 0, wake |-> 0,
                                deadline |-> 0, attempt |-> 0]]
    /\ retained = [t \in Tasks |-> FALSE]
    /\ lastEnd = [at |-> 0, policy |-> 0]
    /\ banned = 0
    /\ faults = 0

Fault == faults < MaxFaults /\ faults' = faults + 1
NoFault == UNCHANGED faults

Goto(t, step) == task' = [task EXCEPT ![t].step = step]
\* anyio.sleep: the clock may be past "wake" when the task runs again.
Sleep(t, step, delay) ==
    task' = [task EXCEPT ![t].step = step, ![t].wake = now + delay]

LockFree(t) ==
    \A u \in Tasks : HostOf[u] = HostOf[t] => task[u].step \notin Locking

--------------------------------------------------------------------------------
(* Taking the slot *)

Search(t) ==
    /\ task[t].step = "idle"
    /\ task' = [task EXCEPT ![t].step = "read", ![t].deadline = now + Allowance]
    /\ UNCHANGED <<now, slot, retained, provider, faults>>

\* Fault: a free slot is free for every policy.
AnyPolicy(t) == slot.owner = None
\* _check_free: the very bytes of a free slot under the same policy.
CheckFree(t) ==
    slot.policy = None \/ (slot.owner = None /\ slot.policy = PolicyOf[t])

Read(t) ==
    /\ task[t].step = "read" /\ LockFree(t)
    /\ \/ /\ CheckFree(t) /\ NoFault
          /\ task' = [task EXCEPT ![t].step = "swap", ![t].version = slot.version]
       \/ ~CheckFree(t) /\ NoFault /\ Goto(t, "done")
       \/ Fault /\ Goto(t, "done")
    /\ UNCHANGED <<now, slot, retained, provider>>

\* Fault: the swap does not compare versions.
AnyVersion(t) == TRUE
Expected(t) == slot.version = task[t].version
TakeSlot(t) ==
    slot' = [version |-> slot.version + 1, owner |-> t, policy |-> PolicyOf[t]]

Swap(t) ==
    /\ task[t].step = "swap"
    /\ \/ /\ Expected(t) /\ NoFault
          /\ TakeSlot(t)
          /\ task' = [task EXCEPT ![t].step = "spacing", ![t].version = slot.version + 1,
                                  ![t].wake = now + PolicyOf[t]]
       \/ ~Expected(t) /\ NoFault /\ Goto(t, "done") /\ UNCHANGED slot
       \/ Fault /\ Goto(t, "done") /\ UNCHANGED slot
       \* The store swapped; its answer is lost.
       \/ Expected(t) /\ Fault /\ TakeSlot(t) /\ Goto(t, "done")
    /\ UNCHANGED <<now, retained, provider>>

--------------------------------------------------------------------------------
(* Calls of the provider *)

Last(t) == task[t].attempt = Retries

\* The sleep is over: the next call, or the report when none is left.
Wake(t) ==
    /\ task[t].step \in {"spacing", "pause", "penalty"} /\ now >= task[t].wake
    /\ retained' = [retained EXCEPT ![t] = FALSE]
    /\ \/ /\ task[t].step = "spacing"
          /\ Goto(t, "calling")
       \/ /\ task[t].step # "spacing" /\ ~Last(t)
          /\ task' = [task EXCEPT ![t].step = "calling", ![t].attempt = @ + 1]
       \/ task[t].step = "penalty" /\ Last(t) /\ Goto(t, "release")
    /\ UNCHANGED <<now, slot, provider, faults>>

Ends(t) == lastEnd' = [at |-> now, policy |-> PolicyOf[t]]

\* A page, or a failure that is not tried again.
Answered(t) ==
    /\ task[t].step = "calling"
    /\ Ends(t) /\ Goto(t, "release")
    /\ UNCHANGED <<now, slot, retained, banned, faults>>

Failed(t) ==
    /\ task[t].step = "calling" /\ ~Last(t)
    /\ Ends(t) /\ Sleep(t, "pause", PolicyOf[t])
    /\ UNCHANGED <<now, slot, retained, banned, faults>>

\* Fault: the slot is given back whatever the provider asked for.
NotRetained(t) == UNCHANGED retained
\* slot.retain()
Retained(t) == retained' = [retained EXCEPT ![t] = TRUE]

\* No Retry-After, or one that does not fit: the task ends with the slot taken.
RateLimited(t) ==
    /\ task[t].step = "calling"
    /\ Ends(t) /\ Retained(t)
    /\ \/ banned' = None /\ Goto(t, IF retained'[t] THEN "done" ELSE "release")
       \/ \E after \in Pauses :
            LET delay == Longer(after, PolicyOf[t]) IN
            /\ banned' = now + after
            /\ IF delay >= task[t].deadline - now
               THEN Goto(t, IF retained'[t] THEN "done" ELSE "release")
               ELSE Sleep(t, "penalty", delay)
    /\ UNCHANGED <<now, slot, faults>>

--------------------------------------------------------------------------------
(* Giving the slot back, shielded from cancellation *)

\* Is the slot still what this task wrote?
Owns(t) == slot.version = task[t].version /\ slot.owner = t
ReleaseRead(t) ==
    /\ task[t].step = "release" /\ LockFree(t)
    /\ \/ Owns(t) /\ NoFault /\ Goto(t, "clear")
       \/ ~Owns(t) /\ NoFault /\ Goto(t, "done")
       \/ Fault /\ Goto(t, "done")
    /\ UNCHANGED <<now, slot, retained, provider>>

FreeSlot == slot' = [slot EXCEPT !.version = @ + 1, !.owner = None]
Clear(t) ==
    /\ task[t].step = "clear" /\ Goto(t, "done")
    /\ \/ Expected(t) /\ NoFault /\ FreeSlot
       \/ ~Expected(t) /\ NoFault /\ UNCHANGED slot
       \/ Fault /\ UNCHANGED slot
       \/ Expected(t) /\ Fault /\ FreeSlot
    /\ UNCHANGED <<now, retained, provider>>

--------------------------------------------------------------------------------
(* Cancellation, crashes, the operator, the clock *)

\* A cancelled swap may have been applied; a cancelled call counts as ended.
Interrupt(t) ==
    \/ task[t].step = "read" /\ Goto(t, "done") /\ UNCHANGED <<slot, lastEnd>>
    \/ /\ task[t].step = "swap" /\ Goto(t, "done") /\ UNCHANGED lastEnd
       /\ UNCHANGED slot \/ (Expected(t) /\ TakeSlot(t))
    \/ /\ task[t].step \in {"spacing", "pause", "penalty", "calling"}
       /\ Goto(t, IF retained[t] THEN "done" ELSE "release")
       /\ IF task[t].step = "calling" THEN Ends(t) ELSE UNCHANGED lastEnd
       /\ UNCHANGED slot

\* _collect cancels what the deadline leaves over; a caller may cancel before.
Cancel(t) ==
    /\ Interrupt(t)
    /\ IF now >= task[t].deadline THEN NoFault ELSE Fault
    /\ UNCHANGED <<now, retained, banned>>

Crash(h) ==
    LET dead == {t \in Tasks : HostOf[t] = h /\ task[t].step # "idle"} IN
    /\ Fault
    /\ \E t \in dead : task[t].step # "done"
    /\ task' = [t \in Tasks |-> IF t \in dead THEN [task[t] EXCEPT !.step = "done"] ELSE task[t]]
    /\ IF \E t \in dead : task[t].step = "calling"
       THEN \E t \in dead : task[t].step = "calling" /\ Ends(t)
       ELSE UNCHANGED lastEnd
    /\ UNCHANGED <<now, slot, retained, banned>>

\* The operator frees the slot of a task that is gone, when the provider lets
\* calls in again.
Recover ==
    /\ slot.owner # None /\ task[slot.owner].step = "done"
    /\ banned # None => banned <= now
    /\ banned' = now
    /\ FreeSlot
    /\ UNCHANGED <<now, task, retained, lastEnd, faults>>

Tick ==
    /\ now < MaxTime /\ now' = now + 1
    /\ UNCHANGED <<slot, task, retained, provider, faults>>

Step(t) ==
    \/ Search(t) \/ Read(t) \/ Swap(t) \/ Wake(t) \/ Answered(t) \/ Failed(t)
    \/ RateLimited(t) \/ ReleaseRead(t) \/ Clear(t) \/ Cancel(t)

Next ==
    \/ \E t \in Tasks : Step(t) \/ Crash(HostOf[t])
    \/ Recover \/ Tick

Spec == Init /\ [][Next]_vars

--------------------------------------------------------------------------------
(* Properties *)

\* Two searches of one credential group, in one process or two, never call
\* their providers at once.
Exclusive ==
    \A t, u \in Tasks :
        task[t].step = "calling" /\ task[u].step = "calling" => t = u

\* A call starts no sooner after the one before it than either's policy asks,
\* whoever made that one and however it ended.
SpacedStep ==
    \A t \in Tasks :
        task[t].step # "calling" /\ task'[t].step = "calling" /\ lastEnd.policy # 0 =>
            now >= lastEnd.at + Longer(PolicyOf[t], lastEnd.policy)
CallsAreSpaced == [][SpacedStep]_vars

\* While a provider's Retry-After runs, or after a refusal that named none,
\* nobody calls it.
HonouredStep ==
    \A t \in Tasks :
        task[t].step # "calling" /\ task'[t].step = "calling" =>
            banned # None /\ banned <= now
HonoursRetryAfter == [][HonouredStep]_vars
================================================================================
