---------------------------- MODULE PaperQuotaProofs ---------------------------
(***************************************************************************)
(* Proofs about PaperQuota, for any number of searches, processes, faults  *)
(* and retries: one call at a time, the spacing, and the Retry-After.      *)
(***************************************************************************)
EXTENDS PaperQuota, TLAPS

\* The constants of an admitted binding.
QuotaConstants ==
    /\ None \notin Tasks /\ None \notin Nat
    /\ PolicyOf \in [Tasks -> Nat]
    /\ Allowance \in Nat /\ Pauses \subseteq Nat

\* The slot, and the record of one search.
Slots == [version : Nat, owner : Tasks \cup {None}, policy : PolicyValues \cup {None}]
Task == [step : {"idle", "read", "swap", "done"} \cup Holding,
         version : Nat, wake : Nat, deadline : Nat, attempt : Nat]

\* A search is where its sleep or its call shows it to be.
Asleep == {"spacing", "pause", "penalty"}

\* A version is written once: nobody knows one the store has not reached, and a
\* swap that meets the version it read meets the free slot it read.
VersionsAreOld ==
    /\ slot.policy = None => slot.owner = None
    /\ \A t \in Tasks :
         /\ task[t].version <= slot.version
         /\ task[t].step = "swap" /\ Expected(t) => CheckFree(t)

\* Who believes to hold the slot holds it.
HoldersOwn ==
    \A t \in Tasks :
        task[t].step \in Holding => Owns(t) /\ slot.policy = PolicyOf[t]

\* The last call was made under the policy the slot carries, and whoever sleeps
\* before a call sleeps long enough after it.
SpacingIsKept ==
    /\ lastEnd.at <= now
    /\ lastEnd.policy # 0 => lastEnd.policy = slot.policy
    /\ \A t \in Tasks :
         task[t].step \in Asleep => task[t].wake >= lastEnd.at + PolicyOf[t]

\* The provider lets calls in.
Open == banned # None /\ banned <= now

\* The slot is free, or held by a search that may call, only while the provider
\* lets calls in; a search that waits out a Retry-After wakes after it and keeps
\* the slot if it is cancelled.
PausesAreKept ==
    /\ slot.owner = None => Open
    /\ \A t \in Tasks :
         /\ task[t].step \in Holding \ {"penalty"} => Open
         /\ task[t].step = "penalty" =>
              retained[t] /\ banned # None /\ banned <= task[t].wake

QuotaInv == TypeOK /\ VersionsAreOld /\ HoldersOwn /\ SpacingIsKept /\ PausesAreKept

--------------------------------------------------------------------------------
(* Types *)

\* The initial state is well formed and nobody holds anything.
LEMMA QuotaInit == ASSUME QuotaConstants PROVE Init => QuotaInv
<1> SUFFICES ASSUME Init PROVE QuotaInv
  OBVIOUS
<1> USE DEF Init
<1>1. TypeOK
  BY DEF TypeOK, QuotaConstants, Holding
<1>2. VersionsAreOld /\ HoldersOwn /\ SpacingIsKept /\ PausesAreKept
  BY DEF VersionsAreOld, HoldersOwn, SpacingIsKept, PausesAreKept, Holding, Asleep, Open, QuotaConstants
<1>3. QED BY <1>1, <1>2 DEF QuotaInv

\* A search that begins, one that sleeps, and a slot that is freed stay well formed.
LEMMA RecordTypes ==
  /\ \A r \in Task : \A d \in Nat : [r EXCEPT !.step = "read", !.deadline = d] \in Task
  /\ \A r \in Task : \A w \in Nat : [r EXCEPT !.step = "pause", !.wake = w] \in Task
  /\ \A r \in Task : \A w \in Nat : [r EXCEPT !.step = "penalty", !.wake = w] \in Task
  /\ \A q \in Slots : \A n \in Nat : [q EXCEPT !.version = n, !.owner = None] \in Slots
<1>1. ASSUME NEW r \in Task, NEW d \in Nat PROVE [r EXCEPT !.step = "read", !.deadline = d] \in Task
  BY DEF Task
<1>2. ASSUME NEW r \in Task, NEW w \in Nat
      PROVE  /\ [r EXCEPT !.step = "pause", !.wake = w] \in Task
             /\ [r EXCEPT !.step = "penalty", !.wake = w] \in Task
  BY DEF Task, Holding
<1>3. ASSUME NEW q \in Slots, NEW n \in Nat PROVE [q EXCEPT !.version = n, !.owner = None] \in Slots
  BY DEF Slots
<1>4. QED BY <1>1, <1>2, <1>3

\* A freed slot has no owner and keeps its policy.
LEMMA Freed ==
  ASSUME TypeOK, FreeSlot
  PROVE  /\ slot' \in Slots
         /\ slot'.version = slot.version + 1 /\ slot'.owner = None /\ slot'.policy = slot.policy
<1>1. slot \in Slots /\ slot.version + 1 \in Nat
  BY DEF TypeOK, Slots
<1>2. slot' = [slot EXCEPT !.version = slot.version + 1, !.owner = None]
  BY DEF FreeSlot
<1>3. slot' \in Slots
  BY <1>1, <1>2, RecordTypes
<1>4. QED BY <1>1, <1>2, <1>3 DEF Slots

\* Every step keeps the variables' types.
LEMMA QuotaTypes == ASSUME QuotaConstants PROVE TypeOK /\ [Next]_vars => TypeOK'
<1> SUFFICES ASSUME TypeOK, [Next]_vars PROVE TypeOK'
  OBVIOUS
<1> USE DEF TypeOK, QuotaConstants, Holding, provider, Fault, NoFault, Goto, PolicyValues
<1>1. ASSUME NEW t \in Tasks, Search(t) PROVE TypeOK'
  <2>1. task' = [task EXCEPT ![t] = [task[t] EXCEPT !.step = "read", !.deadline = now + Allowance]]
    BY <1>1 DEF Search
  <2>2. [task[t] EXCEPT !.step = "read", !.deadline = now + Allowance] \in Task
    <3>1. task[t] \in Task /\ now + Allowance \in Nat
      BY DEF Task
    <3>2. QED BY <3>1, RecordTypes, Zenon
  <2>3. task' \in [Tasks -> Task]
    BY <2>1, <2>2 DEF Task
  <2>4. QED BY <1>1, <2>3 DEF Search, Task
<1>2. ASSUME NEW t \in Tasks, Read(t) PROVE TypeOK'
  BY SMTT(60), <1>2 DEF Read
<1>3. ASSUME NEW t \in Tasks, Swap(t) PROVE TypeOK'
  BY <1>3 DEF Swap, TakeSlot
<1>4. ASSUME NEW t \in Tasks, Wake(t) PROVE TypeOK'
  BY <1>4 DEF Wake
<1>5. ASSUME NEW t \in Tasks, Answered(t) PROVE TypeOK'
  BY <1>5 DEF Answered, Ends
<1>6. ASSUME NEW t \in Tasks, Failed(t) PROVE TypeOK'
  <2>1. [task[t] EXCEPT !.step = "pause", !.wake = now + PolicyOf[t]] \in Task
    <3>1. task[t] \in Task /\ now + PolicyOf[t] \in Nat
      BY DEF Task
    <3>2. QED BY <3>1, RecordTypes, Zenon
  <2>2. task' = [task EXCEPT ![t] = [task[t] EXCEPT !.step = "pause", !.wake = now + PolicyOf[t]]]
    BY <1>6 DEF Failed, Sleep
  <2>3. task' \in [Tasks -> Task]
    BY <2>1, <2>2 DEF Task
  <2>4. QED BY <1>6, <2>3 DEF Failed, Ends, Task
<1>7. ASSUME NEW t \in Tasks, RateLimited(t) PROVE TypeOK'
  <2>1. \A a \in Pauses : Longer(a, PolicyOf[t]) \in Nat
    BY DEF Longer
  <2>2. Goto(t, IF retained'[t] THEN "done" ELSE "release") => task' \in [Tasks -> Task]
    BY DEF Task
  <2>3. ASSUME NEW a \in Pauses, Sleep(t, "penalty", Longer(a, PolicyOf[t]))
        PROVE  task' \in [Tasks -> Task]
    <3>1. task[t] \in Task /\ now + Longer(a, PolicyOf[t]) \in Nat
      BY <2>1 DEF Task
    <3>2. [task[t] EXCEPT !.step = "penalty", !.wake = now + Longer(a, PolicyOf[t])] \in Task
      BY <3>1, RecordTypes, Zenon
    <3>3. task' = [task EXCEPT ![t] = [task[t] EXCEPT !.step = "penalty",
                                                      !.wake = now + Longer(a, PolicyOf[t])]]
      BY <2>3 DEF Sleep
    <3>4. QED BY <3>2, <3>3 DEF Task
  <2>4. task' \in [Tasks -> Task]
    <3> HIDE DEF Goto
    <3>1. QED BY <1>7, <2>2, <2>3 DEF RateLimited
  <2>5. lastEnd' \in [at : Int, policy : Nat] /\ retained' \in [Tasks -> BOOLEAN]
    BY <1>7 DEF RateLimited, Ends, Retained
  <2>6. banned' \in Nat \cup {None}
    BY <1>7 DEF RateLimited
  <2>7. QED BY <1>7, <2>4, <2>5, <2>6 DEF RateLimited, Task
<1>8. ASSUME NEW t \in Tasks, ReleaseRead(t) PROVE TypeOK'
  BY <1>8 DEF ReleaseRead
<1>9. ASSUME NEW t \in Tasks, Clear(t) PROVE TypeOK'
  <2>1. slot' = slot \/ FreeSlot
    BY <1>9 DEF Clear
  <2>2. slot' \in Slots
    BY <2>1, Freed DEF Slots
  <2>3. QED BY <1>9, <2>2 DEF Clear, Slots
<1>10. ASSUME NEW t \in Tasks, Cancel(t) PROVE TypeOK'
  BY SMTT(60), <1>10 DEF Cancel, Interrupt, TakeSlot, Ends
<1>11. ASSUME NEW t \in Tasks, Crash(HostOf[t]) PROVE TypeOK'
  BY SMTT(60), <1>11 DEF Crash, Ends
<1>12. CASE Recover
  <2>1. slot' \in Slots
    BY <1>12, Freed DEF Recover
  <2>2. QED BY <1>12, <2>1 DEF Recover, Slots
<1>13. CASE Tick
  BY <1>13 DEF Tick
<1>14. CASE UNCHANGED vars
  BY <1>14 DEF vars
<1>15. QED
  BY <1>1, <1>2, <1>3, <1>4, <1>5, <1>6, <1>7, <1>8, <1>9, <1>10, <1>11, <1>12, <1>13, <1>14
     DEF Next, Step

--------------------------------------------------------------------------------
(* The slot *)

\* Every write raises the version, so a compare that succeeds meets what was read.
LEMMA OwnersStep ==
  ASSUME QuotaConstants, TypeOK, VersionsAreOld, HoldersOwn, [Next]_vars
  PROVE  VersionsAreOld' /\ HoldersOwn'
<1> DEFINE Both == VersionsAreOld' /\ HoldersOwn'
<1> USE DEF TypeOK, QuotaConstants, VersionsAreOld, HoldersOwn, Holding, Goto, Owns, Expected,
            CheckFree, provider
<1>1. ASSUME NEW t \in Tasks, Search(t) PROVE Both
  BY <1>1 DEF Search
<1>2. ASSUME NEW t \in Tasks, Read(t) PROVE Both
  <2>1. VersionsAreOld'
    BY <1>2 DEF Read
  <2>2. HoldersOwn'
    <3>1. slot' = slot /\ task'[t].step \notin Holding
      BY <1>2 DEF Read
    <3>2. \A u \in Tasks \ {t} : task'[u] = task[u]
      BY <1>2 DEF Read
    <3>3. QED BY <3>1, <3>2
  <2>3. QED BY <2>1, <2>2
<1>3. ASSUME NEW t \in Tasks, Swap(t) PROVE Both
  <2>1. VersionsAreOld'
    BY <1>3 DEF Swap, TakeSlot
  <2>2. HoldersOwn'
    BY <1>3 DEF Swap, TakeSlot
  <2>3. QED BY <2>1, <2>2
<1>4. ASSUME NEW t \in Tasks, Wake(t) PROVE Both
  BY SMTT(60), <1>4 DEF Wake
<1>5. ASSUME NEW t \in Tasks, Answered(t) PROVE Both
  BY <1>5 DEF Answered
<1>6. ASSUME NEW t \in Tasks, Failed(t) PROVE Both
  BY <1>6 DEF Failed, Sleep
<1>7. ASSUME NEW t \in Tasks, RateLimited(t) PROVE Both
  <2>1. VersionsAreOld'
    BY <1>7 DEF RateLimited, Sleep, Retained
  <2>2. HoldersOwn'
    BY <1>7 DEF RateLimited, Sleep, Retained
  <2>3. QED BY <2>1, <2>2
<1>8. ASSUME NEW t \in Tasks, ReleaseRead(t) PROVE Both
  BY <1>8 DEF ReleaseRead
<1>9. ASSUME NEW t \in Tasks, Clear(t) PROVE Both
  <2>1. VersionsAreOld'
    BY <1>9, Freed DEF Clear
  <2>2. HoldersOwn'
    BY <1>9, Freed DEF Clear
  <2>3. QED BY <2>1, <2>2
<1>10. ASSUME NEW t \in Tasks, Cancel(t) PROVE Both
  <2>1. VersionsAreOld'
    BY <1>10 DEF Cancel, Interrupt, TakeSlot
  <2>2. HoldersOwn'
    BY <1>10 DEF Cancel, Interrupt, TakeSlot
  <2>3. QED BY <2>1, <2>2
<1>11. ASSUME NEW t \in Tasks, Crash(HostOf[t]) PROVE Both
  BY <1>11 DEF Crash
<1>12. CASE Recover
  BY <1>12, Freed DEF Recover
<1>13. CASE Tick
  BY <1>13 DEF Tick
<1>14. CASE UNCHANGED vars
  BY <1>14 DEF vars
<1>15. QED
  BY <1>1, <1>2, <1>3, <1>4, <1>5, <1>6, <1>7, <1>8, <1>9, <1>10, <1>11, <1>12, <1>13, <1>14
     DEF Next, Step

\* One owner, one holder.
LEMMA OneHolder ==
  ASSUME HoldersOwn, NEW t \in Tasks, NEW u \in Tasks,
         task[t].step \in Holding, task[u].step \in Holding
  PROVE  t = u
  BY DEF HoldersOwn, Owns

--------------------------------------------------------------------------------
(* The spacing *)

\* Only the holder's call ends, and only under the slot's policy: nobody else's
\* sleep is cut short by it.
LEMMA SpacingStep ==
  ASSUME QuotaConstants, TypeOK, VersionsAreOld, HoldersOwn, SpacingIsKept, [Next]_vars
  PROVE  SpacingIsKept'
<1> USE DEF TypeOK, QuotaConstants, HoldersOwn, SpacingIsKept, Holding, Asleep, Goto, Owns,
            Ends, provider
<1>1. ASSUME NEW t \in Tasks, Search(t) PROVE SpacingIsKept'
  BY <1>1 DEF Search
<1>2. ASSUME NEW t \in Tasks, Read(t) PROVE SpacingIsKept'
  BY <1>2 DEF Read
<1>3. ASSUME NEW t \in Tasks, Swap(t) PROVE SpacingIsKept'
  <2>1. CASE slot' = slot
    BY <1>3, <2>1 DEF Swap, TakeSlot
  <2>2. CASE TakeSlot(t)
    <3>1. CheckFree(t)
      BY <1>3, <2>2 DEF Swap, TakeSlot, VersionsAreOld
    <3>2. QED BY SMTT(60), <1>3, <2>2, <3>1 DEF Swap, TakeSlot, CheckFree, VersionsAreOld
  <2>3. QED BY <1>3, <2>1, <2>2 DEF Swap
<1>4. ASSUME NEW t \in Tasks, Wake(t) PROVE SpacingIsKept'
  BY <1>4 DEF Wake
<1>5. ASSUME NEW t \in Tasks, Answered(t) PROVE SpacingIsKept'
  BY <1>5, OneHolder DEF Answered
<1>6. ASSUME NEW t \in Tasks, Failed(t) PROVE SpacingIsKept'
  BY <1>6, OneHolder DEF Failed, Sleep
<1>7. ASSUME NEW t \in Tasks, RateLimited(t) PROVE SpacingIsKept'
  BY SMTT(60), <1>7, OneHolder DEF RateLimited, Sleep, Retained, Longer
<1>8. ASSUME NEW t \in Tasks, ReleaseRead(t) PROVE SpacingIsKept'
  BY <1>8 DEF ReleaseRead
<1>9. ASSUME NEW t \in Tasks, Clear(t) PROVE SpacingIsKept'
  BY <1>9, Freed DEF Clear
<1>10. ASSUME NEW t \in Tasks, Cancel(t) PROVE SpacingIsKept'
  <2>1. CASE task[t].step = "read"
    BY <1>10, <2>1 DEF Cancel, Interrupt
  <2>2. CASE task[t].step = "swap"
    BY <1>10, <2>2 DEF Cancel, Interrupt, TakeSlot, Expected, VersionsAreOld, CheckFree
  <2>3. CASE task[t].step \in Holding
    BY <1>10, <2>3, OneHolder DEF Cancel, Interrupt
  <2>4. QED BY <1>10, <2>1, <2>2, <2>3 DEF Cancel, Interrupt
<1>11. ASSUME NEW t \in Tasks, Crash(HostOf[t]) PROVE SpacingIsKept'
  BY <1>11, OneHolder DEF Crash
<1>12. CASE Recover
  BY <1>12, Freed DEF Recover
<1>13. CASE Tick
  BY <1>13 DEF Tick
<1>14. CASE UNCHANGED vars
  BY <1>14 DEF vars
<1>15. QED
  BY <1>1, <1>2, <1>3, <1>4, <1>5, <1>6, <1>7, <1>8, <1>9, <1>10, <1>11, <1>12, <1>13, <1>14
     DEF Next, Step

--------------------------------------------------------------------------------
(* The Retry-After *)

\* Only a call that was answered with a pause closes the provider, and it either
\* sleeps the pause out or leaves the slot taken.
LEMMA PausesStep ==
  ASSUME QuotaConstants, TypeOK, VersionsAreOld, HoldersOwn, PausesAreKept, [Next]_vars
  PROVE  PausesAreKept'
<1> USE DEF TypeOK, QuotaConstants, HoldersOwn, PausesAreKept, Open, Holding, Goto, Owns,
            provider
<1>1. ASSUME NEW t \in Tasks, Search(t) PROVE PausesAreKept'
  BY <1>1 DEF Search
<1>2. ASSUME NEW t \in Tasks, Read(t) PROVE PausesAreKept'
  BY <1>2 DEF Read
<1>3. ASSUME NEW t \in Tasks, Swap(t) PROVE PausesAreKept'
  <2>1. CASE slot' = slot
    BY <1>3, <2>1 DEF Swap, TakeSlot
  <2>2. CASE TakeSlot(t)
    <3>1. CheckFree(t)
      BY <1>3, <2>2 DEF Swap, TakeSlot, VersionsAreOld
    <3>2. Open /\ Open'
      BY <1>3, <3>1 DEF Swap, CheckFree, VersionsAreOld
    <3>3. ASSUME NEW u \in Tasks
          PROVE  task'[u] = task[u] \/ task'[u].step \in {"spacing", "done"}
      BY <1>3 DEF Swap
    <3>4. QED BY <1>3, <3>2, <3>3 DEF Swap
  <2>3. QED BY <1>3, <2>1, <2>2 DEF Swap
<1>4. ASSUME NEW t \in Tasks, Wake(t) PROVE PausesAreKept'
  BY <1>4, OneHolder DEF Wake
<1>5. ASSUME NEW t \in Tasks, Answered(t) PROVE PausesAreKept'
  BY <1>5 DEF Answered
<1>6. ASSUME NEW t \in Tasks, Failed(t) PROVE PausesAreKept'
  BY <1>6 DEF Failed, Sleep
<1>7. ASSUME NEW t \in Tasks, RateLimited(t) PROVE PausesAreKept'
  BY <1>7, OneHolder DEF RateLimited, Sleep, Retained, Longer
<1>8. ASSUME NEW t \in Tasks, ReleaseRead(t) PROVE PausesAreKept'
  BY <1>8 DEF ReleaseRead
<1>9. ASSUME NEW t \in Tasks, Clear(t) PROVE PausesAreKept'
  BY <1>9, Freed DEF Clear
<1>10. ASSUME NEW t \in Tasks, Cancel(t) PROVE PausesAreKept'
  BY <1>10 DEF Cancel, Interrupt, TakeSlot, Expected, VersionsAreOld, CheckFree
<1>11. ASSUME NEW t \in Tasks, Crash(HostOf[t]) PROVE PausesAreKept'
  BY <1>11 DEF Crash
<1>12. CASE Recover
  BY <1>12, Freed DEF Recover
<1>13. CASE Tick
  BY <1>13 DEF Tick
<1>14. CASE UNCHANGED vars
  BY <1>14 DEF vars
<1>15. QED
  BY <1>1, <1>2, <1>3, <1>4, <1>5, <1>6, <1>7, <1>8, <1>9, <1>10, <1>11, <1>12, <1>13, <1>14
     DEF Next, Step

--------------------------------------------------------------------------------
(* The theorems *)

\* None of the properties is inductive: QuotaInv says who holds the slot, since
\* when the last call is over, and until when the provider refuses calls.
LEMMA QuotaInvariant == ASSUME QuotaConstants PROVE Spec => []QuotaInv
<1>1. Init => QuotaInv
  BY QuotaInit
<1>2. QuotaInv /\ [Next]_vars => QuotaInv'
  BY QuotaTypes, OwnersStep, SpacingStep, PausesStep DEF QuotaInv
<1>3. QED BY <1>1, <1>2, PTL DEF Spec

\* A call starts where a search wakes from the spacing or from a pause.
LEMMA CallStarts ==
  ASSUME TypeOK, [Next]_vars, NEW t \in Tasks,
         task[t].step # "calling", task'[t].step = "calling"
  PROVE  Wake(t)
<1> USE DEF TypeOK, Goto
<1>1. ASSUME NEW u \in Tasks, Search(u) PROVE FALSE
  BY <1>1 DEF Search
<1>2. ASSUME NEW u \in Tasks, Read(u) PROVE FALSE
  BY <1>2 DEF Read
<1>3. ASSUME NEW u \in Tasks, Swap(u) PROVE FALSE
  BY <1>3 DEF Swap
<1>4. ASSUME NEW u \in Tasks, Wake(u), u # t PROVE FALSE
  BY <1>4 DEF Wake
<1>5. ASSUME NEW u \in Tasks, Answered(u) \/ Failed(u) \/ RateLimited(u) PROVE FALSE
  BY <1>5 DEF Answered, Failed, RateLimited, Sleep
<1>6. ASSUME NEW u \in Tasks, ReleaseRead(u) \/ Clear(u) PROVE FALSE
  BY <1>6 DEF ReleaseRead, Clear
<1>7. ASSUME NEW u \in Tasks, Cancel(u) PROVE FALSE
  BY <1>7 DEF Cancel, Interrupt
<1>8. ASSUME NEW u \in Tasks, Crash(HostOf[u]) PROVE FALSE
  BY <1>8 DEF Crash
<1>9. task' # task
  OBVIOUS
<1>10. QED
  BY <1>1, <1>2, <1>3, <1>4, <1>5, <1>6, <1>7, <1>8, <1>9 DEF Next, Step, Recover, Tick, vars

\* The slot is a lock across processes: whatever swaps are lost, cancelled or applied
\* behind a lost answer, and however often an operator frees a slot, two searches
\* never call the provider at once.
THEOREM OneCallAtATime == ASSUME QuotaConstants PROVE Spec => []Exclusive
<1>1. QuotaInv => Exclusive
  BY OneHolder DEF QuotaInv, Exclusive, Holding
<1>2. QED BY <1>1, QuotaInvariant, PTL

\* The next call waits for the spacing after the last one, however that one ended
\* and whoever made it.
THEOREM SpacingHolds == ASSUME QuotaConstants PROVE Spec => CallsAreSpaced
<1>1. ASSUME QuotaInv, [Next]_vars PROVE SpacedStep
  <2> SUFFICES ASSUME NEW t \in Tasks, task[t].step # "calling", task'[t].step = "calling",
                      lastEnd.policy # 0
               PROVE  now >= lastEnd.at + Longer(PolicyOf[t], lastEnd.policy)
    BY DEF SpacedStep
  <2>1. Wake(t)
    BY <1>1, CallStarts DEF QuotaInv
  <2>2. task[t].step \in Asleep /\ task[t].step \in Holding /\ now >= task[t].wake
    BY <2>1 DEF Wake, Asleep, Holding
  <2>3. lastEnd.policy = PolicyOf[t] /\ task[t].wake >= lastEnd.at + PolicyOf[t]
    BY <1>1, <2>2 DEF QuotaInv, SpacingIsKept, HoldersOwn
  <2>4. QED BY <1>1, <2>2, <2>3 DEF QuotaInv, TypeOK, QuotaConstants, Longer
<1>2. QED BY <1>1, QuotaInvariant, PTL DEF Spec, CallsAreSpaced

\* Nobody calls the provider while it asked for a pause, not even after the search
\* that was told so gave up, was cancelled or died with its process.
THEOREM RetryAfterHolds == ASSUME QuotaConstants PROVE Spec => HonoursRetryAfter
<1>1. ASSUME QuotaInv, [Next]_vars PROVE HonouredStep
  <2> SUFFICES ASSUME NEW t \in Tasks, task[t].step # "calling", task'[t].step = "calling"
               PROVE  banned # None /\ banned <= now
    BY DEF HonouredStep
  <2>1. Wake(t)
    BY <1>1, CallStarts DEF QuotaInv
  <2>2. CASE task[t].step = "penalty"
    <3>1. banned # None /\ banned <= task[t].wake /\ task[t].wake <= now
      BY <1>1, <2>1, <2>2 DEF QuotaInv, PausesAreKept, Wake, TypeOK
    <3>2. QED BY <1>1, <3>1 DEF QuotaInv, TypeOK
  <2>3. CASE task[t].step # "penalty"
    <3>1. task[t].step \in Holding \ {"penalty"}
      BY <2>1, <2>3 DEF Wake, Holding
    <3>2. QED BY <1>1, <3>1 DEF QuotaInv, PausesAreKept, Open
  <2>4. QED BY <2>2, <2>3
<1>2. QED BY <1>1, QuotaInvariant, PTL DEF Spec, HonoursRetryAfter

================================================================================
