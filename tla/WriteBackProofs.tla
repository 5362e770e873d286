---------------------------- MODULE WriteBackProofs ----------------------------
(***************************************************************************)
(* Theorems about WriteBack, for any number of change sets, keys, connector *)
(* instances and tasks, and for both transports.                            *)
(***************************************************************************)
EXTENDS WriteBack, TLAPS

USE DEF durable, source, authority, memory, locals, bounds, history

LEMMA Constants ==
  /\ \A cs \in ChangeSets : KeyOf[cs] \in Keys /\ BaseOf[cs] \in Nat /\ cs # None
  /\ \A t \in Callers : HomeOf[t] \in Connectors
  BY WriteBackAssumption

LEMMA TypeInit == Init => TypeOK
  BY WriteBackAssumption DEF Init, TypeOK, Steps, Receipts

LEMMA ReleaseType ==
  ASSUME TypeOK, NEW t \in Callers, step[t] # "idle", Release(t)
  PROVE  /\ inflight' \in [Connectors -> SUBSET Keys]
         /\ step' \in [Callers -> Steps]
         /\ target' \in [Callers -> ChangeSets \cup {None}]
         /\ outcome' \in [Callers -> Statuses \cup {"none"}]
         /\ \A u \in Callers :
              /\ step'[u] # "idle" => target'[u] \in ChangeSets
              /\ step'[u] = "index" => outcome'[u] = "applied"
              /\ step'[u] = "record" => outcome'[u] \in {"applied", "outcome_uncertain"}
              /\ step'[u] = "recordObservation" => outcome'[u] \in Statuses
  <1>1. inflight[HomeOf[t]] \ {KeyOf[target[t]]} \in SUBSET Keys
    BY Constants DEF TypeOK
  <1>2. inflight' = [inflight EXCEPT ![HomeOf[t]] = inflight[HomeOf[t]] \ {KeyOf[target[t]]}]
    BY DEF Release
  <1>3. inflight' \in [Connectors -> SUBSET Keys]
    BY <1>1, <1>2 DEF TypeOK
  <1>4. QED BY <1>3 DEF TypeOK, Release, Steps

LEMMA LeaveType ==
  ASSUME TypeOK, NEW t \in Callers, step[t] # "idle", Leave(t)
  PROVE  TypeOK'
  BY ReleaseType DEF TypeOK, Leave

LEMMA GotoType ==
  ASSUME TypeOK, NEW t \in Callers, step[t] # "idle",
         NEW s \in Steps \ {"idle", "index", "record", "recordObservation"},
         Goto(t, s),
         UNCHANGED <<durable, source, authority, memory, bounds, history>>
  PROVE  TypeOK'
  BY DEF TypeOK, Goto

LEMMA ClaimType ==
  ASSUME TypeOK, NEW t \in Callers, NEW cs \in ChangeSets,
         NEW s \in {"authorize", "recall"}, Claim(t, cs, s)
  PROVE  TypeOK'
  <1>1. s \in Steps /\ s \notin {"idle", "index", "record", "recordObservation"}
    BY DEF Steps, ApplySteps, ReconcileSteps
  <1>2. inflight' \in [Connectors -> SUBSET Keys]
    <2>1. inflight[HomeOf[t]] \cup {KeyOf[cs]} \in SUBSET Keys
      BY Constants DEF TypeOK
    <2>2. inflight' = [inflight EXCEPT ![HomeOf[t]] = inflight[HomeOf[t]] \cup {KeyOf[cs]}]
      BY DEF Claim
    <2>3. QED BY <2>1, <2>2 DEF TypeOK
  <1>3. /\ step' = [step EXCEPT ![t] = s]
        /\ target' = [target EXCEPT ![t] = cs]
        /\ outcome' = outcome
        /\ calls' \in Nat
        /\ lapsed' \in SUBSET Callers
        /\ UNCHANGED <<durable, source, authority, unresolved, crashes,
                       mutations, reported>>
    BY DEF TypeOK, Claim
  <1>4. QED BY <1>1, <1>2, <1>3 DEF TypeOK

LEMMA CommitType ==
  ASSUME TypeOK, NEW cs \in ChangeSets, Commit(cs)
  PROVE  /\ version' \in Nat
         /\ effects' \in [Keys -> ChangeSets \cup {None}]
         /\ mutations' \in [ChangeSets -> Nat]
  BY Constants DEF TypeOK, Commit

LEMMA UnresolvedType ==
  ASSUME TypeOK, NEW c \in Connectors, NEW k \in Keys,
         NEW v \in ChangeSets \cup {None}
  PROVE  [unresolved EXCEPT ![c][k] = v]
           \in [Connectors -> [Keys -> ChangeSets \cup {None}]]
  <1>1. [unresolved[c] EXCEPT ![k] = v] \in [Keys -> ChangeSets \cup {None}]
    BY DEF TypeOK
  <1>2. QED BY <1>1 DEF TypeOK

LEMMA AppendType ==
  ASSUME TypeOK, NEW cs \in ChangeSets, NEW kind, NEW status,
         [kind |-> kind, status |-> status] \in Receipts,
         AppendReceipt(cs, kind, status)
  PROVE  receipts' \in [ChangeSets -> Seq(Receipts)]
  BY DEF TypeOK, AppendReceipt

\* Governed write-back keeps its ledger, its source and its tasks well formed.
THEOREM TypeCorrect == Spec => []TypeOK
<1>1. TypeOK /\ [Next]_vars => TypeOK'
  <2> SUFFICES ASSUME TypeOK, [Next]_vars PROVE TypeOK'
    OBVIOUS
  <2>1. ASSUME NEW t \in Callers, NEW cs \in ChangeSets,
               StartApply(t, cs) \/ StartReconcile(t, cs)
        PROVE  TypeOK'
    BY <2>1, ClaimType DEF StartApply, StartReconcile
  <2>2. ASSUME NEW t \in Callers, Abort(t)
        PROVE  TypeOK'
    BY <2>2, LeaveType DEF Abort
  <2>3. ASSUME NEW t \in Callers, CallStep(t)
        PROVE  TypeOK'
    <3>0. "idle" # step[t] => target[t] \in ChangeSets
      BY DEF TypeOK
    <3>s. /\ {"replay", "prior", "govern", "base", "reserve", "verify", "effect",
              "ask"} \subseteq Steps \ {"idle", "index", "record", "recordObservation"}
          /\ {"index", "record", "recordObservation"} \subseteq Steps
      BY DEF Steps, ApplySteps, ReconcileSteps
    <3>1. CASE Authorize(t)
      BY <3>1, <3>s, LeaveType, GotoType DEF Authorize
    <3>2. CASE Replay(t)
      BY <3>2, <3>s, LeaveType, GotoType DEF Replay
    <3>3. CASE ReturnPrior(t)
      <4>1. CASE Leave(t)
        BY <4>1, <3>3, LeaveType DEF ReturnPrior
      <4>2. CASE ~Leave(t)
        BY <4>2, <3>3, <3>0, ReleaseType DEF ReturnPrior, TypeOK
      <4>3. QED BY <4>1, <4>2
    <3>4. CASE Govern(t)
      <4>1. CASE Carry(t, "record", "applied")
        BY <4>1, <3>4, <3>s, <3>0 DEF Govern, Carry, TypeOK, Statuses, Leave, Release
      <4>2. CASE ~Carry(t, "record", "applied")
        BY <4>2, <3>4, <3>s, LeaveType, GotoType DEF Govern
      <4>3. QED BY <4>1, <4>2
    <3>5. CASE ReadBase(t)
      BY <3>5, <3>s, LeaveType, GotoType DEF ReadBase
    <3>6. CASE Reserve(t)
      <4>1. CASE Leave(t)
        BY <4>1, <3>6, LeaveType DEF Reserve
      <4>2. CASE ~Leave(t)
        <5>1. target[t] \in ChangeSets /\ KeyOf[target[t]] \in Keys
          BY <3>6, <3>0, Constants DEF Reserve
        <5>2. reservations' \in [Keys -> ChangeSets \cup {None}]
          BY <4>2, <3>6, <5>1 DEF Reserve, TypeOK
        <5>3. /\ Goto(t, "verify") /\ lapsed' \in SUBSET Callers
              /\ UNCHANGED <<registered, receipts, source, authority, memory,
                             bounds, mutations, reported>>
          BY <4>2, <3>6 DEF Reserve, TypeOK
        <5>4. QED BY <5>1, <5>2, <5>3, <3>s DEF Goto, TypeOK
      <4>3. QED BY <4>1, <4>2
    <3>7. CASE Verify(t)
      BY <3>7, <3>s, LeaveType, GotoType DEF Verify
    <3>8. CASE Apply(t)
      <4>1. target[t] \in ChangeSets /\ KeyOf[target[t]] \in Keys
        BY <3>8, <3>0, Constants DEF Apply
      <4>2. Commit(target[t])
        BY <3>8, <4>1 DEF Apply, TypeOK
      <4>3. \E s \in {"index", "record"} : Carry(t, s, "applied")
        BY <3>8 DEF Apply
      <4>4. UNCHANGED <<durable, authority, memory, bounds, reported, lapsed>>
        BY <3>8 DEF Apply
      <4>5. QED BY <4>1, <4>2, <4>3, <4>4, <3>s, CommitType DEF Carry, TypeOK, Statuses
    <3>9. CASE IndexEffect(t)
      <4>1. target[t] \in ChangeSets /\ KeyOf[target[t]] \in Keys
        BY <3>9, <3>0, Constants DEF IndexEffect
      <4>2. effects' \in [Keys -> ChangeSets \cup {None}]
        BY <3>9, <4>1 DEF IndexEffect, TypeOK
      <4>3. /\ step' = [step EXCEPT ![t] = "record"]
            /\ UNCHANGED <<target, outcome, durable, version, authority, memory,
                           bounds, history>>
        BY <3>9 DEF IndexEffect, Goto
      <4>4. outcome[t] = "applied"
        BY <3>9 DEF IndexEffect, TypeOK
      <4>5. QED BY <4>1, <4>2, <4>3, <4>4, <3>s DEF TypeOK
    <3>10. CASE ApplyConflict(t)
      BY <3>10, LeaveType DEF ApplyConflict
    <3>11. CASE ApplyUncertain(t)
      <4>1. /\ target[t] \in ChangeSets /\ KeyOf[target[t]] \in Keys
            /\ HomeOf[t] \in Connectors
        BY <3>11, <3>0, Constants DEF ApplyUncertain
      <4>2. /\ \/ UNCHANGED <<version, effects, mutations>>
               \/ Commit(target[t])
            /\ unresolved' = [unresolved EXCEPT ![HomeOf[t]][KeyOf[target[t]]] = target[t]]
            /\ Carry(t, "record", "outcome_uncertain")
            /\ UNCHANGED <<durable, authority, inflight, bounds, reported, lapsed>>
        BY <3>11, <4>1 DEF ApplyUncertain, TypeOK
      <4>3. unresolved' \in [Connectors -> [Keys -> ChangeSets \cup {None}]]
        BY <4>1, <4>2, UnresolvedType
      <4>4. QED BY <4>1, <4>2, <4>3, <3>s, CommitType DEF Carry, TypeOK, Statuses
    <3>12. CASE RecordAttempt(t)
      BY <3>12, <3>0, AppendType, WriteBackAssumption
      DEF RecordAttempt, Release, TypeOK, Receipts, Steps, Statuses
    <3>13. CASE Recall(t)
      BY <3>13, <3>s, LeaveType, GotoType DEF Recall
    <3>14. CASE Ask(t)
      <4>1. /\ target[t] \in ChangeSets /\ KeyOf[target[t]] \in Keys
            /\ HomeOf[t] \in Connectors /\ step[t] # "idle"
        BY <3>14, <3>0, Constants DEF Ask
      <4>2. CASE Leave(t)
        BY <4>1, <4>2, LeaveType
      <4>3. CASE ~Leave(t)
        <5>1. PICK status \in Observations(target[t]) :
                /\ Carry(t, "recordObservation", status)
                /\ unresolved' =
                     IF status = "outcome_uncertain" THEN unresolved
                     ELSE [unresolved EXCEPT ![HomeOf[t]][KeyOf[target[t]]] = None]
          BY <4>3, <3>14 DEF Ask
        <5>2. status \in Statuses
          BY DEF Observations, Statuses
        <5>3. unresolved' \in [Connectors -> [Keys -> ChangeSets \cup {None}]]
          BY <4>1, <5>1, UnresolvedType DEF TypeOK
        <5>4. UNCHANGED <<durable, source, authority, inflight, bounds, history>>
          BY <4>3, <3>14 DEF Ask
        <5>5. QED BY <4>1, <5>1, <5>2, <5>3, <5>4, <3>s DEF Carry, TypeOK
      <4>4. QED BY <4>2, <4>3
    <3>15. CASE RecordObservation(t)
      BY <3>15, <3>0, AppendType, WriteBackAssumption
      DEF RecordObservation, Release, TypeOK, Receipts, Steps, Statuses
    <3>16. QED
      BY <2>3, <3>1, <3>2, <3>3, <3>4, <3>5, <3>6, <3>7, <3>8, <3>9, <3>10,
         <3>11, <3>12, <3>13, <3>14, <3>15 DEF CallStep, TransportApply
  <2>4. CASE Environment
    <3>1. ASSUME NEW c \in Connectors, Crash(c) PROVE TypeOK'
      BY <3>1, WriteBackAssumption DEF Crash, TypeOK, Steps, Statuses
    <3>2. ASSUME NEW cs \in ChangeSets, Register(cs) \/ Expire(cs) \/ Revoke(cs)
          PROVE  TypeOK'
      BY <3>2 DEF Register, Expire, Revoke, TypeOK
    <3>3. CASE OtherWrite
      BY <3>3 DEF OtherWrite, TypeOK
    <3>4. QED BY <2>4, <3>1, <3>2, <3>3 DEF Environment
  <2>5. CASE UNCHANGED vars
    BY <2>5 DEF vars, TypeOK
  <2>6. QED BY <2>1, <2>2, <2>3, <2>4, <2>5 DEF Next
<1>2. QED BY TypeInit, <1>1, PTL DEF Spec

--------------------------------------------------------------------------------
(* At most one effect per key *)

\* Steps at which EffectInv says something about the task.
Watched == {"verify", "effect", "index", "record", "recordObservation"}

\* A step that leaves the source's history, the reservations and the receipts
\* alone, and moves tasks to unwatched steps only, keeps the invariant.
LEMMA QuietStep ==
  ASSUME TypeOK, TypeOK', EffectInv,
         version' >= version,
         UNCHANGED <<mutations, effects, reservations, receipts>>,
         \A u \in Callers :
            \/ step'[u] \notin Watched
            \/ step'[u] = step[u] /\ target'[u] = target[u] /\ outcome'[u] = outcome[u]
  PROVE  EffectInv'
  <1>1. \A cs \in ChangeSets :
          /\ mutations'[cs] \in {0, 1}
          /\ mutations'[cs] = 1 => version' > BaseOf[cs] /\ reservations'[KeyOf[cs]] = cs
    BY Constants DEF TypeOK, EffectInv
  <1>2. \A k \in Keys :
          effects'[k] # None => KeyOf[effects'[k]] = k /\ mutations'[effects'[k]] = 1
    BY DEF EffectInv
  <1>3. \A t \in Callers :
          /\ step'[t] \in {"verify", "effect", "index"}
               => reservations'[KeyOf[target'[t]]] = target'[t]
          /\ step'[t] = "index" => mutations'[target'[t]] = 1
          /\ step'[t] \in {"record", "recordObservation"} /\ outcome'[t] = "applied"
               => effects'[KeyOf[target'[t]]] = target'[t]
    BY DEF EffectInv, Watched
  <1>4. \A cs \in ChangeSets : \A i \in 1..Len(receipts'[cs]) :
          receipts'[cs][i].status = "applied" => effects'[KeyOf[cs]] = cs
    BY DEF EffectInv
  <1>5. QED BY <1>1, <1>2, <1>3, <1>4 DEF EffectInv

LEMMA LeaveEffect ==
  ASSUME TypeOK, TypeOK', EffectInv, NEW t \in Callers, Leave(t)
  PROVE  EffectInv'
  BY QuietStep DEF Leave, Release, Watched, TypeOK

LEMMA GotoEffect ==
  ASSUME TypeOK, TypeOK', EffectInv, NEW t \in Callers,
         NEW s \in Steps \ Watched, Goto(t, s),
         UNCHANGED <<durable, source, authority, memory, bounds, history>>
  PROVE  EffectInv'
  BY QuietStep DEF Goto, Watched, TypeOK

\* Only the change set that holds the key's reservation is known as its effect.
LEMMA EffectOwner ==
  ASSUME TypeOK, EffectInv, NEW k \in Keys
  PROVE  effects[k] \in {None, reservations[k]}
  <1>1. SUFFICES ASSUME effects[k] # None PROVE effects[k] = reservations[k]
    OBVIOUS
  <1>2. effects[k] \in ChangeSets /\ KeyOf[effects[k]] = k /\ mutations[effects[k]] = 1
    BY <1>1 DEF TypeOK, EffectInv
  <1>3. QED BY <1>2 DEF EffectInv

\* The compare-and-apply of a reserved change set: its first and only effect.
LEMMA CommitEffect ==
  ASSUME TypeOK, TypeOK', EffectInv, NEW t \in Callers, step[t] = "effect",
         CompareVersion(target[t]), Commit(target[t]),
         UNCHANGED <<reservations, receipts, target>>,
         NEW s \in {"index", "record"}, step' = [step EXCEPT ![t] = s],
         NEW o \in Statuses, outcome' = [outcome EXCEPT ![t] = o],
         s = "index" => SplitCommit,
         s = "record" /\ o = "applied" => ~SplitCommit
  PROVE  EffectInv'
  <1> DEFINE cs == target[t]
  <1>1. /\ cs \in ChangeSets /\ KeyOf[cs] \in Keys /\ cs # None
        /\ BaseOf[cs] \in Nat /\ version = BaseOf[cs]
        /\ reservations[KeyOf[cs]] = cs
    BY Constants DEF TypeOK, EffectInv, CompareVersion
  <1>2. mutations[cs] = 0
    BY <1>1 DEF EffectInv, TypeOK
  <1>3. /\ version' = version + 1
        /\ mutations' = [mutations EXCEPT ![cs] = 1]
    BY <1>1, <1>2 DEF Commit, TypeOK
  <1>4. /\ effects' = effects \/ effects' = [effects EXCEPT ![KeyOf[cs]] = cs]
        /\ ~SplitCommit => effects'[KeyOf[cs]] = cs
    BY <1>1 DEF Commit, TypeOK
  <1>5. effects[KeyOf[cs]] \in {None, cs}
    BY <1>1, EffectOwner
  <1>6. \A k \in Keys : effects[k] # None => effects'[k] = effects[k]
    BY <1>1, <1>4, <1>5 DEF TypeOK
  <1>7. \A d \in ChangeSets :
          /\ mutations'[d] \in {0, 1}
          /\ mutations'[d] = 1 => version' > BaseOf[d] /\ reservations'[KeyOf[d]] = d
    BY <1>1, <1>3, Constants, SMTT(30) DEF EffectInv, TypeOK
  <1>8. \A k \in Keys :
          effects'[k] # None => KeyOf[effects'[k]] = k /\ mutations'[effects'[k]] = 1
    <2> SUFFICES ASSUME NEW k \in Keys, effects'[k] # None
                 PROVE  KeyOf[effects'[k]] = k /\ mutations'[effects'[k]] = 1
      OBVIOUS
    <2>1. CASE effects'[k] = cs /\ k = KeyOf[cs]
      BY <2>1, <1>1, <1>3 DEF TypeOK
    <2>2. CASE effects'[k] = effects[k]
      BY <2>2, <1>1, <1>3 DEF EffectInv, TypeOK
    <2>3. QED BY <2>1, <2>2, <1>1, <1>4 DEF TypeOK
  <1>9. \A u \in Callers :
          /\ step'[u] \in {"verify", "effect", "index"}
               => reservations'[KeyOf[target'[u]]] = target'[u]
          /\ step'[u] = "index" => mutations'[target'[u]] = 1
          /\ step'[u] \in {"record", "recordObservation"} /\ outcome'[u] = "applied"
               => effects'[KeyOf[target'[u]]] = target'[u]
    <2> SUFFICES ASSUME NEW u \in Callers
                 PROVE  /\ step'[u] \in {"verify", "effect", "index"}
                             => reservations'[KeyOf[target'[u]]] = target'[u]
                        /\ step'[u] = "index" => mutations'[target'[u]] = 1
                        /\ step'[u] \in {"record", "recordObservation"}
                              /\ outcome'[u] = "applied"
                             => effects'[KeyOf[target'[u]]] = target'[u]
      OBVIOUS
    <2>1. CASE u = t
      BY <2>1, <1>1, <1>3, <1>4 DEF TypeOK
    <2>2. CASE u # t
      <3>1. step'[u] = step[u] /\ outcome'[u] = outcome[u] /\ target'[u] = target[u]
        BY <2>2 DEF TypeOK
      <3>2. step[u] # "idle" => target[u] \in ChangeSets /\ KeyOf[target[u]] \in Keys
        BY Constants DEF TypeOK
      <3>3. step[u] = "index" => mutations'[target[u]] = 1
        BY <3>2, <1>3 DEF EffectInv, TypeOK
      <3>4. step[u] \in {"record", "recordObservation"} /\ outcome[u] = "applied"
              => effects'[KeyOf[target[u]]] = target[u]
        BY <3>2, <1>6, Constants DEF EffectInv
      <3>5. QED BY <3>1, <3>3, <3>4 DEF EffectInv
    <2>3. QED BY <2>1, <2>2
  <1>10. \A d \in ChangeSets : \A i \in 1..Len(receipts'[d]) :
           receipts'[d][i].status = "applied" => effects'[KeyOf[d]] = d
    BY <1>6, Constants DEF EffectInv
  <1>11. QED BY <1>7, <1>8, <1>9, <1>10 DEF EffectInv

\* The ledger's append of what a task carries.
LEMMA AppendEffect ==
  ASSUME TypeOK, TypeOK', EffectInv, NEW t \in Callers, NEW kind,
         step[t] \in {"record", "recordObservation"},
         AppendReceipt(target[t], kind, outcome[t]), Release(t),
         UNCHANGED <<mutations, effects, reservations, version>>
  PROVE  EffectInv'
  <1>1. target[t] \in ChangeSets /\ receipts[target[t]] \in Seq(Receipts)
    BY DEF TypeOK
  <1>2. \A cs \in ChangeSets : \A i \in 1..Len(receipts'[cs]) :
          receipts'[cs][i].status = "applied" => effects'[KeyOf[cs]] = cs
    <2> SUFFICES ASSUME NEW cs \in ChangeSets, NEW i \in 1..Len(receipts'[cs]),
                        receipts'[cs][i].status = "applied"
                 PROVE  effects[KeyOf[cs]] = cs
      OBVIOUS
    <2>1. CASE cs # target[t]
      BY <2>1, <1>1 DEF AppendReceipt, EffectInv, TypeOK
    <2>2. CASE cs = target[t]
      <3>1. receipts'[cs] = Append(receipts[cs], [kind |-> kind, status |-> outcome[t]])
        BY <2>2, <1>1 DEF AppendReceipt, TypeOK
      <3>2. CASE i = Len(receipts[cs]) + 1
        BY <3>1, <3>2, <2>2, <1>1 DEF EffectInv
      <3>3. CASE i \in 1..Len(receipts[cs])
        BY <3>1, <3>3, <2>2, <1>1 DEF EffectInv
      <3>4. QED BY <3>1, <3>2, <3>3, <2>2, <1>1
    <2>3. QED BY <2>1, <2>2
  <1>3. \A u \in Callers :
          \/ step'[u] \notin Watched
          \/ step'[u] = step[u] /\ target'[u] = target[u] /\ outcome'[u] = outcome[u]
    BY DEF Release, Watched, TypeOK
  <1>4. \A u \in Callers :
          /\ step'[u] \in {"verify", "effect", "index"}
               => reservations'[KeyOf[target'[u]]] = target'[u]
          /\ step'[u] = "index" => mutations'[target'[u]] = 1
          /\ step'[u] \in {"record", "recordObservation"} /\ outcome'[u] = "applied"
               => effects'[KeyOf[target'[u]]] = target'[u]
    BY <1>3 DEF EffectInv, Watched
  <1>5. QED BY <1>2, <1>4 DEF EffectInv

LEMMA EffectInit == Init => EffectInv
  BY Constants DEF Init, EffectInv

LEMMA EffectStep ==
  ASSUME TypeOK, TypeOK', EffectInv, [Next]_vars
  PROVE  EffectInv'
<1>1. ASSUME NEW t \in Callers, NEW cs \in ChangeSets,
             StartApply(t, cs) \/ StartReconcile(t, cs)
      PROVE  EffectInv'
  BY <1>1, QuietStep DEF StartApply, StartReconcile, Claim, Watched, TypeOK
<1>2. ASSUME NEW t \in Callers, Abort(t)
      PROVE  EffectInv'
  BY <1>2, LeaveEffect DEF Abort
<1>3. ASSUME NEW t \in Callers, CallStep(t)
      PROVE  EffectInv'
  <2>s. {"replay", "prior", "govern", "base", "reserve", "ask"} \subseteq Steps \ Watched
    BY DEF Steps, ApplySteps, ReconcileSteps, Watched
  <2>0. step[t] # "idle" => /\ target[t] \in ChangeSets /\ target[t] # None
                            /\ KeyOf[target[t]] \in Keys
    BY Constants DEF TypeOK
  <2>1. CASE Authorize(t)
    BY <2>1, <2>s, LeaveEffect, GotoEffect DEF Authorize
  <2>2. CASE Replay(t)
    BY <2>2, <2>s, LeaveEffect, GotoEffect DEF Replay
  <2>3. CASE ReturnPrior(t)
    <3>1. CASE Leave(t)
      BY <3>1, LeaveEffect
    <3>2. CASE ~Leave(t)
      <4>1. /\ UNCHANGED <<version, mutations, effects, reservations, receipts>>
            /\ Release(t)
        BY <2>3, <3>2 DEF ReturnPrior
      <4>2. \A u \in Callers :
              \/ step'[u] \notin Watched
              \/ step'[u] = step[u] /\ target'[u] = target[u] /\ outcome'[u] = outcome[u]
        BY <4>1 DEF Release, Watched, TypeOK
      <4>3. QED BY <4>1, <4>2, QuietStep DEF TypeOK
    <3>3. QED BY <3>1, <3>2
  <2>4. CASE Govern(t)
    <3>1. CASE effects[KeyOf[target[t]]] = target[t] /\ Carry(t, "record", "applied")
      <4>1. UNCHANGED <<durable, source, history>> /\ target[t] # None
        BY <2>4, <2>0, <3>1 DEF Govern, Carry, Leave, Release
      <4>2. \A u \in Callers :
              u # t => step'[u] = step[u] /\ outcome'[u] = outcome[u] /\ target'[u] = target[u]
        BY <3>1 DEF Carry, TypeOK
      <4>3. step'[t] = "record" /\ target'[t] = target[t]
        BY <3>1 DEF Carry, TypeOK
      <4>4. QED BY <3>1, <4>1, <4>2, <4>3 DEF EffectInv
    <3>2. CASE ~(effects[KeyOf[target[t]]] = target[t] /\ Carry(t, "record", "applied"))
      BY <2>4, <2>s, <3>2, LeaveEffect, GotoEffect DEF Govern
    <3>3. QED BY <3>1, <3>2
  <2>5. CASE ReadBase(t)
    BY <2>5, <2>s, LeaveEffect, GotoEffect DEF ReadBase
  <2>6. CASE Reserve(t)
    <3>1. CASE Leave(t)
      BY <3>1, LeaveEffect
    <3>2. CASE ~Leave(t)
      <4>1. /\ reservations[KeyOf[target[t]]] \in {target[t], None}
            /\ reservations' = [reservations EXCEPT ![KeyOf[target[t]]] = target[t]]
            /\ Goto(t, "verify")
            /\ UNCHANGED <<receipts, version, effects, mutations>>
        BY <2>6, <3>2 DEF Reserve, BoundReservation
      <4>2. \A k \in Keys : reservations[k] # None => reservations'[k] = reservations[k]
        BY <4>1, <2>0, <2>6 DEF Reserve, TypeOK
      <4>3. reservations'[KeyOf[target[t]]] = target[t]
        BY <4>1, <2>0, <2>6 DEF Reserve, TypeOK
      <4>4. \A cs \in ChangeSets :
              reservations[KeyOf[cs]] = cs => reservations'[KeyOf[cs]] = cs
        BY <4>2, Constants
      <4>5. \A u \in Callers : step[u] # "idle" => target[u] \in ChangeSets
        BY DEF TypeOK
      <4>6. \A u \in Callers :
              step'[u] \in {"verify", "effect", "index"}
                => reservations'[KeyOf[target'[u]]] = target'[u]
        BY <4>1, <4>3, <4>4, <4>5 DEF Goto, EffectInv, TypeOK
      <4>7. \A u \in Callers :
              /\ step'[u] = "index" => step[u] = "index"
              /\ step'[u] \in {"record", "recordObservation"} => step'[u] = step[u]
              /\ target'[u] = target[u] /\ outcome'[u] = outcome[u]
        BY <4>1 DEF Goto, TypeOK
      <4>8. QED BY <4>1, <4>4, <4>6, <4>7 DEF EffectInv
    <3>3. QED BY <3>1, <3>2
  <2>7. CASE Verify(t)
    <3>1. CASE Leave(t)
      BY <3>1, LeaveEffect
    <3>2. CASE ~Leave(t)
      BY <2>7, <3>2 DEF Verify, Goto, EffectInv, TypeOK
    <3>3. QED BY <3>1, <3>2
  <2>8. CASE Apply(t)
    <3>1. PICK s \in {"index", "record"} :
            /\ Carry(t, s, "applied")
            /\ s = "index" => SplitCommit
            /\ s = "record" => ~SplitCommit
      BY <2>8 DEF Apply
    <3>2. "applied" \in Statuses
      BY DEF Statuses
    <3>3. QED BY <2>8, <3>1, <3>2, CommitEffect DEF Apply, Carry
  <2>9. CASE IndexEffect(t)
    <3>1. /\ effects' = [effects EXCEPT ![KeyOf[target[t]]] = target[t]]
          /\ step[t] = "index" /\ Goto(t, "record")
          /\ UNCHANGED <<reservations, receipts, version, mutations>>
      BY <2>9 DEF IndexEffect
    <3>2. effects[KeyOf[target[t]]] \in {None, target[t]}
      BY <3>1, <2>0, EffectOwner DEF EffectInv
    <3>3. \A k \in Keys : effects[k] # None => effects'[k] = effects[k]
      BY <3>1, <3>2, <2>0 DEF TypeOK
    <3>4. effects'[KeyOf[target[t]]] = target[t] /\ mutations[target[t]] = 1
      BY <3>1, <2>0 DEF TypeOK, EffectInv
    <3>5. \A k \in Keys :
            effects'[k] # None => KeyOf[effects'[k]] = k /\ mutations'[effects'[k]] = 1
      BY <3>1, <3>4, <2>0 DEF TypeOK, EffectInv
    <3>6. \A u \in Callers :
            /\ step'[u] \in {"verify", "effect", "index"} => step'[u] = step[u]
            /\ target'[u] = target[u] /\ outcome'[u] = outcome[u]
            /\ u # t => step'[u] = step[u]
      BY <3>1 DEF Goto, TypeOK
    <3>7. \A u \in Callers :
            step'[u] \in {"record", "recordObservation"} /\ outcome'[u] = "applied"
              => effects'[KeyOf[target'[u]]] = target'[u]
      <4> SUFFICES ASSUME NEW u \in Callers, outcome'[u] = "applied",
                          step'[u] \in {"record", "recordObservation"}
                   PROVE  effects'[KeyOf[target'[u]]] = target'[u]
        OBVIOUS
      <4>1. CASE u = t
        BY <4>1, <3>4, <3>6
      <4>2. CASE u # t
        <5>1. effects[KeyOf[target[u]]] = target[u] /\ step[u] # "idle"
          BY <4>2, <3>6 DEF EffectInv
        <5>2. target[u] # None /\ KeyOf[target[u]] \in Keys
          BY <5>1, Constants DEF TypeOK
        <5>3. QED BY <5>1, <5>2, <3>3, <3>6
      <4>3. QED BY <4>1, <4>2
    <3>8. \A cs \in ChangeSets : \A i \in 1..Len(receipts'[cs]) :
            receipts'[cs][i].status = "applied" => effects'[KeyOf[cs]] = cs
      BY <3>1, <3>3, Constants DEF EffectInv
    <3>9. QED BY <3>1, <3>5, <3>6, <3>7, <3>8 DEF EffectInv
  <2>10. CASE ApplyConflict(t)
    BY <2>10, LeaveEffect DEF ApplyConflict
  <2>11. CASE ApplyUncertain(t)
    <3>1. /\ Carry(t, "record", "outcome_uncertain") /\ step[t] = "effect" /\ ~SplitCommit
          /\ UNCHANGED <<reservations, receipts>>
      BY <2>11 DEF ApplyUncertain
    <3>2. CASE UNCHANGED <<version, effects, mutations>>
      BY <3>1, <3>2 DEF Carry, EffectInv, TypeOK
    <3>3. CASE CompareVersion(target[t]) /\ Commit(target[t])
      <4>1. "outcome_uncertain" \in Statuses
        BY DEF Statuses
      <4>2. QED BY <3>1, <3>3, <4>1, CommitEffect DEF Carry
    <3>4. QED BY <2>11, <3>2, <3>3 DEF ApplyUncertain
  <2>12. CASE RecordAttempt(t)
    BY <2>12, AppendEffect DEF RecordAttempt
  <2>13. CASE Recall(t)
    BY <2>13, <2>s, LeaveEffect, GotoEffect DEF Recall
  <2>14. CASE Ask(t)
    <3>1. CASE Leave(t)
      BY <3>1, LeaveEffect
    <3>2. CASE ~Leave(t)
      <4>1. PICK status \in Observations(target[t]) :
              Carry(t, "recordObservation", status)
        BY <2>14, <3>2 DEF Ask
      <4>2. status = "applied" => effects[KeyOf[target[t]]] = target[t]
        BY DEF Observations
      <4>3. UNCHANGED <<reservations, receipts, version, effects, mutations>>
        BY <2>14, <3>2 DEF Ask
      <4>4. QED BY <4>1, <4>2, <4>3 DEF Carry, EffectInv, TypeOK
    <3>3. QED BY <3>1, <3>2
  <2>15. CASE RecordObservation(t)
    BY <2>15, AppendEffect DEF RecordObservation
  <2>16. QED
    BY <1>3, <2>1, <2>2, <2>3, <2>4, <2>5, <2>6, <2>7, <2>8, <2>9, <2>10, <2>11,
       <2>12, <2>13, <2>14, <2>15 DEF CallStep, TransportApply
<1>4. CASE Environment
  <2>1. ASSUME NEW c \in Connectors, Crash(c) PROVE EffectInv'
    BY <2>1, QuietStep DEF Crash, Watched, TypeOK
  <2>2. ASSUME NEW cs \in ChangeSets, Register(cs) \/ Expire(cs) \/ Revoke(cs)
        PROVE  EffectInv'
    BY <2>2, QuietStep DEF Register, Expire, Revoke, TypeOK
  <2>3. CASE OtherWrite
    BY <2>3, QuietStep DEF OtherWrite, TypeOK
  <2>4. QED BY <1>4, <2>1, <2>2, <2>3 DEF Environment
<1>5. CASE UNCHANGED vars
  BY <1>5, QuietStep DEF vars, TypeOK
<1>6. QED BY <1>1, <1>2, <1>3, <1>4, <1>5 DEF Next

\* Every place that says "applied" is about a change the source took from its base,
\* under the key's one reservation.
THEOREM EffectInvariant == Spec => []EffectInv
  BY TypeCorrect, EffectInit, EffectStep, PTL DEF Spec

\* The source is changed at most once per idempotency key, for every number of
\* overlapping connector instances, crashes and lost acknowledgements, and with
\* either transport.
THEOREM EffectOncePerKey == Spec => []OneEffectPerKey
<1>1. EffectInv => OneEffectPerKey
  <2> SUFFICES ASSUME EffectInv, NEW a \in ChangeSets, NEW b \in ChangeSets,
                      mutations[a] > 0, mutations[b] > 0, KeyOf[a] = KeyOf[b]
               PROVE  a = b /\ mutations[a] = 1
    BY DEF OneEffectPerKey
  <2>1. mutations[a] = 1 /\ mutations[b] = 1
    BY DEF EffectInv
  <2>2. QED BY <2>1 DEF EffectInv
<1>2. QED BY EffectInvariant, <1>1, PTL

\* Every durable APPLIED receipt is about a change the source took and knows.
THEOREM AppliedReceiptTruth == Spec => []AppliedReceiptIsTrue
<1>1. TypeOK /\ EffectInv => AppliedReceiptIsTrue
  BY Constants DEF TypeOK, EffectInv, AppliedReceiptIsTrue
<1>2. QED BY TypeCorrect, EffectInvariant, <1>1, PTL

--------------------------------------------------------------------------------
(* The connectors implement EffectOnce *)

LEMMA InvisibleStep ==
  ASSUME UNCHANGED <<version, mutations, receipts>>
  PROVE  UNCHANGED Promise!vars
  BY DEF Promise!vars, Taken, Acknowledged

LEMMA TakeStep ==
  ASSUME TypeOK, EffectInv, NEW t \in Callers, step[t] = "effect",
         CompareVersion(target[t]), Commit(target[t]), UNCHANGED receipts
  PROVE  Promise!Take(target[t]) /\ target[t] \in ChangeSets
  <1> DEFINE cs == target[t]
  <1>1. /\ cs \in ChangeSets /\ KeyOf[cs] \in Keys
        /\ version = BaseOf[cs] /\ reservations[KeyOf[cs]] = cs
    BY Constants DEF TypeOK, EffectInv, CompareVersion
  <1>2. mutations[cs] = 0
    BY <1>1, Constants DEF EffectInv, TypeOK
  <1>3. version' = version + 1 /\ mutations' = [mutations EXCEPT ![cs] = 1]
    BY <1>1, <1>2 DEF Commit, TypeOK
  <1>4. \A d \in ChangeSets : KeyOf[d] = KeyOf[cs] => mutations[d] = 0
    BY <1>1, <1>2 DEF EffectInv
  <1>5. Taken[KeyOf[cs]] = {}
    BY <1>1, <1>4 DEF Taken
  <1>6. Taken' = [Taken EXCEPT ![KeyOf[cs]] = {cs}]
    <2>1. \A d \in ChangeSets : mutations'[d] = IF d = cs THEN 1 ELSE mutations[d]
      BY <1>1, <1>3 DEF TypeOK
    <2>2. \A k \in Keys : Taken'[k] = IF k = KeyOf[cs] THEN {cs} ELSE Taken[k]
      <3> SUFFICES ASSUME NEW k \in Keys
                   PROVE  Taken'[k] = IF k = KeyOf[cs] THEN {cs} ELSE Taken[k]
        OBVIOUS
      <3>1. Taken'[k] = {d \in ChangeSets : KeyOf[d] = k /\ mutations'[d] > 0}
        BY DEF Taken
      <3>2. Taken[k] = {d \in ChangeSets : KeyOf[d] = k /\ mutations[d] > 0}
        BY DEF Taken
      <3>3. CASE k = KeyOf[cs]
        BY <3>1, <3>3, <2>1, <1>1, <1>4
      <3>4. CASE k # KeyOf[cs]
        BY <3>1, <3>2, <3>4, <2>1
      <3>5. QED BY <3>3, <3>4
    <2>3. QED BY <2>2, <1>1, ZenonT(60) DEF Taken
  <1>7. UNCHANGED Acknowledged
    BY DEF Acknowledged
  <1>8. QED BY <1>1, <1>3, <1>5, <1>6, <1>7 DEF Promise!Take

\* A ledger append acknowledges the change set when it says applied, and takes
\* back nothing that was acknowledged.
LEMMA AppendAcknowledges ==
  ASSUME TypeOK, NEW t \in Callers, NEW kind,
         step[t] \in {"record", "recordObservation"},
         AppendReceipt(target[t], kind, outcome[t])
  PROVE  Acknowledged' =
           Acknowledged \cup (IF outcome[t] = "applied" THEN {target[t]} ELSE {})
  <1> DEFINE cs == target[t]
             r == [kind |-> kind, status |-> outcome[t]]
  <1>1. cs \in ChangeSets /\ receipts[cs] \in Seq(Receipts)
    BY DEF TypeOK
  <1>2. /\ receipts'[cs] = Append(receipts[cs], r)
        /\ \A d \in ChangeSets \ {cs} : receipts'[d] = receipts[d]
    BY <1>1 DEF AppendReceipt, TypeOK
  <1>3. cs \in Acknowledged' <=> cs \in Acknowledged \/ outcome[t] = "applied"
    <2>1. Len(receipts'[cs]) = Len(receipts[cs]) + 1 /\ Len(receipts[cs]) \in Nat
      BY <1>1, <1>2
    <2>2. /\ \A i \in 1..Len(receipts[cs]) : receipts'[cs][i] = receipts[cs][i]
          /\ receipts'[cs][Len(receipts[cs]) + 1] = r
      BY <1>1, <1>2
    <2> DEFINE n == Len(receipts[cs])
               says(i) == receipts'[cs][i].status = "applied"
    <2>3. cs \in Acknowledged' <=> \E i \in 1..(n + 1) : says(i)
      BY <2>1, <1>1 DEF Acknowledged
    <2>4. cs \in Acknowledged <=> \E i \in 1..n : says(i)
      BY <2>2, <1>1 DEF Acknowledged
    <2>5. says(n + 1) <=> outcome[t] = "applied"
      BY <2>2
    <2>6. \A i : i \in 1..(n + 1) <=> i \in 1..n \/ i = n + 1
      BY <2>1
    <2> HIDE DEF n, says
    <2>7. QED BY <2>3, <2>4, <2>5, <2>6
  <1>4. \A d \in ChangeSets \ {cs} : d \in Acknowledged' <=> d \in Acknowledged
    BY <1>2 DEF Acknowledged
  <1>5. Acknowledged \subseteq ChangeSets /\ Acknowledged' \subseteq ChangeSets
    BY DEF Acknowledged
  <1>6. QED BY <1>1, <1>3, <1>4, <1>5

LEMMA AcknowledgeStep ==
  ASSUME TypeOK, EffectInv, NEW t \in Callers, NEW kind,
         step[t] \in {"record", "recordObservation"},
         AppendReceipt(target[t], kind, outcome[t]),
         UNCHANGED <<version, mutations>>
  PROVE  [Promise!Next]_(Promise!vars)
  <1> DEFINE cs == target[t]
  <1>1. cs \in ChangeSets /\ KeyOf[cs] \in Keys /\ cs # None
    BY Constants DEF TypeOK
  <1>4. Acknowledged' = Acknowledged
          \/ (outcome[t] = "applied" /\ Acknowledged' = Acknowledged \cup {cs})
    BY AppendAcknowledges
  <1>5. UNCHANGED <<version, Taken>>
    BY DEF Taken
  <1>6. CASE Acknowledged' = Acknowledged
    BY <1>5, <1>6 DEF Promise!vars
  <1>7. CASE outcome[t] = "applied" /\ Acknowledged' = Acknowledged \cup {cs}
    <2>1. mutations[cs] = 1
      BY <1>1, <1>7 DEF EffectInv
    <2>2. cs \in Taken[KeyOf[cs]]
      BY <2>1, <1>1 DEF Taken
    <2>3. Promise!Acknowledge(cs)
      BY <2>2, <1>5, <1>7 DEF Promise!Acknowledge
    <2>4. QED BY <2>3, <1>1 DEF Promise!Next
  <1>8. QED BY <1>4, <1>6, <1>7

\* Connectors, ledger and transport together implement the abstract promise:
\* first change set of a key, once, from its base, and acknowledged only then.
THEOREM ImplementsEffectOnce == Spec => KeepsPromise
<1>1. Init => Promise!Init
  BY Constants DEF Init, Promise!Init, Taken, Acknowledged
<1>2. ASSUME TypeOK, EffectInv, [Next]_vars
      PROVE  [Promise!Next]_(Promise!vars)
  <2>1. ASSUME NEW t \in Callers, Leave(t) PROVE UNCHANGED Promise!vars
    BY <2>1, InvisibleStep DEF Leave
  <2>2. ASSUME NEW t \in Callers, NEW cs \in ChangeSets,
               StartApply(t, cs) \/ StartReconcile(t, cs)
        PROVE  UNCHANGED Promise!vars
    BY <2>2, InvisibleStep DEF StartApply, StartReconcile, Claim
  <2>3. ASSUME NEW t \in Callers, CallStep(t)
        PROVE  [Promise!Next]_(Promise!vars)
    <3>1. CASE Apply(t)
      BY <1>2, <3>1, TakeStep DEF Apply, Promise!Next
    <3>2. CASE ApplyUncertain(t)
      <4>1. CASE UNCHANGED <<version, effects, mutations>>
        BY <3>2, <4>1, InvisibleStep DEF ApplyUncertain
      <4>2. CASE CompareVersion(target[t]) /\ Commit(target[t])
        BY <1>2, <3>2, <4>2, TakeStep DEF ApplyUncertain, Promise!Next
      <4>3. QED BY <3>2, <4>1, <4>2 DEF ApplyUncertain
    <3>3. CASE RecordAttempt(t)
      BY <1>2, <3>3, AcknowledgeStep DEF RecordAttempt
    <3>4. CASE RecordObservation(t)
      BY <1>2, <3>4, AcknowledgeStep DEF RecordObservation
    <3>5. CASE Authorize(t) \/ Replay(t) \/ ReturnPrior(t) \/ Govern(t)
      BY <3>5, <2>1, InvisibleStep DEF Authorize, Replay, ReturnPrior, Govern
    <3>6. CASE ReadBase(t) \/ Reserve(t) \/ Verify(t) \/ IndexEffect(t)
      BY <3>6, <2>1, InvisibleStep DEF ReadBase, Reserve, Verify, IndexEffect
    <3>7. CASE ApplyConflict(t) \/ Recall(t) \/ Ask(t)
      BY <3>7, <2>1, InvisibleStep DEF ApplyConflict, Recall, Ask
    <3>8. QED BY <2>3, <3>1, <3>2, <3>3, <3>4, <3>5, <3>6, <3>7 DEF CallStep, TransportApply
  <2>4. CASE Environment
    <3>1. CASE OtherWrite
      <4>1. UNCHANGED <<Taken, Acknowledged>>
        BY <3>1 DEF OtherWrite, Taken, Acknowledged
      <4>2. QED BY <3>1, <4>1 DEF OtherWrite, Promise!OtherWrite, Promise!Next
    <3>2. CASE ~OtherWrite
      BY <2>4, <3>2, InvisibleStep DEF Environment, Register, Expire, Revoke, Crash
    <3>3. QED BY <3>1, <3>2
  <2>5. CASE UNCHANGED vars
    BY <2>5, InvisibleStep DEF vars
  <2>6. QED BY <1>2, <2>1, <2>2, <2>3, <2>4, <2>5 DEF Next, Abort
<1>3. QED
  BY <1>1, <1>2, TypeCorrect, EffectInvariant, PTL DEF Spec, KeepsPromise, Promise!Spec

--------------------------------------------------------------------------------
(* What a caller is told *)

\* What callers were told, and what a task that replayed an APPLIED receipt is
\* about to return, is acknowledged by the ledger.
ReportInv ==
    /\ reported \subseteq Acknowledged
    /\ \A t \in Callers : step[t] = "prior" => target[t] \in Acknowledged

\* A step that takes nothing back, tells nobody anything and brings no task to the
\* return of a prior effect.
LEMMA SilentStep ==
  ASSUME ReportInv, Acknowledged \subseteq Acknowledged', UNCHANGED reported,
         \A u \in Callers :
            step'[u] = "prior" => step[u] = "prior" /\ target'[u] = target[u]
  PROVE  ReportInv'
  BY DEF ReportInv

LEMMA LeaveReport ==
  ASSUME TypeOK, ReportInv, NEW t \in Callers, Leave(t)
  PROVE  ReportInv'
  <1>1. UNCHANGED <<Acknowledged, reported>>
    BY DEF Leave, Acknowledged
  <1>2. QED BY <1>1, SilentStep DEF Leave, Release, TypeOK

\* The last receipt of a stream that recovers as APPLIED acknowledges it.
LEMMA AppliedIsAcknowledged ==
  ASSUME TypeOK, NEW cs \in ChangeSets, RecoveryState(receipts[cs]) = "APPLIED"
  PROVE  cs \in Acknowledged
  <1>1. receipts[cs] \in Seq(Receipts) /\ receipts[cs] # <<>>
    BY DEF TypeOK, RecoveryState
  <1>2. Len(receipts[cs]) \in 1..Len(receipts[cs])
    BY <1>1
  <1>3. receipts[cs][Len(receipts[cs])] \in Receipts
    BY <1>1, <1>2
  <1>4. receipts[cs][Len(receipts[cs])].status \in Statuses
    BY <1>3 DEF Receipts, Statuses
  <1>5. receipts[cs][Len(receipts[cs])].status = "applied"
    BY <1>1, <1>4 DEF RecoveryState, RecordState, Statuses
  <1>6. QED BY <1>2, <1>5 DEF Acknowledged

LEMMA ReportStep ==
  ASSUME TypeOK, ReportInv, [Next]_vars
  PROVE  ReportInv'
<1>1. ASSUME NEW t \in Callers, NEW cs \in ChangeSets,
             StartApply(t, cs) \/ StartReconcile(t, cs)
      PROVE  ReportInv'
  <2>1. UNCHANGED <<Acknowledged, reported>>
    BY <1>1 DEF StartApply, StartReconcile, Claim, Acknowledged
  <2>2. QED BY <1>1, <2>1, SilentStep DEF StartApply, StartReconcile, Claim, TypeOK
<1>2. ASSUME NEW t \in Callers, Abort(t) PROVE ReportInv'
  BY <1>2, LeaveReport DEF Abort
<1>3. ASSUME NEW t \in Callers, CallStep(t) PROVE ReportInv'
  <2>0. step[t] # "idle" => target[t] \in ChangeSets
    BY DEF TypeOK
  <2>l. CASE Leave(t)
    BY <2>l, LeaveReport
  <2>1. ASSUME NEW s \in Steps \ {"prior"}, Goto(t, s), UNCHANGED <<receipts, reported>>
        PROVE  ReportInv'
    <3>1. UNCHANGED Acknowledged
      BY <2>1 DEF Acknowledged
    <3>2. QED BY <2>1, <3>1, SilentStep DEF Goto, TypeOK
  <2>2. ASSUME NEW s \in Steps \ {"prior"}, NEW o, Carry(t, s, o),
               UNCHANGED <<receipts, reported>>
        PROVE  ReportInv'
    <3>1. UNCHANGED Acknowledged
      BY <2>2 DEF Acknowledged
    <3>2. QED BY <2>2, <3>1, SilentStep DEF Carry, TypeOK
  <2>s. {"replay", "govern", "base", "reserve", "verify", "effect", "index", "record",
         "ask", "recordObservation"} \subseteq Steps \ {"prior"}
    BY DEF Steps, ApplySteps, ReconcileSteps
  <2>3. CASE Authorize(t) \/ ReadBase(t) \/ Reserve(t) \/ Verify(t)
    BY <2>3, <2>l, <2>1, <2>s DEF Authorize, ReadBase, Reserve, Verify
  <2>4. CASE IndexEffect(t) \/ ApplyConflict(t) \/ Recall(t)
    BY <2>4, <2>l, <2>1, <2>s DEF IndexEffect, ApplyConflict, Recall
  <2>5. CASE Apply(t) \/ ApplyUncertain(t)
    BY <2>5, <2>2, <2>s DEF Apply, ApplyUncertain
  <2>6. CASE Ask(t)
    BY <2>6, <2>l, <2>2, <2>s DEF Ask
  <2>7. CASE Govern(t)
    BY <2>7, <2>l, <2>1, <2>2, <2>s DEF Govern
  <2>8. CASE Replay(t)
    <3>1. CASE RecoveryState(receipts[target[t]]) = "APPLIED" /\ ~Leave(t)
      <4>1. target[t] \in Acknowledged
        BY <2>8, <2>0, <3>1, AppliedIsAcknowledged DEF Replay
      <4>2. UNCHANGED <<Acknowledged, reported>> /\ Goto(t, "prior")
        BY <2>8, <3>1 DEF Replay, Acknowledged
      <4>3. QED BY <4>1, <4>2 DEF Goto, ReportInv, TypeOK
    <3>2. CASE RecoveryState(receipts[target[t]]) # "APPLIED" \/ Leave(t)
      BY <2>8, <3>2, <2>l, <2>1, <2>s DEF Replay
    <3>3. QED BY <3>1, <3>2
  <2>9. CASE ReturnPrior(t)
    <3>1. CASE Leave(t)
      BY <3>1, <2>l
    <3>2. CASE ~Leave(t)
      <4>1. UNCHANGED Acknowledged
        BY <2>9, <3>2 DEF ReturnPrior, Acknowledged
      <4>2. target[t] \in Acknowledged /\ reported' = reported \cup {target[t]}
        BY <2>9, <3>2 DEF ReturnPrior, ReportInv
      <4>3. \A u \in Callers :
              step'[u] = "prior" => step[u] = "prior" /\ target'[u] = target[u]
        BY <2>9, <3>2 DEF ReturnPrior, Release, TypeOK
      <4>4. QED BY <4>1, <4>2, <4>3 DEF ReportInv
    <3>3. QED BY <3>1, <3>2
  <2>10. CASE RecordAttempt(t)
    <3>1. Acknowledged' =
            Acknowledged \cup (IF outcome[t] = "applied" THEN {target[t]} ELSE {})
      BY <2>10, AppendAcknowledges DEF RecordAttempt
    <3>2. \/ UNCHANGED reported
          \/ outcome[t] = "applied" /\ reported' = reported \cup {target[t]}
      BY <2>10 DEF RecordAttempt
    <3>3. \A u \in Callers :
            step'[u] = "prior" => step[u] = "prior" /\ target'[u] = target[u]
      BY <2>10 DEF RecordAttempt, Release, TypeOK
    <3>4. QED BY <3>1, <3>2, <3>3 DEF ReportInv
  <2>11. CASE RecordObservation(t)
    <3>1. Acknowledged \subseteq Acknowledged'
      BY <2>11, AppendAcknowledges DEF RecordObservation
    <3>2. QED BY <2>11, <3>1, SilentStep DEF RecordObservation, Release, TypeOK
  <2>12. QED
    BY <1>3, <2>3, <2>4, <2>5, <2>6, <2>7, <2>8, <2>9, <2>10, <2>11
    DEF CallStep, TransportApply
<1>4. CASE Environment
  <2>1. UNCHANGED <<Acknowledged, reported>>
    BY <1>4 DEF Environment, Register, Expire, Revoke, Crash, OtherWrite, Acknowledged
  <2>2. \A u \in Callers :
          step'[u] = "prior" => step[u] = "prior" /\ target'[u] = target[u]
    BY <1>4 DEF Environment, Register, Expire, Revoke, Crash, OtherWrite
  <2>3. QED BY <2>1, <2>2, SilentStep
<1>5. CASE UNCHANGED vars
  <2>1. UNCHANGED <<Acknowledged, reported, step, target>>
    BY <1>5 DEF vars, Acknowledged
  <2>2. QED BY <2>1, SilentStep
<1>6. QED BY <1>1, <1>2, <1>3, <1>4, <1>5 DEF Next

\* Whatever crashes, overlaps and lost answers intervene, a caller hears "applied"
\* only when the ledger already holds an APPLIED receipt of that change set:
\* _apply appends before it returns, and returns a prior effect only on replay of
\* such a receipt.
THEOREM ReportsAreDurable == Spec => []ReportedIsDurable
<1>1. Init => ReportInv
  BY DEF Init, ReportInv
<1>2. ReportInv => ReportedIsDurable
  BY DEF ReportInv, ReportedIsDurable, Acknowledged
<1>3. QED BY <1>1, <1>2, ReportStep, TypeCorrect, PTL DEF Spec

--------------------------------------------------------------------------------
(* Lapsed authority *)

\* A call that passed its first authorization is about a registered change set; a
\* task whose authority had lapsed at its reservation goes no further than the
\* second verification, where the change set is still expired or revoked.
TaskLapse(u) ==
    /\ step[u] \in ApplySteps \ {"authorize"} => target[u] \in registered
    /\ u \in lapsed /\ step[u] # "idle"
         => step[u] = "verify" /\ target[u] \in expired \cup revoked

LapsedInv == \A t \in Callers : TaskLapse(t)

\* Records and lapses of authority only accumulate: the tasks that a step does not
\* move keep what the invariant says of them.
LEMMA OthersKeep ==
  ASSUME LapsedInv, registered \subseteq registered', expired \subseteq expired',
         revoked \subseteq revoked',
         \A u \in Callers :
            \/ /\ step'[u] = step[u] /\ target'[u] = target[u]
               /\ u \in lapsed' => u \in lapsed
            \/ TaskLapse(u)'
  PROVE  LapsedInv'
  BY DEF LapsedInv, TaskLapse

LEMMA LeaveLapsed ==
  ASSUME TypeOK, LapsedInv, NEW t \in Callers, Release(t),
         UNCHANGED <<registered, authority, lapsed>>
  PROVE  LapsedInv'
  <1>1. \A u \in Callers \ {t} : step'[u] = step[u] /\ target'[u] = target[u]
    BY DEF Release, TypeOK
  <1>2. step'[t] = "idle"
    BY DEF Release, TypeOK
  <1>3. TaskLapse(t)'
    BY <1>2 DEF TaskLapse, ApplySteps
  <1>4. QED BY <1>1, <1>3, OthersKeep

\* A task that is not lapsed goes on.
LEMMA AdvanceLapsed ==
  ASSUME TypeOK, LapsedInv, NEW t \in Callers, NEW s,
         step' = [step EXCEPT ![t] = s], UNCHANGED target,
         t \notin lapsed, UNCHANGED <<registered, authority, lapsed>>,
         s \in ApplySteps \ {"authorize"} => target[t] \in registered
  PROVE  LapsedInv'
  <1>1. \A u \in Callers \ {t} : step'[u] = step[u] /\ target'[u] = target[u]
    BY DEF TypeOK
  <1>2. step'[t] = s /\ target'[t] = target[t]
    BY DEF TypeOK
  <1>3. TaskLapse(t)'
    BY <1>2 DEF TaskLapse
  <1>4. QED BY <1>1, <1>3, OthersKeep

LEMMA LapsedStep ==
  ASSUME TypeOK, LapsedInv, [Next]_vars
  PROVE  LapsedInv'
<1>1. ASSUME NEW t \in Callers, NEW cs \in ChangeSets,
             StartApply(t, cs) \/ StartReconcile(t, cs)
      PROVE  LapsedInv'
  <2>1. /\ \A u \in Callers \ {t} : step'[u] = step[u] /\ target'[u] = target[u]
        /\ step'[t] \in {"authorize", "recall"} /\ lapsed' = lapsed \ {t}
        /\ UNCHANGED <<registered, authority>>
    BY <1>1 DEF StartApply, StartReconcile, Claim, TypeOK
  <2>2. TaskLapse(t)'
    BY <2>1 DEF TaskLapse, ApplySteps
  <2>3. QED BY <2>1, <2>2, OthersKeep
<1>2. ASSUME NEW t \in Callers, Abort(t) PROVE LapsedInv'
  BY <1>2, LeaveLapsed DEF Abort, Leave
<1>3. ASSUME NEW t \in Callers, CallStep(t) PROVE LapsedInv'
  <2>l. CASE Leave(t)
    BY <2>l, LeaveLapsed DEF Leave
  <2>0. step[t] \notin {"idle", "verify"} => t \notin lapsed
    BY DEF LapsedInv, TaskLapse
  <2>r. step[t] \in ApplySteps \ {"authorize"} => target[t] \in registered
    BY DEF LapsedInv, TaskLapse
  <2>1. CASE Authorize(t)
    <3>1. CASE ~Leave(t)
      BY <2>1, <3>1, <2>0, AdvanceLapsed DEF Authorize, Authorized, Goto
    <3>2. QED BY <3>1, <2>l
  <2>2. CASE Replay(t) \/ Govern(t) \/ ReadBase(t)
    <3>1. target[t] \in registered /\ t \notin lapsed
      BY <2>2, <2>0, <2>r DEF Replay, Govern, ReadBase, ApplySteps
    <3>2. CASE ~Leave(t)
      <4>1. /\ UNCHANGED <<registered, authority, lapsed, target>>
            /\ \E s : step' = [step EXCEPT ![t] = s]
        BY <2>2, <3>2 DEF Replay, Govern, ReadBase, Goto, Carry
      <4>2. QED BY <3>1, <4>1, AdvanceLapsed
    <3>3. QED BY <3>2, <2>l
  <2>3. CASE Reserve(t)
    <3>1. CASE ~Leave(t)
      <4>1. /\ step' = [step EXCEPT ![t] = "verify"]
            /\ UNCHANGED <<target, registered, authority>>
            /\ lapsed' = IF Authorized(target[t]) THEN lapsed ELSE lapsed \cup {t}
        BY <2>3, <3>1 DEF Reserve, Goto
      <4>2. target[t] \in registered /\ t \notin lapsed /\ target[t] \in ChangeSets
        BY <2>3, <2>0, <2>r DEF Reserve, ApplySteps, TypeOK
      <4>3. /\ \A u \in Callers \ {t} : step'[u] = step[u] /\ target'[u] = target[u]
            /\ step'[t] = "verify" /\ target'[t] = target[t]
        BY <4>1 DEF TypeOK
      <4>4. t \in lapsed' => target[t] \in expired \cup revoked
        BY <4>1, <4>2 DEF Authorized, Valid
      <4>5. TaskLapse(t)'
        BY <4>1, <4>2, <4>3, <4>4 DEF TaskLapse
      <4>6. QED BY <4>1, <4>3, <4>5, OthersKeep
    <3>2. QED BY <3>1, <2>l
  <2>4. CASE Verify(t)
    <3>1. CASE ~Leave(t)
      <4>1. /\ step' = [step EXCEPT ![t] = "effect"] /\ Authorized(target[t])
            /\ UNCHANGED <<target, registered, authority, lapsed>> /\ step[t] = "verify"
        BY <2>4, <3>1 DEF Verify, Goto
      <4>2. t \notin lapsed
        BY <4>1 DEF LapsedInv, TaskLapse, Authorized, Valid
      <4>3. QED BY <4>1, <4>2, AdvanceLapsed DEF Authorized
    <3>2. QED BY <3>1, <2>l
  <2>5. CASE Apply(t) \/ ApplyUncertain(t) \/ IndexEffect(t)
    <3>1. target[t] \in registered /\ t \notin lapsed
      BY <2>5, <2>0, <2>r DEF Apply, ApplyUncertain, IndexEffect, ApplySteps
    <3>2. /\ UNCHANGED <<registered, authority, lapsed, target>>
          /\ \E s : step' = [step EXCEPT ![t] = s]
      BY <2>5 DEF Apply, ApplyUncertain, IndexEffect, Goto, Carry
    <3>3. QED BY <3>1, <3>2, AdvanceLapsed
  <2>6. CASE ReturnPrior(t) \/ ApplyConflict(t)
    BY <2>6, <2>l, LeaveLapsed DEF ReturnPrior, ApplyConflict
  <2>7. CASE RecordAttempt(t) \/ RecordObservation(t)
    BY <2>7, LeaveLapsed DEF RecordAttempt, RecordObservation
  <2>8. CASE Recall(t) \/ Ask(t)
    <3>1. CASE ~Leave(t)
      <4>1. /\ UNCHANGED <<registered, authority, lapsed, target>>
            /\ \E s \in ReconcileSteps : step' = [step EXCEPT ![t] = s]
            /\ t \notin lapsed
        BY <2>8, <3>1, <2>0 DEF Recall, Ask, Goto, Carry, ReconcileSteps
      <4>2. QED BY <4>1, AdvanceLapsed DEF ApplySteps, ReconcileSteps
    <3>2. QED BY <3>1, <2>l
  <2>9. QED
    BY <1>3, <2>1, <2>2, <2>3, <2>4, <2>5, <2>6, <2>7, <2>8 DEF CallStep, TransportApply
<1>4. CASE Environment
  <2>1. ASSUME NEW c \in Connectors, Crash(c) PROVE LapsedInv'
    <3>1. /\ UNCHANGED <<registered, authority, lapsed>>
          /\ \A u \in Callers :
               step'[u] = "idle" \/ (step'[u] = step[u] /\ target'[u] = target[u])
      BY <2>1 DEF Crash
    <3>2. \A u \in Callers : step'[u] = "idle" => TaskLapse(u)'
      BY DEF TaskLapse, ApplySteps
    <3>3. QED BY <3>1, <3>2, OthersKeep
  <2>2. ASSUME NEW cs \in ChangeSets, Register(cs) \/ Expire(cs) \/ Revoke(cs)
        PROVE  LapsedInv'
    BY <2>2, OthersKeep DEF Register, Expire, Revoke
  <2>3. CASE OtherWrite
    BY <2>3, OthersKeep DEF OtherWrite
  <2>4. QED BY <1>4, <2>1, <2>2, <2>3 DEF Environment
<1>5. CASE UNCHANGED vars
  BY <1>5, OthersKeep DEF vars
<1>6. QED BY <1>1, <1>2, <1>3, <1>4, <1>5 DEF Next

\* A call whose authority had expired or been revoked when the audit reservation
\* returned never changes the source: the verification after the reservation stops it.
THEOREM LapsedCallsStop == Spec => LapsedAuthorityHasNoEffect
<1>1. Init => LapsedInv
  BY DEF Init, LapsedInv, TaskLapse, ApplySteps
<1>2. LapsedInv => \A t \in Callers :
        t \in lapsed /\ step[t] = "effect" => UNCHANGED mutations
  BY DEF LapsedInv, TaskLapse
<1>3. QED
  BY <1>1, <1>2, LapsedStep, TypeCorrect, PTL DEF Spec, LapsedAuthorityHasNoEffect

--------------------------------------------------------------------------------
(* The overlap guard *)

\* A running call holds its key in the connector's _InFlight, and no two running
\* calls of one connector instance are about the same key.
Claimed(t) == step[t] # "idle" => KeyOf[target[t]] \in inflight[HomeOf[t]]
GuardInv ==
    \A t \in Callers :
        /\ Claimed(t)
        /\ \A u \in Callers \ {t} :
             step[t] # "idle" /\ step[u] # "idle" /\ HomeOf[t] = HomeOf[u]
               => KeyOf[target[t]] # KeyOf[target[u]]

\* A step that starts no call and lets no claim go.
LEMMA KeptClaims ==
  ASSUME GuardInv, UNCHANGED inflight,
         \A u \in Callers :
            step'[u] # "idle" => step[u] # "idle" /\ target'[u] = target[u]
  PROVE  GuardInv'
  BY DEF GuardInv, Claimed

LEMMA ReleaseGuard ==
  ASSUME TypeOK, GuardInv, NEW t \in Callers, Release(t), step[t] # "idle"
  PROVE  GuardInv'
<1>1. step'[t] = "idle"
  BY DEF Release, TypeOK
<1>2. \A u \in Callers \ {t} : step'[u] = step[u] /\ target'[u] = target[u]
  BY DEF Release, TypeOK
<1>3. ASSUME NEW u \in Callers \ {t}, step[u] # "idle"
      PROVE  KeyOf[target[u]] \in inflight'[HomeOf[u]]
  <2>1. KeyOf[target[u]] \in inflight[HomeOf[u]] /\ HomeOf[u] \in Connectors
    BY <1>3, Constants DEF GuardInv, Claimed
  <2>2. HomeOf[u] = HomeOf[t] => KeyOf[target[u]] # KeyOf[target[t]]
    BY <1>3 DEF GuardInv
  <2>3. inflight'[HomeOf[u]] = IF HomeOf[u] = HomeOf[t]
                               THEN inflight[HomeOf[u]] \ {KeyOf[target[t]]}
                               ELSE inflight[HomeOf[u]]
    BY <2>1 DEF Release, TypeOK
  <2>4. QED BY <2>1, <2>2, <2>3
<1>4. QED BY <1>1, <1>2, <1>3 DEF GuardInv, Claimed

LEMMA GuardStep ==
  ASSUME TypeOK, GuardInv, [Next]_vars
  PROVE  GuardInv'
<1>1. ASSUME NEW t \in Callers, NEW cs \in ChangeSets,
             StartApply(t, cs) \/ StartReconcile(t, cs)
      PROVE  GuardInv'
  <2>1. /\ KeyOf[cs] \notin inflight[HomeOf[t]] /\ HomeOf[t] \in Connectors
        /\ inflight' = [inflight EXCEPT ![HomeOf[t]] = inflight[HomeOf[t]] \cup {KeyOf[cs]}]
        /\ \A u \in Callers \ {t} : step'[u] = step[u] /\ target'[u] = target[u]
        /\ target'[t] = cs
    BY <1>1, Constants DEF StartApply, StartReconcile, Claim, TypeOK
  <2>2. KeyOf[cs] \in inflight'[HomeOf[t]]
    BY <2>1 DEF TypeOK
  <2>3. \A c \in Connectors : inflight[c] \subseteq inflight'[c]
    BY <2>1 DEF TypeOK
  <2>4. \A u \in Callers : Claimed(u)'
    BY <2>1, <2>2, <2>3, Constants DEF GuardInv, Claimed
  <2>5. \A u \in Callers \ {t} :
          step[u] # "idle" /\ HomeOf[u] = HomeOf[t] => KeyOf[target[u]] # KeyOf[cs]
    BY <2>1 DEF GuardInv, Claimed
  <2>6. QED BY <2>1, <2>4, <2>5 DEF GuardInv
<1>2. ASSUME NEW t \in Callers, Abort(t) PROVE GuardInv'
  BY <1>2, ReleaseGuard DEF Abort, Leave
<1>3. ASSUME NEW t \in Callers, CallStep(t) PROVE GuardInv'
  <2>0. step[t] # "idle"
    BY <1>3 DEF CallStep, TransportApply, Authorize, Replay, ReturnPrior, Govern, ReadBase,
       Reserve, Verify, Apply, IndexEffect, ApplyConflict, ApplyUncertain, RecordAttempt,
       Recall, Ask, RecordObservation
  <2>1. CASE Release(t)
    BY <2>0, <2>1, ReleaseGuard
  <2>2. CASE ~Release(t)
    <3>1. /\ UNCHANGED <<inflight, target>>
          /\ \E s : step' = [step EXCEPT ![t] = s]
      BY <1>3, <2>2 DEF CallStep, TransportApply, Authorize, Replay, ReturnPrior, Govern,
         ReadBase, Reserve, Verify, Apply, IndexEffect, ApplyConflict, ApplyUncertain,
         RecordAttempt, Recall, Ask, RecordObservation, Goto, Carry, Leave
    <3>2. QED BY <2>0, <3>1, KeptClaims DEF TypeOK
  <2>3. QED BY <2>1, <2>2
<1>4. CASE Environment
  <2>1. ASSUME NEW c \in Connectors, Crash(c) PROVE GuardInv'
    <3>1. \A u \in Callers :
            step'[u] # "idle" => /\ step[u] # "idle" /\ HomeOf[u] # c
                                 /\ target'[u] = target[u]
      BY <2>1 DEF Crash
    <3>2. \A d \in Connectors \ {c} : inflight'[d] = inflight[d]
      BY <2>1 DEF Crash, TypeOK
    <3>3. QED BY <3>1, <3>2, Constants DEF GuardInv, Claimed
  <2>2. CASE ~\E c \in Connectors : Crash(c)
    BY <1>4, <2>2, KeptClaims DEF Environment, Register, Expire, Revoke, OtherWrite
  <2>3. QED BY <2>1, <2>2
<1>5. CASE UNCHANGED vars
  BY <1>5, KeptClaims DEF vars
<1>6. QED BY <1>1, <1>2, <1>3, <1>4, <1>5 DEF Next

\* _InFlight: one connector instance never runs two calls about one idempotency key
\* at a time, and every running call holds its claim until it ends.
THEOREM OverlapGuard == Spec => []GuardInv
<1>1. Init => GuardInv
  BY DEF Init, GuardInv, Claimed
<1>2. QED BY <1>1, GuardStep, TypeCorrect, PTL DEF Spec

--------------------------------------------------------------------------------
(* One connector instance: what its calls and its ledger agree on *)

\* All tasks call the same connector instance, which may crash and be replaced.
SingleInstance == \A t, u \in Callers : HomeOf[t] = HomeOf[u]

\* No receipt of the stream s says applied.
Open(s) == \A i \in 1..Len(s) : s[i].status # "applied"

\* Steps of a call that goes for a new effect.
Going == {"govern", "base", "reserve", "verify", "effect", "index", "record"}

\* A call that goes for an effect does so on a stream that is open and not
\* uncertain; a reconciliation, on one that is open and uncertain.  What a call
\* replayed stays true until it records, as the key is claimed.
Holds(t) ==
    LET s == receipts[target[t]] IN
    /\ step[t] \in Going => Open(s) /\ RecoveryState(s) # "UNCERTAIN"
    /\ step[t] \in {"ask", "recordObservation"} => Open(s) /\ RecoveryState(s) = "UNCERTAIN"
    /\ step[t] = "index" => SplitCommit
    /\ step[t] = "record" /\ SplitCommit => outcome[t] = "applied"
    /\ step[t] = "recordObservation" /\ outcome[t] = "no_effect"
         => mutations[target[t]] = 0

LedgerInv ==
    \A cs \in ChangeSets :
        /\ Replayable(receipts[cs])
        /\ SplitCommit => \A i \in 1..Len(receipts[cs]) :
                             receipts[cs][i].status # "outcome_uncertain"
        /\ ~SplitCommit /\ mutations[cs] = 1 => effects[KeyOf[cs]] = cs

HoldInv == LedgerInv /\ \A t \in Callers : Holds(t)

LEMMA RecoveryCases ==
  ASSUME NEW s \in Seq(Receipts)
  PROVE  RecoveryState(s) \in {"FRESH", "APPLIED", "UNCERTAIN", "RETRYABLE"}
<1>1. CASE s = <<>>
  BY <1>1 DEF RecoveryState
<1>2. CASE s # <<>>
  <2>1. s[Len(s)] \in Receipts
    BY <1>2
  <2>2. s[Len(s)].status \in Statuses
    BY <2>1 DEF Receipts, Statuses
  <2>3. QED BY <1>2, <2>2 DEF RecoveryState, RecordState, Statuses
<1>3. QED BY <1>1, <1>2

LEMMA StatusOf ==
  ASSUME NEW r \in Receipts
  PROVE  /\ r.status \in Statuses
         /\ RecordState(r) = "APPLIED" <=> r.status = "applied"
         /\ RecordState(r) = "UNCERTAIN" <=> r.status = "outcome_uncertain"
         /\ RecordState(r) = "RETRYABLE" <=> r.status = "no_effect"
<1>1. r.status \in Statuses
  BY DEF Receipts, Statuses
<1>2. QED BY <1>1 DEF RecordState, Statuses

\* A stream that replays and does not recover as APPLIED is open: an APPLIED receipt
\* would have made its last one APPLIED.
LEMMA NotAppliedIsOpen ==
  ASSUME NEW s \in Seq(Receipts), Replayable(s), RecoveryState(s) # "APPLIED"
  PROVE  Open(s)
<1> SUFFICES ASSUME NEW i \in 1..Len(s), s[i].status = "applied" PROVE FALSE
  BY DEF Open
<1>1. s # <<>> /\ Len(s) \in 1..Len(s) /\ s[i] \in Receipts
  OBVIOUS
<1>2. RecordState(s[i]) = "APPLIED"
  BY <1>1, StatusOf
<1>3. RecordState(s[Len(s)]) = "APPLIED"
  <2>1. CASE i = Len(s)
    BY <2>1, <1>2
  <2>2. CASE i < Len(s)
    BY <2>2, <1>1, <1>2 DEF Replayable
  <2>3. QED BY <2>1, <2>2
<1>4. QED BY <1>1, <1>3 DEF RecoveryState

\* Whatever is appended to an open stream, it replays.
LEMMA AppendReplays ==
  ASSUME NEW s \in Seq(Receipts), NEW r \in Receipts, Open(s)
  PROVE  /\ Replayable(Append(s, r))
         /\ RecoveryState(Append(s, r)) = RecordState(r)
<1> DEFINE n == Len(s)
           a == Append(s, r)
<1>1. n \in Nat /\ Len(a) = n + 1 /\ a[n + 1] = r /\ \A i \in 1..n : a[i] = s[i]
  OBVIOUS
<1>2. \A i \in 1..n : RecordState(a[i]) # "APPLIED"
  <2> SUFFICES ASSUME NEW i \in 1..n PROVE RecordState(s[i]) # "APPLIED"
    BY <1>1
  <2>1. s[i] \in Receipts /\ s[i].status # "applied"
    BY DEF Open
  <2>2. QED BY <2>1, StatusOf
<1>3. a # <<>>
  BY <1>1
<1>4. RecoveryState(a) = RecordState(r)
  BY <1>1, <1>3 DEF RecoveryState
<1> HIDE DEF n, a
<1>5. Replayable(a)
  <2> SUFFICES ASSUME NEW i \in 1..Len(a), NEW j \in 1..Len(a), i < j,
                      RecordState(a[i]) = "APPLIED"
               PROVE  FALSE
    BY DEF Replayable
  <2>1. i \in 1..n
    BY <1>1
  <2>2. QED BY <2>1, <1>2
<1>6. QED BY <1>4, <1>5 DEF a

\* The claim keeps other calls away from the change set a call is about.
LEMMA OthersHold ==
  ASSUME SingleInstance, TypeOK, GuardInv, HoldInv, NEW t \in Callers, step[t] # "idle",
         \A u \in Callers \ {t} :
            step'[u] = step[u] /\ target'[u] = target[u] /\ outcome'[u] = outcome[u],
         \A cs \in ChangeSets \ {target[t]} :
            receipts'[cs] = receipts[cs] /\ mutations'[cs] = mutations[cs]
  PROVE  \A u \in Callers \ {t} : Holds(u)'
<1> SUFFICES ASSUME NEW u \in Callers \ {t} PROVE Holds(u)'
  OBVIOUS
<1>1. Holds(u)
  BY DEF HoldInv
<1>2. CASE step[u] = "idle"
  BY <1>2 DEF Holds, Going
<1>3. CASE step[u] # "idle"
  <2>1. target[u] \in ChangeSets /\ KeyOf[target[u]] # KeyOf[target[t]]
    BY <1>3 DEF TypeOK, GuardInv, SingleInstance
  <2>2. receipts'[target[u]] = receipts[target[u]] /\ mutations'[target[u]] = mutations[target[u]]
    BY <2>1
  <2>3. QED BY <1>1, <2>2 DEF Holds
<1>4. QED BY <1>2, <1>3

\* Nothing is recorded and the source is left alone: the tasks that go on hold.
LEMMA StillHold ==
  ASSUME HoldInv, UNCHANGED <<receipts, mutations, effects>>,
         \A u \in Callers :
            \/ step'[u] = step[u] /\ target'[u] = target[u] /\ outcome'[u] = outcome[u]
            \/ step'[u] \notin Going \cup {"ask", "recordObservation"}
            \/ Holds(u)'
  PROVE  HoldInv'
<1>1. LedgerInv'
  BY DEF HoldInv, LedgerInv
<1>2. ASSUME NEW u \in Callers PROVE Holds(u)'
  BY DEF HoldInv, Holds, Going
<1>3. QED BY <1>1, <1>2 DEF HoldInv

LEMMA LeaveHold ==
  ASSUME TypeOK, HoldInv, NEW t \in Callers, Release(t),
         UNCHANGED <<receipts, mutations, effects>>
  PROVE  HoldInv'
  BY StillHold DEF Release, Going, TypeOK

\* A task goes on, and carries o.
LEMMA GoHold ==
  ASSUME TypeOK, HoldInv, NEW t \in Callers, NEW s, NEW o,
         step' = [step EXCEPT ![t] = s], outcome' = [outcome EXCEPT ![t] = o],
         UNCHANGED <<target, receipts, mutations, effects>>,
         s \in Going => /\ Open(receipts[target[t]])
                        /\ RecoveryState(receipts[target[t]]) # "UNCERTAIN",
         s \in {"ask", "recordObservation"} =>
                        /\ Open(receipts[target[t]])
                        /\ RecoveryState(receipts[target[t]]) = "UNCERTAIN",
         s # "index", s = "record" /\ SplitCommit => o = "applied",
         s = "recordObservation" /\ o = "no_effect" => mutations[target[t]] = 0
  PROVE  HoldInv'
<1>1. step'[t] = s /\ outcome'[t] = o
  BY DEF TypeOK
<1>2. Holds(t)'
  BY <1>1 DEF Holds
<1>3. \A u \in Callers \ {t} :
        step'[u] = step[u] /\ target'[u] = target[u] /\ outcome'[u] = outcome[u]
  BY DEF TypeOK
<1>4. QED BY <1>2, <1>3, StillHold

\* The source changes for the change set of a task that goes for an effect.
LEMMA CommitHold ==
  ASSUME SingleInstance, TypeOK, EffectInv, GuardInv, HoldInv, EffectInv',
         NEW t \in Callers, step[t] = "effect",
         CompareVersion(target[t]), Commit(target[t]), NEW s \in {"index", "record"}, NEW o,
         Carry(t, s, o), UNCHANGED receipts, s = "index" => SplitCommit,
         SplitCommit => o = "applied"
  PROVE  HoldInv'
<1> DEFINE cs == target[t]
<1>1. cs \in ChangeSets /\ KeyOf[cs] \in Keys
  BY Constants DEF TypeOK
<1>2. \A d \in ChangeSets \ {cs} : mutations'[d] = mutations[d]
  BY <1>1 DEF Commit, TypeOK
<1>3. \A u \in Callers \ {t} :
        step'[u] = step[u] /\ target'[u] = target[u] /\ outcome'[u] = outcome[u]
  BY DEF Carry, TypeOK
<1>4. \A u \in Callers \ {t} : Holds(u)'
  BY <1>2, <1>3, OthersHold
<1>5. step'[t] = s /\ target'[t] = cs /\ outcome'[t] = o
  BY DEF Carry, TypeOK
<1>6. Open(receipts[cs]) /\ RecoveryState(receipts[cs]) # "UNCERTAIN"
  BY DEF HoldInv, Holds, Going
<1>7. Holds(t)'
  BY <1>5, <1>6 DEF Holds
<1>8. LedgerInv'
  <2> SUFFICES ASSUME NEW d \in ChangeSets, ~SplitCommit, mutations'[d] = 1
               PROVE  effects'[KeyOf[d]] = d
    BY DEF HoldInv, LedgerInv
  <2>1. effects' = [effects EXCEPT ![KeyOf[cs]] = cs]
    BY DEF Commit
  <2>2. CASE d = cs
    BY <2>1, <2>2, <1>1 DEF TypeOK
  <2>3. CASE d # cs
    <3>1. mutations[d] = 1 /\ effects[KeyOf[d]] = d
      BY <2>3, <1>2 DEF HoldInv, LedgerInv
    <3>2. reservations[KeyOf[d]] = d /\ reservations[KeyOf[cs]] = cs
      BY <3>1 DEF EffectInv
    <3>3. KeyOf[d] # KeyOf[cs]
      BY <2>3, <3>2
    <3>4. QED BY <2>1, <3>1, <3>3, <1>1, Constants DEF TypeOK
  <2>4. QED BY <2>2, <2>3
<1>9. QED BY <1>4, <1>7, <1>8 DEF HoldInv

\* A call records what it carries on a stream that is open, and ends.
LEMMA AppendHold ==
  ASSUME SingleInstance, TypeOK, GuardInv, HoldInv, NEW t \in Callers, step[t] # "idle",
         NEW kind, NEW status, [kind |-> kind, status |-> status] \in Receipts,
         AppendReceipt(target[t], kind, status), Release(t), Open(receipts[target[t]]),
         SplitCommit => status # "outcome_uncertain", UNCHANGED <<mutations, effects>>
  PROVE  HoldInv'
<1> DEFINE cs == target[t]
           r == [kind |-> kind, status |-> status]
<1>1. cs \in ChangeSets /\ receipts[cs] \in Seq(Receipts)
  BY DEF TypeOK
<1>2. /\ receipts'[cs] = Append(receipts[cs], r)
      /\ \A d \in ChangeSets \ {cs} : receipts'[d] = receipts[d]
  BY <1>1 DEF AppendReceipt, TypeOK
<1>3. \A u \in Callers \ {t} :
        step'[u] = step[u] /\ target'[u] = target[u] /\ outcome'[u] = outcome[u]
  BY DEF Release, TypeOK
<1>4. \A u \in Callers \ {t} : Holds(u)'
  BY <1>2, <1>3, OthersHold
<1>5. step'[t] = "idle"
  BY DEF Release, TypeOK
<1>6. Holds(t)'
  BY <1>5 DEF Holds, Going
<1>7. Replayable(receipts'[cs])
  BY <1>1, <1>2, AppendReplays
<1>8. SplitCommit => \A i \in 1..Len(receipts'[cs]) :
                       receipts'[cs][i].status # "outcome_uncertain"
  <2> SUFFICES ASSUME SplitCommit, NEW i \in 1..Len(receipts'[cs])
               PROVE  receipts'[cs][i].status # "outcome_uncertain"
    OBVIOUS
  <2>1. CASE i = Len(receipts[cs]) + 1
    <3>1. receipts'[cs][i] = r
      BY <1>1, <1>2, <2>1
    <3>2. QED BY <3>1
  <2>2. CASE i \in 1..Len(receipts[cs])
    <3>1. receipts'[cs][i] = receipts[cs][i]
      BY <1>1, <1>2, <2>2
    <3>2. QED BY <1>1, <3>1, <2>2 DEF HoldInv, LedgerInv
  <2>3. QED BY <1>1, <1>2, <2>1, <2>2
<1>9. LedgerInv'
  <2> SUFFICES ASSUME NEW d \in ChangeSets
               PROVE  /\ Replayable(receipts'[d])
                      /\ SplitCommit => \A i \in 1..Len(receipts'[d]) :
                                           receipts'[d][i].status # "outcome_uncertain"
                      /\ ~SplitCommit /\ mutations'[d] = 1 => effects'[KeyOf[d]] = d
    BY DEF LedgerInv
  <2>1. CASE d = cs
    BY <2>1, <1>7, <1>8 DEF HoldInv, LedgerInv
  <2>2. CASE d # cs
    BY <2>2, <1>2 DEF HoldInv, LedgerInv
  <2>3. QED BY <2>1, <2>2
<1>10. QED BY <1>4, <1>6, <1>9 DEF HoldInv

LEMMA HoldStep ==
  ASSUME SingleInstance, TypeOK, EffectInv, EffectInv', GuardInv, HoldInv, [Next]_vars
  PROVE  HoldInv'
<1>1. ASSUME NEW t \in Callers, NEW cs \in ChangeSets,
             StartApply(t, cs) \/ StartReconcile(t, cs)
      PROVE  HoldInv'
  BY <1>1, StillHold DEF StartApply, StartReconcile, Claim, Going, TypeOK
<1>2. ASSUME NEW t \in Callers, Abort(t) PROVE HoldInv'
  BY <1>2, LeaveHold DEF Abort, Leave
<1>3. ASSUME NEW t \in Callers, CallStep(t) PROVE HoldInv'
  <2>l. CASE Leave(t)
    BY <2>l, LeaveHold DEF Leave
  <2>0. step[t] # "idle" =>
          target[t] \in ChangeSets /\ receipts[target[t]] \in Seq(Receipts)
    BY DEF TypeOK
  <2>g. step[t] \in Going =>
          Open(receipts[target[t]]) /\ RecoveryState(receipts[target[t]]) # "UNCERTAIN"
    BY DEF HoldInv, Holds
  <2>1. ASSUME NEW s, s \notin {"index", "recordObservation", "record", "ask"}, Goto(t, s),
               s \in Going => /\ Open(receipts[target[t]])
                              /\ RecoveryState(receipts[target[t]]) # "UNCERTAIN",
               UNCHANGED <<durable, source, authority, memory, bounds, history>>
        PROVE  HoldInv'
    <3>1. outcome' = [outcome EXCEPT ![t] = outcome[t]]
      BY <2>1 DEF Goto, TypeOK
    <3>2. QED BY <2>1, <3>1, GoHold DEF Goto
  <2>2. CASE Authorize(t)
    BY <2>2, <2>l, <2>1 DEF Authorize, Going
  <2>3. CASE Replay(t)
    <3>1. CASE ~Leave(t)
      <4>1. Replayable(receipts[target[t]]) /\ RecoveryState(receipts[target[t]]) # "UNCERTAIN"
        BY <2>3, <3>1 DEF Replay
      <4>2. RecoveryState(receipts[target[t]]) # "APPLIED" => Open(receipts[target[t]])
        BY <2>3, <2>0, <4>1, NotAppliedIsOpen DEF Replay
      <4>3. QED BY <2>3, <3>1, <4>1, <4>2, <2>1 DEF Replay, Going
    <3>2. QED BY <3>1, <2>l
  <2>4. CASE ReturnPrior(t)
    BY <2>4, <2>l, LeaveHold DEF ReturnPrior
  <2>5. CASE Govern(t)
    <3>1. CASE Carry(t, "record", "applied") /\ ~Leave(t)
      BY <2>5, <3>1, <2>g, GoHold DEF Govern, Carry, Going
    <3>2. CASE ~Carry(t, "record", "applied") /\ ~Leave(t)
      BY <2>5, <3>2, <2>g, <2>1 DEF Govern, Going
    <3>3. QED BY <3>1, <3>2, <2>l
  <2>6. CASE ReadBase(t)
    BY <2>6, <2>l, <2>g, <2>1 DEF ReadBase, Going
  <2>7. CASE Reserve(t)
    <3>1. CASE ~Leave(t)
      <4>1. /\ step' = [step EXCEPT ![t] = "verify"] /\ step[t] \in Going
            /\ outcome' = [outcome EXCEPT ![t] = outcome[t]]
            /\ UNCHANGED <<target, receipts, mutations, effects>>
        BY <2>7, <3>1 DEF Reserve, Goto, Going, TypeOK
      <4>2. QED BY <4>1, <2>g, GoHold
    <3>2. QED BY <3>1, <2>l
  <2>8. CASE Verify(t)
    BY <2>8, <2>l, <2>g, <2>1 DEF Verify, Going
  <2>9. CASE Apply(t)
    <3>1. PICK s \in {"index", "record"} :
            Carry(t, s, "applied") /\ (s = "index" => SplitCommit)
      BY <2>9 DEF Apply
    <3>2. QED BY <2>9, <3>1, CommitHold DEF Apply
  <2>10. CASE IndexEffect(t)
    <3>1. /\ step[t] = "index" /\ SplitCommit /\ outcome[t] = "applied"
          /\ Goto(t, "record") /\ UNCHANGED <<receipts, mutations>>
      BY <2>10 DEF IndexEffect, HoldInv, Holds, TypeOK
    <3>2. LedgerInv'
      BY <3>1 DEF HoldInv, LedgerInv
    <3>3. \A u \in Callers \ {t} :
            step'[u] = step[u] /\ target'[u] = target[u] /\ outcome'[u] = outcome[u]
      BY <3>1 DEF Goto, TypeOK
    <3>4. \A u \in Callers \ {t} : Holds(u)'
      BY <3>1, <3>3, OthersHold
    <3>5. step'[t] = "record" /\ target'[t] = target[t] /\ outcome'[t] = "applied"
      BY <3>1 DEF Goto, TypeOK
    <3>6. Holds(t)'
      BY <3>1, <3>5, <2>g DEF Holds, Going
    <3>7. QED BY <3>2, <3>4, <3>6 DEF HoldInv
  <2>11. CASE ApplyConflict(t)
    BY <2>11, <2>l DEF ApplyConflict
  <2>12. CASE ApplyUncertain(t)
    <3>1. /\ step[t] = "effect" /\ ~SplitCommit /\ UNCHANGED receipts
          /\ Carry(t, "record", "outcome_uncertain")
      BY <2>12 DEF ApplyUncertain
    <3>2. CASE UNCHANGED <<version, effects, mutations>>
      BY <3>1, <3>2, <2>g, GoHold DEF Carry, Going
    <3>3. CASE CompareVersion(target[t]) /\ Commit(target[t])
      BY <3>1, <3>3, CommitHold
    <3>4. QED BY <2>12, <3>2, <3>3 DEF ApplyUncertain
  <2>13. CASE RecordAttempt(t)
    <3>1. outcome[t] \in {"applied", "outcome_uncertain"} /\ step[t] = "record"
      BY <2>13 DEF RecordAttempt, TypeOK
    <3>2. [kind |-> "attempt", status |-> outcome[t]] \in Receipts
      BY <3>1 DEF Receipts
    <3>3. SplitCommit => outcome[t] # "outcome_uncertain"
      BY <3>1 DEF HoldInv, Holds
    <3>4. QED BY <2>13, <3>1, <3>2, <3>3, <2>g, AppendHold DEF RecordAttempt, Going
  <2>14. CASE Recall(t)
    <3>1. CASE ~Leave(t)
      <4>1. /\ Goto(t, "ask") /\ step[t] # "idle"
            /\ Replayable(receipts[target[t]])
            /\ RecoveryState(receipts[target[t]]) = "UNCERTAIN"
            /\ UNCHANGED <<receipts, mutations, effects>>
        BY <2>14, <3>1 DEF Recall
      <4>2. Open(receipts[target[t]])
        BY <4>1, <2>0, NotAppliedIsOpen
      <4>3. outcome' = [outcome EXCEPT ![t] = outcome[t]]
        BY <4>1 DEF Goto, TypeOK
      <4>4. QED BY <4>1, <4>2, <4>3, GoHold DEF Goto, Going
    <3>2. QED BY <3>1, <2>l
  <2>15. CASE Ask(t)
    <3>1. CASE ~Leave(t)
      <4>1. PICK status \in Observations(target[t]) : Carry(t, "recordObservation", status)
        BY <2>15, <3>1 DEF Ask
      <4>2. step[t] = "ask" /\ UNCHANGED <<receipts, mutations, effects>>
        BY <2>15, <3>1 DEF Ask
      <4>3. /\ Open(receipts[target[t]])
            /\ RecoveryState(receipts[target[t]]) = "UNCERTAIN"
        BY <4>2 DEF HoldInv, Holds
      <4>4. ~SplitCommit
        <5>1. receipts[target[t]] \in Seq(Receipts) /\ receipts[target[t]] # <<>>
          BY <4>2, <4>3, <2>0 DEF RecoveryState
        <5>2. receipts[target[t]][Len(receipts[target[t]])].status = "outcome_uncertain"
          BY <4>3, <5>1, StatusOf DEF RecoveryState
        <5>3. Len(receipts[target[t]]) \in 1..Len(receipts[target[t]])
          BY <5>1
        <5>4. QED BY <5>2, <5>3, <4>2, <2>0 DEF HoldInv, LedgerInv
      <4>5. status = "no_effect" => mutations[target[t]] = 0
        <5>1. status = "no_effect" => effects[KeyOf[target[t]]] = None
          BY DEF Observations
        <5>2. target[t] \in ChangeSets /\ target[t] # None
          BY <4>2, <2>0, Constants
        <5>3. mutations[target[t]] = 1 => effects[KeyOf[target[t]]] = target[t]
          BY <4>4, <5>2 DEF HoldInv, LedgerInv
        <5>4. mutations[target[t]] \in {0, 1}
          BY <5>2 DEF EffectInv
        <5>5. QED BY <5>1, <5>2, <5>3, <5>4
      <4>6. QED BY <4>1, <4>2, <4>3, <4>5, GoHold DEF Carry, Going
    <3>2. QED BY <3>1, <2>l
  <2>16. CASE RecordObservation(t)
    <3>1. step[t] = "recordObservation" /\ outcome[t] \in Statuses
      BY <2>16 DEF RecordObservation, TypeOK
    <3>2. [kind |-> "reconciliation", status |-> outcome[t]] \in Receipts
      BY <3>1 DEF Receipts
    <3>3. /\ Open(receipts[target[t]])
          /\ RecoveryState(receipts[target[t]]) = "UNCERTAIN"
      BY <3>1 DEF HoldInv, Holds
    <3>4. ~SplitCommit
      <4>1. receipts[target[t]] \in Seq(Receipts) /\ receipts[target[t]] # <<>>
        BY <3>1, <3>3, <2>0 DEF RecoveryState
      <4>2. receipts[target[t]][Len(receipts[target[t]])].status = "outcome_uncertain"
        BY <3>3, <4>1, StatusOf DEF RecoveryState
      <4>3. Len(receipts[target[t]]) \in 1..Len(receipts[target[t]])
        BY <4>1
      <4>4. QED BY <4>2, <4>3, <3>1, <2>0 DEF HoldInv, LedgerInv
    <3>5. QED BY <2>16, <3>1, <3>2, <3>3, <3>4, AppendHold DEF RecordObservation
  <2>17. QED
    BY <1>3, <2>2, <2>3, <2>4, <2>5, <2>6, <2>7, <2>8, <2>9, <2>10, <2>11, <2>12,
       <2>13, <2>14, <2>15, <2>16 DEF CallStep, TransportApply
<1>4. CASE Environment
  <2>1. UNCHANGED <<receipts, mutations, effects>>
    BY <1>4 DEF Environment, Register, Expire, Revoke, Crash, OtherWrite
  <2>2. \A u \in Callers :
          \/ step'[u] = step[u] /\ target'[u] = target[u] /\ outcome'[u] = outcome[u]
          \/ step'[u] = "idle"
    BY <1>4 DEF Environment, Register, Expire, Revoke, Crash, OtherWrite
  <2>3. QED BY <2>1, <2>2, StillHold DEF Going
<1>5. CASE UNCHANGED vars
  BY <1>5, StillHold DEF vars
<1>6. QED BY <1>1, <1>2, <1>3, <1>4, <1>5 DEF Next

LEMMA HoldInvariant == ASSUME SingleInstance PROVE Spec => []HoldInv
<1>1. Init => HoldInv
  <2> SUFFICES ASSUME Init PROVE HoldInv
    OBVIOUS
  <2>1. LedgerInv
    BY DEF Init, LedgerInv, Replayable
  <2>2. \A t \in Callers : Holds(t)
    BY DEF Init, Holds, Going
  <2>3. QED BY <2>1, <2>2 DEF HoldInv
<1>2. TypeOK /\ EffectInv /\ EffectInv' /\ GuardInv /\ HoldInv /\ [Next]_vars => HoldInv'
  BY HoldStep
<1>3. QED BY <1>1, <1>2, TypeCorrect, EffectInvariant, OverlapGuard, PTL DEF Spec

\* With one connector instance, no sequence of calls, crashes and lost answers writes
\* a receipt stream that _consume_page rejects and thereby closes the change set.
THEOREM ReceiptsReplay == ASSUME SingleInstance PROVE Spec => []ReceiptsReplayable
<1>1. HoldInv => ReceiptsReplayable
  BY DEF HoldInv, LedgerInv, ReceiptsReplayable
<1>2. QED BY <1>1, HoldInvariant, PTL

\* With one connector instance, transport.apply never changes the source for a change
\* set whose durable outcome is uncertain: only a reconciliation opens it again.
THEOREM UncertainIsLeftAlone == ASSUME SingleInstance PROVE Spec => UncertainIsNotRetried
<1>1. ASSUME TypeOK, HoldInv, [Next]_vars PROVE HeldStep
  <2> SUFFICES ASSUME NEW cs \in ChangeSets, RecoveryState(receipts[cs]) = "UNCERTAIN"
               PROVE  mutations'[cs] = mutations[cs]
    BY DEF HeldStep
  <2>1. ASSUME NEW t \in Callers, step[t] = "effect", Commit(target[t])
        PROVE  mutations'[cs] = mutations[cs]
    <3>1. target[t] # cs
      BY <2>1, <1>1 DEF HoldInv, Holds, Going
    <3>2. QED BY <2>1, <3>1, <1>1 DEF Commit, TypeOK
  <2>2. ASSUME UNCHANGED mutations PROVE mutations'[cs] = mutations[cs]
    BY <2>2
  <2>3. ASSUME NEW t \in Callers, CallStep(t) \/ Abort(t)
        PROVE  mutations'[cs] = mutations[cs]
    <3>1. CASE Apply(t) \/ ApplyUncertain(t)
      BY <3>1, <2>1, <2>2 DEF Apply, ApplyUncertain
    <3>2. CASE ~Apply(t) /\ ~ApplyUncertain(t)
      BY <2>3, <3>2, <2>2 DEF CallStep, TransportApply, Authorize, Replay, ReturnPrior,
         Govern, ReadBase, Reserve, Verify, IndexEffect, ApplyConflict, RecordAttempt,
         Recall, Ask, RecordObservation, Leave, Abort
    <3>3. QED BY <3>1, <3>2
  <2>4. CASE \E t \in Callers, d \in ChangeSets : StartApply(t, d) \/ StartReconcile(t, d)
    BY <2>4, <2>2 DEF StartApply, StartReconcile, Claim
  <2>5. CASE Environment \/ UNCHANGED vars
    BY <2>5, <2>2 DEF Environment, Register, Expire, Revoke, Crash, OtherWrite, vars
  <2>6. QED BY <1>1, <2>3, <2>4, <2>5 DEF Next
<1>2. QED BY <1>1, HoldInvariant, TypeCorrect, PTL DEF Spec, UncertainIsNotRetried

\* With one connector instance, the NO_EFFECT receipt that permits a retry is written
\* only about a change set the source has not been changed for.
THEOREM RetryIsProven == ASSUME SingleInstance PROVE Spec => NoEffectIsProven
<1>1. ASSUME TypeOK, HoldInv, [Next]_vars PROVE ProvenStep
  <2> SUFFICES ASSUME NEW cs \in ChangeSets, receipts'[cs] # receipts[cs],
                      RecoveryState(receipts'[cs]) = "RETRYABLE"
               PROVE  mutations[cs] = 0
    BY DEF ProvenStep
  <2>1. PICK t \in Callers : RecordAttempt(t) \/ RecordObservation(t)
    <3>1. receipts' # receipts
      OBVIOUS
    <3>2. ASSUME NEW t \in Callers, CallStep(t) \/ Abort(t), ~RecordAttempt(t),
                 ~RecordObservation(t)
          PROVE  receipts' = receipts
      <4>1. CASE Authorize(t) \/ Replay(t) \/ ReturnPrior(t) \/ Govern(t) \/ ReadBase(t)
        BY <4>1 DEF Authorize, Replay, ReturnPrior, Govern, ReadBase, Leave
      <4>2. CASE Reserve(t) \/ Verify(t)
        BY <4>2 DEF Reserve, Verify, Leave
      <4>3. CASE TransportApply(t) \/ ApplyConflict(t) \/ ApplyUncertain(t)
        BY <4>3 DEF TransportApply, Apply, IndexEffect, ApplyConflict, ApplyUncertain, Leave
      <4>4. CASE Recall(t) \/ Ask(t) \/ Abort(t)
        BY <4>4 DEF Recall, Ask, Abort, Leave
      <4>5. QED BY <3>2, <4>1, <4>2, <4>3, <4>4 DEF CallStep
    <3>3. ASSUME NEW t \in Callers, NEW d \in ChangeSets, StartApply(t, d) \/ StartReconcile(t, d)
          PROVE  receipts' = receipts
      BY <3>3 DEF StartApply, StartReconcile, Claim
    <3>4. Environment \/ UNCHANGED vars => receipts' = receipts
      BY DEF Environment, Register, Expire, Revoke, Crash, OtherWrite, vars
    <3>5. QED BY <1>1, <3>1, <3>2, <3>3, <3>4 DEF Next
  <2>2. PICK kind \in {"attempt", "reconciliation"} :
          /\ AppendReceipt(target[t], kind, outcome[t])
          /\ step[t] = IF kind = "attempt" THEN "record" ELSE "recordObservation"
    BY <2>1 DEF RecordAttempt, RecordObservation
  <2> DEFINE r == [kind |-> kind, status |-> outcome[t]]
  <2>3. target[t] \in ChangeSets /\ receipts[target[t]] \in Seq(Receipts) /\ r \in Receipts
    BY <2>2, <1>1 DEF TypeOK, Receipts, Statuses
  <2>4. target[t] = cs /\ receipts'[cs] = Append(receipts[cs], r)
    BY <2>2, <2>3, <1>1 DEF AppendReceipt, TypeOK
  <2>5. Open(receipts[cs])
    BY <2>2, <2>4, <1>1 DEF HoldInv, Holds, Going
  <2>6. RecordState(r) = "RETRYABLE"
    BY <2>3, <2>4, <2>5, AppendReplays
  <2>7. outcome[t] = "no_effect"
    BY <2>3, <2>6, StatusOf
  <2>8. step[t] = "recordObservation"
    BY <2>2, <2>7, <1>1 DEF TypeOK
  <2>9. QED BY <2>4, <2>7, <2>8, <1>1 DEF HoldInv, Holds
<1>2. QED BY <1>1, HoldInvariant, TypeCorrect, PTL DEF Spec, NoEffectIsProven
================================================================================
