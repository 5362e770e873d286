---------------------------- MODULE SyncRunnerProofs ---------------------------
(***************************************************************************)
(* Theorems about SyncRunner, for any number of connectors, descriptors,   *)
(* presets and worker slots, any capacity and any number of failures.      *)
(***************************************************************************)
EXTENDS SyncRunner, FiniteSetTheorems, WellFoundedInduction, TLAPS

USE DEF supervisor, health, engine

LEMMA LeastOf ==
  ASSUME NEW S \in SUBSET Nat, S # {}
  PROVE  Min(S) \in S
<1>1. \E x \in S : \A y \in S : ~(<<y, x>> \in OpToRel(<, Nat))
  BY WFMin, NatLessThanWellFounded
<1>2. PICK x \in S : \A y \in S : ~(y < x)
  BY <1>1 DEF OpToRel
<1>3. \A y \in S : x =< y
  BY <1>2
<1>4. QED BY <1>3 DEF Min

LEMMA LeastPreset ==
  ASSUME NEW plan \in SUBSET Presets, plan # {}
  PROVE  Min(plan) \in plan /\ Min(plan) \in Presets
  BY LeastOf, RunnerAssumption

LEMMA OffType == Off \in WorkerStates /\ Off.step = "off" /\ Off.cancel = "no"
  BY DEF Off, WorkerStates, Inside

--------------------------------------------------------------------------------
(* What a step does to one worker *)

\* Worker s of connector n is now y, and the others are what they were.
Becomes(n, s, y) ==
    \A m \in Connectors, r \in Slots :
        worker'[m][r] = IF m = n /\ r = s THEN y ELSE worker[m][r]

LEMMA PutWorker ==
  ASSUME TypeOK, NEW n \in Connectors, NEW s \in Slots, NEW y \in WorkerStates,
         worker' = [worker EXCEPT ![n][s] = y]
  PROVE  worker' \in [Connectors -> [Slots -> WorkerStates]] /\ Becomes(n, s, y)
<1>1. [worker[n] EXCEPT ![s] = y] \in [Slots -> WorkerStates]
  BY DEF TypeOK
<1>2. worker' = [worker EXCEPT ![n] = [worker[n] EXCEPT ![s] = y]]
  BY DEF TypeOK
<1>3. worker' \in [Connectors -> [Slots -> WorkerStates]]
  BY <1>1, <1>2 DEF TypeOK
<1>4. QED BY <1>2, <1>3 DEF TypeOK, Becomes

\* A worker that goes on to x arrives there, and a cancellation with it.
Landed(x) == [x EXCEPT !.cancel = IF x.cancel = "no" THEN "no" ELSE "delivered"]

LEMMA LandedType ==
  ASSUME NEW x \in WorkerStates
  PROVE  /\ Landed(x) \in WorkerStates
         /\ Landed(x).step = x.step /\ Landed(x).plan = x.plan /\ Landed(x).from = x.from
         /\ Landed(x).cancel = "no" <=> x.cancel = "no"
  BY DEF Landed, WorkerStates

LEMMA GoWorker ==
  ASSUME TypeOK, NEW n \in Connectors, NEW s \in Slots, NEW x \in WorkerStates, Go(n, s, x)
  PROVE  /\ worker' \in [Connectors -> [Slots -> WorkerStates]]
         /\ Becomes(n, s, Landed(x))
<1>1. worker' = [worker EXCEPT ![n][s] = Landed(x)]
  BY DEF Go, Landed
<1>2. QED BY <1>1, LandedType, PutWorker

\* The states a worker goes on to.
LEMMA NextStates ==
  ASSUME TypeOK, NEW n \in Connectors, NEW s \in Slots
  PROVE  LET x == worker[n][s] IN
         /\ x \in WorkerStates
         /\ \A c \in {"queue", "wait", "watch", "connect", "cycle"} :
              [x EXCEPT !.step = c] \in WorkerStates
         /\ \A plan \in SUBSET Presets :
              /\ [x EXCEPT !.step = "queue", !.plan = plan] \in WorkerStates
              /\ [x EXCEPT !.step = "queue", !.pending = {}, !.plan = plan] \in WorkerStates
         /\ \A k \in Nat :
              [x EXCEPT !.step = "extract", !.pages = 0, !.from = k] \in WorkerStates
         /\ [x EXCEPT !.step = "wait", !.watching = TRUE] \in WorkerStates
         /\ [x EXCEPT !.step = "answer"] \in WorkerStates
         /\ StreamDone(x) \in WorkerStates
         /\ [x EXCEPT !.step = "extract", !.from = @ + 1, !.pages = @ + 1] \in WorkerStates
         /\ [Off EXCEPT !.step = "backoff", !.desc = x.desc, !.cancel = x.cancel]
               \in WorkerStates
<1>1. worker[n][s] \in WorkerStates
  BY DEF TypeOK
<1>2. ASSUME NEW x \in WorkerStates
      PROVE  /\ \A c \in {"queue", "wait", "watch", "connect", "cycle"} :
                  [x EXCEPT !.step = c] \in WorkerStates
             /\ \A plan \in SUBSET Presets :
                  /\ [x EXCEPT !.step = "queue", !.plan = plan] \in WorkerStates
                  /\ [x EXCEPT !.step = "queue", !.pending = {}, !.plan = plan]
                       \in WorkerStates
             /\ \A k \in Nat :
                  [x EXCEPT !.step = "extract", !.pages = 0, !.from = k] \in WorkerStates
             /\ [x EXCEPT !.step = "wait", !.watching = TRUE] \in WorkerStates
             /\ [x EXCEPT !.step = "answer"] \in WorkerStates
  BY DEF WorkerStates, Inside
<1>3. ASSUME NEW x \in WorkerStates
      PROVE  /\ StreamDone(x) \in WorkerStates
             /\ [x EXCEPT !.step = "extract", !.from = @ + 1, !.pages = @ + 1]
                  \in WorkerStates
  <2>1. ASSUME NEW plan \in SUBSET Presets
        PROVE  [x EXCEPT !.step = "cycle", !.plan = plan] \in WorkerStates
    BY DEF WorkerStates, Inside
  <2>2. x.plan \ {Min(x.plan)} \in SUBSET Presets
    BY DEF WorkerStates
  <2>3. StreamDone(x) = [x EXCEPT !.step = "cycle", !.plan = x.plan \ {Min(x.plan)}]
    BY DEF WorkerStates, StreamDone
  <2>4. ASSUME NEW j \in Nat, NEW k \in Nat
        PROVE  [x EXCEPT !.step = "extract", !.from = j, !.pages = k] \in WorkerStates
    BY DEF WorkerStates, Inside
  <2>5. x.from + 1 \in Nat /\ x.pages + 1 \in Nat
    BY DEF WorkerStates
  <2>6. [x EXCEPT !.step = "extract", !.from = x.from + 1, !.pages = x.pages + 1]
          \in WorkerStates
    BY <2>4, <2>5, Zenon
  <2>7. [x EXCEPT !.step = "extract", !.from = @ + 1, !.pages = @ + 1]
          = [x EXCEPT !.step = "extract", !.from = x.from + 1, !.pages = x.pages + 1]
    BY DEF WorkerStates
  <2>8. QED BY <2>1, <2>2, <2>3, <2>6, <2>7, Zenon
<1>4. ASSUME NEW x \in WorkerStates
      PROVE  [Off EXCEPT !.step = "backoff", !.desc = x.desc, !.cancel = x.cancel]
               \in WorkerStates
  BY DEF WorkerStates, Inside, Off
<1>5. QED BY <1>1, <1>2, <1>3, <1>4

--------------------------------------------------------------------------------
(* The places of the capacity limiter *)

\* The cycles that run are finitely many and each holds one of the places taken.
PlacesInv == IsFiniteSet(Held) /\ PlacesAreHeld

PlaceOf(x) == IF x.step \in Inside THEN 1 ELSE 0

\* A worker goes on and the places taken follow it.
LEMMA MovePlace ==
  ASSUME PlacesInv, NEW n \in Connectors, NEW s \in Slots, NEW y, Becomes(n, s, y),
         borrowed' = borrowed + PlaceOf(y) - PlaceOf(worker[n][s])
  PROVE  PlacesInv' /\ borrowed' \in Nat
<1>1. /\ Cardinality(Held) \in Nat /\ borrowed = Cardinality(Held)
      /\ Cardinality(Held) = 0 <=> Held = {}
  BY FS_CardinalityType, FS_EmptySet DEF PlacesInv, PlacesAreHeld
<1>2. <<n, s>> \in Held <=> worker[n][s].step \in Inside
  BY DEF Held
<1>3. Held' = IF y.step \in Inside THEN Held \cup {<<n, s>>} ELSE Held \ {<<n, s>>}
  <2>1. \A w \in Connectors \X Slots :
          w \in Held' <=> IF w = <<n, s>> THEN y.step \in Inside ELSE w \in Held
    BY DEF Held, Becomes
  <2>2. Held \subseteq Connectors \X Slots /\ Held' \subseteq Connectors \X Slots
    BY DEF Held
  <2>3. <<n, s>> \in Connectors \X Slots
    OBVIOUS
  <2>4. QED BY <2>1, <2>2, <2>3
<1>4. IsFiniteSet(Held')
  BY <1>3, FS_AddElement, FS_RemoveElement DEF PlacesInv
<1>5. Cardinality(Held') = Cardinality(Held) + PlaceOf(y) - PlaceOf(worker[n][s])
  <2>1. CASE y.step \in Inside
    <3>1. Cardinality(Held') = IF <<n, s>> \in Held THEN Cardinality(Held)
                               ELSE Cardinality(Held) + 1
      BY <1>3, <2>1, FS_AddElement DEF PlacesInv
    <3>2. QED BY <1>1, <1>2, <2>1, <3>1 DEF PlaceOf
  <2>2. CASE y.step \notin Inside
    <3>1. Cardinality(Held') = IF <<n, s>> \in Held THEN Cardinality(Held) - 1
                               ELSE Cardinality(Held)
      BY <1>3, <2>2, FS_RemoveElement DEF PlacesInv
    <3>2. QED BY <1>1, <1>2, <2>2, <3>1 DEF PlaceOf
  <2>3. QED BY <2>1, <2>2
<1>6. Cardinality(Held') \in Nat
  BY <1>4, FS_CardinalityType
<1>7. QED BY <1>1, <1>4, <1>5, <1>6 DEF PlacesInv, PlacesAreHeld

\* A step at which every worker stays inside or outside its cycle.
LEMMA KeepPlaces ==
  ASSUME PlacesInv, UNCHANGED borrowed,
         \A n \in Connectors, s \in Slots : worker'[n][s].step = worker[n][s].step
  PROVE  PlacesInv'
<1>1. Held' = Held
  BY DEF Held
<1>2. QED BY <1>1 DEF PlacesInv, PlacesAreHeld

--------------------------------------------------------------------------------
(* The inductive invariant *)

\* A stream that is read resumes at or before the end of what the source has.
Planned(x) ==
    x.step \in {"extract", "answer"} => x.plan # {} /\ x.from <= data[Min(x.plan)]
PlanInv == \A n \in Connectors, s \in Slots : Planned(worker[n][s])

\* A page on its way is one the source has; if its worker still waits for the
\* answer, it is the one page that worker asked for, of the stream it is at.
Served(q) ==
    /\ q.from < data[q.preset]
    /\ q.live => /\ worker[q.by][q.slot].step = "answer"
                 /\ worker[q.by][q.slot].from = q.from
                 /\ Min(worker[q.by][q.slot].plan) = q.preset
SameWorker(q, r) == q.by = r.by /\ q.slot = r.slot
RequestInv ==
    /\ \A q \in requests : Served(q)
    /\ \A q, r \in requests : q.live /\ r.live /\ SameWorker(q, r) => q = r

\* RunnerHealth lists every connector of the registry as last read.
ListedInv == \A n \in Connectors : wanted[n] # None => resolved[n] # "unlisted"

IInv ==
    TypeOK /\ PlacesInv /\ PlanInv /\ RequestInv /\ OneWorker /\ ListedInv

\* The worker runs, and nobody has cancelled it.
Active(x) == x.step # "off" /\ x.cancel = "no"

\* What becomes of the requests when worker s of n goes on: the others' are kept or
\* answered, and nothing waits for its own any more.
Forgets(n, s) ==
    /\ requests' \subseteq Requests
    /\ \A q \in requests' :
         /\ \E r \in requests : q.from = r.from /\ q.preset = r.preset
         /\ q.live => q \in requests /\ ~(q.by = n /\ q.slot = s)

LEMMA ForgetsKeep ==
  ASSUME TypeOK, RequestInv, NEW n \in Connectors, NEW s \in Slots, UNCHANGED requests,
         worker[n][s].step # "answer"
  PROVE  Forgets(n, s)
  BY DEF TypeOK, RequestInv, Served, Forgets

LEMMA ForgetsAbandon ==
  ASSUME TypeOK, NEW n \in Connectors, NEW s \in Slots, Abandon(n, s)
  PROVE  Forgets(n, s)
<1> SUFFICES ASSUME NEW q \in requests'
             PROVE  /\ q \in Requests
                    /\ \E r \in requests : q.from = r.from /\ q.preset = r.preset
                    /\ q.live => q \in requests /\ ~(q.by = n /\ q.slot = s)
  BY DEF Forgets
<1>1. PICK r \in requests :
        q = IF r.by = n /\ r.slot = s THEN [r EXCEPT !.live = FALSE] ELSE r
  BY DEF Abandon
<1>2. r \in Requests
  BY DEF TypeOK
<1>3. QED BY <1>1, <1>2 DEF Requests

LEMMA ForgetsAnswered ==
  ASSUME TypeOK, RequestInv, NEW q \in requests, q.live, requests' = requests \ {q}
  PROVE  Forgets(q.by, q.slot)
  BY DEF TypeOK, RequestInv, SameWorker, Forgets

\* A worker goes on, to a state that is consistent by itself.
LEMMA Advance ==
  ASSUME IInv, NEW n \in Connectors, NEW s \in Slots, NEW y \in WorkerStates,
         worker' \in [Connectors -> [Slots -> WorkerStates]], Becomes(n, s, y),
         Active(y) <=> Active(worker[n][s]), y.step # "answer", Planned(y),
         Forgets(n, s), UNCHANGED <<registry, supervisor, loaded, data, edits>>,
         borrowed' = borrowed + PlaceOf(y) - PlaceOf(worker[n][s]), borrowed' <= Capacity,
         resolved' \in [Connectors -> {"unlisted", "unproven", "ok", "failed"}],
         \A m \in Connectors : resolved'[m] = "unlisted" => resolved[m] = "unlisted",
         accepted' \in [Presets -> Nat], \A p \in Presets : accepted'[p] <= data[p],
         faults' \in Nat
  PROVE  IInv'
<1>1. PlacesInv' /\ borrowed' \in Nat
  BY MovePlace DEF IInv
<1>2. requests' \in SUBSET Requests
  BY DEF Forgets
<1>3. borrowed' \in 0..Capacity
  BY <1>1, RunnerAssumption
<1>4. TypeOK'
  BY <1>2, <1>3 DEF IInv, TypeOK
<1>5. PlanInv'
  BY DEF IInv, PlanInv, Planned, Becomes
<1>6. RequestInv'
  <2>1. ASSUME NEW q \in requests' PROVE Served(q)'
    <3>1. q \in Requests
      BY <1>2
    <3>2. q.from < data'[q.preset]
      BY <2>1 DEF IInv, RequestInv, Served, Forgets
    <3>3. ASSUME q.live
          PROVE  worker'[q.by][q.slot] = worker[q.by][q.slot] /\ q \in requests
      BY <2>1, <3>1, <3>3 DEF Forgets, Becomes, Requests
    <3>4. QED BY <3>2, <3>3 DEF IInv, RequestInv, Served
  <2>2. ASSUME NEW q \in requests', NEW r \in requests', q.live, r.live, SameWorker(q, r)
        PROVE  q = r
    BY <2>2 DEF IInv, RequestInv, Forgets
  <2>3. QED BY <2>1, <2>2 DEF RequestInv
<1>7. OneWorker'
  BY DEF IInv, OneWorker, Active, Becomes
<1>8. ListedInv'
  BY DEF IInv, ListedInv
<1>9. QED BY <1>1, <1>4, <1>5, <1>6, <1>7, <1>8 DEF IInv

\* A worker at a step of its own goes on to x, and a cancellation reaches it there.
LEMMA GoAdvance ==
  ASSUME IInv, NEW n \in Connectors, NEW s \in Slots, NEW x \in WorkerStates, Go(n, s, x),
         worker[n][s].step \notin {"off", "answer"}, x.cancel = worker[n][s].cancel,
         x.step \notin {"off", "answer"}, Planned(x),
         UNCHANGED <<registry, supervisor, loaded, data, engine, edits, faults>>,
         borrowed' = borrowed + PlaceOf(x) - PlaceOf(worker[n][s]), borrowed' <= Capacity,
         resolved' \in [Connectors -> {"unlisted", "unproven", "ok", "failed"}],
         \A m \in Connectors : resolved'[m] = "unlisted" => resolved[m] = "unlisted"
  PROVE  IInv'
<1> DEFINE y == Landed(x)
<1>1. /\ y \in WorkerStates /\ y.step = x.step /\ y.plan = x.plan /\ y.from = x.from
      /\ y.cancel = "no" <=> x.cancel = "no"
  BY LandedType
<1>2. worker' \in [Connectors -> [Slots -> WorkerStates]] /\ Becomes(n, s, y)
  BY GoWorker DEF IInv
<1> HIDE DEF y
<1>3. Active(y) <=> Active(worker[n][s])
  BY <1>1 DEF Active
<1>4. Planned(y) /\ PlaceOf(y) = PlaceOf(x)
  BY <1>1 DEF Planned, PlaceOf
<1>5. Forgets(n, s)
  BY ForgetsKeep DEF IInv
<1>6. accepted' \in [Presets -> Nat] /\ \A p \in Presets : accepted'[p] <= data[p]
  BY DEF IInv, TypeOK
<1>7. faults' \in Nat
  BY DEF IInv, TypeOK
<1>8. QED BY <1>1, <1>2, <1>3, <1>4, <1>5, <1>6, <1>7, Advance

--------------------------------------------------------------------------------
(* One step of a worker *)

LEMMA NoteType ==
  ASSUME TypeOK, NEW n \in Connectors, NEW outcome, Note(n, outcome),
         outcome \in {resolved[n], "ok", "failed"}
  PROVE  /\ resolved' \in [Connectors -> {"unlisted", "unproven", "ok", "failed"}]
         /\ \A m \in Connectors : resolved'[m] = "unlisted" => resolved[m] = "unlisted"
         /\ UNCHANGED loaded
  BY DEF TypeOK, Note

LEMMA KeptResolved ==
  ASSUME TypeOK, UNCHANGED resolved
  PROVE  /\ resolved' \in [Connectors -> {"unlisted", "unproven", "ok", "failed"}]
         /\ \A m \in Connectors : resolved'[m] = "unlisted" => resolved[m] = "unlisted"
  BY DEF TypeOK

\* A stream starts at the engine's checkpoint, which the source has.
LEMMA StartPlanned ==
  ASSUME TypeOK, NEW plan \in SUBSET Presets, plan # {}
  PROVE  accepted[Min(plan)] \in Nat /\ accepted[Min(plan)] <= data[Min(plan)]
  BY LeastPreset DEF TypeOK

LEMMA OwnSteps ==
  ASSUME IInv, NEW n \in Connectors, NEW s \in Slots,
         \/ Connect(n, s) \/ Borrow(n, s) \/ StartStream(n, s) \/ EndCycle(n, s)
         \/ Retry(n, s) \/ Watch(n, s) \/ Follow(n, s) \/ Scheduled(n, s)
  PROVE  IInv'
<1> DEFINE x == worker[n][s]
<1>0. /\ x \in WorkerStates /\ TypeOK /\ borrowed \in 0..Capacity /\ Capacity \in Nat
      /\ PresetsOf(n) \in SUBSET Presets
  BY RunnerAssumption DEF IInv, TypeOK, PresetsOf
<1>f. "step" \in DOMAIN x /\ "cancel" \in DOMAIN x
  BY <1>0 DEF WorkerStates
<1>1. CASE Connect(n, s)
  <2> DEFINE y == [x EXCEPT !.step = "queue", !.plan = FullPlan(n)]
  <2>1. y \in WorkerStates
    BY <1>0, NextStates DEF FullPlan
  <2>2. y.step = "queue" /\ y.cancel = x.cancel /\ x.step = "connect"
    BY <1>1, <1>0 DEF Connect, At, WorkerStates
  <2>3. Go(n, s, y) /\ Note(n, "ok")
    BY <1>1 DEF Connect
  <2> HIDE DEF y
  <2>4. borrowed' = borrowed + PlaceOf(y) - PlaceOf(x)
    BY <1>0, <1>1, <2>2 DEF Connect, PlaceOf, Inside
  <2>5. UNCHANGED <<registry, supervisor, loaded, data, engine, edits, faults, borrowed>>
    BY <1>1 DEF Connect, Note
  <2>6. QED BY <1>0, <2>1, <2>2, <2>3, <2>4, <2>5, NoteType, GoAdvance DEF Planned
<1>2. CASE Borrow(n, s)
  <2> DEFINE y == [x EXCEPT !.step = "cycle"]
  <2>1. y \in WorkerStates
    BY <1>0, NextStates
  <2>2. y.step = "cycle" /\ y.cancel = x.cancel /\ x.step = "queue"
    BY <1>2, <1>0 DEF Borrow, At, WorkerStates
  <2>3. Go(n, s, y) /\ UNCHANGED <<registry, supervisor, health, data, engine, edits, faults>>
    BY <1>2 DEF Borrow
  <2> HIDE DEF y
  <2>4. borrowed' = borrowed + PlaceOf(y) - PlaceOf(x) /\ borrowed' <= Capacity
    BY <1>0, <1>2, <2>2 DEF Borrow, PlaceOf, Inside
  <2>5. QED BY <1>0, <2>1, <2>2, <2>3, <2>4, KeptResolved, GoAdvance DEF Planned
<1>3. CASE StartStream(n, s)
  <2> DEFINE y == [x EXCEPT !.step = "extract", !.pages = 0, !.from = accepted[Min(x.plan)]]
  <2>0. x.plan \in SUBSET Presets /\ x.plan # {}
    BY <1>0, <1>3 DEF StartStream, WorkerStates
  <2>1. y \in WorkerStates
    BY <1>0, <2>0, StartPlanned, NextStates
  <2>2. /\ y.step = "extract" /\ y.cancel = x.cancel /\ x.step = "cycle"
        /\ y.plan = x.plan /\ y.from = accepted[Min(x.plan)]
    BY <1>3, <1>0 DEF StartStream, At, WorkerStates
  <2>3. Go(n, s, y) /\ UNCHANGED <<registry, supervisor, borrowed, health, data, engine, edits, faults>>
    BY <1>3 DEF StartStream
  <2> HIDE DEF y
  <2>4. borrowed' = borrowed + PlaceOf(y) - PlaceOf(x) /\ borrowed' <= Capacity
    BY <1>0, <2>2, <2>3 DEF PlaceOf, Inside
  <2>5. Planned(y)
    BY <1>0, <2>0, <2>2, StartPlanned DEF Planned
  <2>6. QED BY <1>0, <2>1, <2>2, <2>3, <2>4, <2>5, KeptResolved, GoAdvance
<1>4. CASE EndCycle(n, s)
  <2> DEFINE y == [x EXCEPT !.step = IF x.watching THEN "wait" ELSE "watch"]
  <2>1. y \in WorkerStates
    BY <1>0, NextStates
  <2>2. y.step \in {"wait", "watch"} /\ y.cancel = x.cancel /\ x.step = "cycle"
    BY <1>4, <1>0 DEF EndCycle, At, WorkerStates
  <2>3. Go(n, s, y) /\ UNCHANGED <<registry, supervisor, health, data, engine, edits, faults>>
    BY <1>4 DEF EndCycle
  <2> HIDE DEF y
  <2>4. borrowed' = borrowed + PlaceOf(y) - PlaceOf(x) /\ borrowed' <= Capacity
    BY <1>0, <1>4, <2>2 DEF EndCycle, PlaceOf, Inside
  <2>5. QED BY <1>0, <2>1, <2>2, <2>3, <2>4, KeptResolved, GoAdvance DEF Planned
<1>5. ASSUME NEW y \in WorkerStates, y.cancel = x.cancel,
             y.step \in {"connect", "wait", "queue"}, x.step \in {"backoff", "watch", "wait"},
             Go(n, s, y),
             UNCHANGED <<registry, supervisor, borrowed, health, data, engine, edits, faults>>
      PROVE  IInv'
  <2>1. borrowed' = borrowed + PlaceOf(y) - PlaceOf(x) /\ borrowed' <= Capacity
    BY <1>0, <1>5 DEF PlaceOf, Inside
  <2>2. QED BY <1>0, <1>5, <2>1, KeptResolved, GoAdvance DEF Planned
<1>6. CASE Retry(n, s)
  <2> DEFINE y == [x EXCEPT !.step = "connect"]
  <2>1. y \in WorkerStates
    BY <1>0, NextStates
  <2>2. y.step = "connect" /\ y.cancel = x.cancel /\ x.step = "backoff"
    BY <1>0, <1>6 DEF Retry, At, WorkerStates
  <2>3. /\ Go(n, s, y)
        /\ UNCHANGED <<registry, supervisor, borrowed, health, data, engine, edits, faults>>
    BY <1>6 DEF Retry
  <2>4. QED BY <1>5, <2>1, <2>2, <2>3
<1>7. CASE Watch(n, s)
  <2> DEFINE y == [x EXCEPT !.step = "wait", !.watching = TRUE]
  <2>1. y \in WorkerStates
    BY <1>0, NextStates
  <2>2. y.step = "wait" /\ y.cancel = x.cancel /\ x.step = "watch"
    BY <1>0, <1>7 DEF Watch, At, WorkerStates
  <2>3. /\ Go(n, s, y)
        /\ UNCHANGED <<registry, supervisor, borrowed, health, data, engine, edits, faults>>
    BY <1>7 DEF Watch
  <2>4. QED BY <1>5, <2>1, <2>2, <2>3
<1>8. CASE Follow(n, s)
  <2> DEFINE y == [x EXCEPT !.step = "queue", !.pending = {},
                            !.plan = ChangePlan(n, x.pending)]
  <2>1. ChangePlan(n, x.pending) \in SUBSET Presets
    BY <1>0 DEF ChangePlan
  <2>2. y \in WorkerStates
    BY <1>0, <2>1, NextStates
  <2>3. y.step = "queue" /\ y.cancel = x.cancel /\ x.step = "wait"
    BY <1>0, <1>8 DEF Follow, At, WorkerStates
  <2>4. /\ Go(n, s, y)
        /\ UNCHANGED <<registry, supervisor, borrowed, health, data, engine, edits, faults>>
    BY <1>8 DEF Follow
  <2>5. QED BY <1>5, <2>2, <2>3, <2>4
<1>9. CASE Scheduled(n, s)
  <2> DEFINE y == [x EXCEPT !.step = "queue", !.plan = FullPlan(n)]
  <2>1. y \in WorkerStates
    BY <1>0, NextStates DEF FullPlan
  <2>2. y.step = "queue" /\ y.cancel = x.cancel /\ x.step = "wait"
    BY <1>0, <1>9 DEF Scheduled, At, WorkerStates
  <2>3. /\ Go(n, s, y)
        /\ UNCHANGED <<registry, supervisor, borrowed, health, data, engine, edits, faults>>
    BY <1>9 DEF Scheduled
  <2>4. QED BY <1>5, <2>1, <2>2, <2>3
<1>10. QED BY <1>1, <1>2, <1>3, <1>4, <1>6, <1>7, <1>8, <1>9

\* The next page is asked for, or the stream has none.
LEMMA ExtractStep ==
  ASSUME IInv, NEW n \in Connectors, NEW s \in Slots, Extract(n, s)
  PROVE  IInv'
<1> DEFINE x == worker[n][s]
           p == Min(x.plan)
<1>0. /\ x \in WorkerStates /\ TypeOK /\ borrowed \in 0..Capacity /\ Capacity \in Nat
      /\ x.step = "extract" /\ x.plan # {} /\ x.from <= data[p]
  BY RunnerAssumption DEF IInv, TypeOK, Extract, At, PlanInv, Planned
<1>1. p \in Presets /\ x.from \in Nat /\ data[p] \in Nat
  BY <1>0, LeastPreset DEF WorkerStates, TypeOK
<1>2. CASE NoNews(p, x.from) /\ Go(n, s, StreamDone(x)) /\ UNCHANGED requests
  <2> DEFINE y == StreamDone(x)
  <2>1. y \in WorkerStates /\ y.step = "cycle" /\ y.cancel = x.cancel
    <3>1. StreamDone(x) \in WorkerStates
      BY <1>0, NextStates
    <3>2. \A w \in WorkerStates : StreamDone(w).step = "cycle" /\ StreamDone(w).cancel = w.cancel
      BY DEF StreamDone, WorkerStates
    <3>3. QED BY <1>0, <3>1, <3>2
  <2>2. UNCHANGED <<registry, supervisor, borrowed, health, data, engine, edits, faults>>
    BY <1>2 DEF Extract
  <2> HIDE DEF y
  <2>3. borrowed' = borrowed + PlaceOf(y) - PlaceOf(x) /\ borrowed' <= Capacity
    BY <1>0, <2>1, <2>2 DEF PlaceOf, Inside
  <2>4. Go(n, s, y)
    BY <1>2 DEF y
  <2>5. QED BY <1>0, <2>1, <2>2, <2>3, <2>4, KeptResolved, GoAdvance DEF Planned
<1>3. CASE /\ ~NoNews(p, x.from) /\ requests' = requests \cup {PageRequest(n, s, p)}
           /\ Go(n, s, [x EXCEPT !.step = "answer"])
  <2> DEFINE y == Landed([x EXCEPT !.step = "answer"])
  <2>n. PICK new : new = PageRequest(n, s, p)
    OBVIOUS
  <2>1. [x EXCEPT !.step = "answer"] \in WorkerStates
    BY <1>0, NextStates
  <2>2. /\ y \in WorkerStates /\ y.step = "answer" /\ y.plan = x.plan /\ y.from = x.from
        /\ y.cancel = "no" <=> x.cancel = "no"
    BY <1>0, <2>1, LandedType DEF WorkerStates
  <2>3. worker' \in [Connectors -> [Slots -> WorkerStates]] /\ Becomes(n, s, y)
    BY <1>0, <1>3, <2>1, GoWorker
  <2>4. /\ new \in Requests /\ new.by = n /\ new.slot = s /\ new.preset = p
        /\ new.from = x.from /\ new.live
    BY <1>1, <2>n DEF PageRequest, Requests
  <2>5. UNCHANGED <<registry, supervisor, borrowed, health, data, accepted, edits, faults>>
    BY <1>3 DEF Extract
  <2> HIDE DEF y
  <2>6. requests' = requests \cup {new}
    BY <1>3, <2>n
  <2>7. TypeOK'
    BY <1>0, <2>3, <2>4, <2>5, <2>6 DEF TypeOK
  <2>8. PlacesInv'
    BY <1>0, <2>2, <2>3, <2>5, MovePlace DEF IInv, PlaceOf, Inside, TypeOK
  <2>9. PlanInv'
    BY <1>0, <2>2, <2>3, <2>5 DEF IInv, PlanInv, Planned, Becomes
  <2>10. x.from < data[p]
    BY <1>0, <1>1, <1>3 DEF NoNews
  <2>11. \A q \in requests : q.live => ~(q.by = n /\ q.slot = s)
    BY <1>0 DEF IInv, RequestInv, Served
  <2>12. Served(new)'
    BY <2>2, <2>3, <2>4, <2>5, <2>10 DEF Served, Becomes
  <2>13. \A q \in requests : Served(q)'
    BY <1>0, <2>3, <2>5, <2>11 DEF IInv, TypeOK, RequestInv, Served, Becomes, Requests
  <2>14. RequestInv'
    BY <2>4, <2>6, <2>11, <2>12, <2>13 DEF IInv, RequestInv, SameWorker
  <2>15. OneWorker' /\ ListedInv'
    BY <1>0, <2>2, <2>3, <2>5 DEF IInv, OneWorker, ListedInv, Becomes
  <2>16. QED BY <2>7, <2>8, <2>9, <2>14, <2>15 DEF IInv
<1>4. QED BY <1>2, <1>3 DEF Extract

\* A page is accepted or rejected, and its worker hears of it.
LEMMA AnswerStep ==
  ASSUME IInv, NEW n \in Connectors, NEW s \in Slots, Answer(n, s)
  PROVE  IInv'
<1> PICK q \in requests : q.by = n /\ q.slot = s /\ q.live /\ (Accept(q) \/ Reject(q))
  BY DEF Answer
<1> DEFINE x == worker[n][s]
<1>0. /\ x \in WorkerStates /\ TypeOK /\ borrowed \in 0..Capacity /\ Capacity \in Nat
      /\ x.step = "answer" /\ x.from = q.from /\ q.preset = Min(x.plan)
      /\ x.plan # {} /\ q.from < data[q.preset] /\ x.from \in Nat
      /\ q.preset \in Presets /\ data[q.preset] \in Nat
  <2>1. TypeOK /\ borrowed \in 0..Capacity /\ Capacity \in Nat /\ x \in WorkerStates
    BY RunnerAssumption DEF IInv, TypeOK
  <2>2. /\ q.from < data[q.preset] /\ x.step = "answer" /\ x.from = q.from
        /\ q.preset = Min(x.plan)
    BY DEF IInv, RequestInv, Served
  <2>3. x.plan # {}
    BY <2>2 DEF IInv, PlanInv, Planned
  <2>4. q \in Requests
    BY <2>1 DEF TypeOK
  <2>5. q.preset \in Presets /\ q.from \in Nat
    BY <2>4 DEF Requests
  <2>6. QED BY <2>1, <2>2, <2>3, <2>5 DEF TypeOK
<1>1. requests' = requests \ {q}
  BY DEF Accept, Reject
<1>2. Forgets(n, s)
  BY <1>1, ForgetsAnswered DEF IInv
<1>3. CASE Accept(q)
  <2> DEFINE z == Received(q, x)
             y == Landed(z)
  <2>1. /\ z \in WorkerStates /\ z.cancel = x.cancel /\ z.step \in {"cycle", "extract"}
        /\ z.step = "extract" => z.plan = x.plan /\ z.from = q.from + 1
    <3>1. CASE q.last
      <4>1. z = StreamDone(x)
        BY <3>1 DEF Received
      <4>2. StreamDone(x) \in WorkerStates
        BY <1>0, NextStates
      <4>3. StreamDone(x).cancel = x.cancel /\ StreamDone(x).step = "cycle"
        BY <1>0 DEF StreamDone, WorkerStates
      <4> HIDE DEF z
      <4>4. QED BY <4>1, <4>2, <4>3
    <3>2. CASE ~q.last
      <4>1. z = [x EXCEPT !.step = "extract", !.from = @ + 1, !.pages = @ + 1]
        BY <3>2 DEF Received
      <4> HIDE DEF z
      <4>2. z \in WorkerStates
        <5>1. [x EXCEPT !.step = "extract", !.from = @ + 1, !.pages = @ + 1] \in WorkerStates
          BY <1>0, NextStates
        <5>2. QED BY <4>1, <5>1, Zenon
      <4>3. /\ z.cancel = x.cancel /\ z.step = "extract"
            /\ z.plan = x.plan /\ z.from = x.from + 1
        BY <1>0, <4>1 DEF WorkerStates
      <4>4. QED BY <1>0, <4>2, <4>3
    <3>3. QED BY <3>1, <3>2
  <2>2. Go(n, s, z)
    BY <1>3 DEF Accept
  <2> HIDE DEF z
  <2>3. /\ y \in WorkerStates /\ y.step = z.step /\ y.plan = z.plan /\ y.from = z.from
        /\ y.cancel = "no" <=> x.cancel = "no"
    BY <2>1, LandedType
  <2>4. worker' \in [Connectors -> [Slots -> WorkerStates]] /\ Becomes(n, s, y)
    BY <1>0, <2>1, <2>2, GoWorker
  <2> HIDE DEF y
  <2>5. Planned(y)
    BY <1>0, <2>1, <2>3 DEF Planned
  <2>6. Active(y) <=> Active(x)
    BY <1>0, <2>1, <2>3 DEF Active
  <2>7. UNCHANGED <<registry, supervisor, borrowed, health, data, edits, faults>>
    BY <1>3 DEF Accept
  <2>8. borrowed' = borrowed + PlaceOf(y) - PlaceOf(x) /\ borrowed' <= Capacity
    BY <1>0, <2>1, <2>3, <2>7 DEF PlaceOf, Inside
  <2>9. accepted' \in [Presets -> Nat] /\ \A p \in Presets : accepted'[p] <= data[p]
    <3>1. accepted' = [accepted EXCEPT ![q.preset] = q.from + 1]
      BY <1>3 DEF Accept
    <3>2. q.from + 1 \in Nat /\ q.from + 1 <= data[q.preset]
      BY <1>0
    <3>3. QED BY <1>0, <3>1, <3>2 DEF TypeOK
  <2>10. faults' \in Nat
    BY <2>7 DEF IInv, TypeOK
  <2>11. QED
    BY <1>0, <1>2, <2>1, <2>3, <2>4, <2>5, <2>6, <2>7, <2>8, <2>9, <2>10,
       KeptResolved, Advance
<1>4. CASE Reject(q)
  <2> DEFINE z == [Off EXCEPT !.step = "backoff", !.desc = x.desc, !.cancel = x.cancel]
             y == Landed(z)
  <2>1. z \in WorkerStates /\ z.cancel = x.cancel /\ z.step = "backoff"
    BY <1>0, NextStates DEF Off
  <2>2. Go(n, s, z)
    BY <1>4 DEF Reject, Fails
  <2> HIDE DEF z
  <2>3. y \in WorkerStates /\ y.step = "backoff" /\ (y.cancel = "no" <=> x.cancel = "no")
    BY <2>1, LandedType
  <2>4. worker' \in [Connectors -> [Slots -> WorkerStates]] /\ Becomes(n, s, y)
    BY <1>0, <2>1, <2>2, GoWorker
  <2> HIDE DEF y
  <2>5. Planned(y) /\ (Active(y) <=> Active(x))
    BY <1>0, <2>3 DEF Planned, Active
  <2>6. /\ UNCHANGED <<registry, supervisor, health, data, accepted, edits, faults>>
        /\ Return(n, s)
    BY <1>4 DEF Reject
  <2>7. borrowed' = borrowed + PlaceOf(y) - PlaceOf(x) /\ borrowed' <= Capacity
    BY <1>0, <2>3, <2>6 DEF PlaceOf, Inside, Return
  <2>8. /\ accepted' \in [Presets -> Nat] /\ \A p \in Presets : accepted'[p] <= data[p]
        /\ faults' \in Nat
    BY <1>0, <2>6 DEF TypeOK
  <2>9. QED
    BY <1>0, <1>2, <2>3, <2>4, <2>5, <2>6, <2>7, <2>8, KeptResolved, Advance
<1>5. QED BY <1>3, <1>4

\* A worker fails, or unwinds after it was cancelled: it gives its place back and
\* waits for no answer.
LEMMA EndStep ==
  ASSUME IInv, NEW n \in Connectors, NEW s \in Slots, Fail(n, s) \/ Unwind(n, s)
  PROVE  IInv'
<1> DEFINE x == worker[n][s]
<1>0. /\ x \in WorkerStates /\ TypeOK /\ borrowed \in 0..Capacity /\ Capacity \in Nat
  BY RunnerAssumption DEF IInv, TypeOK
<1>1. /\ Return(n, s) /\ Abandon(n, s)
      /\ UNCHANGED <<registry, supervisor, data, accepted, edits>>
  BY DEF Fail, Unwind
<1>2. Forgets(n, s)
  BY <1>0, <1>1, ForgetsAbandon
<1>3. /\ accepted' \in [Presets -> Nat] /\ \A p \in Presets : accepted'[p] <= data[p]
      /\ faults' \in Nat
  BY <1>0, <1>1 DEF TypeOK, Fail, Unwind, Fault
<1>4. /\ resolved' \in [Connectors -> {"unlisted", "unproven", "ok", "failed"}]
      /\ \A m \in Connectors : resolved'[m] = "unlisted" => resolved[m] = "unlisted"
      /\ UNCHANGED loaded
  BY <1>0, NoteType, KeptResolved DEF Fail, Unwind, ConnectFails
<1>5. ASSUME NEW y \in WorkerStates, y.step \in {"off", "backoff"},
             worker' \in [Connectors -> [Slots -> WorkerStates]], Becomes(n, s, y),
             Active(y) <=> Active(x)
      PROVE  IInv'
  <2>1. Planned(y)
    BY <1>5 DEF Planned
  <2>2. PlaceOf(y) = 0 /\ PlaceOf(x) \in {0, 1} /\ (PlaceOf(x) = 1 <=> x.step \in Inside)
    BY <1>5 DEF PlaceOf, Inside
  <2>3. borrowed' = borrowed + PlaceOf(y) - PlaceOf(x) /\ borrowed' <= Capacity
    BY <1>0, <1>1, <2>2 DEF Return
  <2>4. QED BY <1>1, <1>2, <1>3, <1>4, <1>5, <2>1, <2>3, Advance
<1>6. CASE Fail(n, s)
  <2> DEFINE z == [Off EXCEPT !.step = "backoff", !.desc = x.desc, !.cancel = x.cancel]
  <2>1. z \in WorkerStates /\ z.cancel = x.cancel /\ z.step = "backoff"
    BY <1>0, NextStates DEF Off
  <2>2. Go(n, s, z) /\ x.step # "off"
    BY <1>6 DEF Fail, Fails
  <2> HIDE DEF z
  <2>3. /\ Landed(z) \in WorkerStates /\ Landed(z).step = "backoff"
        /\ Landed(z).cancel = "no" <=> x.cancel = "no"
    BY <2>1, LandedType
  <2>4. QED BY <1>0, <1>5, <2>1, <2>2, <2>3, GoWorker DEF Active
<1>7. CASE Unwind(n, s)
  <2>1. worker' = [worker EXCEPT ![n][s] = Off] /\ x.cancel # "no"
    BY <1>7 DEF Unwind
  <2>2. QED BY <1>0, <1>5, <2>1, OffType, PutWorker DEF Active
<1>8. QED BY <1>6, <1>7

--------------------------------------------------------------------------------
(* The supervisor, the sources and late pages *)

\* Nothing that IInv relates changes, except in the ways listed.
LEMMA OutsideStep ==
  ASSUME IInv, TypeOK', UNCHANGED <<worker, running, borrowed>>,
         \A m \in Connectors : wanted'[m] # None => resolved'[m] # "unlisted",
         requests' \subseteq requests, \A p \in Presets : data'[p] = data[p]
  PROVE  IInv'
<1>1. PlacesInv'
  BY KeepPlaces DEF IInv
<1>2. PlanInv'
  <2> SUFFICES ASSUME NEW n \in Connectors, NEW s \in Slots PROVE Planned(worker[n][s])'
    BY DEF PlanInv
  <2>1. Planned(worker[n][s]) /\ worker[n][s] \in WorkerStates
    BY DEF IInv, PlanInv, TypeOK
  <2>2. worker[n][s].plan \in SUBSET Presets
    BY <2>1 DEF WorkerStates
  <2>3. QED BY <2>1, <2>2, LeastPreset DEF Planned
<1>3. RequestInv'
  <2>1. ASSUME NEW q \in requests' PROVE Served(q)'
    <3>1. q.preset \in Presets /\ Served(q)
      BY DEF IInv, TypeOK, Requests, RequestInv
    <3>2. QED BY <3>1 DEF Served
  <2>2. QED BY <2>1 DEF IInv, RequestInv
<1>4. OneWorker' /\ ListedInv'
  BY DEF IInv, OneWorker, ListedInv
<1>5. QED BY <1>1, <1>2, <1>3, <1>4 DEF IInv

LEMMA EditStep ==
  ASSUME IInv, NEW n \in Connectors, Edit(n)
  PROVE  IInv'
<1>1. PICK d \in Descriptors \cup {None} : registry' = [registry EXCEPT ![n] = d]
  BY DEF Edit
<1>2. /\ UNCHANGED <<supervisor, worker, borrowed, health, data, engine, faults>>
      /\ edits' \in Nat
  BY DEF Edit, IInv, TypeOK
<1>3. TypeOK'
  BY <1>1, <1>2 DEF IInv, TypeOK
<1>4. QED BY <1>2, <1>3, OutsideStep DEF IInv, ListedInv

\* The source has a new page; sessions that watch it hear of it.
LEMMA ChangeStep ==
  ASSUME IInv, NEW p \in Presets, Change(p)
  PROVE  IInv'
<1>1. /\ data[p] < MaxData[p] /\ data' = [data EXCEPT ![p] = data[p] + 1]
      /\ UNCHANGED <<registry, supervisor, borrowed, health, engine, edits, faults>>
  BY DEF Change
<1>2. TypeOK /\ OwnerOf[p] \in Connectors
  BY RunnerAssumption DEF IInv
<1>3. \A r \in Presets : data'[r] \in Nat /\ data[r] <= data'[r] /\ data'[r] <= MaxData[r]
  BY <1>1, <1>2, RunnerAssumption DEF TypeOK
<1>4. \A x \in WorkerStates : [x EXCEPT !.pending = x.pending \cup {p}] \in WorkerStates
  BY DEF WorkerStates
<1>5. \A n \in Connectors, s \in Slots :
        /\ worker'[n][s] \in WorkerStates
        /\ worker'[n][s] = worker[n][s]
           \/ worker'[n][s] = [worker[n][s] EXCEPT !.pending = worker[n][s].pending \cup {p}]
  <2> SUFFICES ASSUME NEW n \in Connectors, NEW s \in Slots
               PROVE  /\ worker'[n][s] \in WorkerStates
                      /\ \/ worker'[n][s] = worker[n][s]
                         \/ worker'[n][s] = [worker[n][s] EXCEPT
                                               !.pending = worker[n][s].pending \cup {p}]
    OBVIOUS
  <2>1. worker[n][s] \in WorkerStates
    BY <1>2 DEF TypeOK
  <2>2. worker'[n][s] = worker[n][s]
        \/ worker'[n][s] = [worker[n][s] EXCEPT !.pending = worker[n][s].pending \cup {p}]
    <3>1. CASE n = OwnerOf[p]
      <4>1. worker'[n][s] = Hears(worker[n][s], p)
        BY <1>2, <3>1 DEF Change, TypeOK
      <4>2. QED BY <4>1, Zenon DEF Hears
    <3>2. CASE n # OwnerOf[p]
      BY <1>2, <3>2 DEF Change, TypeOK
    <3>3. QED BY <3>1, <3>2
  <2>3. QED BY <2>1, <2>2, <1>4
<1>6. worker' \in [Connectors -> [Slots -> WorkerStates]]
  <2>1. worker' = [worker EXCEPT ![OwnerOf[p]] = worker'[OwnerOf[p]]]
    BY <1>2 DEF Change, TypeOK
  <2>2. worker'[OwnerOf[p]] \in [Slots -> WorkerStates]
    <3>1. worker'[OwnerOf[p]] = [s \in Slots |-> worker'[OwnerOf[p]][s]]
      BY <1>2 DEF Change, TypeOK
    <3>2. QED BY <3>1, <1>2, <1>5
  <2>3. QED BY <2>1, <2>2, <1>2 DEF TypeOK
<1>7. \A n \in Connectors, s \in Slots :
        /\ worker'[n][s].step = worker[n][s].step /\ worker'[n][s].plan = worker[n][s].plan
        /\ worker'[n][s].from = worker[n][s].from
        /\ worker'[n][s].cancel = worker[n][s].cancel
  <2>1. ASSUME NEW x \in WorkerStates, NEW pending
        PROVE  LET y == [x EXCEPT !.pending = pending] IN
               /\ y.step = x.step /\ y.plan = x.plan /\ y.from = x.from
               /\ y.cancel = x.cancel
    BY DEF WorkerStates
  <2>2. \A n \in Connectors, s \in Slots : worker[n][s] \in WorkerStates
    BY <1>2 DEF TypeOK
  <2> SUFFICES ASSUME NEW n \in Connectors, NEW s \in Slots
               PROVE  /\ worker'[n][s].step = worker[n][s].step
                      /\ worker'[n][s].plan = worker[n][s].plan
                      /\ worker'[n][s].from = worker[n][s].from
                      /\ worker'[n][s].cancel = worker[n][s].cancel
    OBVIOUS
  <2>3. CASE worker'[n][s] = worker[n][s]
    BY <2>3
  <2>4. CASE worker'[n][s] = [worker[n][s] EXCEPT !.pending = worker[n][s].pending \cup {p}]
    BY <2>1, <2>2, <2>4
  <2>5. QED BY <1>5, <2>3, <2>4
<1>8. TypeOK'
  <2>1. data' \in [Presets -> Nat]
    BY <1>1, <1>2, <1>3 DEF TypeOK
  <2>2. \A r \in Presets : accepted'[r] <= data'[r] /\ data'[r] <= MaxData[r]
    BY <1>1, <1>2, <1>3 DEF TypeOK
  <2>3. QED BY <1>1, <1>2, <1>6, <2>1, <2>2 DEF TypeOK
<1>9. PlacesInv'
  BY <1>1, <1>7, KeepPlaces DEF IInv
<1>10. PlanInv'
  <2> SUFFICES ASSUME NEW n \in Connectors, NEW s \in Slots,
                      worker[n][s].step \in {"extract", "answer"}
               PROVE  /\ worker[n][s].plan # {}
                      /\ worker[n][s].from <= data'[Min(worker[n][s].plan)]
    BY <1>7 DEF PlanInv, Planned
  <2>1. /\ worker[n][s].plan # {} /\ worker[n][s].from <= data[Min(worker[n][s].plan)]
        /\ worker[n][s].plan \in SUBSET Presets /\ worker[n][s].from \in Nat
    BY <1>2 DEF IInv, PlanInv, Planned, TypeOK, WorkerStates
  <2>2. Min(worker[n][s].plan) \in Presets
    BY <2>1, LeastPreset
  <2>3. QED BY <2>1, <2>2, <1>2, <1>3 DEF TypeOK
<1>11. RequestInv'
  <2>1. ASSUME NEW q \in requests PROVE Served(q)'
    <3>1. /\ q.preset \in Presets /\ q.by \in Connectors /\ q.slot \in Slots /\ q.from \in Nat
          /\ Served(q)
      BY <1>2 DEF IInv, TypeOK, Requests, RequestInv
    <3>2. q.from < data'[q.preset]
      BY <3>1, <1>2, <1>3 DEF Served, TypeOK
    <3>3. QED BY <3>1, <3>2, <1>7 DEF Served
  <2>2. QED BY <1>1, <2>1 DEF IInv, RequestInv
<1>12. OneWorker' /\ ListedInv'
  BY <1>1, <1>7 DEF IInv, OneWorker, ListedInv
<1>13. QED BY <1>8, <1>9, <1>10, <1>11, <1>12 DEF IInv

\* Workers that are not wanted any more are cancelled and forgotten together.
LEMMA ReconcileStep ==
  ASSUME IInv, Reconcile
  PROVE  IInv'
<1>0. TypeOK /\ None \notin Slots
  BY RunnerAssumption DEF IInv
<1>1. \A n \in Connectors : running'[n] = IF Outdated(n) THEN None ELSE running[n]
  BY DEF Reconcile
<1>2. \A n \in Connectors, s \in Slots :
        worker'[n][s] = IF Outdated(n) /\ s = running[n]
                        THEN [worker[n][s] EXCEPT !.cancel = "asked"] ELSE worker[n][s]
  BY DEF Reconcile, Cancelled
<1>3. \A x \in WorkerStates : [x EXCEPT !.cancel = "asked"] \in WorkerStates
  BY DEF WorkerStates
<1>4. worker' \in [Connectors -> [Slots -> WorkerStates]]
  <2>1. ASSUME NEW n \in Connectors, NEW s \in Slots PROVE worker'[n][s] \in WorkerStates
    <3>1. worker[n][s] \in WorkerStates
      BY <1>0 DEF TypeOK
    <3>2. CASE Outdated(n) /\ s = running[n]
      <4>1. worker'[n][s] = [worker[n][s] EXCEPT !.cancel = "asked"]
        BY <1>2, <3>2
      <4>2. QED BY <1>3, <3>1, <4>1, Zenon
    <3>3. CASE ~(Outdated(n) /\ s = running[n])
      <4>1. worker'[n][s] = worker[n][s]
        BY <1>2, <3>3
      <4>2. QED BY <3>1, <4>1, Zenon
    <3>4. QED BY <3>2, <3>3
  <2>2. worker' = [n \in Connectors |-> [s \in Slots |-> worker'[n][s]]]
    BY DEF Reconcile
  <2>3. QED BY <2>1, <2>2
<1>5. \A n \in Connectors, s \in Slots :
        /\ worker'[n][s].step = worker[n][s].step /\ worker'[n][s].plan = worker[n][s].plan
        /\ worker'[n][s].from = worker[n][s].from
        /\ worker'[n][s].cancel = IF Outdated(n) /\ s = running[n]
                                  THEN "asked" ELSE worker[n][s].cancel
  <2>1. ASSUME NEW x \in WorkerStates
        PROVE  LET y == [x EXCEPT !.cancel = "asked"] IN
               /\ y.step = x.step /\ y.plan = x.plan /\ y.from = x.from
               /\ y.cancel = "asked"
    BY DEF WorkerStates
  <2> SUFFICES ASSUME NEW n \in Connectors, NEW s \in Slots
               PROVE  /\ worker'[n][s].step = worker[n][s].step
                      /\ worker'[n][s].plan = worker[n][s].plan
                      /\ worker'[n][s].from = worker[n][s].from
                      /\ worker'[n][s].cancel = IF Outdated(n) /\ s = running[n]
                                                THEN "asked" ELSE worker[n][s].cancel
    OBVIOUS
  <2>2. worker[n][s] \in WorkerStates
    BY <1>0 DEF TypeOK
  <2>3. CASE Outdated(n) /\ s = running[n]
    <3>1. worker'[n][s] = [worker[n][s] EXCEPT !.cancel = "asked"]
      BY <1>2, <2>3
    <3>2. QED BY <2>1, <2>2, <2>3, <3>1
  <2>4. CASE ~(Outdated(n) /\ s = running[n])
    <3>1. worker'[n][s] = worker[n][s]
      BY <1>2, <2>4
    <3>2. QED BY <2>4, <3>1
  <2>5. QED BY <2>3, <2>4
<1>6. UNCHANGED <<registry, borrowed, data, engine, edits, faults>>
  BY DEF Reconcile
<1>7. /\ resolved' \in [Connectors -> {"unlisted", "unproven", "ok", "failed"}]
      /\ \A n \in Connectors : wanted'[n] # None => resolved'[n] # "unlisted"
  BY <1>0 DEF Reconcile, SyncRegistry, TypeOK
<1>8. TypeOK'
  BY <1>0, <1>4, <1>6, <1>7 DEF Reconcile, TypeOK
<1>9. PlacesInv'
  BY <1>5, <1>6, KeepPlaces DEF IInv
<1>10. PlanInv'
  BY <1>5, <1>6 DEF IInv, PlanInv, Planned
<1>11. RequestInv'
  <2>1. ASSUME NEW q \in requests PROVE Served(q)'
    <3>1. q.by \in Connectors /\ q.slot \in Slots /\ Served(q)
      BY <1>0 DEF IInv, TypeOK, Requests, RequestInv
    <3>2. QED BY <3>1, <1>5, <1>6 DEF Served
  <2>2. QED BY <1>6, <2>1 DEF IInv, RequestInv
<1>12. OneWorker'
  BY <1>0, <1>1, <1>5 DEF IInv, OneWorker
<1>13. QED BY <1>7, <1>8, <1>9, <1>10, <1>11, <1>12 DEF IInv, ListedInv

LEMMA StartStep ==
  ASSUME IInv, NEW n \in Connectors, StartWorker(n)
  PROVE  IInv'
<1>1. PICK s \in Slots :
        /\ worker[n][s].step = "off" /\ running' = [running EXCEPT ![n] = s]
        /\ worker' = [worker EXCEPT ![n][s] =
                        [Off EXCEPT !.step = "connect", !.desc = wanted[n]]]
  BY DEF StartWorker
<1> DEFINE y == [Off EXCEPT !.step = "connect", !.desc = wanted[n]]
<1>2. TypeOK /\ None \notin Slots /\ running[n] = None
  BY RunnerAssumption DEF IInv, StartWorker
<1>3. y \in WorkerStates /\ y.step = "connect" /\ y.cancel = "no"
  BY <1>2 DEF TypeOK, Off, WorkerStates
<1>4. worker' = [worker EXCEPT ![n][s] = y]
  BY <1>1
<1> HIDE DEF y
<1>5. worker' \in [Connectors -> [Slots -> WorkerStates]] /\ Becomes(n, s, y)
  BY <1>2, <1>3, <1>4, PutWorker
<1>6. UNCHANGED <<registry, wanted, phase, borrowed, health, data, engine, edits, faults>>
  BY DEF StartWorker
<1>7. TypeOK'
  BY <1>1, <1>2, <1>5, <1>6 DEF TypeOK
<1>8. PlacesInv'
  <2>1. borrowed' = borrowed + PlaceOf(y) - PlaceOf(worker[n][s])
    BY <1>1, <1>2, <1>3, <1>6 DEF PlaceOf, Inside, TypeOK
  <2>2. QED BY <1>5, <2>1, MovePlace DEF IInv
<1>9. PlanInv'
  BY <1>3, <1>5, <1>6 DEF IInv, PlanInv, Planned, Becomes
<1>10. RequestInv'
  <2>1. ASSUME NEW q \in requests PROVE Served(q)'
    <3>1. q.by \in Connectors /\ q.slot \in Slots /\ Served(q)
      BY <1>2 DEF IInv, TypeOK, Requests, RequestInv
    <3>2. QED BY <3>1, <1>1, <1>5, <1>6 DEF Served, Becomes
  <2>2. QED BY <1>6, <2>1 DEF IInv, RequestInv
<1>11. OneWorker'
  <2> SUFFICES ASSUME NEW m \in Connectors, NEW r \in Slots
               PROVE  (worker'[m][r].step # "off" /\ worker'[m][r].cancel = "no")
                         <=> running'[m] = r
    BY DEF OneWorker
  <2>1. (worker[m][r].step # "off" /\ worker[m][r].cancel = "no") <=> running[m] = r
    BY DEF IInv, OneWorker
  <2>2. worker'[m][r] = IF m = n /\ r = s THEN y ELSE worker[m][r]
    BY <1>5 DEF Becomes
  <2>3. running'[m] = IF m = n THEN s ELSE running[m]
    BY <1>1, <1>2 DEF TypeOK
  <2>4. CASE m = n /\ r = s
    BY <1>3, <2>2, <2>3, <2>4
  <2>5. CASE m = n /\ r # s
    <3>1. running[m] # r
      BY <1>2, <2>5
    <3>2. QED BY <2>1, <2>2, <2>3, <2>5, <3>1
  <2>6. CASE m # n
    BY <2>1, <2>2, <2>3, <2>6
  <2>7. QED BY <2>4, <2>5, <2>6
<1>12. QED BY <1>6, <1>7, <1>8, <1>9, <1>10, <1>11 DEF IInv, ListedInv

\* A page arrives, or is lost, after its worker stopped waiting.
LEMMA LateStep ==
  ASSUME IInv, Late
  PROVE  IInv'
<1>1. PICK q \in requests : ~q.live /\ (Accept(q) \/ Reject(q) \/ Lose(q))
  BY DEF Late
<1>2. /\ requests' = requests \ {q}
      /\ UNCHANGED <<registry, supervisor, worker, borrowed, health, data, edits, faults>>
      /\ \/ accepted' = [accepted EXCEPT ![q.preset] = q.from + 1]
         \/ UNCHANGED accepted
  BY <1>1 DEF Accept, Reject, Lose
<1>3. /\ TypeOK /\ q.preset \in Presets /\ q.from \in Nat /\ q.from < data[q.preset]
      /\ data[q.preset] \in Nat
  BY DEF IInv, TypeOK, Requests, RequestInv, Served
<1>4. accepted' \in [Presets -> Nat] /\ \A p \in Presets : accepted'[p] <= data[p]
  BY <1>2, <1>3 DEF TypeOK
<1>5. TypeOK'
  BY <1>2, <1>3, <1>4 DEF TypeOK
<1>6. QED BY <1>2, <1>5, OutsideStep DEF IInv, ListedInv

LEMMA SafeInit == Init => IInv
<1> SUFFICES ASSUME Init PROVE IInv
  OBVIOUS
<1>1. TypeOK
  <2>1. worker \in [Connectors -> [Slots -> WorkerStates]]
    BY OffType DEF Init
  <2>2. data \in [Presets -> Nat] /\ accepted \in [Presets -> Nat]
    BY RunnerAssumption DEF Init
  <2>3. \A p \in Presets : accepted[p] <= data[p] /\ data[p] <= MaxData[p]
    BY RunnerAssumption DEF Init
  <2>4. borrowed \in 0..Capacity /\ edits \in Nat /\ faults \in Nat
    BY RunnerAssumption DEF Init
  <2>5. /\ registry \in [Connectors -> Descriptors \cup {None}]
        /\ wanted \in [Connectors -> Descriptors \cup {None}]
        /\ running \in [Connectors -> Slots \cup {None}]
    BY DEF Init
  <2>6. /\ phase \in {"sleep", "start"} /\ loaded \in BOOLEAN
        /\ resolved \in [Connectors -> {"unlisted", "unproven", "ok", "failed"}]
        /\ requests \in SUBSET Requests
    BY DEF Init
  <2>7. QED BY <2>1, <2>2, <2>3, <2>4, <2>5, <2>6 DEF TypeOK
<1>2. PlacesInv
  <2>1. Held = {}
    BY OffType DEF Init, Held, Inside
  <2>2. QED BY <2>1, FS_EmptySet DEF Init, PlacesInv, PlacesAreHeld
<1>3. PlanInv
  BY OffType DEF Init, PlanInv, Planned
<1>4. RequestInv
  BY DEF Init, RequestInv
<1>5. OneWorker /\ ListedInv
  BY OffType, RunnerAssumption DEF Init, OneWorker, ListedInv
<1>6. QED BY <1>1, <1>2, <1>3, <1>4, <1>5 DEF IInv

LEMMA SafeStep == IInv /\ [Next]_vars => IInv'
<1> SUFFICES ASSUME IInv, [Next]_vars PROVE IInv'
  OBVIOUS
<1>1. CASE Reconcile
  BY <1>1, ReconcileStep
<1>2. CASE Unreadable \/ Beat \/ UNCHANGED vars
  <2>1. /\ UNCHANGED <<registry, wanted, running, worker, borrowed, health, data, engine>>
        /\ phase' \in {"sleep", "start"} /\ edits' \in Nat /\ faults' \in Nat
    BY <1>2 DEF Unreadable, Beat, Fault, vars, IInv, TypeOK
  <2>2. TypeOK'
    BY <2>1 DEF IInv, TypeOK
  <2>3. QED BY <2>1, <2>2, OutsideStep DEF IInv, ListedInv
<1>3. CASE Late
  BY <1>3, LateStep
<1>4. ASSUME NEW n \in Connectors, Edit(n) \/ StartWorker(n) PROVE IInv'
  BY <1>4, EditStep, StartStep
<1>5. ASSUME NEW p \in Presets, Change(p) PROVE IInv'
  BY <1>5, ChangeStep
<1>6. ASSUME NEW n \in Connectors, NEW s \in Slots,
             \/ WorkerStep(n, s) \/ Borrow(n, s) \/ Answer(n, s) \/ Follow(n, s)
             \/ Scheduled(n, s) \/ Fail(n, s) \/ Unwind(n, s)
      PROVE  IInv'
  BY <1>6, OwnSteps, ExtractStep, AnswerStep, EndStep DEF WorkerStep
<1>7. QED BY <1>1, <1>2, <1>3, <1>4, <1>5, <1>6 DEF Next

--------------------------------------------------------------------------------
(* Theorems *)

LEMMA Safe == Spec => []IInv
  BY SafeInit, SafeStep, PTL DEF Spec

\* Supervisor, workers, limiter, health and engine keep their types; in particular
\* the engine never has more pages than the source, and the places taken stay
\* between none and max_concurrency.
THEOREM TypeCorrect == Spec => []TypeOK
  BY Safe, PTL DEF IInv

\* However edits, failures and cancellations interleave, the workers nobody cancelled
\* are exactly the ones run_forever knows.
THEOREM WorkersAreKnown == Spec => []OneWorker
  BY Safe, PTL DEF IInv

\* No failure and no cancellation, at whatever point of a cycle, leaks a place of the
\* limiter or gives one back twice.
THEOREM PlacesHold == Spec => []PlacesAreHeld
  BY Safe, PTL DEF IInv, PlacesInv

\* Readiness is reported only when the endpoint of every connector of the registry,
\* as last read, has been resolved: sync_registry lists a connector before any
\* worker of it exists.
THEOREM ReadinessIsEarned == Spec => []ReadyIsEarned
<1>1. IInv => ReadyIsEarned
  BY DEF IInv, ListedInv, ReadyIsEarned, Ready
<1>2. QED BY <1>1, Safe, PTL

\* Of every stream the engine takes the next page or none, although a replaced worker
\* and its replacement overlap and pages arrive late.
THEOREM PagesKeepOrder == Spec => PagesInOrder
<1>1. ASSUME TypeOK, [Next]_vars
      PROVE  \A p \in Presets : accepted'[p] \in {accepted[p], accepted[p] + 1}
  <2>1. ASSUME NEW q \in requests, Accept(q)
        PROVE  \A p \in Presets : accepted'[p] \in {accepted[p], accepted[p] + 1}
    <3>1. accepted[q.preset] = q.from /\ accepted' = [accepted EXCEPT ![q.preset] = q.from + 1]
      BY <2>1 DEF Accept, Expected
    <3>2. QED BY <1>1, <3>1 DEF TypeOK
  <2>2. CASE UNCHANGED accepted
    BY <2>2
  <2>3. CASE Late \/ \E n \in Connectors, s \in Slots : Answer(n, s)
    <3>1. PICK q \in requests : Accept(q) \/ Reject(q) \/ Lose(q)
      BY <2>3 DEF Late, Answer
    <3>2. CASE Accept(q)
      BY <2>1, <3>2
    <3>3. CASE Reject(q) \/ Lose(q)
      BY <2>2, <3>3 DEF Reject, Lose
    <3>4. QED BY <3>1, <3>2, <3>3
  <2>4. CASE ~(Late \/ \E n \in Connectors, s \in Slots : Answer(n, s))
    <3>1. CASE Reconcile \/ Unreadable \/ Beat \/ UNCHANGED vars
      BY <2>2, <3>1 DEF Reconcile, Unreadable, Beat, vars
    <3>2. CASE \E n \in Connectors : Edit(n) \/ StartWorker(n)
      BY <2>2, <3>2 DEF Edit, StartWorker
    <3>3. CASE \E p \in Presets : Change(p)
      BY <2>2, <3>3 DEF Change
    <3>4. ASSUME NEW n \in Connectors, NEW s \in Slots, WorkerStep(n, s)
          PROVE  UNCHANGED accepted
      BY <3>4 DEF WorkerStep, Connect, StartStream, EndCycle, Extract, Retry, Watch
    <3>5. ASSUME NEW n \in Connectors, NEW s \in Slots,
                 Borrow(n, s) \/ Follow(n, s) \/ Scheduled(n, s) \/ Fail(n, s) \/ Unwind(n, s)
          PROVE  UNCHANGED accepted
      BY <3>5 DEF Borrow, Follow, Scheduled, Fail, Unwind
    <3>6. QED BY <1>1, <2>2, <2>4, <3>1, <3>2, <3>3, <3>4, <3>5 DEF Next
  <2>5. QED BY <2>3, <2>4
<1>2. QED BY <1>1, TypeCorrect, PTL DEF Spec, PagesInOrder
================================================================================
