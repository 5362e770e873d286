---------------------------- MODULE SourceSyncProofs ---------------------------
(***************************************************************************)
(* Proofs about SourceSync, for any number of runs, records, sweeps and    *)
(* failures: types, the provenance of stored digests, the budgets, and the *)
(* direction of the cursor.  Under the hypothesis each of them names: what *)
(* the cursor vouches for, what a completed run covered, and the order of  *)
(* what the engine is given.                                               *)
(***************************************************************************)
EXTENDS SourceSync, SequenceTheorems, WellFoundedInduction, TLAPS

\* The last row of a record in a batch exists: LastRow picks a row of the record.
LEMMA LastRowOf ==
  ASSUME NEW p \in Seq(Rows), NEW r \in Ids(p)
  PROVE  /\ LastRow(p, r) \in 1..Len(p) /\ p[LastRow(p, r)].id = r
         /\ \A m \in (LastRow(p, r) + 1)..Len(p) : p[m].id # r
<1> DEFINE T == {n \in Nat : n < Len(p) /\ p[Len(p) - n].id = r}
<1>1. Len(p) \in Nat
  OBVIOUS
<1>2. PICK k \in 1..Len(p) : p[k].id = r
  BY DEF Ids
<1>3. Len(p) - k \in T
  BY <1>1, <1>2
<1>4. \E n \in T : \A y \in T : ~(<<y, n>> \in OpToRel(<, Nat))
  BY <1>3, WFMin, NatLessThanWellFounded
<1>5. PICK n \in T : \A y \in T : ~(y < n)
  BY <1>4 DEF OpToRel
<1>6. ASSUME NEW m \in (Len(p) - n + 1)..Len(p), p[m].id = r PROVE FALSE
  <2>1. Len(p) - m \in Nat /\ Len(p) - m < n /\ Len(p) - (Len(p) - m) = m
    BY <1>1, <1>5, <1>6
  <2>2. Len(p) - m \in T
    BY <1>1, <1>5, <1>6, <2>1
  <2>3. QED BY <1>5, <2>1, <2>2
<1>7. /\ Len(p) - n \in 1..Len(p)
      /\ p[Len(p) - n].id = r
      /\ \A m \in (Len(p) - n + 1)..Len(p) : p[m].id # r
  BY <1>1, <1>5, <1>6
<1>8. \E j \in 1..Len(p) :
        p[j].id = r /\ \A m \in (j + 1)..Len(p) : p[m].id # r
  BY <1>7
<1>9. QED BY <1>8 DEF LastRow

\* What a batch submits and what it leaves in the checkpoint are contents.
LEMMA PendingType ==
  ASSUME NEW p \in Seq(Rows), NEW r \in Ids(p)
  PROVE  /\ r \in Records
         /\ PendingDigest(p, r) \in Contents
         /\ PendingEntity(p, r) = PendingDigest(p, r)
<1>1. p[LastRow(p, r)] \in Rows /\ p[LastRow(p, r)].id = r
  BY LastRowOf
<1>2. QED BY <1>1 DEF PendingDigest, PendingEntity, Rows

LEMMA NatProduct == \A a, b \in Nat : a * b \in Nat
  OBVIOUS

\* A page is a sequence of rows.
LEMMA PageType ==
  ASSUME TypeOK, NEW s \in 1..Sweeps, NEW p \in Nat \ {0}
  PROVE  PageOf(s, p) \in Seq(Rows)
<1> DEFINE all == [k \in 1..Len(listing[s]) |-> Row(listing[s][k])]
           first == (p - 1) * PageSize + 1
           last == p * PageSize
<1>1. listing[s] \in Seq(Records) /\ Len(listing[s]) \in Nat
  BY DEF TypeOK
<1>2. \A k \in 1..Len(listing[s]) : Row(listing[s][k]) \in Rows
  BY <1>1 DEF TypeOK, Row, Rows
<1>3. all \in Seq(Rows) /\ Len(all) = Len(listing[s])
  BY <1>1, <1>2
<1>4. first \in Nat \ {0} /\ last \in Nat
  <2>1. p - 1 \in Nat /\ p \in Nat /\ PageSize \in Nat
    BY SourceSyncAssumption
  <2>2. (p - 1) * PageSize \in Nat /\ p * PageSize \in Nat
    BY <2>1, NatProduct
  <2> DEFINE before == (p - 1) * PageSize
  <2>3. before \in Nat
    BY <2>2
  <2> HIDE DEF before
  <2>4. before + 1 \in Nat \ {0}
    BY <2>3
  <2>5. QED BY <2>2, <2>4 DEF before
<1> HIDE DEF all, first, last
<1>5. ASSUME first <= Len(all)
      PROVE  SubSeq(all, first, IF last < Len(all) THEN last ELSE Len(all)) \in Seq(Rows)
  <2> DEFINE end == IF last < Len(all) THEN last ELSE Len(all)
  <2>1. end \in Int /\ end <= Len(all)
    BY <1>3, <1>4
  <2>2. \A k \in first..end : all[k] \in Rows
    BY <1>3, <1>4, <2>1
  <2> HIDE DEF end
  <2>3. SubSeq(all, first, end) \in Seq(Rows)
    BY <1>4, <2>1, <2>2, SubSeqProperties
  <2>4. QED BY <2>3 DEF end
<1>6. <<>> \in Seq(Rows)
  OBVIOUS
<1>7. PageOf(s, p) = IF ~Paged THEN all
                     ELSE IF first > Len(all) THEN <<>>
                     ELSE SubSeq(all, first, IF last < Len(all) THEN last ELSE Len(all))
  BY DEF PageOf, all, first, last
<1>8. QED BY <1>3, <1>4, <1>5, <1>6, <1>7

--------------------------------------------------------------------------------
(* Types *)

\* Replacing the state of one run keeps the type of run.
LEMMA SetType ==
  ASSUME TypeOK, NEW i \in Runs, NEW new \in RunStates, Set(i, new)
  PROVE  run' \in [Runs -> RunStates]
BY DEF TypeOK, Set

\* A flush returns to a state of the run.
LEMMA ResumeType ==
  ASSUME NEW r \in RunStates, r.after \in {"take", "partial", "next"}
  PROVE  Resume(r) \in RunStates
<1>1. r.sweep + 1 \in Nat \ {0}
  BY DEF RunStates
<1>2. CASE r.after = "take"
  BY <1>2 DEF Resume, RunStates, Steps
<1>3. CASE r.after = "partial"
  BY <1>3 DEF Resume, RunStates, Steps
<1>4. CASE r.after = "next"
  <2>1. ASSUME NEW n \in Nat \ {0}, NEW m \in Nat \ {0}
        PROVE  [r EXCEPT !.step = "sweep", !.sweep = n, !.page = m] \in RunStates
    BY DEF RunStates, Steps
  <2>2. Resume(r) = [r EXCEPT !.step = "sweep", !.sweep = r.sweep + 1, !.page = 1]
    BY <1>4 DEF Resume, RunStates
  <2>3. 1 \in Nat \ {0}
    OBVIOUS
  <2>4. [r EXCEPT !.step = "sweep", !.sweep = r.sweep + 1, !.page = 1] \in RunStates
    BY <1>1, <2>1, <2>3, Zenon
  <2>5. QED BY <2>2, <2>4, Zenon
<1>5. QED BY <1>2, <1>3, <1>4

\* A run that flushes knows where it returns to.
Returns == \A i \in Runs : run[i].step \in {"flush", "store"} =>
                             run[i].after \in {"take", "partial", "next"}

TypeInv == TypeOK /\ Returns

\* What landing a batch does to the engine's types.
LEMMA LandType ==
  ASSUME TypeOK, NEW p \in Seq(Rows), Land(p)
  PROVE  accepted' \in Digests /\ ever' \in SUBSET (Records \X Contents)
BY PendingType DEF Land, TypeOK, Digests

\* Merging a batch into the digests, and dropping the oldest, keep their type.
LEMMA KeptType ==
  ASSUME TypeOK, NEW i \in Runs
  PROVE  /\ Merged(i) \in Digests
         /\ \A d \in Kept(Merged(i)) : d \in Digests
<1>1. run[i].pending \in Seq(Rows) /\ run[i].digests \in Digests
  BY DEF TypeOK, RunStates
<1>2. Merged(i) \in Digests
  BY <1>1, PendingType DEF Merged, Digests
<1>3. ASSUME NEW d \in Kept(Merged(i)) PROVE d \in Digests
  <2>1. PICK keep : d = [r \in Records |-> IF r \in keep THEN Merged(i)[r] ELSE None]
    BY DEF Kept
  <2>2. QED BY <1>2, <2>1 DEF Digests
<1>4. QED BY <1>2, <1>3

LEMMA IdleType == Idle \in RunStates
BY DEF Idle, RunStates, Steps, Afters, NoDigests, Digests

\* An action that only moves run i, to a state that returns somewhere.
LEMMA MoveType ==
  ASSUME TypeInv, NEW i \in Runs, NEW new \in RunStates, Set(i, new),
         new.step \in {"flush", "store"} => new.after \in {"take", "partial", "next"},
         UNCHANGED <<origin, faults, untouched>>,
         kv' \in [cursor : Stamps \cup {None}, digests : Digests],
         current' \in SUBSET Runs, accepted' \in Digests,
         ever' \in SUBSET (Records \X Contents)
  PROVE  TypeInv'
<1>1. run' \in [Runs -> RunStates]
  BY SetType DEF TypeInv
<1>2. TypeOK'
  BY <1>1 DEF TypeInv, TypeOK, origin
<1>3. Returns'
  BY <1>1 DEF TypeInv, TypeOK, Returns, Set
<1>4. QED BY <1>2, <1>3 DEF TypeInv

\* What TypeOK says of one run.
LEMMA RunType ==
  ASSUME TypeInv, NEW i \in Runs
  PROVE  /\ run[i] \in RunStates
         /\ kv \in [cursor : Stamps \cup {None}, digests : Digests]
         /\ current \in SUBSET Runs /\ accepted \in Digests
         /\ ever \in SUBSET (Records \X Contents)
         /\ run[i].step \in {"flush", "store"} =>
              run[i].after \in {"take", "partial", "next"}
BY DEF TypeInv, TypeOK, Returns

\* The page a run reads is a sequence of rows.
LEMMA ReadType ==
  ASSUME TypeInv, NEW i \in Runs, ReadPage(i)
  PROVE  PageOf(run[i].sweep, run[i].page) \in Seq(Rows)
<1>1. run[i] \in RunStates
  BY RunType
<1>2. run[i].sweep \in 1..Sweeps /\ run[i].page \in Nat \ {0}
  BY <1>1, SourceSyncAssumption, SMTT(30) DEF ReadPage, RunStates
<1>3. QED BY <1>2, PageType DEF TypeInv

LEMMA TypeRunStep ==
  ASSUME TypeInv, NEW i \in Runs, RunStep(i)
  PROVE  TypeInv'
<1> USE RunType
<1> DEFINE r == run[i]
<1>0. r \in RunStates
  OBVIOUS
<1>1. CASE ReadParents(i)
  <2>1. ASSUME NEW n \in Nat, NEW s \in {"failed", "sweep"},
               Set(i, [r EXCEPT !.step = s, !.pages = n])
        PROVE  TypeInv'
    <3>1. [r EXCEPT !.step = s, !.pages = n] \in RunStates
      BY <1>0 DEF RunStates, Steps
    <3>2. [r EXCEPT !.step = s, !.pages = n].step = s
      BY <1>0 DEF RunStates
    <3>3. QED
      BY <1>1, <2>1, <3>1, <3>2, MoveType DEF ReadParents, stored, engine
  <2>2. run[i].budget.pages \in Nat /\ ParentPages \in Nat
    BY SourceSyncAssumption DEF RunStates
  <2>3. \/ Set(i, [r EXCEPT !.step = "failed", !.pages = run[i].budget.pages])
        \/ Set(i, [r EXCEPT !.step = "sweep", !.pages = ParentPages])
    BY <1>1, Zenon DEF ReadParents
  <2>4. QED BY <2>1, <2>2, <2>3, Zenon
<1>2. CASE ReadPage(i)
  <2> DEFINE rows == PageOf(r.sweep, r.page)
             short == ~Paged \/ Len(rows) < PageSize
  <2>1. rows \in Seq(Rows)
    BY <1>2, ReadType
  <2>2. r.pages + 1 \in Nat /\ <<>> \in Seq(Rows) /\ short \in BOOLEAN
    BY <1>0 DEF RunStates
  <2>3. \/ Set(i, [r EXCEPT !.step = "flush", !.after = "partial", !.rows = <<>>])
        \/ Set(i, [r EXCEPT !.step = "flush", !.after = "partial", !.pages = r.pages + 1])
        \/ Set(i, [r EXCEPT !.step = "take", !.rows = rows, !.pages = r.pages + 1,
                            !.short = short])
    BY <1>2, Zenon DEF ReadPage, EndOfBudget
  <2> HIDE DEF rows, short
  <2>4. ASSUME NEW e \in Seq(Rows),
               Set(i, [r EXCEPT !.step = "flush", !.after = "partial", !.rows = e])
        PROVE  TypeInv'
    <3>1. [r EXCEPT !.step = "flush", !.after = "partial", !.rows = e] \in RunStates
      BY <1>0 DEF RunStates, Steps, Afters
    <3>2. [r EXCEPT !.step = "flush", !.after = "partial", !.rows = e].after = "partial"
      BY <1>0 DEF RunStates
    <3>3. QED BY <1>2, <2>4, <3>1, <3>2, MoveType DEF ReadPage, stored, engine
  <2>5. ASSUME NEW n \in Nat,
               Set(i, [r EXCEPT !.step = "flush", !.after = "partial", !.pages = n])
        PROVE  TypeInv'
    <3>1. [r EXCEPT !.step = "flush", !.after = "partial", !.pages = n] \in RunStates
      BY <1>0 DEF RunStates, Steps, Afters
    <3>2. [r EXCEPT !.step = "flush", !.after = "partial", !.pages = n].after = "partial"
      BY <1>0 DEF RunStates
    <3>3. QED BY <1>2, <2>5, <3>1, <3>2, MoveType DEF ReadPage, stored, engine
  <2>6. ASSUME NEW n \in Nat, NEW b \in BOOLEAN,
               Set(i, [r EXCEPT !.step = "take", !.rows = rows, !.pages = n, !.short = b])
        PROVE  TypeInv'
    <3> DEFINE new == [r EXCEPT !.step = "take", !.rows = rows, !.pages = n, !.short = b]
    <3>1. new \in RunStates /\ new.step = "take"
      BY <1>0, <2>1 DEF RunStates, Steps
    <3>2. QED BY <1>2, <2>6, <3>1, MoveType DEF ReadPage, stored, engine
  <2>7. QED BY <2>1, <2>2, <2>3, <2>4, <2>5, <2>6, Zenon
<1>3. CASE Complete(i)
  <2>1. [r EXCEPT !.step = "completed"] \in RunStates
    BY <1>0 DEF RunStates, Steps
  <2>2. QED BY <1>0, <1>3, <2>1, MoveType DEF Complete, RunStates, stored, engine
<1>4. CASE Take(i)
  <2> DEFINE row == Head(r.rows)
             pending == IF IsUnchanged(i, row) THEN r.pending
                        ELSE Append(r.pending, row)
             high == IF IsUnchanged(i, row) THEN r.high ELSE Higher(r.high, row.stamp)
             step == IF Len(pending) >= BatchSize THEN "flush" ELSE "take"
  <2>1. row \in Rows /\ Tail(r.rows) \in Seq(Rows)
    BY <1>0, <1>4 DEF Take, RunStates
  <2>2. pending \in Seq(Rows) /\ r.seen + 1 \in Nat
    BY SMTT(60), <1>0, <2>1 DEF RunStates
  <2>3. high \in Stamps \cup {None}
    BY <1>0, <2>1 DEF Higher, RunStates, Rows
  <2>4. step \in {"flush", "take"}
    OBVIOUS
  <2>5. run' = [run EXCEPT ![i] = [r EXCEPT !.rows = Tail(r.rows), !.seen = r.seen + 1,
                  !.pending = pending, !.high = high, !.step = step, !.after = "take"]]
    BY <1>0, <1>4 DEF Take, Set, RunStates
  <2> HIDE DEF row, pending, high, step
  <2>6. ASSUME NEW t \in Seq(Rows), NEW n \in Nat,
               Set(i, [r EXCEPT !.rows = t, !.seen = n, !.pending = pending,
                                !.high = high, !.step = step, !.after = "take"])
        PROVE  TypeInv'
    <3> DEFINE new == [r EXCEPT !.rows = t, !.seen = n, !.pending = pending,
                                !.high = high, !.step = step, !.after = "take"]
    <3>1. new \in RunStates /\ new.after = "take"
      BY <1>0, <2>2, <2>3, <2>4, ZenonT(60) DEF RunStates, Steps, Afters
    <3>2. QED BY <1>4, <2>6, <3>1, MoveType DEF Take, stored, engine
  <2>7. QED BY <2>1, <2>2, <2>5, <2>6, Zenon DEF Set
<1>5. CASE PageDone(i)
  <2>1. CASE Set(i, [r EXCEPT !.step = "flush", !.after = "next"])
    <3> DEFINE new == [r EXCEPT !.step = "flush", !.after = "next"]
    <3>1. new \in RunStates /\ new.after = "next"
      BY <1>0 DEF RunStates, Steps, Afters
    <3>2. QED BY <1>5, <2>1, <3>1, MoveType DEF PageDone, stored, engine
  <2>2. ASSUME NEW n \in Nat \ {0}, Set(i, [r EXCEPT !.step = "sweep", !.page = n])
        PROVE  TypeInv'
    <3> DEFINE new == [r EXCEPT !.step = "sweep", !.page = n]
    <3>1. new \in RunStates /\ new.step = "sweep"
      BY <1>0 DEF RunStates, Steps
    <3>2. QED BY <1>5, <2>2, <3>1, MoveType DEF PageDone, stored, engine
  <2>3. r.page + 1 \in Nat \ {0}
    BY <1>0, SMTT(30) DEF RunStates
  <2>4. \/ Set(i, [r EXCEPT !.step = "flush", !.after = "next"])
        \/ Set(i, [r EXCEPT !.step = "sweep", !.page = r.page + 1])
    BY <1>5, Zenon DEF PageDone
  <2>5. QED BY <2>1, <2>2, <2>3, <2>4, Zenon
<1>6. CASE FlushNothing(i)
  <2>1. r.after \in {"take", "partial", "next"}
    BY <1>6 DEF FlushNothing
  <2>2. Resume(r) \in RunStates
    BY <1>0, <2>1, ResumeType
  <2>3. Resume(r).step \notin {"flush", "store"}
    BY <1>0, <2>1 DEF Resume, RunStates
  <2>4. QED BY <1>6, <2>2, <2>3, MoveType DEF FlushNothing, stored, engine
<1>7. CASE Submit(i)
  <2>1. [r EXCEPT !.step = "store"] \in RunStates
    BY <1>0 DEF RunStates, Steps
  <2>2. r.after \in {"take", "partial", "next"}
    BY <1>7 DEF Submit
  <2>3. accepted' \in Digests /\ ever' \in SUBSET (Records \X Contents)
    BY <1>0, <1>7, LandType DEF Submit, TypeInv, RunStates
  <2>4. [r EXCEPT !.step = "store"].after = r.after
    BY <1>0 DEF RunStates
  <2>5. QED BY <1>7, <2>1, <2>2, <2>3, <2>4, MoveType DEF Submit, stored
<1>8. CASE StoreBatch(i)
  <2>1. PICK digests \in Kept(Merged(i)) :
          /\ Store(i, r.high, digests)
          /\ Set(i, Resume([r EXCEPT !.cursor = r.high, !.digests = digests,
                                     !.pending = <<>>]))
    BY <1>8 DEF StoreBatch
  <2> DEFINE q == [r EXCEPT !.cursor = r.high, !.digests = digests, !.pending = <<>>]
  <2>2. digests \in Digests
    BY KeptType DEF TypeInv
  <2>3. q \in RunStates /\ q.after = r.after /\ r.high \in Stamps \cup {None}
    <3>1. ASSUME NEW e \in Seq(Rows), NEW h \in Stamps \cup {None}
          PROVE  /\ [r EXCEPT !.cursor = h, !.digests = digests, !.pending = e] \in RunStates
                 /\ [r EXCEPT !.cursor = h, !.digests = digests, !.pending = e].after = r.after
      BY <1>0, <2>2 DEF RunStates
    <3>2. <<>> \in Seq(Rows) /\ r.high \in Stamps \cup {None}
      BY <1>0 DEF RunStates
    <3>3. QED BY <3>1, <3>2, Zenon
  <2>4. q.after \in {"take", "partial", "next"}
    BY <1>8, <2>3 DEF StoreBatch
  <2> HIDE DEF q
  <2>5. Resume(q) \in RunStates /\ Resume(q).step \notin {"flush", "store"}
    BY <2>3, <2>4, ResumeType DEF Resume, RunStates
  <2>6. kv' \in [cursor : Stamps \cup {None}, digests : Digests] /\ current' \in SUBSET Runs
    BY <2>1, <2>2, <2>3 DEF Store
  <2>7. Set(i, Resume(q))
    BY <2>1 DEF q
  <2>8. QED BY <1>8, <2>5, <2>6, <2>7, MoveType DEF StoreBatch, engine
<1>9. CASE Finish(i)
  <2>1. r.cursor \in Stamps \cup {None} /\ r.digests \in Digests
    BY <1>0 DEF RunStates
  <2>2. kv' \in [cursor : Stamps \cup {None}, digests : Digests] /\ current' \in SUBSET Runs
    BY <1>9, <2>1 DEF Finish, Store
  <2>3. Idle.step = "idle"
    BY DEF Idle
  <2>4. QED BY <1>9, <2>2, <2>3, IdleType, MoveType DEF Finish, engine
<1>10. CASE Conflict(i)
  <2>1. Idle.step = "idle"
    BY DEF Idle
  <2>2. QED BY <1>10, <2>1, IdleType, MoveType DEF Conflict, stored, engine
<1>11. QED
  BY <1>1, <1>2, <1>3, <1>4, <1>5, <1>6, <1>7, <1>8, <1>9, <1>10 DEF RunStep

\* MoveType for an action that also counts a fault.
LEMMA FaultType ==
  ASSUME TypeInv, NEW i \in Runs, NEW new \in RunStates, Set(i, new),
         new.step \in {"flush", "store"} => new.after \in {"take", "partial", "next"},
         Fault, UNCHANGED <<origin, stored, untouched>>,
         accepted' \in Digests, ever' \in SUBSET (Records \X Contents)
  PROVE  TypeInv'
<1>1. run' \in [Runs -> RunStates]
  BY SetType DEF TypeInv
<1>2. TypeOK'
  BY <1>1 DEF TypeInv, TypeOK, origin, stored, Fault
<1>3. Returns'
  BY <1>1 DEF TypeInv, TypeOK, Returns, Set
<1>4. QED BY <1>2, <1>3 DEF TypeInv

LEMMA TypeFailure ==
  ASSUME TypeInv, NEW i \in Runs, Failure(i)
  PROVE  TypeInv'
<1> USE RunType
<1> DEFINE r == run[i]
<1>0. r \in RunStates /\ <<>> \in Seq(Rows)
  OBVIOUS
<1>1. ASSUME NEW e \in Seq(Rows)
      PROVE  /\ [r EXCEPT !.step = "failed", !.pending = e] \in RunStates
             /\ [r EXCEPT !.step = "failed", !.pending = e].step = "failed"
             /\ [r EXCEPT !.step = "flush", !.after = "partial", !.rows = e] \in RunStates
             /\ [r EXCEPT !.step = "flush", !.after = "partial", !.rows = e].after = "partial"
  BY <1>0, ZenonT(60) DEF RunStates, Steps, Afters
<1>2. ASSUME NEW e \in Seq(Rows), Set(i, [r EXCEPT !.step = "failed", !.pending = e]),
             Fault, UNCHANGED <<origin, stored, untouched>>,
             accepted' \in Digests, ever' \in SUBSET (Records \X Contents)
      PROVE  TypeInv'
  BY <1>1, <1>2, FaultType
<1>3. CASE ToolFails(i)
  <2>1. accepted' \in Digests /\ ever' \in SUBSET (Records \X Contents)
    BY <1>3 DEF ToolFails, engine
  <2>2. Set(i, [r EXCEPT !.step = "failed", !.pending = <<>>])
    BY <1>3, Zenon DEF ToolFails
  <2>3. Fault /\ UNCHANGED <<origin, stored, untouched>>
    BY <1>3, Zenon DEF ToolFails
  <2>4. QED BY <1>0, <1>2, <2>1, <2>2, <2>3, Zenon
<1>4. CASE Deadline(i)
  <2>1. accepted' \in Digests /\ ever' \in SUBSET (Records \X Contents)
    BY <1>4 DEF Deadline, engine
  <2>2. ASSUME NEW e \in Seq(Rows),
               Set(i, [r EXCEPT !.step = "flush", !.after = "partial", !.rows = e])
        PROVE  TypeInv'
    BY <1>1, <1>4, <2>1, <2>2, FaultType DEF Deadline
  <2>3. Set(i, [r EXCEPT !.step = "flush", !.after = "partial", !.rows = <<>>])
    BY <1>4, Zenon DEF Deadline, EndOfBudget
  <2>4. QED BY <1>0, <2>2, <2>3, Zenon
<1>5. CASE SubmitRefused(i)
  <2>1. accepted' \in Digests /\ ever' \in SUBSET (Records \X Contents)
    <3>1. r.pending \in Seq(Rows)
      BY <1>0 DEF RunStates
    <3>2. CASE Land(r.pending)
      BY <3>1, <3>2, LandType DEF TypeInv
    <3>3. CASE UNCHANGED engine
      BY <3>3 DEF engine
    <3>4. QED BY <1>5, <3>2, <3>3 DEF SubmitRefused
  <2>2. Set(i, [r EXCEPT !.step = "failed", !.pending = <<>>])
    BY <1>5, Zenon DEF SubmitRefused
  <2>3. Fault /\ UNCHANGED <<origin, stored, untouched>>
    BY <1>5, Zenon DEF SubmitRefused
  <2>4. QED BY <1>0, <1>2, <2>1, <2>2, <2>3, Zenon
<1>6. CASE Die(i)
  <2>1. Idle.step = "idle"
    BY DEF Idle
  <2>2. QED BY <1>6, <2>1, IdleType, FaultType DEF Die, engine
<1>7. QED BY <1>3, <1>4, <1>5, <1>6 DEF Failure

LEMMA TypeStart ==
  ASSUME TypeInv, NEW i \in Runs, NEW mode \in {"incremental", "full"},
         NEW budget \in Budgets, Start(i, mode, budget)
  PROVE  TypeInv'
<1> DEFINE cursor == IF mode = "full" THEN None ELSE kv.cursor
           digests == IF mode = "full" THEN NoDigests ELSE kv.digests
           new == [Idle EXCEPT !.step = "parents", !.mode = mode, !.budget = budget,
                     !.cursor = cursor, !.high = cursor, !.digests = digests]
<1>1. cursor \in Stamps \cup {None} /\ digests \in Digests
  BY RunType DEF NoDigests, Digests
<1>2. budget \in [pages : Nat, records : Nat]
  BY SourceSyncAssumption
<1>3. Set(i, new)
  BY DEF Start
<1> HIDE DEF cursor, digests
<1>4. new \in RunStates /\ new.step = "parents"
  BY <1>1, <1>2, IdleType DEF RunStates, Steps
<1>5. run' \in [Runs -> RunStates]
  BY <1>3, <1>4, SetType DEF TypeInv
<1>6. TypeOK'
  BY <1>5 DEF TypeInv, TypeOK, Start, origin, engine
<1>7. Returns'
  BY <1>3, <1>4, <1>5 DEF TypeInv, TypeOK, Returns, Set
<1>8. QED BY <1>6, <1>7 DEF TypeInv

LEMMA TypeTouch ==
  ASSUME TypeInv, NEW r \in Records, Touch(r)
  PROVE  TypeInv'
<1>1. content' \in [Records -> Contents]
  BY SourceSyncAssumption, SMTT(30) DEF Touch, TypeInv, TypeOK, Contents
<1>2. stamp' \in [Records -> Stamps]
  BY DEF Touch, TypeInv, TypeOK
<1>3. ASSUME NEW list \in Seq(Records) PROVE MovedLast(list, r) \in Seq(Records)
  <2>1. Len(list) \in Nat
    OBVIOUS
  <2> DEFINE at == CHOOSE k \in 1..Len(list) : list[k] = r
  <2> HIDE DEF at
  <2>2. \A k \in 1..Len(list) : (IF k < at THEN list[k]
          ELSE IF k < Len(list) THEN list[k + 1] ELSE r) \in Records
    BY <2>1
  <2>3. [k \in 1..Len(list) |-> IF k < at THEN list[k]
          ELSE IF k < Len(list) THEN list[k + 1] ELSE r] \in Seq(Records)
    BY <2>1, <2>2
  <2>4. QED BY <2>3 DEF MovedLast, at
<1>4. listing' \in [1..Sweeps -> Seq(Records)]
  <2>1. listing \in [1..Sweeps -> Seq(Records)]
    BY DEF TypeInv, TypeOK
  <2>2. QED BY <1>3, <2>1 DEF Touch
<1>5. untouched' \in [Runs -> SUBSET Records]
  BY DEF Touch, TypeInv, TypeOK
<1>6. TypeOK' /\ Returns'
  BY <1>1, <1>2, <1>4, <1>5 DEF Touch, TypeInv, TypeOK, Returns, stored, engine
<1>7. QED BY <1>6 DEF TypeInv

\* Every step keeps the types.
LEMMA TypeStep == TypeInv /\ [Next]_vars => TypeInv'
<1> SUFFICES ASSUME TypeInv, [Next]_vars PROVE TypeInv'
  OBVIOUS
<1>1. CASE UNCHANGED vars
  BY <1>1 DEF vars, TypeInv, TypeOK, Returns
<1>2. QED
  BY <1>1, TypeRunStep, TypeFailure, TypeStart, TypeTouch DEF Next

LEMMA TypeInit == Init => TypeInv
<1> SUFFICES ASSUME Init PROVE TypeInv
  OBVIOUS
<1>1. Returns
  BY DEF Init, Returns, Idle
<1>2. content \in [Records -> Contents]
  BY SourceSyncAssumption DEF Init, Contents
<1>3. QED
  BY <1>1, <1>2, IdleType, SourceSyncAssumption
     DEF Init, TypeInv, TypeOK, NoDigests, Digests, Stamps

\* The state of every run and of the checkpoint stays well formed; in particular
\* a flush always knows which part of the sweep it returns to.
THEOREM TypeCorrect == Spec => []TypeOK
<1>1. Spec => []TypeInv
  BY TypeInit, TypeStep, PTL DEF Spec
<1>2. TypeInv => TypeOK
  BY DEF TypeInv
<1>3. QED BY <1>1, <1>2, PTL

--------------------------------------------------------------------------------
(* Digests *)

Vouched(digests, taken) ==
    \A r \in Records : digests[r] # None => <<r, digests[r]>> \in taken

\* DigestWasAccepted alone is not inductive: the digests a run holds in memory
\* are as good as the stored ones, and the batch of a run about to store has
\* landed.
DigestInv ==
    /\ Vouched(kv.digests, ever)
    /\ \A i \in Runs : Vouched(run[i].digests, ever)
    /\ \A i \in Runs : run[i].step = "store" =>
         \A r \in Ids(run[i].pending) : <<r, PendingDigest(run[i].pending, r)>> \in ever

\* A step of run i that leaves the digests alone, does not enter "store", and
\* forgets nothing the engine took.
LEMMA QuietStep ==
  ASSUME TypeOK, DigestInv, NEW i \in Runs,
         \A j \in Runs \ {i} : run'[j] = run[j],
         run'[i].digests = run[i].digests \/ run'[i].digests = NoDigests,
         run'[i].step # "store",
         kv' = kv, ever \subseteq ever'
  PROVE  DigestInv'
<1>3. Vouched(kv'.digests, ever')
  BY DEF DigestInv, Vouched
<1>4. \A j \in Runs : Vouched(run'[j].digests, ever')
  BY DEF DigestInv, Vouched, NoDigests
<1>5. ASSUME NEW j \in Runs, run'[j].step = "store"
      PROVE  \A r \in Ids(run'[j].pending) : <<r, PendingDigest(run'[j].pending, r)>> \in ever'
  <2>1. run'[j] = run[j]
    BY <1>5
  <2>2. QED BY <1>5, <2>1 DEF DigestInv
<1>6. QED BY <1>3, <1>4, <1>5 DEF DigestInv

LEMMA ResumeQuiet ==
  ASSUME NEW r \in RunStates, r.after \in {"take", "partial", "next"}
  PROVE  Resume(r).digests = r.digests /\ Resume(r).step # "store"
BY DEF Resume, RunStates

\* A batch that is taken over into the digests is vouched for by its landing.
LEMMA MergedVouched ==
  ASSUME TypeOK, DigestInv, NEW i \in Runs, run[i].step = "store",
         NEW digests \in Kept(Merged(i))
  PROVE  Vouched(digests, ever)
<1>1. PICK keep : digests = [r \in Records |-> IF r \in keep THEN Merged(i)[r] ELSE None]
  BY DEF Kept
<1>2. Vouched(Merged(i), ever)
  BY DEF DigestInv, Vouched, Merged
<1>3. QED BY <1>1, <1>2 DEF Vouched

LEMMA DigestRunStep ==
  ASSUME TypeInv, DigestInv, NEW i \in Runs, RunStep(i)
  PROVE  DigestInv'
<1> DEFINE r == run[i]
<1>0. TypeOK /\ r \in RunStates
  BY RunType DEF TypeInv
<1>1. CASE ReadParents(i) \/ ReadPage(i) \/ Complete(i) \/ PageDone(i)
  <2>1. /\ \A j \in Runs \ {i} : run'[j] = run[j]
        /\ run'[i].digests = r.digests /\ run'[i].step # "store"
    <3> DEFINE Quiet(new) == new.digests = r.digests /\ new.step # "store"
    <3>0. ASSUME NEW new, Set(i, new), Quiet(new)
          PROVE  /\ \A j \in Runs \ {i} : run'[j] = run[j]
                 /\ Quiet(run'[i])
      BY <1>0, <3>0 DEF Set, TypeOK
    <3>1. CASE ReadParents(i)
      <4>1. \/ Set(i, [r EXCEPT !.step = "failed", !.pages = r.budget.pages])
            \/ Set(i, [r EXCEPT !.step = "sweep", !.pages = ParentPages])
        BY <3>1, Zenon DEF ReadParents
      <4>2. /\ Quiet([r EXCEPT !.step = "failed", !.pages = r.budget.pages])
            /\ Quiet([r EXCEPT !.step = "sweep", !.pages = ParentPages])
        BY <1>0 DEF RunStates
      <4>3. QED BY <3>0, <4>1, <4>2, Zenon
    <3>2. CASE ReadPage(i)
      <4> DEFINE rows == PageOf(r.sweep, r.page)
                 short == ~Paged \/ Len(rows) < PageSize
                 a == [r EXCEPT !.step = "flush", !.after = "partial", !.rows = <<>>]
                 b == [r EXCEPT !.step = "flush", !.after = "partial", !.pages = r.pages + 1]
                 c == [r EXCEPT !.step = "take", !.rows = rows, !.pages = r.pages + 1,
                                !.short = short]
      <4>1. Set(i, a) \/ Set(i, b) \/ Set(i, c)
        BY <3>2, Zenon DEF ReadPage, EndOfBudget
      <4> HIDE DEF rows, short
      <4>2. Quiet(a) /\ Quiet(b) /\ Quiet(c)
        BY <1>0 DEF RunStates
      <4>3. QED BY <3>0, <4>1, <4>2, Zenon
    <3>3. CASE Complete(i)
      BY <1>0, <3>3 DEF Complete, RunStates, Set, TypeOK
    <3>4. CASE PageDone(i)
      <4>1. \/ Set(i, [r EXCEPT !.step = "flush", !.after = "next"])
            \/ Set(i, [r EXCEPT !.step = "sweep", !.page = r.page + 1])
        BY <3>4, Zenon DEF PageDone
      <4>2. /\ Quiet([r EXCEPT !.step = "flush", !.after = "next"])
            /\ Quiet([r EXCEPT !.step = "sweep", !.page = r.page + 1])
        BY <1>0 DEF RunStates
      <4>3. QED BY <3>0, <4>1, <4>2, Zenon
    <3>5. QED BY <1>1, <3>1, <3>2, <3>3, <3>4
  <2>2. kv' = kv /\ ever' = ever
    BY <1>1 DEF ReadParents, ReadPage, Complete, PageDone, stored, engine
  <2>3. QED BY <1>0, <2>1, <2>2, QuietStep
<1>2. CASE Take(i)
  <2>1. /\ \A j \in Runs \ {i} : run'[j] = run[j]
        /\ run'[i].digests = r.digests /\ run'[i].step # "store"
    BY <1>0, <1>2 DEF Take, RunStates, Set, TypeOK
  <2>2. QED BY <1>0, <1>2, <2>1, QuietStep DEF Take, stored, engine
<1>3. CASE FlushNothing(i)
  <2>1. Resume(r).digests = r.digests /\ Resume(r).step # "store"
    BY <1>0, <1>3, RunType, ResumeQuiet DEF FlushNothing
  <2>2. QED
    BY <1>0, <1>3, <2>1, QuietStep DEF FlushNothing, stored, engine, Set, TypeOK
<1>4. CASE Submit(i)
  <2> DEFINE new == [r EXCEPT !.step = "store"]
  <2>1. new.digests = r.digests /\ new.pending = r.pending /\ r.pending \in Seq(Rows)
    BY <1>0 DEF RunStates
  <2>2. run' = [run EXCEPT ![i] = new]
    BY <1>4 DEF Submit, Set
  <2> HIDE DEF new
  <2>3. \A j \in Runs : run'[j] = IF j = i THEN new ELSE run[j]
    BY <1>0, <2>2 DEF TypeOK
  <2>4. kv' = kv /\ ever \subseteq ever'
    BY <1>4 DEF Submit, stored, Land
  <2>5. \A x \in Ids(r.pending) : <<x, PendingDigest(r.pending, x)>> \in ever'
    BY <1>4, <2>1, PendingType DEF Submit, Land
  <2>6. \A j \in Runs : Vouched(run'[j].digests, ever')
    BY <2>1, <2>3, <2>4 DEF DigestInv, Vouched
  <2>7. Vouched(kv'.digests, ever')
    BY <2>4 DEF DigestInv, Vouched
  <2>8. \A j \in Runs : run'[j].step = "store" =>
          \A x \in Ids(run'[j].pending) : <<x, PendingDigest(run'[j].pending, x)>> \in ever'
    BY <2>1, <2>3, <2>4, <2>5 DEF DigestInv
  <2>9. QED BY <2>6, <2>7, <2>8 DEF DigestInv
<1>5. CASE StoreBatch(i)
  <2>1. PICK digests \in Kept(Merged(i)) :
          /\ Store(i, r.high, digests)
          /\ Set(i, Resume([r EXCEPT !.cursor = r.high, !.digests = digests,
                                     !.pending = <<>>]))
    BY <1>5 DEF StoreBatch
  <2> DEFINE q == [r EXCEPT !.cursor = r.high, !.digests = digests, !.pending = <<>>]
             new == Resume(q)
  <2>2. Vouched(digests, ever) /\ digests \in Digests
    BY <1>0, <1>5, MergedVouched, KeptType DEF StoreBatch
  <2>3. r.after \in {"take", "partial", "next"} /\ q.after = r.after /\ q.digests = digests
    BY <1>0, <1>5, RunType DEF StoreBatch, RunStates
  <2>4. DOMAIN q = DOMAIN r
    BY <1>0 DEF RunStates
  <2>5. run' = [run EXCEPT ![i] = new] /\ kv'.digests = digests /\ ever' = ever
    BY <1>5, <2>1 DEF StoreBatch, Set, Store, engine
  <2> HIDE DEF q
  <2>6. new.digests = digests /\ new.step # "store"
    BY <1>0, <2>3, <2>4 DEF Resume, RunStates
  <2> HIDE DEF new
  <2>7. \A j \in Runs : run'[j] = IF j = i THEN new ELSE run[j]
    BY <1>0, <2>5 DEF TypeOK
  <2>8. QED BY <2>2, <2>5, <2>6, <2>7 DEF DigestInv, Vouched
<1>6. CASE Finish(i)
  <2>1. run' = [run EXCEPT ![i] = Idle] /\ kv'.digests = r.digests /\ ever' = ever
    BY <1>6 DEF Finish, Set, Store, engine
  <2>2. \A j \in Runs : run'[j] = IF j = i THEN Idle ELSE run[j]
    BY <1>0, <2>1 DEF TypeOK
  <2>3. Idle.digests = NoDigests /\ Idle.step = "idle"
    BY DEF Idle
  <2>4. QED BY <2>1, <2>2, <2>3 DEF DigestInv, Vouched, NoDigests
<1>7. CASE Conflict(i)
  <2>1. Idle.digests = NoDigests /\ Idle.step # "store"
    BY DEF Idle
  <2>2. QED
    BY <1>0, <1>7, <2>1, QuietStep DEF Conflict, stored, engine, Set, TypeOK
<1>8. QED BY <1>1, <1>2, <1>3, <1>4, <1>5, <1>6, <1>7 DEF RunStep

LEMMA DigestFailure ==
  ASSUME TypeInv, DigestInv, NEW i \in Runs, Failure(i)
  PROVE  DigestInv'
<1> DEFINE r == run[i]
           Quiet(new) == /\ new.digests = r.digests \/ new.digests = NoDigests
                         /\ new.step # "store"
           a == [r EXCEPT !.step = "failed", !.pending = <<>>]
           b == [r EXCEPT !.step = "flush", !.after = "partial", !.rows = <<>>]
<1>0. TypeOK /\ r \in RunStates
  BY RunType DEF TypeInv
<1>1. Set(i, a) \/ Set(i, b) \/ Set(i, Idle)
  BY Zenon DEF Failure, ToolFails, Deadline, EndOfBudget, SubmitRefused, Die
<1>2. Quiet(a) /\ Quiet(b) /\ Quiet(Idle)
  BY <1>0 DEF RunStates, Idle
<1>3. kv' = kv /\ ever \subseteq ever'
  BY DEF Failure, ToolFails, Deadline, SubmitRefused, Die, Land, stored, engine
<1>4. ASSUME NEW new, Set(i, new), Quiet(new)
      PROVE  /\ \A j \in Runs \ {i} : run'[j] = run[j]
             /\ Quiet(run'[i])
  BY <1>0, <1>4 DEF Set, TypeOK
<1>5. (\A j \in Runs \ {i} : run'[j] = run[j]) /\ Quiet(run'[i])
  BY <1>1, <1>2, <1>4, Zenon
<1>6. QED BY <1>0, <1>3, <1>5, QuietStep

\* A started run takes over the stored digests or none.
LEMMA DigestStart ==
  ASSUME TypeInv, DigestInv, NEW i \in Runs, NEW mode \in {"incremental", "full"},
         NEW budget \in Budgets, Start(i, mode, budget)
  PROVE  DigestInv'
<1> DEFINE cursor == IF mode = "full" THEN None ELSE kv.cursor
           digests == IF mode = "full" THEN NoDigests ELSE kv.digests
           new == [Idle EXCEPT !.step = "parents", !.mode = mode, !.budget = budget,
                     !.cursor = cursor, !.high = cursor, !.digests = digests]
<1>1. Set(i, new)
  BY DEF Start
<1>2. Vouched(digests, ever)
  BY DEF DigestInv, Vouched, NoDigests
<1> HIDE DEF cursor, digests
<1>3. new.digests = digests /\ new.step = "parents"
  BY IdleType DEF RunStates
<1> HIDE DEF new
<1>4. \A j \in Runs : run'[j] = IF j = i THEN new ELSE run[j]
  BY <1>1 DEF Set, TypeInv, TypeOK
<1>5. kv' = kv /\ ever' = ever
  BY DEF Start, engine
<1>6. QED BY <1>2, <1>3, <1>4, <1>5 DEF DigestInv, Vouched

\* Initially true and kept by every step.
LEMMA DigestStep == TypeInv /\ DigestInv /\ [Next]_vars => DigestInv'
<1> SUFFICES ASSUME TypeInv, DigestInv, [Next]_vars PROVE DigestInv'
  OBVIOUS
<1>1. ASSUME NEW r \in Records, Touch(r) PROVE DigestInv'
  BY <1>1 DEF Touch, stored, engine, DigestInv, Vouched
<1>2. CASE UNCHANGED vars
  BY <1>2 DEF vars, DigestInv, Vouched
<1>3. QED BY <1>1, <1>2, DigestRunStep, DigestFailure, DigestStart DEF Next

\* No run ever stores the digest of content the engine did not accept, whatever
\* overlaps, fails or dies between submit and store: for any number of runs.
THEOREM DigestsAreAccepted == Spec => []DigestWasAccepted
<1>1. Init => DigestInv
  BY DEF Init, DigestInv, Vouched, NoDigests, Idle
<1>2. Spec => [](TypeInv /\ DigestInv)
  BY <1>1, TypeInit, TypeStep, DigestStep, PTL DEF Spec
<1>3. DigestInv => DigestWasAccepted
  BY DEF DigestInv, Vouched, DigestWasAccepted
<1>4. QED BY <1>2, <1>3, PTL

--------------------------------------------------------------------------------
(* Budgets *)

\* A run that reads or takes has room in its batch for the next record.
BudgetOf(r) ==
    /\ r.pages <= r.budget.pages
    /\ r.seen + Len(r.rows) <= r.budget.records
    /\ Len(r.pending) <= BatchSize
    /\ r.step \in {"parents", "sweep", "take"} => Len(r.pending) < BatchSize

BudgetInv == \A i \in Runs : BudgetOf(run[i])

LEMMA BudgetMove ==
  ASSUME TypeOK, BudgetInv, NEW i \in Runs, NEW new, Set(i, new), BudgetOf(new)
  PROVE  BudgetInv'
<1>1. \A j \in Runs : run'[j] = IF j = i THEN new ELSE run[j]
  BY DEF Set, TypeOK
<1>2. \A j \in Runs : BudgetOf(run'[j])
  BY <1>1 DEF BudgetInv
<1>3. QED BY <1>2 DEF BudgetInv, BudgetOf

LEMMA IdleBudget == BudgetOf(Idle)
BY SourceSyncAssumption DEF Idle, BudgetOf

\* The fields of a run that BudgetOf reads are numbers.
LEMMA BudgetTypes ==
  ASSUME NEW r \in RunStates
  PROVE  /\ r.pages \in Nat /\ r.budget.pages \in Nat /\ r.seen \in Nat
         /\ r.budget.records \in Nat
         /\ r.rows \in Seq(Rows) /\ Len(r.rows) \in Nat
         /\ r.pending \in Seq(Rows) /\ Len(r.pending) \in Nat
         /\ BatchSize \in Nat \ {0} /\ ParentPages \in Nat
BY SMTT(60), SourceSyncAssumption DEF RunStates

LEMMA BudgetResume ==
  ASSUME NEW r \in RunStates, BudgetOf(r), r.pending = <<>>,
         r.after \in {"take", "partial", "next"}
  PROVE  BudgetOf(Resume(r))
<1>1. /\ Resume(r).pages = r.pages /\ Resume(r).budget = r.budget
      /\ Resume(r).seen = r.seen /\ Resume(r).rows = r.rows
      /\ Resume(r).pending = <<>>
  BY DEF Resume, RunStates
<1>2. Len(Resume(r).pending) = 0
  BY <1>1
<1>3. QED BY <1>1, <1>2, BudgetTypes DEF BudgetOf

LEMMA BudgetRunStep ==
  ASSUME TypeInv, BudgetInv, NEW i \in Runs, RunStep(i)
  PROVE  BudgetInv'
<1> DEFINE r == run[i]
<1>0. TypeOK /\ r \in RunStates /\ BudgetOf(r)
  BY RunType DEF TypeInv, BudgetInv
<1> USE BudgetTypes
<1>1. CASE ReadParents(i)
  <2> DEFINE a == [r EXCEPT !.step = "failed", !.pages = r.budget.pages]
             b == [r EXCEPT !.step = "sweep", !.pages = ParentPages]
  <2>1. Set(i, a) \/ (Set(i, b) /\ ~(ParentPages > r.budget.pages))
    BY <1>1, Zenon DEF ReadParents
  <2>2. BudgetOf(a)
    BY <1>0 DEF BudgetOf, RunStates
  <2>3. ~(ParentPages > r.budget.pages) => BudgetOf(b)
    BY <1>0, <1>1 DEF BudgetOf, RunStates, ReadParents
  <2>4. QED BY <1>0, <2>1, <2>2, <2>3, BudgetMove, Zenon
<1>2. CASE ReadPage(i)
  <2> DEFINE rows == PageOf(r.sweep, r.page)
             short == ~Paged \/ Len(rows) < PageSize
             a == [r EXCEPT !.step = "flush", !.after = "partial", !.rows = <<>>]
             b == [r EXCEPT !.step = "flush", !.after = "partial", !.pages = r.pages + 1]
             c == [r EXCEPT !.step = "take", !.rows = rows, !.pages = r.pages + 1,
                            !.short = short]
  <2>0. rows \in Seq(Rows) /\ Len(rows) \in Nat
    BY <1>2, ReadType
  <2>1. \/ Set(i, a)
        \/ Set(i, b) /\ ~Exhausted(i)
        \/ Set(i, c) /\ ~Exhausted(i) /\ Len(rows) <= r.budget.records - r.seen
    BY <1>2, Zenon DEF ReadPage, EndOfBudget
  <2> HIDE DEF rows, short
  <2>2. BudgetOf(a)
    BY <1>0 DEF BudgetOf, RunStates
  <2>3. ~Exhausted(i) => BudgetOf(b)
    BY <1>0, SMTT(30) DEF BudgetOf, RunStates, Exhausted
  <2>4. ~Exhausted(i) /\ Len(rows) <= r.budget.records - r.seen => BudgetOf(c)
    BY <1>0, <1>2, <2>0, SMTT(30) DEF BudgetOf, RunStates, Exhausted, ReadPage
  <2>5. QED BY <1>0, <2>1, <2>2, <2>3, <2>4, BudgetMove, Zenon
<1>3. CASE Complete(i)
  <2>1. BudgetOf([r EXCEPT !.step = "completed"])
    BY <1>0 DEF BudgetOf, RunStates
  <2>2. QED BY <1>0, <1>3, <2>1, BudgetMove DEF Complete
<1>4. CASE Take(i)
  <2> DEFINE row == Head(r.rows)
             pending == IF IsUnchanged(i, row) THEN r.pending
                        ELSE Append(r.pending, row)
             high == IF IsUnchanged(i, row) THEN r.high ELSE Higher(r.high, row.stamp)
             step == IF Len(pending) >= BatchSize THEN "flush" ELSE "take"
             new == [r EXCEPT !.rows = Tail(r.rows), !.seen = r.seen + 1,
                       !.pending = pending, !.high = high, !.step = step, !.after = "take"]
  <2>1. Len(Tail(r.rows)) = Len(r.rows) - 1
    BY <1>0, <1>4 DEF Take
  <2>2. Len(pending) \in Nat /\ Len(pending) <= BatchSize
    BY <1>0, <1>4 DEF Take, BudgetOf
  <2>3. Set(i, new)
    BY <1>4, Zenon DEF Take
  <2> HIDE DEF pending, high, row
  <2>4. step = "take" => Len(pending) < BatchSize
    BY <1>0, <2>2
  <2> HIDE DEF step
  <2>5. /\ new.pages = r.pages /\ new.budget = r.budget /\ new.seen = r.seen + 1
        /\ new.rows = Tail(r.rows) /\ new.pending = pending /\ new.step = step
    BY <1>0 DEF RunStates
  <2>6. step \in {"take", "flush"}
    BY DEF step
  <2>7. BudgetOf(new)
    BY <1>0, <2>1, <2>2, <2>4, <2>5, <2>6, SMTT(30) DEF BudgetOf
  <2>8. QED BY <1>0, <2>3, <2>7, BudgetMove, Zenon
<1>5. CASE PageDone(i)
  <2> DEFINE a == [r EXCEPT !.step = "flush", !.after = "next"]
             b == [r EXCEPT !.step = "sweep", !.page = r.page + 1]
  <2>1. Set(i, a) \/ Set(i, b)
    BY <1>5, Zenon DEF PageDone
  <2>2. BudgetOf(a) /\ BudgetOf(b)
    BY <1>0, <1>5 DEF BudgetOf, RunStates, PageDone
  <2>3. QED BY <1>0, <2>1, <2>2, BudgetMove, Zenon
<1>6. CASE FlushNothing(i)
  <2>1. BudgetOf(Resume(r))
    BY <1>0, <1>6, BudgetResume, RunType DEF FlushNothing
  <2>2. QED BY <1>0, <1>6, <2>1, BudgetMove DEF FlushNothing
<1>7. CASE Submit(i)
  <2>1. BudgetOf([r EXCEPT !.step = "store"])
    BY <1>0 DEF BudgetOf, RunStates
  <2>2. QED BY <1>0, <1>7, <2>1, BudgetMove DEF Submit
<1>8. CASE StoreBatch(i)
  <2>1. PICK digests \in Kept(Merged(i)) :
          Set(i, Resume([r EXCEPT !.cursor = r.high, !.digests = digests, !.pending = <<>>]))
    BY <1>8 DEF StoreBatch
  <2> DEFINE q == [r EXCEPT !.cursor = r.high, !.digests = digests, !.pending = <<>>]
  <2>2. digests \in Digests
    BY <1>0, KeptType
  <2>3. q \in RunStates
    <3>1. ASSUME NEW e \in Seq(Rows), NEW h \in Stamps \cup {None}
          PROVE  [r EXCEPT !.cursor = h, !.digests = digests, !.pending = e] \in RunStates
      BY <1>0, <2>2 DEF RunStates
    <3>2. <<>> \in Seq(Rows) /\ r.high \in Stamps \cup {None}
      BY <1>0 DEF RunStates
    <3>3. QED BY <3>1, <3>2, Zenon
  <2>4. /\ q.pending = <<>> /\ q.after = r.after /\ q.pages = r.pages /\ q.seen = r.seen
        /\ q.budget = r.budget /\ q.rows = r.rows
    BY <1>0 DEF RunStates
  <2>5. q.after \in {"take", "partial", "next"}
    BY <1>8, <2>4, RunType DEF StoreBatch
  <2> HIDE DEF q
  <2>6. Len(q.pending) = 0
    BY <2>4
  <2>7. BudgetOf(q)
    BY <1>0, <2>4, <2>6 DEF BudgetOf
  <2>8. BudgetOf(Resume(q))
    BY <2>3, <2>4, <2>5, <2>7, BudgetResume
  <2>9. Set(i, Resume(q))
    BY <2>1 DEF q
  <2>10. QED BY <1>0, <2>8, <2>9, BudgetMove, Zenon
<1>9. CASE Finish(i) \/ Conflict(i)
  BY <1>0, <1>9, IdleBudget, BudgetMove DEF Finish, Conflict
<1>10. QED
  BY <1>1, <1>2, <1>3, <1>4, <1>5, <1>6, <1>7, <1>8, <1>9 DEF RunStep

LEMMA BudgetFailure ==
  ASSUME TypeInv, BudgetInv, NEW i \in Runs, Failure(i)
  PROVE  BudgetInv'
<1> DEFINE r == run[i]
           a == [r EXCEPT !.step = "failed", !.pending = <<>>]
           b == [r EXCEPT !.step = "flush", !.after = "partial", !.rows = <<>>]
<1>0. TypeOK /\ r \in RunStates /\ BudgetOf(r)
  BY RunType DEF TypeInv, BudgetInv
<1>1. Set(i, a) \/ Set(i, b) \/ Set(i, Idle)
  BY Zenon DEF Failure, ToolFails, Deadline, EndOfBudget, SubmitRefused, Die
<1>2. BudgetOf(a) /\ BudgetOf(b)
  BY <1>0, BudgetTypes DEF BudgetOf, RunStates
<1>3. QED BY <1>0, <1>1, <1>2, IdleBudget, BudgetMove, Zenon

LEMMA BudgetStep == TypeInv /\ BudgetInv /\ [Next]_vars => BudgetInv'
<1> SUFFICES ASSUME TypeInv, BudgetInv, [Next]_vars PROVE BudgetInv'
  OBVIOUS
<1>1. ASSUME NEW i \in Runs, NEW mode \in {"incremental", "full"},
             NEW budget \in Budgets, Start(i, mode, budget)
      PROVE  BudgetInv'
  <2> DEFINE cursor == IF mode = "full" THEN None ELSE kv.cursor
             digests == IF mode = "full" THEN NoDigests ELSE kv.digests
             new == [Idle EXCEPT !.step = "parents", !.mode = mode, !.budget = budget,
                       !.cursor = cursor, !.high = cursor, !.digests = digests]
  <2>1. Set(i, new)
    BY <1>1 DEF Start
  <2>2. budget \in [pages : Nat, records : Nat] /\ BatchSize \in Nat \ {0}
    BY SourceSyncAssumption
  <2> HIDE DEF cursor, digests
  <2>3. BudgetOf(new)
    BY <2>2 DEF Idle, BudgetOf
  <2>4. QED BY <2>1, <2>3, BudgetMove DEF TypeInv
<1>2. ASSUME NEW r \in Records, Touch(r) PROVE BudgetInv'
  BY <1>2 DEF Touch, BudgetInv, BudgetOf
<1>3. CASE UNCHANGED vars
  BY <1>3 DEF vars, BudgetInv, BudgetOf
<1>4. QED BY <1>1, <1>2, <1>3, BudgetRunStep, BudgetFailure DEF Next

\* No run reads more pages or records than its budget, parents included, and no
\* batch outgrows batch_size, for any listing, page size and budget.
THEOREM BudgetsHold == Spec => []WithinBudget
<1>1. Init => BudgetInv
  BY IdleBudget DEF Init, BudgetInv
<1>2. Spec => [](TypeInv /\ BudgetInv)
  BY <1>1, TypeInit, TypeStep, BudgetStep, PTL DEF Spec
<1>3. BudgetInv => WithinBudget
  BY DEF BudgetInv, BudgetOf, WithinBudget
<1>4. QED BY <1>2, <1>3, PTL

--------------------------------------------------------------------------------
(* The order of cursor values *)

\* Cursor values are compared as texts, character by character.
Leq(s, t) ==
    \/ Len(s) <= Len(t) /\ \A i \in 1..Len(s) : s[i] = t[i]
    \/ \E i \in 1..Len(s) :
         /\ i <= Len(t) /\ s[i] < t[i]
         /\ \A j \in 1..(i - 1) : s[j] = t[j]

LEMMA TextOrder ==
  ASSUME NEW m \in Stamps, NEW n \in Stamps
  PROVE  TextOf[m] \in Seq(Nat) /\ (TextLeq(m, n) <=> Leq(TextOf[m], TextOf[n]))
  BY SourceSyncAssumption DEF Stamps, TextLeq, Leq

\* Two texts are equal as far as both go, or differ first at some place.
LEMMA FirstDifference ==
  ASSUME NEW s \in Seq(Nat), NEW t \in Seq(Nat)
  PROVE  \/ \A i \in 1..Len(s) : i <= Len(t) => s[i] = t[i]
         \/ \E i \in 1..Len(s) : /\ i <= Len(t) /\ s[i] # t[i]
                                 /\ \A j \in 1..(i - 1) : s[j] = t[j]
<1> DEFINE D == {i \in Nat : i \in 1..Len(s) /\ i <= Len(t) /\ s[i] # t[i]}
<1>1. Len(s) \in Nat /\ Len(t) \in Nat
  OBVIOUS
<1>0. ASSUME D = {} PROVE \A i \in 1..Len(s) : i <= Len(t) => s[i] = t[i]
  <2> SUFFICES ASSUME NEW i \in 1..Len(s), i <= Len(t), s[i] # t[i] PROVE FALSE
    OBVIOUS
  <2>1. i \in D
    BY <1>1
  <2>2. QED BY <1>0, <2>1
<1> SUFFICES ASSUME NEW k \in D
             PROVE  \E i \in 1..Len(s) : /\ i <= Len(t) /\ s[i] # t[i]
                                         /\ \A j \in 1..(i - 1) : s[j] = t[j]
  BY <1>0
<1>2. \E i \in D : \A y \in D : ~(<<y, i>> \in OpToRel(<, Nat))
  BY WFMin, NatLessThanWellFounded
<1>3. PICK i \in D : \A y \in D : ~(y < i)
  BY <1>2 DEF OpToRel
<1>4. ASSUME NEW j \in 1..(i - 1) PROVE s[j] = t[j]
  <2>1. j \in Nat /\ j < i /\ j \in 1..Len(s) /\ j <= Len(t)
    BY <1>1, <1>3, SMTT(30)
  <2>2. QED BY <1>3, <2>1
<1>5. QED BY <1>3, <1>4

LEMMA LeqTotal ==
  ASSUME NEW s \in Seq(Nat), NEW t \in Seq(Nat)
  PROVE  Leq(s, t) \/ Leq(t, s)
<1>1. Len(s) \in Nat /\ Len(t) \in Nat
  OBVIOUS
<1>2. CASE \A i \in 1..Len(s) : i <= Len(t) => s[i] = t[i]
  BY <1>1, <1>2 DEF Leq
<1>3. ASSUME NEW i \in 1..Len(s), i <= Len(t), s[i] # t[i],
             \A j \in 1..(i - 1) : s[j] = t[j]
      PROVE  Leq(s, t) \/ Leq(t, s)
  <2>1. i \in 1..Len(t) /\ s[i] \in Nat /\ t[i] \in Nat
    BY <1>1, <1>3
  <2>2. s[i] < t[i] \/ t[i] < s[i]
    BY <1>3, <2>1
  <2>3. QED BY <1>3, <2>1, <2>2 DEF Leq
<1>4. QED BY <1>2, <1>3, FirstDifference

LEMMA LeqTransitive ==
  ASSUME NEW s \in Seq(Nat), NEW t \in Seq(Nat), NEW u \in Seq(Nat), Leq(s, t), Leq(t, u)
  PROVE  Leq(s, u)
<1>1. Len(s) \in Nat /\ Len(t) \in Nat /\ Len(u) \in Nat
  OBVIOUS
<1>2. CASE Len(s) <= Len(t) /\ \A i \in 1..Len(s) : s[i] = t[i]
  <2>1. CASE Len(t) <= Len(u) /\ \A i \in 1..Len(t) : t[i] = u[i]
    BY <1>1, <1>2, <2>1 DEF Leq
  <2>2. ASSUME NEW k \in 1..Len(t), k <= Len(u), t[k] < u[k],
               \A j \in 1..(k - 1) : t[j] = u[j]
        PROVE  Leq(s, u)
    <3>1. CASE k <= Len(s)
      <4>1. k \in 1..Len(s) /\ s[k] = t[k]
        BY <1>1, <1>2, <3>1
      <4>2. \A j \in 1..(k - 1) : s[j] = u[j]
        BY <1>1, <1>2, <2>2, <3>1
      <4>3. QED BY <2>2, <4>1, <4>2 DEF Leq
    <3>2. CASE Len(s) < k
      BY <1>1, <1>2, <2>2, <3>2, SMTT(30) DEF Leq
    <3>3. QED BY <1>1, <3>1, <3>2
  <2>3. QED BY <2>1, <2>2 DEF Leq
<1>3. ASSUME NEW i \in 1..Len(s), i <= Len(t), s[i] < t[i], \A j \in 1..(i - 1) : s[j] = t[j]
      PROVE  Leq(s, u)
  <2>1. CASE Len(t) <= Len(u) /\ \A j \in 1..Len(t) : t[j] = u[j]
    <3>1. i <= Len(u) /\ s[i] < u[i]
      BY <1>1, <1>3, <2>1
    <3>2. \A j \in 1..(i - 1) : s[j] = u[j]
      BY <1>1, <1>3, <2>1
    <3>3. QED BY <3>1, <3>2 DEF Leq
  <2>2. ASSUME NEW k \in 1..Len(t), k <= Len(u), t[k] < u[k],
               \A j \in 1..(k - 1) : t[j] = u[j]
        PROVE  Leq(s, u)
    <3>0. s[i] \in Nat /\ t[i] \in Nat /\ i \in 1..Len(t) /\ t[k] \in Nat /\ u[k] \in Nat
      <4>1. i \in 1..Len(t) /\ k \in 1..Len(u)
        BY <1>1, <1>3, <2>2
      <4>2. QED BY <1>3, <2>2, <4>1, ElementOfSeq
    <3>1. CASE i < k
      <4>1. i <= Len(u) /\ s[i] < u[i] /\ \A j \in 1..(i - 1) : s[j] = u[j]
        BY SMTT(60), <1>1, <1>3, <2>2, <3>1
      <4>2. QED BY <4>1 DEF Leq
    <3>2. CASE i = k
      <4>1. u[i] \in Nat /\ s[i] < u[i]
        BY SMTT(60), <1>3, <2>2, <3>0, <3>2
      <4>2. QED BY <1>3, <2>2, <3>2, <4>1 DEF Leq
    <3>3. CASE k < i
      <4>1. k \in 1..Len(s) /\ s[k] < u[k] /\ \A j \in 1..(k - 1) : s[j] = u[j]
        BY SMTT(60), <1>1, <1>3, <2>2, <3>3
      <4>2. QED BY <2>2, <4>1 DEF Leq
    <3>4. QED BY <3>1, <3>2, <3>3
  <2>3. QED BY <2>1, <2>2 DEF Leq
<1>4. QED BY <1>2, <1>3 DEF Leq

\* The comparison of cursor values is a total preorder, whatever their texts.
LEMMA TextLeqReflexive ==
  ASSUME NEW m \in Stamps
  PROVE  TextLeq(m, m)
  BY TextOrder DEF Leq

LEMMA TextLeqTotal ==
  ASSUME NEW m \in Stamps, NEW n \in Stamps
  PROVE  TextLeq(m, n) \/ TextLeq(n, m)
  BY TextOrder, LeqTotal

LEMMA TextLeqTransitive ==
  ASSUME NEW m \in Stamps, NEW n \in Stamps, NEW o \in Stamps, TextLeq(m, n), TextLeq(n, o)
  PROVE  TextLeq(m, o)
  BY TextOrder, LeqTransitive

--------------------------------------------------------------------------------
(* The stored cursor *)

\* A run takes at least the cursor it resumed from to its next store; a run that may
\* still store, and did not forget the cursor, resumed from the stored one.
Ahead(r) == r.cursor # None => r.high # None /\ TextLeq(r.cursor, r.high)
InStep(r, cursor) == r.step # "idle" /\ r.mode # "full" => r.cursor = cursor
ForwardInv ==
    \A i \in Runs : Ahead(run[i]) /\ (i \in current => InStep(run[i], kv.cursor))

\* The steps of a run between its start and its stores leave both cursors alone.
SameCursors(r, new) ==
    new.cursor = r.cursor /\ new.high = r.high /\ new.mode = r.mode

LEMMA CursorsKept ==
  ASSUME TypeInv, NEW i \in Runs,
         \/ ReadParents(i) \/ ReadPage(i) \/ Complete(i) \/ PageDone(i) \/ FlushNothing(i)
         \/ Submit(i) \/ ToolFails(i) \/ Deadline(i) \/ SubmitRefused(i)
  PROVE  /\ \A j \in Runs \ {i} : run'[j] = run[j]
         /\ SameCursors(run[i], run'[i])
         /\ run[i].step # "idle" /\ kv' = kv /\ current' = current
<1> DEFINE r == run[i]
<1>0. TypeOK /\ r \in RunStates
  BY RunType DEF TypeInv
<1>1. r.step # "idle" /\ kv' = kv /\ current' = current
  BY DEF ReadParents, ReadPage, Complete, PageDone, FlushNothing, Submit, ToolFails,
     Deadline, SubmitRefused, Calling, stored
<1>2. ASSUME NEW new, Set(i, new), SameCursors(r, new)
      PROVE  (\A j \in Runs \ {i} : run'[j] = run[j]) /\ SameCursors(r, run'[i])
  BY <1>0, <1>2 DEF Set, TypeOK
<1>3. CASE ReadParents(i) \/ Complete(i) \/ Submit(i)
  <2> DEFINE a == [r EXCEPT !.step = "failed", !.pages = r.budget.pages]
             b == [r EXCEPT !.step = "sweep", !.pages = ParentPages]
             c == [r EXCEPT !.step = "completed"]
             d == [r EXCEPT !.step = "store"]
  <2>1. Set(i, a) \/ Set(i, b) \/ Set(i, c) \/ Set(i, d)
    BY <1>3, Zenon DEF ReadParents, Complete, Submit
  <2>2. SameCursors(r, a) /\ SameCursors(r, b) /\ SameCursors(r, c) /\ SameCursors(r, d)
    BY <1>0 DEF RunStates, SameCursors
  <2>3. QED BY <1>1, <1>2, <2>1, <2>2, Zenon
<1>4. CASE ReadPage(i)
  <2> DEFINE rows == PageOf(r.sweep, r.page)
             short == ~Paged \/ Len(rows) < PageSize
             a == [r EXCEPT !.step = "flush", !.after = "partial", !.rows = <<>>]
             b == [r EXCEPT !.step = "flush", !.after = "partial", !.pages = r.pages + 1]
             c == [r EXCEPT !.step = "take", !.rows = rows, !.pages = r.pages + 1,
                            !.short = short]
  <2>1. Set(i, a) \/ Set(i, b) \/ Set(i, c)
    BY <1>4, Zenon DEF ReadPage, EndOfBudget
  <2> HIDE DEF rows, short
  <2>2. SameCursors(r, a) /\ SameCursors(r, b) /\ SameCursors(r, c)
    BY <1>0 DEF RunStates, SameCursors
  <2>3. QED BY <1>1, <1>2, <2>1, <2>2, Zenon
<1>5. CASE PageDone(i)
  <2> DEFINE a == [r EXCEPT !.step = "flush", !.after = "next"]
             b == [r EXCEPT !.step = "sweep", !.page = r.page + 1]
  <2>1. Set(i, a) \/ Set(i, b)
    BY <1>5, Zenon DEF PageDone
  <2>2. SameCursors(r, a) /\ SameCursors(r, b)
    BY <1>0 DEF RunStates, SameCursors
  <2>3. QED BY <1>1, <1>2, <2>1, <2>2, Zenon
<1>6. CASE FlushNothing(i)
  <2>1. Set(i, Resume(r)) /\ r.after \in {"take", "partial", "next"}
    BY <1>6, RunType DEF FlushNothing
  <2>2. SameCursors(r, Resume(r))
    BY <1>0, <2>1 DEF Resume, RunStates, SameCursors
  <2>3. QED BY <1>1, <1>2, <2>1, <2>2
<1>7. CASE ToolFails(i) \/ Deadline(i) \/ SubmitRefused(i)
  <2> DEFINE a == [r EXCEPT !.step = "failed", !.pending = <<>>]
             b == [r EXCEPT !.step = "flush", !.after = "partial", !.rows = <<>>]
  <2>1. Set(i, a) \/ Set(i, b)
    BY <1>7, Zenon DEF ToolFails, Deadline, EndOfBudget, SubmitRefused
  <2>2. SameCursors(r, a) /\ SameCursors(r, b)
    BY <1>0 DEF RunStates, SameCursors
  <2>3. QED BY <1>1, <1>2, <2>1, <2>2, Zenon
<1>8. QED BY <1>3, <1>4, <1>5, <1>6, <1>7

\* run.cursor only grows.
LEMMA HigherIsAhead ==
  ASSUME NEW cursor \in Stamps, NEW high \in Stamps, NEW n \in Stamps, TextLeq(cursor, high)
  PROVE  Higher(high, n) \in Stamps /\ TextLeq(cursor, Higher(high, n))
<1>1. high # None
  BY SourceSyncAssumption DEF Stamps
<1>2. CASE TextLeq(n, high)
  BY <1>1, <1>2 DEF Higher
<1>3. CASE ~TextLeq(n, high)
  <2>1. TextLeq(high, n)
    BY <1>3, TextLeqTotal
  <2>2. QED BY <1>3, <2>1, TextLeqTransitive DEF Higher
<1>4. QED BY <1>2, <1>3

\* What a run takes, and its cursors after it.
LEMMA TakeCursors ==
  ASSUME TypeInv, NEW i \in Runs, Take(i)
  PROVE  /\ \A j \in Runs \ {i} : run'[j] = run[j]
         /\ Head(run[i].rows) \in Rows
         /\ run'[i].cursor = run[i].cursor /\ run'[i].mode = run[i].mode
         /\ run'[i].high = IF IsUnchanged(i, Head(run[i].rows)) THEN run[i].high
                           ELSE Higher(run[i].high, Head(run[i].rows).stamp)
         /\ run[i].step = "take" /\ kv' = kv /\ current' = current
<1> DEFINE r == run[i]
           row == Head(r.rows)
           pending == IF IsUnchanged(i, row) THEN r.pending ELSE Append(r.pending, row)
           high == IF IsUnchanged(i, row) THEN r.high ELSE Higher(r.high, row.stamp)
           step == IF Len(pending) >= BatchSize THEN "flush" ELSE "take"
           new == [r EXCEPT !.rows = Tail(r.rows), !.seen = r.seen + 1,
                     !.pending = pending, !.high = high, !.step = step, !.after = "take"]
<1>0. TypeOK /\ r \in RunStates
  BY RunType DEF TypeInv
<1>1. row \in Rows
  BY <1>0 DEF Take, RunStates
<1>2. Set(i, new)
  BY Zenon DEF Take
<1>3. r.step = "take" /\ kv' = kv /\ current' = current
  BY DEF Take, stored
<1> HIDE DEF row, pending, high, step
<1>4. new.cursor = r.cursor /\ new.mode = r.mode /\ new.high = high
  BY <1>0 DEF RunStates
<1> HIDE DEF new
<1>5. \A j \in Runs : run'[j] = IF j = i THEN new ELSE run[j]
  BY <1>0, <1>2 DEF Set, TypeOK
<1>6. QED BY <1>1, <1>3, <1>4, <1>5 DEF row, high

\* A store takes the run's high value, or at the end its cursor, to the checkpoint.
LEMMA StoreCursors ==
  ASSUME TypeInv, NEW i \in Runs, StoreBatch(i)
  PROVE  /\ \A j \in Runs \ {i} : run'[j] = run[j]
         /\ kv'.cursor = run[i].high /\ i \in current /\ current' = {i}
         /\ run'[i].cursor = run[i].high /\ run'[i].high = run[i].high
         /\ run'[i].mode = run[i].mode /\ run'[i] # run[i] /\ run[i].step = "store"
<1> DEFINE r == run[i]
<1>0. TypeOK /\ r \in RunStates
  BY RunType DEF TypeInv
<1>1. PICK digests \in Kept(Merged(i)) :
        /\ Store(i, r.high, digests)
        /\ Set(i, Resume([r EXCEPT !.cursor = r.high, !.digests = digests,
                                   !.pending = <<>>]))
  BY DEF StoreBatch
<1> DEFINE q == [r EXCEPT !.cursor = r.high, !.digests = digests, !.pending = <<>>]
<1>2. r.after \in {"take", "partial", "next"} /\ r.step = "store"
  BY RunType DEF StoreBatch
<1>3. /\ q.after = r.after /\ q.cursor = r.high /\ q.high = r.high /\ q.mode = r.mode
      /\ DOMAIN q = DOMAIN r
  BY <1>0 DEF RunStates
<1>4. Set(i, Resume(q))
  BY <1>1
<1> HIDE DEF q
<1>5. /\ Resume(q).cursor = r.high /\ Resume(q).high = r.high /\ Resume(q).mode = r.mode
      /\ Resume(q).step \in {"take", "partial", "sweep"}
  BY <1>0, <1>2, <1>3 DEF Resume, RunStates
<1>6. \A j \in Runs : run'[j] = IF j = i THEN Resume(q) ELSE run[j]
  BY <1>0, <1>4 DEF Set, TypeOK
<1>7. kv'.cursor = r.high /\ i \in current /\ current' = {i}
  BY <1>1 DEF Store, SameVersion
<1>8. QED BY <1>2, <1>5, <1>6, <1>7

LEMMA FinishCursors ==
  ASSUME TypeInv, NEW i \in Runs, Finish(i)
  PROVE  /\ \A j \in Runs \ {i} : run'[j] = run[j]
         /\ run'[i] = Idle /\ run[i].step # "idle"
         /\ kv'.cursor = run[i].cursor /\ i \in current /\ current' = {i}
  BY DEF Finish, Store, SameVersion, Set, TypeInv, TypeOK

LEMMA ForwardRunStep ==
  ASSUME TypeInv, ForwardInv, NEW i \in Runs, RunStep(i) \/ Failure(i)
  PROVE  ForwardInv'
<1> DEFINE r == run[i]
<1>0. r \in RunStates /\ Ahead(r) /\ (i \in current => InStep(r, kv.cursor))
  BY RunType DEF ForwardInv
<1>1. ASSUME \A j \in Runs \ {i} : run'[j] = run[j],
             (kv' = kv /\ current' = current) \/ current' = {i},
             Ahead(run'[i]), i \in current' => InStep(run'[i], kv'.cursor)
      PROVE  ForwardInv'
  <2>1. \A j \in Runs : /\ Ahead(run'[j])
                        /\ j \in current' => InStep(run'[j], kv'.cursor)
    BY <1>1 DEF ForwardInv
  <2>2. QED BY <2>1 DEF ForwardInv, Ahead, InStep
<1>2. Ahead(Idle) /\ \A c : InStep(Idle, c)
  BY DEF Idle, Ahead, InStep
<1>3. CASE \/ ReadParents(i) \/ ReadPage(i) \/ Complete(i) \/ PageDone(i) \/ FlushNothing(i)
           \/ Submit(i) \/ ToolFails(i) \/ Deadline(i) \/ SubmitRefused(i)
  <2>1. /\ \A j \in Runs \ {i} : run'[j] = run[j]
        /\ SameCursors(r, run'[i])
        /\ r.step # "idle" /\ kv' = kv /\ current' = current
    BY <1>3, CursorsKept
  <2>2. QED BY <1>0, <1>1, <2>1 DEF SameCursors, Ahead, InStep
<1>4. CASE Take(i)
  <2> DEFINE row == Head(r.rows)
  <2>1. /\ \A j \in Runs \ {i} : run'[j] = run[j]
        /\ row \in Rows
        /\ run'[i].cursor = r.cursor /\ run'[i].mode = r.mode
        /\ run'[i].high = IF IsUnchanged(i, row) THEN r.high ELSE Higher(r.high, row.stamp)
        /\ r.step = "take" /\ kv' = kv /\ current' = current
    BY <1>4, TakeCursors
  <2> HIDE DEF row
  <2>2. Ahead(run'[i])
    <3> SUFFICES ASSUME r.cursor # None
                 PROVE  run'[i].high # None /\ TextLeq(r.cursor, run'[i].high)
      BY <2>1 DEF Ahead
    <3>1. r.cursor \in Stamps /\ r.high \in Stamps /\ TextLeq(r.cursor, r.high)
      BY <1>0 DEF RunStates, Ahead
    <3>2. row.stamp \in Stamps /\ None \notin Stamps
      BY <2>1, SourceSyncAssumption DEF Rows, Stamps
    <3>3. QED BY <2>1, <3>1, <3>2, HigherIsAhead
  <2>3. QED BY <1>0, <1>1, <2>1, <2>2 DEF InStep
<1>5. CASE StoreBatch(i)
  <2>1. /\ \A j \in Runs \ {i} : run'[j] = run[j]
        /\ kv'.cursor = r.high /\ i \in current /\ current' = {i}
        /\ run'[i].cursor = r.high /\ run'[i].high = r.high
    BY <1>5, StoreCursors
  <2>2. r.high # None => TextLeq(r.high, r.high)
    BY <1>0, TextLeqReflexive DEF RunStates
  <2>3. QED BY <1>1, <2>1, <2>2 DEF Ahead, InStep
<1>6. CASE Finish(i)
  BY <1>1, <1>2, <1>6, FinishCursors
<1>7. CASE Conflict(i) \/ Die(i)
  <2>1. /\ \A j \in Runs \ {i} : run'[j] = run[j]
        /\ run'[i] = Idle /\ kv' = kv /\ current' = current
    BY <1>7 DEF Conflict, Die, stored, Set, TypeInv, TypeOK
  <2>2. QED BY <1>1, <1>2, <2>1
<1>8. QED BY <1>3, <1>4, <1>5, <1>6, <1>7 DEF RunStep, Failure

LEMMA ForwardStep == TypeInv /\ ForwardInv /\ [Next]_vars => ForwardInv'
<1> SUFFICES ASSUME TypeInv, ForwardInv, [Next]_vars PROVE ForwardInv'
  OBVIOUS
<1>1. ASSUME NEW i \in Runs, NEW mode \in {"incremental", "full"},
             NEW budget \in Budgets, Start(i, mode, budget)
      PROVE  ForwardInv'
  <2> DEFINE cursor == IF mode = "full" THEN None ELSE kv.cursor
             digests == IF mode = "full" THEN NoDigests ELSE kv.digests
             new == [Idle EXCEPT !.step = "parents", !.mode = mode, !.budget = budget,
                       !.cursor = cursor, !.high = cursor, !.digests = digests]
  <2>1. Set(i, new) /\ kv' = kv /\ current' = current \cup {i}
    BY <1>1 DEF Start
  <2>2. cursor \in Stamps \cup {None}
    BY RunType
  <2>3. mode # "full" => cursor = kv.cursor
    OBVIOUS
  <2> HIDE DEF cursor, digests
  <2>4. new.cursor = cursor /\ new.high = cursor /\ new.mode = mode
    BY IdleType DEF RunStates
  <2> HIDE DEF new
  <2>5. Ahead(new) /\ InStep(new, kv.cursor)
    BY <2>2, <2>3, <2>4, TextLeqReflexive DEF Ahead, InStep
  <2>6. \A j \in Runs : run'[j] = IF j = i THEN new ELSE run[j]
    BY <2>1 DEF Set, TypeInv, TypeOK
  <2>7. \A j \in Runs : Ahead(run'[j]) /\ (j \in current' => InStep(run'[j], kv'.cursor))
    BY <2>1, <2>5, <2>6 DEF ForwardInv
  <2>8. QED BY <2>7 DEF ForwardInv, Ahead, InStep
<1>2. ASSUME NEW r \in Records, Touch(r) PROVE ForwardInv'
  BY <1>2 DEF Touch, ForwardInv, Ahead, InStep, stored
<1>3. CASE UNCHANGED vars
  BY <1>3 DEF vars, ForwardInv, Ahead, InStep
<1>4. QED BY <1>1, <1>2, <1>3, ForwardRunStep DEF Next

\* The stored cursor never moves back but for a full run, whatever runs overlap, fail
\* or die, and however str() renders the cursor values: store() is compare-and-swap,
\* and a run takes at least the cursor it resumed from to it.
THEOREM CursorMovesForward == Spec => CursorOnlyForward
<1> DEFINE Forward ==
             \/ kv'.cursor = kv.cursor
             \/ kv.cursor = None
             \/ (kv'.cursor # None /\ TextLeq(kv.cursor, kv'.cursor))
             \/ \E i \in Runs : run[i].mode = "full" /\ run'[i] # run[i]
<1>1. Init => ForwardInv
  BY DEF Init, ForwardInv, Idle, Ahead
<1>2. ASSUME TypeInv, ForwardInv, [Next]_vars PROVE Forward
  <2>1. ASSUME NEW i \in Runs, RunStep(i) \/ Failure(i) PROVE Forward
    <3>1. /\ run[i] \in RunStates /\ Ahead(run[i])
          /\ i \in current => InStep(run[i], kv.cursor)
      BY <1>2, RunType DEF ForwardInv
    <3>2. CASE \/ ReadParents(i) \/ ReadPage(i) \/ Complete(i) \/ PageDone(i)
               \/ FlushNothing(i) \/ Submit(i) \/ ToolFails(i) \/ Deadline(i)
               \/ SubmitRefused(i)
      <4>1. kv' = kv
        BY <1>2, <3>2, CursorsKept
      <4>2. QED BY <4>1
    <3>3. CASE Take(i) \/ Conflict(i) \/ Die(i)
      BY <3>3 DEF Take, Conflict, Die, stored
    <3>4. CASE StoreBatch(i)
      <4>1. /\ kv'.cursor = run[i].high /\ i \in current /\ run'[i] # run[i]
            /\ run[i].step = "store"
        BY <1>2, <3>4, StoreCursors
      <4>2. QED BY <3>1, <4>1 DEF Ahead, InStep
    <3>5. CASE Finish(i)
      <4>1. /\ kv'.cursor = run[i].cursor /\ i \in current /\ run'[i] = Idle
            /\ run[i].step # "idle"
        BY <1>2, <3>5, FinishCursors
      <4>2. run'[i] # run[i]
        BY <4>1 DEF Idle
      <4>3. QED BY <3>1, <4>1, <4>2 DEF InStep
    <3>6. QED BY <2>1, <3>2, <3>3, <3>4, <3>5 DEF RunStep, Failure
  <2>2. ASSUME NEW i \in Runs, NEW mode \in {"incremental", "full"},
               NEW budget \in Budgets, Start(i, mode, budget)
        PROVE  Forward
    BY <2>2 DEF Start
  <2>3. ASSUME NEW r \in Records, Touch(r) PROVE Forward
    BY <2>3 DEF Touch, stored
  <2>4. CASE UNCHANGED vars
    BY <2>4 DEF vars
  <2>5. QED BY <1>2, <2>1, <2>2, <2>3, <2>4 DEF Next
<1>3. Spec => [](TypeInv /\ ForwardInv)
  BY <1>1, TypeInit, TypeStep, ForwardStep, PTL DEF Spec
<1>4. QED BY <1>2, <1>3, PTL DEF Spec, CursorOnlyForward

--------------------------------------------------------------------------------
(* The watermark *)

\* A tool that lists the whole source at once, oldest first, no two records with the
\* same cursor value, and whose cursor values compare as text as they do as numbers.
OldestFirst ==
    /\ Sweeps = 1 /\ ~Paged /\ Ascending
    /\ \A m, n \in Stamps : TextLeq(m, n) <=> m <= n
    /\ \A j, k \in 1..Len(Listing0[1]) :
         j < k => Stamp0[Listing0[1][j]] < Stamp0[Listing0[1][k]]

\* The listing stays sorted.
ListedInOrder ==
    \A j, k \in 1..Len(listing[1]) : j < k => stamp[listing[1][j]] < stamp[listing[1][k]]

\* The engine took the record as the source has it.
Known(x) == <<x, content[x]>> \in ever

\* Nothing is left behind cursor value v, and the source has come as far as v.
Covered(v) == v # None => \A x \in Listed : stamp[x] <= v => Known(x)
Reached(v) == v # None => \E x \in Records : v <= stamp[x]

\* The source has not changed the record since the row was read, or it did, and the
\* record comes after everything the run has read.
Current(row) == row.digest = content[row.id] /\ row.stamp = stamp[row.id]
Past(r, x) ==
    /\ r.high # None => r.high < stamp[x]
    /\ \A k \in 1..Len(r.rows) : r.rows[k].stamp < stamp[x]

Sound(r) ==
    /\ Covered(r.cursor) /\ Reached(r.cursor) /\ Reached(r.high)
    /\ \A k \in 1..Len(r.rows) :
         /\ Reached(r.rows[k].stamp)
         /\ Current(r.rows[k]) \/ Past(r, r.rows[k].id)
    /\ \A j, k \in 1..Len(r.rows) : j < k => r.rows[j].stamp < r.rows[k].stamp
    /\ \A k \in 1..Len(r.pending) : Current(r.pending[k]) \/ Past(r, r.pending[k].id)

\* The source is read at once: between two reads nothing is pending.
OnePage(r) ==
    /\ r.step \in {"parents", "sweep"} => r.pending = <<>>
    /\ r.step = "take" \/ (r.step \in {"flush", "store"} /\ r.after = "take") => r.short

\* Until it fails, a run holds what its high value leaves behind, and what it has
\* still to take comes after that.
Going(r) == r.step \in {"parents", "sweep", "take", "flush", "store"}
Holds(r) ==
    /\ r.high # None => \A x \in Listed : stamp[x] <= r.high => Known(x) \/ x \in Ids(r.pending)
    /\ r.rows # <<>> =>
         \A x \in Listed :
            Known(x) \/ x \in Ids(r.pending) \/ x \in Ids(r.rows) \/ Past(r, x)

WatermarkInv ==
    /\ ListedInOrder
    /\ Covered(kv.cursor) /\ Reached(kv.cursor)
    /\ \A i \in Runs :
         Sound(run[i]) /\ OnePage(run[i]) /\ (Going(run[i]) => Holds(run[i]))

LEMMA OrderedCursors ==
  ASSUME OldestFirst, NEW m \in Stamps, NEW n \in Stamps
  PROVE  m \in Nat /\ n \in Nat /\ (TextLeq(m, n) <=> m <= n) /\ None \notin Stamps
  BY SourceSyncAssumption DEF OldestFirst, Stamps

RunSound(r) == Sound(r) /\ OnePage(r) /\ (Going(r) => Holds(r))

\* What is said of a run's state goes on to hold while the source stays the same.
LEMMA KeptSound ==
  ASSUME UNCHANGED origin, ever \subseteq ever',
         NEW j \in Runs, run'[j] = run[j], RunSound(run[j])
  PROVE  RunSound(run[j])'
<1> DEFINE r == run[j]
<1>1. Listed' = Listed
  BY DEF origin, Listed
<1>2. Sound(run[j])'
  BY <1>1 DEF RunSound, Sound, Covered, Reached, Known, Current, Past, origin
<1>3. OnePage(run[j])' /\ (Going(run[j])' => Going(run[j]))
  BY DEF RunSound, OnePage, Going
<1>4. Holds(run[j]) => Holds(run[j])'
  BY <1>1 DEF Holds, Known, Past, Ids, origin
<1>5. QED BY <1>2, <1>3, <1>4 DEF RunSound

\* A step that only moves run i, to a sound state, and leaves the source alone.
LEMMA SoundMove ==
  ASSUME WatermarkInv, NEW i \in Runs, UNCHANGED origin, ever \subseteq ever',
         \A j \in Runs \ {i} : run'[j] = run[j], RunSound(run[i])',
         kv'.cursor = kv.cursor \/ (Covered(kv.cursor)' /\ Reached(kv.cursor)')
  PROVE  WatermarkInv'
<1>1. Listed' = Listed /\ ListedInOrder'
  BY DEF WatermarkInv, ListedInOrder, Listed, origin
<1>2. Covered(kv.cursor)' /\ Reached(kv.cursor)'
  BY <1>1 DEF WatermarkInv, Covered, Reached, Known, origin
<1>3. ASSUME NEW j \in Runs PROVE RunSound(run[j])'
  <2>1. CASE j = i
    BY <2>1
  <2>2. CASE j # i
    BY <2>2, KeptSound DEF WatermarkInv, RunSound
  <2>3. QED BY <2>1, <2>2
<1>4. QED BY <1>1, <1>2, <1>3 DEF WatermarkInv, RunSound

\* A step of a run that takes no rows: it may give some up, and fail.
Shrinks(r, new) ==
    /\ new.cursor = r.cursor /\ new.high = r.high
    /\ new.rows = r.rows \/ new.rows = <<>>
    /\ new.pending = r.pending \/ (new.pending = <<>> /\ new.step = "failed")
    /\ Going(new) => Going(r)
    /\ OnePage(r) => OnePage(new)

LEMMA ShrinkStep ==
  ASSUME TypeOK, WatermarkInv, NEW i \in Runs, NEW new, Set(i, new), Shrinks(run[i], new),
         UNCHANGED origin, ever \subseteq ever', kv' = kv
  PROVE  WatermarkInv'
<1>1. run'[i] = new /\ \A j \in Runs \ {i} : run'[j] = run[j]
  BY DEF Set, TypeOK
<1>2. RunSound(run[i]) /\ Listed' = Listed
  BY DEF WatermarkInv, RunSound, Listed, origin
<1>3. Covered(run[i].cursor)' /\ Reached(run[i].cursor)' /\ Reached(run[i].high)'
  BY <1>1, <1>2 DEF RunSound, Sound, Covered, Reached, Known, Shrinks, origin
<1>4. \A k \in 1..Len(new.rows) :
        /\ k \in 1..Len(run[i].rows) /\ new.rows[k] = run[i].rows[k]
  BY DEF Shrinks
<1>5. \A x : Past(run[i], x) => Past(run[i], x)'
  BY <1>1, <1>4 DEF Past, Shrinks, origin
<1>6. \A k \in 1..Len(new.pending) :
        /\ k \in 1..Len(run[i].pending) /\ new.pending[k] = run[i].pending[k]
  BY DEF Shrinks
<1>7. Sound(run[i])'
  <2>1. \A k \in 1..Len(run'[i].rows) :
          /\ Reached(run[i].rows[k].stamp)'
          /\ Current(run[i].rows[k])' \/ Past(run[i], run[i].rows[k].id)'
    <3> SUFFICES ASSUME NEW k \in 1..Len(new.rows)
                 PROVE  /\ Reached(run[i].rows[k].stamp)'
                        /\ Current(run[i].rows[k])' \/ Past(run[i], run[i].rows[k].id)'
      BY <1>1
    <3>1. k \in 1..Len(run[i].rows) /\ run'[i].rows[k] = run[i].rows[k]
      BY <1>1, <1>4
    <3>2. /\ Reached(run[i].rows[k].stamp)
          /\ Current(run[i].rows[k]) \/ Past(run[i], run[i].rows[k].id)
      BY <1>2, <3>1 DEF RunSound, Sound
    <3>3. Reached(run[i].rows[k].stamp)'
      BY <3>1, <3>2 DEF Reached, origin
    <3>4. Current(run[i].rows[k]) => Current(run[i].rows[k])'
      BY <3>1 DEF Current, origin
    <3>5. Past(run[i], run[i].rows[k].id) => Past(run[i], run[i].rows[k].id)'
      BY <1>5, <3>1 DEF Past
    <3>6. QED BY <3>2, <3>3, <3>4, <3>5
  <2>2. \A j, k \in 1..Len(run'[i].rows) :
          j < k => run'[i].rows[j].stamp < run'[i].rows[k].stamp
    BY <1>1, <1>2, <1>4 DEF RunSound, Sound
  <2>3. \A k \in 1..Len(run'[i].pending) :
          Current(run[i].pending[k])' \/ Past(run[i], run[i].pending[k].id)'
    BY <1>1, <1>2, <1>5, <1>6 DEF RunSound, Sound, Current, Past, origin
  <2>4. QED BY <1>3, <2>1, <2>2, <2>3 DEF Sound
<1>8. OnePage(run[i])'
  BY <1>1, <1>2 DEF RunSound, Shrinks, OnePage
<1>9. Going(run[i])' => Holds(run[i])'
  <2> SUFFICES ASSUME Going(new) PROVE Holds(run[i])'
    BY <1>1 DEF Going
  <2>1. Holds(run[i]) /\ new.pending = run[i].pending
    BY <1>2 DEF RunSound, Shrinks, Going
  <2>2. new.rows # <<>> => new.rows = run[i].rows
    BY DEF Shrinks
  <2>3. new.high = run[i].high
    BY DEF Shrinks
  <2>4. new.high # None =>
          \A x \in Listed : stamp[x] <= new.high => Known(x)' \/ x \in Ids(new.pending)
    BY <2>1, <2>3 DEF Holds, Known, origin
  <2>5. new.rows # <<>> =>
          \A x \in Listed : Known(x)' \/ x \in Ids(new.pending) \/ x \in Ids(new.rows)
                            \/ Past(run[i], x)'
    BY <1>5, <2>1, <2>2, <2>3 DEF Holds, Known, origin
  <2>6. QED BY <1>1, <1>2, <2>4, <2>5 DEF Holds, Known, Past, Ids, origin
<1>10. QED BY <1>1, <1>7, <1>8, <1>9, SoundMove DEF RunSound

\* The steps that take nothing.
LEMMA SoundQuiet ==
  ASSUME TypeInv, WatermarkInv, OldestFirst, NEW i \in Runs,
         \/ ReadParents(i) \/ Complete(i) \/ PageDone(i) \/ FlushNothing(i) \/ Submit(i)
         \/ ToolFails(i) \/ Deadline(i) \/ SubmitRefused(i)
  PROVE  WatermarkInv'
<1> DEFINE r == run[i]
<1>0. TypeOK /\ r \in RunStates /\ OnePage(r)
  BY RunType DEF TypeInv, WatermarkInv
<1>1. UNCHANGED origin /\ ever \subseteq ever' /\ kv' = kv
  BY DEF ReadParents, Complete, PageDone, FlushNothing, Submit, ToolFails, Deadline,
     SubmitRefused, Land, stored, engine
<1>2. ASSUME NEW new, Set(i, new), Shrinks(r, new) PROVE WatermarkInv'
  BY <1>0, <1>1, <1>2, ShrinkStep
<1>3. CASE ReadParents(i)
  <2> DEFINE a == [r EXCEPT !.step = "failed", !.pages = r.budget.pages]
             b == [r EXCEPT !.step = "sweep", !.pages = ParentPages]
  <2>1. (Set(i, a) \/ Set(i, b)) /\ r.step = "parents"
    BY <1>3, Zenon DEF ReadParents
  <2>2. r.step = "parents" => Shrinks(r, a) /\ Shrinks(r, b)
    BY <1>0 DEF RunStates, Shrinks, Going, OnePage
  <2>3. QED BY <1>2, <2>1, <2>2, Zenon
<1>4. CASE Complete(i) \/ Submit(i)
  <2> DEFINE a == [r EXCEPT !.step = "completed"]
             b == [r EXCEPT !.step = "store"]
  <2>1. Set(i, a) \/ (Set(i, b) /\ r.step = "flush")
    BY <1>4, Zenon DEF Complete, Submit
  <2>2. Shrinks(r, a) /\ (r.step = "flush" => Shrinks(r, b))
    BY <1>0 DEF RunStates, Shrinks, Going, OnePage
  <2>3. QED BY <1>2, <2>1, <2>2, Zenon
<1>5. CASE PageDone(i)
  <2> DEFINE a == [r EXCEPT !.step = "flush", !.after = "next"]
  <2>1. r.step = "take" /\ r.short
    BY <1>0, <1>5 DEF PageDone, OnePage
  <2>2. Set(i, a)
    BY <1>5, <2>1, Zenon DEF PageDone
  <2>3. Shrinks(r, a)
    BY <1>0, <2>1 DEF RunStates, Shrinks, Going, OnePage
  <2>4. QED BY <1>2, <2>2, <2>3, Zenon
<1>6. CASE FlushNothing(i)
  <2>1. /\ Set(i, Resume(r)) /\ r.after \in {"take", "partial", "next"}
        /\ r.step = "flush" /\ r.pending = <<>>
    BY <1>6, RunType DEF FlushNothing
  <2>2. Shrinks(r, Resume(r))
    BY <1>0, <2>1 DEF Resume, RunStates, Shrinks, Going, OnePage
  <2>3. QED BY <1>2, <2>1, <2>2
<1>7. CASE ToolFails(i) \/ SubmitRefused(i)
  <2> DEFINE a == [r EXCEPT !.step = "failed", !.pending = <<>>]
  <2>1. Set(i, a)
    BY <1>7, Zenon DEF ToolFails, SubmitRefused
  <2>2. Shrinks(r, a)
    BY <1>0 DEF RunStates, Shrinks, Going, OnePage
  <2>3. QED BY <1>2, <2>1, <2>2, Zenon
<1>8. CASE Deadline(i)
  <2> DEFINE b == [r EXCEPT !.step = "flush", !.after = "partial", !.rows = <<>>]
  <2>1. Set(i, b) /\ r.step \in {"parents", "sweep"}
    BY <1>8, Zenon DEF Deadline, EndOfBudget, Calling
  <2>2. r.step \in {"parents", "sweep"} => Shrinks(r, b)
    BY <1>0 DEF RunStates, Shrinks, Going, OnePage
  <2>3. QED BY <1>2, <2>1, <2>2, Zenon
<1>9. QED BY <1>3, <1>4, <1>5, <1>6, <1>7, <1>8

\* What a read returns: the whole source, in order, as it is now.
LEMMA WholeListing ==
  ASSUME TypeInv, WatermarkInv, OldestFirst, NEW i \in Runs, ReadPage(i)
  PROVE  LET rows == PageOf(run[i].sweep, run[i].page) IN
         /\ rows \in Seq(Rows)
         /\ \A k \in 1..Len(rows) : Current(rows[k]) /\ Reached(rows[k].stamp)
         /\ \A j, k \in 1..Len(rows) : j < k => rows[j].stamp < rows[k].stamp
         /\ \A x \in Listed : x \in Ids(rows)
<1> DEFINE rows == PageOf(run[i].sweep, run[i].page)
<1>1. rows \in Seq(Rows)
  BY ReadType
<1>2. run[i].sweep = 1
  <2>1. run[i].sweep \in Nat \ {0} /\ run[i].sweep <= 1
    BY RunType DEF ReadPage, OldestFirst, RunStates
  <2>2. QED BY <2>1
<1>3. rows = [k \in 1..Len(listing[1]) |-> Row(listing[1][k])]
  BY <1>2 DEF PageOf, OldestFirst
<1>4. listing[1] \in Seq(Records) /\ Len(listing[1]) \in Nat
  BY DEF TypeInv, TypeOK, OldestFirst
<1>5. /\ Len(rows) = Len(listing[1])
      /\ \A k \in 1..Len(rows) :
           /\ listing[1][k] \in Records /\ rows[k].id = listing[1][k]
           /\ rows[k].digest = content[listing[1][k]] /\ rows[k].stamp = stamp[listing[1][k]]
  BY <1>3, <1>4 DEF Row
<1> HIDE DEF rows
<1>6. \A k \in 1..Len(rows) : Current(rows[k]) /\ Reached(rows[k].stamp)
  <2> SUFFICES ASSUME NEW k \in 1..Len(rows) PROVE Current(rows[k]) /\ Reached(rows[k].stamp)
    OBVIOUS
  <2>1. stamp[listing[1][k]] \in Nat
    BY <1>5, SourceSyncAssumption DEF TypeInv, TypeOK, Stamps
  <2>2. QED BY <1>5, <2>1 DEF Current, Reached
<1>7. \A j, k \in 1..Len(rows) : j < k => rows[j].stamp < rows[k].stamp
  BY <1>5 DEF WatermarkInv, ListedInOrder
<1>8. \A x \in Listed : x \in Ids(rows)
  BY <1>5 DEF Listed, OldestFirst, Ids
<1>9. QED BY <1>1, <1>6, <1>7, <1>8 DEF rows

LEMMA SoundRead ==
  ASSUME TypeInv, WatermarkInv, OldestFirst, NEW i \in Runs, ReadPage(i)
  PROVE  WatermarkInv'
<1> DEFINE r == run[i]
           rows == PageOf(r.sweep, r.page)
           short == ~Paged \/ Len(rows) < PageSize
           a == [r EXCEPT !.step = "flush", !.after = "partial", !.rows = <<>>]
           b == [r EXCEPT !.step = "flush", !.after = "partial", !.pages = r.pages + 1]
           c == [r EXCEPT !.step = "take", !.rows = rows, !.pages = r.pages + 1,
                          !.short = short]
<1>0. TypeOK /\ r \in RunStates /\ RunSound(r)
  BY RunType DEF TypeInv, WatermarkInv, RunSound
<1>1. UNCHANGED origin /\ ever' = ever /\ kv' = kv /\ r.step = "sweep"
  BY DEF ReadPage, stored, engine
<1>2. Set(i, a) \/ Set(i, b) \/ Set(i, c)
  BY Zenon DEF ReadPage, EndOfBudget
<1>3. /\ rows \in Seq(Rows)
      /\ \A k \in 1..Len(rows) : Current(rows[k]) /\ Reached(rows[k].stamp)
      /\ \A j, k \in 1..Len(rows) : j < k => rows[j].stamp < rows[k].stamp
      /\ \A x \in Listed : x \in Ids(rows)
  BY WholeListing
<1>4. short
  BY DEF OldestFirst
<1> HIDE DEF rows, short
<1>5. CASE Set(i, a) \/ Set(i, b)
  <2>1. Shrinks(r, a) /\ Shrinks(r, b)
    BY <1>0, <1>1 DEF RunStates, Shrinks, Going, OnePage
  <2>2. QED BY <1>0, <1>1, <1>5, <2>1, ShrinkStep, Zenon
<1>6. CASE Set(i, c)
  <2>1. /\ c.cursor = r.cursor /\ c.high = r.high /\ c.rows = rows
        /\ c.pending = r.pending /\ c.step = "take" /\ c.short = short
    BY <1>0 DEF RunStates
  <2> HIDE DEF c
  <2>2. run'[i] = c /\ \A j \in Runs \ {i} : run'[j] = run[j]
    BY <1>0, <1>6 DEF Set, TypeOK
  <2>3. Listed' = Listed /\ r.pending = <<>>
    BY <1>0, <1>1 DEF Listed, origin, RunSound, OnePage
  <2>4. Sound(run[i])'
    <3>1. Covered(run[i].cursor)' /\ Reached(run[i].cursor)' /\ Reached(run[i].high)'
      BY <1>0, <1>1, <2>1, <2>2, <2>3
         DEF RunSound, Sound, Covered, Reached, Known, origin
    <3>2. \A k \in 1..Len(rows) :
            Reached(run[i].rows[k].stamp)' /\ Current(run[i].rows[k])'
      BY <1>1, <1>3, <2>1, <2>2 DEF Reached, Current, origin
    <3>3. Len(run'[i].pending) = 0
      BY <2>1, <2>2, <2>3
    <3>4. QED BY <1>3, <2>1, <2>2, <3>1, <3>2, <3>3 DEF Sound
  <2>5. OnePage(run[i])'
    BY <1>4, <2>1, <2>2 DEF OnePage
  <2>6. Holds(run[i])'
    <3>1. Holds(r)
      BY <1>0, <1>1 DEF RunSound, Going
    <3>2. c.high # None =>
            \A x \in Listed : stamp[x] <= c.high => Known(x) \/ x \in Ids(c.pending)
      BY <2>1, <3>1 DEF Holds
    <3>3. \A x \in Listed : x \in Ids(c.rows)
      BY <1>3, <2>1
    <3>4. QED BY <1>1, <2>2, <2>3, <3>2, <3>3 DEF Holds, Known, Ids, origin
  <2>7. QED BY <1>1, <2>2, <2>4, <2>5, <2>6, SoundMove DEF RunSound
<1>7. QED BY <1>2, <1>5, <1>6

\* A record that is skipped as unchanged is one the engine knows, if the row still
\* says what the source has.
LEMMA SkippedIsKnown ==
  ASSUME TypeInv, DigestInv, WatermarkInv, OldestFirst, NEW i \in Runs,
         NEW row \in Rows, IsUnchanged(i, row), Current(row), row.id \in Listed
  PROVE  Known(row.id)
<1>1. CASE BehindCursor(i, row)
  <2>1. run[i].cursor # None /\ TextLeq(row.stamp, run[i].cursor)
    BY <1>1 DEF BehindCursor
  <2>2. run[i].cursor \in Stamps /\ row.stamp \in Stamps
    BY <2>1, RunType DEF RunStates, Rows
  <2>3. row.stamp <= run[i].cursor
    BY <2>1, <2>2, OrderedCursors
  <2>4. QED BY <2>1, <2>3 DEF WatermarkInv, Sound, Covered, Current
<1>2. CASE run[i].digests[row.id] = row.digest
  <2>1. row.digest \in Contents /\ row.id \in Records
    BY DEF Rows
  <2>2. row.digest # None
    BY <2>1, SourceSyncAssumption DEF Contents
  <2>3. QED BY <1>2, <2>1, <2>2 DEF DigestInv, Vouched, Current, Known
<1>3. QED BY <1>1, <1>2 DEF IsUnchanged

LEMMA SoundTake ==
  ASSUME TypeInv, DigestInv, WatermarkInv, OldestFirst, NEW i \in Runs, Take(i)
  PROVE  WatermarkInv'
<1> DEFINE r == run[i]
           row == Head(r.rows)
           skip == IsUnchanged(i, row)
           pending == IF skip THEN r.pending ELSE Append(r.pending, row)
           high == IF skip THEN r.high ELSE Higher(r.high, row.stamp)
           step == IF Len(pending) >= BatchSize THEN "flush" ELSE "take"
           c == [r EXCEPT !.rows = Tail(r.rows), !.seen = r.seen + 1,
                   !.pending = pending, !.high = high, !.step = step, !.after = "take"]
<1>0. TypeOK /\ r \in RunStates /\ Sound(r) /\ OnePage(r) /\ Holds(r)
  BY RunType DEF TypeInv, WatermarkInv, Take, Going
<1>1. UNCHANGED origin /\ ever' = ever /\ kv' = kv /\ r.step = "take" /\ r.rows # <<>>
  BY DEF Take, stored, engine
<1>2. Set(i, c)
  BY Zenon DEF Take
<1>3. /\ r.rows \in Seq(Rows) /\ r.pending \in Seq(Rows) /\ Len(r.rows) \in Nat
      /\ Len(r.pending) \in Nat /\ Len(r.rows) >= 1 /\ row = r.rows[1] /\ row \in Rows
  BY <1>0, <1>1 DEF RunStates
<1>4. /\ Len(Tail(r.rows)) = Len(r.rows) - 1
      /\ \A k \in 1..Len(Tail(r.rows)) :
           k + 1 \in 1..Len(r.rows) /\ Tail(r.rows)[k] = r.rows[k + 1]
  BY <1>1, <1>3
<1>5. /\ pending = r.pending \/ (~skip /\ pending = Append(r.pending, row))
      /\ step \in {"flush", "take"}
  OBVIOUS
<1>6. /\ skip => high = r.high /\ pending = r.pending
      /\ ~skip => high = Higher(r.high, row.stamp) /\ pending = Append(r.pending, row)
  OBVIOUS
<1> HIDE DEF row, skip, pending, high, step
<1>7. /\ c.cursor = r.cursor /\ c.high = high /\ c.rows = Tail(r.rows)
      /\ c.pending = pending /\ c.step = step /\ c.short = r.short
  BY <1>0 DEF RunStates
<1> HIDE DEF c
<1>8. run'[i] = c /\ \A j \in Runs \ {i} : run'[j] = run[j]
  BY <1>0, <1>2 DEF Set, TypeOK
<1>9. Listed' = Listed
  BY <1>1 DEF Listed, origin
\* The new high value: the old one, or that of the row.
<1>10. /\ row.stamp \in Nat /\ r.high \in Nat \cup {None} /\ None \notin Nat
       /\ \A x \in Records : stamp[x] \in Nat
       /\ \A k \in 1..Len(r.rows) : r.rows[k].stamp \in Nat /\ r.rows[k] \in Rows
       /\ \A k \in 1..Len(r.pending) : r.pending[k] \in Rows
  <2>1. Stamps \subseteq Nat /\ None \notin Nat
    BY SourceSyncAssumption DEF Stamps
  <2>2. r.high \in Stamps \cup {None} /\ stamp \in [Records -> Stamps]
    BY <1>0 DEF RunStates, TypeOK
  <2>3. \A k \in 1..Len(r.rows) : r.rows[k].stamp \in Stamps /\ r.rows[k] \in Rows
    <3>1. \A k \in 1..Len(r.rows) : r.rows[k] \in Rows
      BY <1>3, ElementOfSeq
    <3>2. QED BY <3>1 DEF Rows
  <2>4. row.stamp \in Stamps
    BY <1>3 DEF Rows
  <2>5. \A k \in 1..Len(r.pending) : r.pending[k] \in Rows
    BY <1>3, ElementOfSeq
  <2>6. \A k \in 1..Len(r.rows) : r.rows[k].stamp \in Nat
    BY <2>1, <2>3
  <2>7. QED BY <2>1, <2>2, <2>3, <2>4, <2>5, <2>6
<1>11. high = r.high \/ (~skip /\ high = row.stamp)
  BY <1>6 DEF Higher
<1>12. high # None /\ high # r.high => r.high = None \/ r.high < row.stamp
  <2>1. CASE r.high = None
    BY <2>1
  <2>2. CASE r.high # None /\ ~skip
    <3>1. r.high \in Stamps /\ row.stamp \in Stamps
      BY <1>0, <1>3, <2>2 DEF RunStates, Rows
    <3>2. QED BY <1>6, <1>10, <2>2, <3>1, OrderedCursors DEF Higher
  <2>3. CASE skip
    BY <1>6, <2>3
  <2>4. QED BY <2>1, <2>2, <2>3
\* Past, for the run after the step.
<1> DEFINE Beyond(x) ==
             /\ high # None => high < stamp[x]
             /\ \A k \in 1..Len(Tail(r.rows)) : Tail(r.rows)[k].stamp < stamp[x]
<1>13. \A x : Past(r, x) => Beyond(x)
  <2> SUFFICES ASSUME NEW x, Past(r, x)
               PROVE  /\ high # None => high < stamp[x]
                      /\ \A k \in 1..Len(Tail(r.rows)) : Tail(r.rows)[k].stamp < stamp[x]
    OBVIOUS
  <2>1. row.stamp < stamp[x]
    BY <1>3 DEF Past
  <2>2. QED BY <1>4, <1>11, <2>1 DEF Past
<1>14. \A x : Beyond(x) => Past(run[i], x)'
  BY <1>1, <1>7, <1>8 DEF Past, origin
<1> HIDE DEF Beyond
<1>15. Sound(run[i])'
  <2>1. Covered(run[i].cursor)' /\ Reached(run[i].cursor)'
    BY <1>0, <1>1, <1>7, <1>8, <1>9 DEF Sound, Covered, Reached, Known, origin
  <2>2. Reached(r.high) /\ Reached(row.stamp)
    BY <1>0, <1>3 DEF Sound
  <2>3. Reached(run[i].high)'
    BY <1>1, <1>7, <1>8, <1>11, <2>2 DEF Reached, origin
  <2>4. \A k \in 1..Len(r.rows) :
          /\ Reached(r.rows[k].stamp)
          /\ Current(r.rows[k]) \/ Beyond(r.rows[k].id)
    BY <1>0, <1>13 DEF Sound
  <2>5. \A k \in 1..Len(run'[i].rows) :
          /\ Reached(run[i].rows[k].stamp)'
          /\ Current(run[i].rows[k])' \/ Past(run[i], run[i].rows[k].id)'
    <3> SUFFICES ASSUME NEW k \in 1..Len(Tail(r.rows))
                 PROVE  /\ Reached(run[i].rows[k].stamp)'
                        /\ Current(run[i].rows[k])' \/ Past(run[i], run[i].rows[k].id)'
      BY <1>7, <1>8
    <3>1. k + 1 \in 1..Len(r.rows) /\ run'[i].rows[k] = r.rows[k + 1]
      BY <1>4, <1>7, <1>8
    <3>2. /\ Reached(r.rows[k + 1].stamp)
          /\ Current(r.rows[k + 1]) \/ Beyond(r.rows[k + 1].id)
      BY <2>4, <3>1
    <3>3. QED BY <1>1, <1>14, <3>1, <3>2 DEF Reached, Current, Past, origin
  <2>6. \A j, k \in 1..Len(run'[i].rows) :
          j < k => run'[i].rows[j].stamp < run'[i].rows[k].stamp
    <3> SUFFICES ASSUME NEW j \in 1..Len(Tail(r.rows)), NEW k \in 1..Len(Tail(r.rows)), j < k
                 PROVE  Tail(r.rows)[j].stamp < Tail(r.rows)[k].stamp
      BY <1>7, <1>8
    <3>1. j + 1 < k + 1
      OBVIOUS
    <3>2. QED BY <1>0, <1>4, <3>1 DEF Sound
  <2>7. \A k \in 1..Len(pending) : Current(pending[k]) \/ Beyond(pending[k].id)
    <3>1. Current(row) \/ Beyond(row.id)
      BY <1>3, <2>4
    <3>2. \A k \in 1..Len(r.pending) :
            Current(r.pending[k]) \/ Beyond(r.pending[k].id)
      BY <1>0, <1>13 DEF Sound
    <3>3. CASE skip
      BY <1>6, <3>2, <3>3
    <3>4. CASE ~skip
      <4>1. \A k \in 1..Len(pending) :
              pending[k] = IF k = Len(r.pending) + 1 THEN row ELSE r.pending[k]
        BY <1>3, <1>6, <3>4
      <4>2. \A k \in 1..Len(pending) : k = Len(r.pending) + 1 \/ k \in 1..Len(r.pending)
        BY <1>3, <1>6, <3>4
      <4>3. QED BY <3>1, <3>2, <4>1, <4>2
    <3>5. QED BY <3>3, <3>4
  <2>8. \A k \in 1..Len(run'[i].pending) :
          Current(run[i].pending[k])' \/ Past(run[i], run[i].pending[k].id)'
    BY <1>1, <1>7, <1>8, <1>14, <2>7 DEF Current, Past, origin
  <2>9. QED BY <2>1, <2>3, <2>5, <2>6, <2>8 DEF Sound
<1>16. OnePage(run[i])'
  BY <1>0, <1>1, <1>5, <1>7, <1>8 DEF OnePage
\* Whatever was held is still held, and the row's record is or need not be.
<1>17. \A x \in Ids(r.pending) : x \in Ids(pending)
  <2> SUFFICES ASSUME NEW k \in 1..Len(r.pending)
               PROVE  k \in 1..Len(pending) /\ pending[k] = r.pending[k]
    BY DEF Ids
  <2>1. QED BY <1>3, <1>5
<1>18. ASSUME ~skip PROVE row.id \in Ids(pending)
  <2>1. Len(r.pending) + 1 \in 1..Len(pending) /\ pending[Len(r.pending) + 1] = row
    BY <1>3, <1>6, <1>18
  <2>2. QED BY <2>1 DEF Ids
<1>19. row.id \in Listed => Known(row.id) \/ row.id \in Ids(pending) \/ Beyond(row.id)
  <2>1. Current(row) \/ Beyond(row.id)
    BY <1>0, <1>3, <1>13 DEF Sound
  <2>2. QED BY <1>3, <1>18, <2>1, SkippedIsKnown DEF skip
<1>20. \A x \in Ids(r.rows) : x = row.id \/ x \in Ids(Tail(r.rows))
  <2> SUFFICES ASSUME NEW k \in 1..Len(r.rows), k # 1
               PROVE  k - 1 \in 1..Len(Tail(r.rows)) /\ Tail(r.rows)[k - 1] = r.rows[k]
    BY <1>3 DEF Ids
  <2>1. k - 1 \in 1..Len(Tail(r.rows)) /\ (k - 1) + 1 = k
    BY <1>3, <1>4
  <2>2. QED BY <1>4, <2>1
<1>21. \A x \in Listed :
         Known(x) \/ x \in Ids(pending) \/ x \in Ids(Tail(r.rows)) \/ Beyond(x)
  BY <1>0, <1>1, <1>13, <1>17, <1>19, <1>20 DEF Holds
<1>22. high # None =>
         \A x \in Listed : stamp[x] <= high => Known(x) \/ x \in Ids(pending)
  <2> SUFFICES ASSUME high # None, NEW x \in Listed, stamp[x] <= high
               PROVE  Known(x) \/ x \in Ids(pending)
    OBVIOUS
  <2>1. CASE high = r.high
    BY <1>0, <1>17, <2>1 DEF Holds
  <2>2. CASE high # r.high
    <3>1. high = row.stamp /\ ~skip
      BY <1>11, <2>2
    <3>2. CASE Past(r, x)
      <4>1. row.stamp < stamp[x]
        BY <1>3, <3>2 DEF Past
      <4>2. x \in Records
        BY DEF Listed, TypeInv, TypeOK
      <4>3. QED BY <1>10, <3>1, <4>1, <4>2
    <3>3. CASE x \in Ids(r.rows)
      <4>1. PICK k \in 1..Len(r.rows) : r.rows[k].id = x
        BY <3>3 DEF Ids
      <4>2. CASE Past(r, x)
        BY <3>2, <4>2
      <4>3. CASE Current(r.rows[k])
        <5>1. r.rows[k].stamp <= r.rows[1].stamp
          BY <1>3, <3>1, <4>1, <4>3 DEF Current
        <5>2. k = 1
          <6>1. 1 \in 1..Len(r.rows) /\ (k # 1 => 1 < k)
            BY <1>3
          <6>2. k # 1 => r.rows[1].stamp < r.rows[k].stamp
            BY <1>0, <6>1 DEF Sound
          <6>3. QED BY <1>10, <5>1, <6>1, <6>2
        <5>3. QED BY <1>3, <1>18, <3>1, <4>1, <5>2
      <4>4. QED BY <1>0, <4>1, <4>2, <4>3 DEF Sound
    <3>4. QED BY <1>0, <1>1, <1>17, <3>2, <3>3 DEF Holds
  <2>3. QED BY <2>1, <2>2
<1>23. Holds(run[i])'
  <2>1. \A x : Known(x) => Known(x)'
    BY <1>1 DEF Known, origin
  <2>2. \A x \in Listed : Known(x)' \/ x \in Ids(pending) \/ x \in Ids(Tail(r.rows))
                          \/ Past(run[i], x)'
    BY <1>21, <1>14, <2>1
  <2>3. high # None =>
          \A x \in Listed : stamp[x] <= high => Known(x)' \/ x \in Ids(pending)
    BY <1>22, <2>1
  <2>4. Ids(run[i].pending)' = Ids(pending) /\ Ids(run[i].rows)' = Ids(Tail(r.rows))
    BY <1>7, <1>8 DEF Ids
  <2>5. run'[i].high = high /\ stamp' = stamp
    BY <1>1, <1>7, <1>8 DEF origin
  <2>6. QED BY <1>9, <2>2, <2>3, <2>4, <2>5 DEF Holds
<1>24. QED BY <1>1, <1>8, <1>15, <1>16, <1>23, SoundMove DEF RunSound

\* A store: the batch has landed, so that the run's high value leaves nothing behind.
LEMMA SoundStore ==
  ASSUME TypeInv, DigestInv, WatermarkInv, OldestFirst, NEW i \in Runs, StoreBatch(i)
  PROVE  WatermarkInv'
<1> DEFINE r == run[i]
<1>0. TypeOK /\ r \in RunStates /\ Sound(r) /\ OnePage(r) /\ Holds(r) /\ r.step = "store"
  BY RunType DEF TypeInv, WatermarkInv, StoreBatch, Going
<1>1. UNCHANGED origin /\ ever' = ever /\ Listed' = Listed
  BY DEF StoreBatch, engine, origin, Listed
<1>2. PICK digests \in Kept(Merged(i)) :
        /\ Store(i, r.high, digests)
        /\ Set(i, Resume([r EXCEPT !.cursor = r.high, !.digests = digests,
                                   !.pending = <<>>]))
  BY DEF StoreBatch
<1> DEFINE q == [r EXCEPT !.cursor = r.high, !.digests = digests, !.pending = <<>>]
           new == Resume(q)
<1>3. r.after \in {"take", "partial", "next"}
  BY <1>0, RunType
<1>4. /\ q.after = r.after /\ q.cursor = r.high /\ q.high = r.high /\ q.rows = r.rows
      /\ q.pending = <<>> /\ q.short = r.short /\ DOMAIN q = DOMAIN r
  BY <1>0 DEF RunStates
<1>5. Set(i, new)
  BY <1>2
<1> HIDE DEF q
<1>6. /\ new.cursor = r.high /\ new.high = r.high /\ new.rows = r.rows
      /\ new.pending = <<>> /\ new.short = r.short
      /\ new.step \in {"take", "partial", "sweep"} /\ (new.step = "take" => r.after = "take")
  BY <1>0, <1>3, <1>4 DEF Resume, RunStates
<1> HIDE DEF new
<1>7. run'[i] = new /\ \A j \in Runs \ {i} : run'[j] = run[j]
  BY <1>0, <1>5 DEF Set, TypeOK
<1>8. kv'.cursor = r.high
  BY <1>2 DEF Store
<1>9. ASSUME NEW x \in Ids(r.pending) PROVE Known(x) \/ Past(r, x)
  <2> DEFINE k == LastRow(r.pending, x)
  <2>1. r.pending \in Seq(Rows)
    BY <1>0 DEF RunStates
  <2>2. k \in 1..Len(r.pending) /\ r.pending[k].id = x
    BY <2>1, LastRowOf
  <2>3. <<x, r.pending[k].digest>> \in ever
    BY <1>0 DEF DigestInv, PendingDigest
  <2> HIDE DEF k
  <2>4. Current(r.pending[k]) \/ Past(r, x)
    BY <1>0, <2>2 DEF Sound
  <2>5. QED BY <2>2, <2>3, <2>4 DEF Current, Known
<1>10. ASSUME r.high # None, NEW x \in Listed, stamp[x] <= r.high PROVE Known(x)
  <2>1. CASE x \in Ids(r.pending) /\ Past(r, x)
    <3>1. r.high < stamp[x]
      BY <1>10, <2>1 DEF Past
    <3>2. r.high \in Nat /\ stamp[x] \in Nat
      <4>1. x \in Records
        BY <1>0 DEF Listed, TypeOK
      <4>2. r.high \in Stamps /\ stamp[x] \in Stamps
        BY <1>0, <1>10, <4>1 DEF RunStates, TypeOK
      <4>3. QED BY <4>2, SourceSyncAssumption DEF Stamps
    <3>3. QED BY <1>10, <3>1, <3>2
  <2>2. QED BY <1>0, <1>9, <1>10, <2>1 DEF Holds
<1>11. /\ \A x \in Listed : r.high # None /\ stamp[x] <= r.high => Known(x)
       /\ \A x : Known(x) => Known(x)'
       /\ UNCHANGED stamp
  BY <1>1, <1>10 DEF Known, origin
<1>12. Covered(kv.cursor)' /\ Reached(kv.cursor)'
  <2>1. Covered(kv.cursor)'
    BY <1>1, <1>8, <1>11 DEF Covered
  <2>2. Reached(kv.cursor)'
    BY <1>0, <1>8, <1>11 DEF Sound, Reached
  <2>3. QED BY <2>1, <2>2
<1>13. \A x : Past(r, x) => Past(run[i], x)'
  BY <1>6, <1>7, <1>11 DEF Past
<1>14. Sound(run[i])'
  <2>1. Covered(run[i].cursor)'
    BY <1>1, <1>6, <1>7, <1>11 DEF Covered
  <2>2. Reached(run[i].cursor)' /\ Reached(run[i].high)'
    BY <1>0, <1>6, <1>7, <1>11 DEF Sound, Reached
  <2>3. \A k \in 1..Len(run'[i].rows) :
          /\ Reached(run[i].rows[k].stamp)'
          /\ Current(run[i].rows[k])' \/ Past(run[i], run[i].rows[k].id)'
    BY <1>0, <1>1, <1>6, <1>7, <1>11, <1>13 DEF Sound, Reached, Current, Past, origin
  <2>4. \A j, k \in 1..Len(run'[i].rows) :
          j < k => run'[i].rows[j].stamp < run'[i].rows[k].stamp
    BY <1>0, <1>6, <1>7 DEF Sound
  <2>5. Len(run'[i].pending) = 0
    BY <1>6, <1>7
  <2>6. QED BY <2>1, <2>2, <2>3, <2>4, <2>5 DEF Sound
<1>15. OnePage(run[i])'
  BY <1>0, <1>6, <1>7 DEF OnePage
<1>16. Holds(run[i])'
  <2>1. r.rows # <<>> => \A x \in Listed : Known(x) \/ x \in Ids(r.rows) \/ Past(r, x)
    BY <1>0, <1>9 DEF Holds
  <2>2. run'[i].rows # <<>> =>
          \A x \in Listed : Known(x)' \/ x \in Ids(r.rows) \/ Past(run[i], x)'
    BY <1>6, <1>7, <1>11, <1>13, <2>1
  <2>3. run'[i].high # None => \A x \in Listed : stamp'[x] <= run'[i].high => Known(x)'
    BY <1>6, <1>7, <1>11
  <2>4. Ids(run[i].rows)' = Ids(r.rows)
    BY <1>6, <1>7 DEF Ids
  <2>5. QED BY <1>1, <2>2, <2>3, <2>4 DEF Holds
<1>17. QED BY <1>1, <1>7, <1>12, <1>14, <1>15, <1>16, SoundMove DEF RunSound

\* A run that is over, or that starts from a sound cursor.
LEMMA SoundIdle ==
  ASSUME TypeOK, WatermarkInv, NEW i \in Runs, Set(i, Idle), UNCHANGED origin,
         ever' = ever, kv'.cursor = kv.cursor \/ kv'.cursor = run[i].cursor
  PROVE  WatermarkInv'
<1>1. run'[i] = Idle /\ \A j \in Runs \ {i} : run'[j] = run[j]
  BY DEF Set, TypeOK
<1>2. /\ Idle.cursor = None /\ Idle.high = None /\ Idle.rows = <<>> /\ Idle.pending = <<>>
      /\ Idle.step = "idle"
  BY DEF Idle
<1>3. RunSound(run[i])'
  BY <1>1, <1>2 DEF RunSound, Sound, OnePage, Going, Covered, Reached
<1>4. Listed' = Listed
  BY DEF Listed, origin
<1>5. kv'.cursor = run[i].cursor => Covered(kv.cursor)' /\ Reached(kv.cursor)'
  BY <1>4 DEF WatermarkInv, Sound, Covered, Reached, Known, origin
<1>6. QED BY <1>1, <1>3, <1>5, SoundMove

LEMMA SoundStart ==
  ASSUME TypeInv, WatermarkInv, NEW i \in Runs, NEW mode \in {"incremental", "full"},
         NEW budget \in Budgets, Start(i, mode, budget)
  PROVE  WatermarkInv'
<1> DEFINE cursor == IF mode = "full" THEN None ELSE kv.cursor
           digests == IF mode = "full" THEN NoDigests ELSE kv.digests
           new == [Idle EXCEPT !.step = "parents", !.mode = mode, !.budget = budget,
                     !.cursor = cursor, !.high = cursor, !.digests = digests]
<1>1. Set(i, new) /\ UNCHANGED origin /\ ever' = ever /\ kv' = kv
  BY DEF Start, engine
<1>2. Covered(cursor) /\ Reached(cursor)
  BY DEF WatermarkInv, Covered, Reached
<1> HIDE DEF cursor, digests
<1>3. /\ new.cursor = cursor /\ new.high = cursor /\ new.rows = <<>> /\ new.pending = <<>>
      /\ new.step = "parents"
  BY DEF Idle
<1> HIDE DEF new
<1>4. run'[i] = new /\ \A j \in Runs \ {i} : run'[j] = run[j]
  BY <1>1 DEF Set, TypeInv, TypeOK
<1>5. Listed' = Listed
  BY <1>1 DEF Listed, origin
<1>6. Sound(run[i])'
  <2>1. Covered(run[i].cursor)' /\ Reached(run[i].cursor)' /\ Reached(run[i].high)'
    BY <1>1, <1>2, <1>3, <1>4, <1>5 DEF Covered, Reached, Known, origin
  <2>2. Len(run'[i].rows) = 0 /\ Len(run'[i].pending) = 0
    BY <1>3, <1>4
  <2>3. QED BY <2>1, <2>2 DEF Sound
<1>7. OnePage(run[i])'
  BY <1>3, <1>4 DEF OnePage
<1>8. Holds(run[i])'
  BY <1>1, <1>2, <1>3, <1>4, <1>5 DEF Holds, Covered, Known, origin
<1>9. QED BY <1>1, <1>4, <1>6, <1>7, <1>8, SoundMove DEF RunSound

\* The listing after its record x, touched last, moved to the end.
LEMMA MovedListing ==
  ASSUME TypeInv, WatermarkInv, OldestFirst, NEW x \in Records, Touch(x)
  PROVE  ListedInOrder' /\ Listed' = Listed
<1> DEFINE list == listing[1]
           n == Len(list)
<1>1. list \in Seq(Records) /\ n \in Nat /\ stamp \in [Records -> Stamps]
  BY DEF TypeInv, TypeOK, OldestFirst
<1>2. \A j, k \in 1..n : j < k => stamp[list[j]] < stamp[list[k]]
  BY DEF WatermarkInv, ListedInOrder
<1>3. PICK now \in Stamps : /\ \A y \in Records : stamp[y] < now
                            /\ stamp' = [stamp EXCEPT ![x] = now]
  BY DEF Touch
<1>4. \A y \in Records : stamp'[y] = IF y = x THEN now ELSE stamp[y]
  BY <1>1, <1>3
<1>5. \A k \in 1..n : list[k] \in Records
  BY <1>1, ElementOfSeq
<1>6. \A y \in Records : stamp[y] \in Nat
  BY <1>1, SourceSyncAssumption DEF Stamps
<1>7. listing'[1] = IF \E k \in 1..n : list[k] = x THEN MovedLast(list, x) ELSE list
  BY DEF Touch, OldestFirst
<1>8. /\ Listed = {y \in Records : \E k \in 1..n : list[k] = y}
      /\ Listed' = {y \in Records : \E k \in 1..Len(listing'[1]) : listing'[1][k] = y}
  BY DEF Listed, OldestFirst
<1> HIDE DEF list, n
<1>9. CASE \A k \in 1..n : list[k] # x
  <2>1. listing'[1] = list
    BY <1>7, <1>9
  <2>2. \A j, k \in 1..n : j < k => stamp'[list[j]] < stamp'[list[k]]
    BY <1>2, <1>4, <1>5, <1>9
  <2>3. Len(listing'[1]) = n
    BY <2>1 DEF n
  <2>4. QED BY <1>8, <2>1, <2>2, <2>3 DEF ListedInOrder
<1>10. ASSUME NEW m \in 1..n, list[m] = x PROVE ListedInOrder' /\ Listed' = Listed
  <2> DEFINE at == CHOOSE k \in 1..n : list[k] = x
             moved == MovedLast(list, x)
  <2>1. at \in 1..n /\ list[at] = x
    BY <1>10
  <2>2. moved = [k \in 1..n |-> IF k < at THEN list[k]
                                ELSE IF k < n THEN list[k + 1] ELSE x]
    BY DEF MovedLast, n
  <2>3. listing'[1] = moved
    BY <1>7, <1>10
  <2> HIDE DEF at, moved
  <2>4. Len(moved) = n
    BY <1>1, <2>2
  <2>5. \A k \in 1..n : moved[k] = IF k < at THEN list[k]
                                   ELSE IF k < n THEN list[k + 1] ELSE x
    BY <2>2
  <2>6. \A k \in 1..n : k # at => list[k] # x
    <3> SUFFICES ASSUME NEW k \in 1..n, k # at, list[k] = x PROVE FALSE
      OBVIOUS
    <3>1. k < at \/ at < k
      BY <2>1
    <3>2. stamp[x] < stamp[x]
      BY <1>2, <2>1, <3>1
    <3>3. QED BY <1>6, <3>2
  <2>7. \A j, k \in 1..n : j < k => stamp'[moved[j]] < stamp'[moved[k]]
    <3> SUFFICES ASSUME NEW j \in 1..n, NEW k \in 1..n, j < k
                 PROVE  stamp'[moved[j]] < stamp'[moved[k]]
      OBVIOUS
    <3>1. PICK a \in 1..n : /\ moved[j] = list[a] /\ a # at
                            /\ a = IF j < at THEN j ELSE j + 1
      BY <1>1, <2>1, <2>5
    <3>2. moved[j] \in Records /\ stamp'[moved[j]] = stamp[list[a]]
      BY <1>4, <1>5, <2>6, <3>1
    <3>3. CASE k = n
      <4>1. moved[k] = x
        BY <1>1, <2>1, <2>5, <3>3
      <4>2. QED BY <1>3, <1>4, <1>5, <3>1, <3>2, <4>1
    <3>4. CASE k # n
      <4>1. PICK b \in 1..n : /\ moved[k] = list[b] /\ b # at
                              /\ b = IF k < at THEN k ELSE k + 1
        BY <1>1, <2>1, <2>5, <3>4
      <4>2. a < b
        BY <2>1, <3>1, <4>1
      <4>3. stamp'[moved[k]] = stamp[list[b]]
        BY <1>4, <1>5, <2>6, <4>1
      <4>4. QED BY <1>2, <3>1, <3>2, <4>1, <4>2, <4>3
    <3>5. QED BY <3>3, <3>4
  <2>8. ASSUME NEW y PROVE (\E k \in 1..n : list[k] = y) <=> (\E k \in 1..n : moved[k] = y)
    <3>1. ASSUME NEW k \in 1..n PROVE \E j \in 1..n : moved[j] = list[k]
      <4>1. CASE k < at
        BY <2>5, <4>1
      <4>2. CASE k = at
        <5>1. n \in 1..n /\ moved[n] = x
          BY <1>1, <2>1, <2>5
        <5>2. QED BY <2>1, <4>2, <5>1
      <4>3. CASE at < k
        <5>1. k - 1 \in 1..n /\ moved[k - 1] = list[k]
          BY <1>1, <2>1, <2>5, <4>3
        <5>2. QED BY <5>1
      <4>4. QED BY <2>1, <4>1, <4>2, <4>3
    <3>2. ASSUME NEW k \in 1..n PROVE \E j \in 1..n : list[j] = moved[k]
      BY <1>1, <2>1, <2>5
    <3>3. QED BY <3>1, <3>2
  <2>9. QED BY <1>8, <2>3, <2>4, <2>7, <2>8 DEF ListedInOrder
<1>11. QED BY <1>9, <1>10

\* A touched record comes after everything any run or the checkpoint has reached.
LEMMA SoundTouch ==
  ASSUME TypeInv, WatermarkInv, OldestFirst, NEW x \in Records, Touch(x)
  PROVE  WatermarkInv'
<1>1. PICK now \in Stamps : /\ \A y \in Records : stamp[y] < now
                            /\ stamp' = [stamp EXCEPT ![x] = now]
  BY DEF Touch
<1>2. /\ \A y \in Records : stamp'[y] = IF y = x THEN now ELSE stamp[y]
      /\ \A y \in Records \ {x} : content'[y] = content[y]
      /\ ever' = ever /\ kv' = kv /\ run' = run
  BY <1>1 DEF Touch, TypeInv, TypeOK, stored, engine
<1>3. /\ Stamps \subseteq Nat /\ None \notin Nat /\ now \in Nat
      /\ \A y \in Records : stamp[y] \in Nat
  BY SourceSyncAssumption DEF Stamps, TypeInv, TypeOK
<1>4. Listed' = Listed /\ ListedInOrder' /\ Listed \subseteq Records
  BY MovedListing DEF Listed, TypeInv, TypeOK
<1>5. ASSUME NEW v \in Stamps \cup {None}, Reached(v)
      PROVE  Reached(v)' /\ (v # None => v < stamp'[x])
  BY <1>1, <1>2, <1>3, <1>5 DEF Reached
<1>6. ASSUME NEW v \in Stamps \cup {None}, Reached(v), Covered(v)
      PROVE  Covered(v)'
  <2> SUFFICES ASSUME v # None, NEW y \in Listed, stamp'[y] <= v PROVE Known(y)'
    BY <1>4 DEF Covered
  <2>1. y # x
    <3>1. v < stamp'[x] /\ v \in Nat
      BY <1>3, <1>5, <1>6
    <3>2. stamp'[x] \in Nat
      BY <1>2, <1>3
    <3>3. QED BY <3>1, <3>2
  <2>2. y \in Records \ {x} /\ stamp'[y] = stamp[y] /\ content'[y] = content[y]
    BY <1>2, <1>4, <2>1
  <2>3. QED BY <1>2, <1>6, <2>2 DEF Covered, Known
<1>7. Covered(kv.cursor)' /\ Reached(kv.cursor)'
  <2>1. kv.cursor \in Stamps \cup {None} /\ Covered(kv.cursor) /\ Reached(kv.cursor)
    BY DEF TypeInv, TypeOK, WatermarkInv
  <2>2. QED BY <1>2, <1>5, <1>6, <2>1 DEF Covered, Reached, Known
<1>8. ASSUME NEW j \in Runs PROVE RunSound(run[j])'
  <2> DEFINE r == run[j]
  <2>1. r \in RunStates /\ RunSound(r)
    BY RunType DEF WatermarkInv, RunSound
  <2>2. /\ r.cursor \in Stamps \cup {None} /\ r.high \in Stamps \cup {None}
        /\ r.rows \in Seq(Rows) /\ r.pending \in Seq(Rows)
    BY <2>1 DEF RunStates
  <2>3. /\ \A k \in 1..Len(r.rows) : r.rows[k].id \in Records /\ r.rows[k].stamp \in Stamps
        /\ \A k \in 1..Len(r.pending) : r.pending[k].id \in Records
    <3>1. /\ \A k \in 1..Len(r.rows) : r.rows[k] \in Rows
          /\ \A k \in 1..Len(r.pending) : r.pending[k] \in Rows
      BY <2>2, ElementOfSeq
    <3>2. QED BY <3>1 DEF Rows
  <2>4. Covered(r.cursor) /\ Reached(r.cursor) /\ Reached(r.high)
    BY <2>1 DEF RunSound, Sound
  <2>5. Past(run[j], x)'
    <3>1. \A k \in 1..Len(r.rows) : r.rows[k].stamp < stamp'[x]
      BY <1>3, <1>5, <2>1, <2>3 DEF RunSound, Sound
    <3>2. r.high # None => r.high < stamp'[x]
      BY <1>5, <2>2, <2>4
    <3>3. QED BY <1>2, <3>1, <3>2 DEF Past
  <2>6. \A y \in Records : Past(r, y) => Past(run[j], y)'
    BY <1>2, <2>5 DEF Past
  <2>7. Sound(run[j])'
    <3>1. Covered(run[j].cursor)' /\ Reached(run[j].cursor)' /\ Reached(run[j].high)'
      BY <1>2, <1>5, <1>6, <2>2, <2>4 DEF Covered, Reached, Known
    <3>2. \A k \in 1..Len(r.rows) :
            /\ Reached(run[j].rows[k].stamp)'
            /\ Current(run[j].rows[k])' \/ Past(run[j], run[j].rows[k].id)'
      <4> SUFFICES ASSUME NEW k \in 1..Len(r.rows)
                   PROVE  /\ Reached(run[j].rows[k].stamp)'
                          /\ Current(run[j].rows[k])' \/ Past(run[j], run[j].rows[k].id)'
        OBVIOUS
      <4>1. Reached(r.rows[k].stamp) /\ (Current(r.rows[k]) \/ Past(r, r.rows[k].id))
        BY <2>1 DEF RunSound, Sound
      <4>2. Reached(run[j].rows[k].stamp)'
        BY <1>2, <1>5, <2>3, <4>1 DEF Reached
      <4>3. CASE r.rows[k].id = x \/ Past(r, r.rows[k].id)
        BY <1>2, <2>3, <2>5, <2>6, <4>2, <4>3 DEF Past
      <4>4. CASE r.rows[k].id # x /\ Current(r.rows[k])
        BY <1>2, <2>3, <4>2, <4>4 DEF Current
      <4>5. QED BY <4>1, <4>3, <4>4
    <3>3. \A k \in 1..Len(r.pending) :
            Current(run[j].pending[k])' \/ Past(run[j], run[j].pending[k].id)'
      <4> SUFFICES ASSUME NEW k \in 1..Len(r.pending)
                   PROVE  Current(run[j].pending[k])' \/ Past(run[j], run[j].pending[k].id)'
        OBVIOUS
      <4>1. Current(r.pending[k]) \/ Past(r, r.pending[k].id)
        BY <2>1 DEF RunSound, Sound
      <4>2. CASE r.pending[k].id = x \/ Past(r, r.pending[k].id)
        BY <1>2, <2>3, <2>5, <2>6, <4>2 DEF Past
      <4>3. CASE r.pending[k].id # x /\ Current(r.pending[k])
        BY <1>2, <2>3, <4>3 DEF Current
      <4>4. QED BY <4>1, <4>2, <4>3
    <3>4. \A a, b \in 1..Len(r.rows) : a < b => r.rows[a].stamp < r.rows[b].stamp
      BY <2>1 DEF RunSound, Sound
    <3>5. QED BY <1>2, <3>1, <3>2, <3>3, <3>4 DEF Sound
  <2>8. OnePage(run[j])'
    BY <1>2, <2>1 DEF RunSound, OnePage
  <2>9. Going(run[j])' => Holds(run[j])'
    <3> SUFFICES ASSUME Going(r) PROVE Holds(run[j])'
      BY <1>2 DEF Going
    <3>1. Holds(r)
      BY <2>1 DEF RunSound
    <3>2. \A y \in Records : y # x => (Known(y) => Known(y)') /\ stamp'[y] = stamp[y]
      BY <1>2 DEF Known
    <3>3. r.high # None =>
            \A y \in Listed : stamp'[y] <= r.high => Known(y)' \/ y \in Ids(r.pending)
      <4> SUFFICES ASSUME r.high # None, NEW y \in Listed, stamp'[y] <= r.high
                   PROVE  Known(y)' \/ y \in Ids(r.pending)
        OBVIOUS
      <4>1. r.high < stamp'[x] /\ r.high \in Nat /\ stamp'[x] \in Nat
        BY <1>2, <1>3, <1>5, <2>2, <2>4
      <4>2. y # x
        BY <4>1
      <4>3. QED BY <1>4, <3>1, <3>2, <4>2 DEF Holds
    <3>4. r.rows # <<>> =>
            \A y \in Listed : Known(y)' \/ y \in Ids(r.pending) \/ y \in Ids(r.rows)
                              \/ Past(run[j], y)'
      BY <1>4, <2>5, <2>6, <3>1, <3>2 DEF Holds
    <3>5. Ids(run[j].pending)' = Ids(r.pending) /\ Ids(run[j].rows)' = Ids(r.rows)
      BY <1>2 DEF Ids
    <3>6. QED BY <1>2, <1>4, <3>3, <3>4, <3>5 DEF Holds
  <2>10. QED BY <2>7, <2>8, <2>9 DEF RunSound
<1>9. QED BY <1>4, <1>7, <1>8 DEF WatermarkInv, RunSound

LEMMA SoundStep == OldestFirst /\ TypeInv /\ DigestInv /\ WatermarkInv /\ [Next]_vars => WatermarkInv'
<1> SUFFICES ASSUME OldestFirst, TypeInv, DigestInv, WatermarkInv, [Next]_vars
             PROVE  WatermarkInv'
  OBVIOUS
<1>1. ASSUME NEW i \in Runs, RunStep(i) \/ Failure(i) PROVE WatermarkInv'
  <2>1. CASE Finish(i) \/ Conflict(i) \/ Die(i)
    <3>1. /\ TypeOK /\ Set(i, Idle) /\ UNCHANGED origin /\ ever' = ever
          /\ kv'.cursor = kv.cursor \/ kv'.cursor = run[i].cursor
      BY <2>1 DEF Finish, Conflict, Die, Store, stored, engine, TypeInv
    <3>2. QED BY <3>1, SoundIdle
  <2>2. QED
    BY <1>1, <2>1, SoundQuiet, SoundRead, SoundTake, SoundStore DEF RunStep, Failure
<1>2. CASE UNCHANGED vars
  <2>1. UNCHANGED origin /\ ever' = ever /\ kv' = kv /\ run' = run
    BY <1>2 DEF vars, origin
  <2>2. Listed' = Listed /\ ListedInOrder' /\ Covered(kv.cursor)' /\ Reached(kv.cursor)'
    BY <2>1 DEF WatermarkInv, ListedInOrder, Listed, Covered, Reached, Known, origin
  <2>3. \A j \in Runs : RunSound(run[j])'
    BY <2>1, KeptSound DEF WatermarkInv, RunSound
  <2>4. QED BY <2>2, <2>3 DEF WatermarkInv, RunSound
<1>3. QED BY <1>1, <1>2, SoundStart, SoundTouch DEF Next

LEMMA WatermarkInvariant == ASSUME OldestFirst PROVE Spec => [](TypeInv /\ WatermarkInv)
<1>1. Init => WatermarkInv
  <2> SUFFICES ASSUME Init PROVE WatermarkInv
    OBVIOUS
  <2>1. ListedInOrder
    BY DEF Init, ListedInOrder, OldestFirst
  <2>2. kv.cursor = None
    BY DEF Init
  <2>3. ASSUME NEW i \in Runs PROVE RunSound(run[i])
    <3>1. run[i] = Idle
      BY DEF Init
    <3>2. /\ Idle.cursor = None /\ Idle.high = None /\ Idle.rows = <<>>
          /\ Idle.pending = <<>> /\ Idle.step = "idle"
      BY DEF Idle
    <3>3. QED BY <3>1, <3>2 DEF RunSound, Sound, OnePage, Going, Covered, Reached
  <2>4. QED BY <2>1, <2>2, <2>3 DEF WatermarkInv, RunSound, Covered, Reached
<1>2. Init => DigestInv
  BY DEF Init, DigestInv, Vouched, NoDigests, Idle
<1>3. Spec => [](TypeInv /\ DigestInv /\ WatermarkInv)
  BY <1>1, <1>2, TypeInit, TypeStep, DigestStep, SoundStep, PTL DEF Spec
<1>4. QED BY <1>3, PTL

\* For a source that lists everything it has at once, oldest first, nothing is ever
\* left behind the watermark, whatever runs overlap, fail or die and whatever is
\* touched meanwhile.  With two sweeps the run ss_parents finds it violated.
THEOREM WatermarkHolds == ASSUME OldestFirst PROVE Spec => []WatermarkCovers
<1>1. Spec => [](TypeInv /\ WatermarkInv)
  BY WatermarkInvariant
<1>2. TypeInv /\ WatermarkInv => WatermarkCovers
  <2> SUFFICES ASSUME TypeInv, WatermarkInv, kv.cursor # None,
                      NEW r \in Listed, TextLeq(stamp[r], kv.cursor)
               PROVE  <<r, content[r]>> \in ever
    BY DEF WatermarkCovers
  <2>1. kv.cursor \in Stamps /\ stamp[r] \in Stamps
    BY DEF TypeInv, TypeOK, Listed
  <2>2. stamp[r] <= kv.cursor
    BY <2>1, OrderedCursors
  <2>3. QED BY <2>2 DEF WatermarkInv, Covered, Known
<1>3. QED BY <1>1, <1>2, PTL

--------------------------------------------------------------------------------
(* A completed run *)

\* The pages of one sweep fit together: the listing is read at once, or does not
\* change its order while it is read.
StillPages == ~Paged \/ ~Ascending

\* Runs that skip a record only for its digest, or for a watermark that holds.
Trusted(r) == ~Incremental \/ r.mode = "full" \/ OldestFirst

\* What the run read of a record that the source left alone since is still so.
AsRead(r, calm) ==
    /\ \A k \in 1..Len(r.rows) : r.rows[k].id \in calm => Current(r.rows[k])
    /\ \A k \in 1..Len(r.pending) : r.pending[k].id \in calm => Current(r.pending[k])

\* The run is inside a page, or at the end of a sweep.
Taking(r) ==
    \/ r.step = "take"
    \/ r.step \in {"flush", "store"} /\ r.after \in {"take", "next"}

\* The run has read position k of its sweep.
HasRead(r, k) ==
    \/ Paged /\ k <= (r.page - 1) * PageSize
    \/ Taking(r) /\ (~Paged \/ k <= r.page * PageSize)

\* Positions of sweep s that hold a record the source left alone.
Calm(s, calm) == {k \in 1..Len(listing[s]) : listing[s][k] \in calm}

\* Every sweep that is over has been accepted; of the present one, what was read is
\* accepted, pending, or still to be taken.
Walked(r, calm) ==
    /\ \A s \in 1..Sweeps : s < r.sweep => \A k \in Calm(s, calm) : Known(listing[s][k])
    /\ r.sweep <= Sweeps =>
         \A k \in Calm(r.sweep, calm) :
            HasRead(r, k) =>
              \/ Known(listing[r.sweep][k])
              \/ listing[r.sweep][k] \in Ids(r.pending) \cup Ids(r.rows)
    /\ Taking(r) /\ r.short /\ r.sweep <= Sweeps =>
         \A k \in 1..Len(listing[r.sweep]) : HasRead(r, k)
    /\ r.step \in {"parents", "sweep"} \/ (Taking(r) /\ r.step # "take" /\ r.after = "next") => r.rows = <<>>
    /\ Taking(r) /\ r.step # "take" /\ r.after = "next" => r.short
    /\ r.step = "parents" => r.sweep = 1 /\ r.page = 1
    /\ r.step = "completed" => r.sweep > Sweeps

\* A run that may still complete, or has.
Covering(r) == r.step \in {"parents", "sweep", "completed"} \/ Taking(r)

CoverOf(r, calm) ==
    /\ AsRead(r, calm)
    /\ Trusted(r) /\ Covering(r) => Walked(r, calm)

CoverInv == \A i \in Runs : CoverOf(run[i], untouched[i])

LEMMA CoverKept ==
  ASSUME UNCHANGED origin, ever \subseteq ever', NEW r, NEW calm, CoverOf(r, calm)
  PROVE  CoverOf(r, calm)'
<1>1. AsRead(r, calm)'
  BY DEF CoverOf, AsRead, Current, origin
<1>2. Walked(r, calm) => Walked(r, calm)'
  BY DEF Walked, Calm, Known, Ids, HasRead, Taking, origin
<1>3. Trusted(r)' = Trusted(r) /\ Covering(r)' = Covering(r)
  BY DEF Trusted, Covering, Taking, OldestFirst, TextLeq, Stamps
<1>4. QED BY <1>1, <1>2, <1>3 DEF CoverOf

\* A step that only moves run i, to a state that covers what it has read.
LEMMA CoverMove ==
  ASSUME TypeOK, CoverInv, NEW i \in Runs, NEW new, Set(i, new),
         UNCHANGED origin, UNCHANGED untouched, ever \subseteq ever',
         CoverOf(new, untouched[i])
  PROVE  CoverInv'
<1>1. \A j \in Runs : run'[j] = IF j = i THEN new ELSE run[j]
  BY DEF Set, TypeOK
<1>2. ASSUME NEW j \in Runs PROVE CoverOf(run[j], untouched[j])'
  <2> DEFINE r == run'[j]
             calm == untouched'[j]
  <2>1. CoverOf(r, calm)
    BY <1>1 DEF CoverInv
  <2> HIDE DEF r, calm
  <2>2. PICK x, y : x = r /\ y = calm
    OBVIOUS
  <2>3. CoverOf(x, y)'
    BY <2>1, <2>2, CoverKept
  <2>4. QED BY <2>2, <2>3 DEF r, calm
<1>3. QED BY <1>2 DEF CoverInv

\* A run that neither reads nor covers anything any more.
LEMMA CoverIdle ==
  ASSUME NEW calm PROVE CoverOf(Idle, calm)
BY DEF Idle, CoverOf, AsRead, Covering, Taking

\* A run goes on after a flush that left it nothing pending: a sweep that is over
\* was read to its end.
LEMMA CoverResume ==
  ASSUME NEW r \in RunStates, NEW calm, CoverOf(r, calm), r.step \in {"flush", "store"},
         r.after \in {"take", "partial", "next"}, r.pending = <<>>
  PROVE  CoverOf(Resume(r), calm)
<1> DEFINE new == Resume(r)
<1>0. Len(r.pending) = 0 /\ Ids(r.pending) = {}
  BY DEF Ids
<1>1. CASE r.after = "take"
  <2>1. new = [r EXCEPT !.step = "take"]
    BY <1>1 DEF Resume
  <2>2. /\ new.step = "take" /\ new.after = r.after /\ new.rows = r.rows
        /\ new.pending = r.pending /\ new.sweep = r.sweep /\ new.page = r.page
        /\ new.mode = r.mode /\ new.short = r.short
    BY <2>1 DEF RunStates
  <2> HIDE DEF new
  <2>3. Taking(r) /\ Taking(new) /\ \A k : HasRead(new, k) <=> HasRead(r, k)
    BY <1>1, <2>2 DEF HasRead, Taking
  <2>4. Walked(r, calm) => Walked(new, calm)
    BY <1>1, <2>2, <2>3 DEF Walked
  <2>5. CoverOf(new, calm)
    BY <2>2, <2>3, <2>4 DEF CoverOf, AsRead, Trusted, Covering
  <2>6. QED BY <2>5 DEF new
<1>2. CASE r.after = "partial"
  <2>1. new = [r EXCEPT !.step = "partial"]
    BY <1>2 DEF Resume
  <2>2. new.step = "partial" /\ new.rows = r.rows /\ new.pending = r.pending
    BY <2>1 DEF RunStates
  <2>3. QED BY <2>2 DEF CoverOf, AsRead, Covering, Taking
<1>3. CASE r.after = "next"
  <2>1. new = [r EXCEPT !.step = "sweep", !.sweep = r.sweep + 1, !.page = 1]
    BY <1>3 DEF Resume
  <2>2. /\ new.step = "sweep" /\ new.rows = r.rows /\ new.pending = r.pending
        /\ new.sweep = r.sweep + 1 /\ new.page = 1 /\ new.mode = r.mode
    BY <2>1 DEF RunStates
  <2> HIDE DEF new
  <2>3. r.sweep \in Nat /\ Sweeps \in Nat /\ PageSize \in Nat
    BY SourceSyncAssumption DEF RunStates
  <2>4. ASSUME Walked(r, calm) PROVE Walked(new, calm)
    <3>1. Taking(r) /\ r.short /\ r.rows = <<>>
      BY <1>3, <2>4 DEF Walked, Taking
    <3>2. Ids(r.rows) = {}
      BY <3>1 DEF Ids
    <3>3. r.sweep <= Sweeps => \A k \in Calm(r.sweep, calm) : Known(listing[r.sweep][k])
      <4>1. r.sweep <= Sweeps => \A k \in Calm(r.sweep, calm) : HasRead(r, k)
        BY <2>4, <3>1 DEF Walked, Calm
      <4>2. QED BY <1>0, <2>4, <3>2, <4>1 DEF Walked
    <3>4. \A s \in 1..Sweeps : s < new.sweep => \A k \in Calm(s, calm) : Known(listing[s][k])
      <4> SUFFICES ASSUME NEW s \in 1..Sweeps, s < r.sweep + 1
                   PROVE  \A k \in Calm(s, calm) : Known(listing[s][k])
        BY <2>2
      <4>1. s < r.sweep \/ (s = r.sweep /\ r.sweep <= Sweeps)
        BY <2>3
      <4>2. QED BY <2>4, <3>3, <4>1 DEF Walked
    <3>5. \A n : \A k \in Calm(n, calm) : ~HasRead(new, k)
      BY <2>2, <2>3 DEF HasRead, Taking, Calm
    <3>6. QED BY <2>2, <3>1, <3>4, <3>5 DEF Walked, Taking
  <2>5. CoverOf(new, calm)
    BY <1>3, <2>2, <2>4 DEF CoverOf, AsRead, Trusted, Covering, Taking
  <2>6. QED BY <2>5 DEF new
<1>4. QED BY <1>1, <1>2, <1>3

\* The steps of a run that take nothing: what they keep, they keep covered.
LEMMA CoverQuiet ==
  ASSUME TypeInv, CoverInv, NEW i \in Runs,
         \/ ReadParents(i) \/ Complete(i) \/ PageDone(i) \/ FlushNothing(i) \/ Submit(i)
         \/ ToolFails(i) \/ Deadline(i) \/ SubmitRefused(i)
  PROVE  CoverInv'
<1> DEFINE r == run[i]
           calm == untouched[i]
<1>0. TypeOK /\ r \in RunStates /\ CoverOf(r, calm)
  BY RunType DEF TypeInv, CoverInv
<1>1. UNCHANGED origin /\ ever \subseteq ever' /\ UNCHANGED untouched
  BY DEF ReadParents, Complete, PageDone, FlushNothing, Submit, ToolFails, Deadline,
     SubmitRefused, Land, stored, engine
<1>2. ASSUME NEW new, Set(i, new), CoverOf(new, calm) PROVE CoverInv'
  BY <1>0, <1>1, <1>2, CoverMove
<1>3. CASE ReadParents(i)
  <2> DEFINE a == [r EXCEPT !.step = "failed", !.pages = r.budget.pages]
             b == [r EXCEPT !.step = "sweep", !.pages = ParentPages]
  <2>1. (Set(i, a) \/ Set(i, b)) /\ r.step = "parents"
    BY <1>3, Zenon DEF ReadParents
  <2>2. CoverOf(a, calm)
    BY <1>0 DEF RunStates, CoverOf, AsRead, Covering, Taking
  <2>3. CoverOf(b, calm)
    <3>1. /\ b.step = "sweep" /\ b.rows = r.rows /\ b.pending = r.pending
          /\ b.sweep = r.sweep /\ b.page = r.page /\ b.mode = r.mode
      BY <1>0 DEF RunStates
    <3> HIDE DEF b
    <3>2. AsRead(b, calm)
      BY <1>0, <3>1 DEF CoverOf, AsRead
    <3>3. Trusted(b) => Walked(r, calm)
      BY <1>0, <2>1, <3>1 DEF CoverOf, Trusted, Covering
    <3>4. Walked(r, calm) => Walked(b, calm)
      <4>1. \A k : HasRead(b, k) => HasRead(r, k)
        BY <2>1, <3>1 DEF HasRead, Taking
      <4>2. QED BY <2>1, <3>1, <4>1 DEF Walked, Taking
    <3>5. QED BY <3>2, <3>3, <3>4 DEF CoverOf
  <2>4. QED BY <1>2, <2>1, <2>2, <2>3, Zenon
<1>4. CASE Complete(i)
  <2> DEFINE a == [r EXCEPT !.step = "completed"]
  <2>1. Set(i, a) /\ r.step = "sweep" /\ r.sweep > Sweeps
    BY <1>4, Zenon DEF Complete
  <2>2. CoverOf(a, calm)
    <3>1. /\ a.step = "completed" /\ a.rows = r.rows /\ a.pending = r.pending
          /\ a.sweep = r.sweep /\ a.mode = r.mode
      BY <1>0 DEF RunStates
    <3> HIDE DEF a
    <3>2. r.sweep \in Nat /\ Sweeps \in Nat
      BY <1>0, SourceSyncAssumption DEF RunStates
    <3>3. Trusted(a) => Walked(r, calm)
      BY <1>0, <2>1, <3>1 DEF CoverOf, Trusted, Covering
    <3>4. Walked(r, calm) => Walked(a, calm)
      BY <2>1, <3>1, <3>2 DEF Walked, Taking
    <3>5. QED BY <1>0, <3>1, <3>3, <3>4 DEF CoverOf, AsRead
  <2>3. QED BY <1>2, <2>1, <2>2
<1>5. CASE PageDone(i)
  <2> DEFINE a == [r EXCEPT !.step = "flush", !.after = "next"]
             b == [r EXCEPT !.step = "sweep", !.page = r.page + 1]
  <2>1. /\ r.step = "take" /\ r.rows = <<>>
        /\ IF r.short THEN Set(i, a) ELSE Set(i, b)
    BY <1>5, Zenon DEF PageDone
  <2>2. Trusted(r) => Walked(r, calm)
    BY <1>0, <2>1 DEF CoverOf, Covering, Taking
  <2>3. r.short => CoverOf(a, calm)
    <3>1. /\ a.step = "flush" /\ a.after = "next" /\ a.rows = r.rows
          /\ a.pending = r.pending /\ a.sweep = r.sweep /\ a.page = r.page
          /\ a.mode = r.mode /\ a.short = r.short
      BY <1>0 DEF RunStates
    <3> HIDE DEF a
    <3>2. \A k : HasRead(a, k) <=> HasRead(r, k)
      BY <2>1, <3>1 DEF HasRead, Taking
    <3>3. r.short /\ Walked(r, calm) => Walked(a, calm)
      BY <2>1, <3>1, <3>2 DEF Walked, Taking
    <3>4. QED BY <1>0, <2>2, <3>1, <3>3 DEF CoverOf, AsRead, Trusted
  <2>4. CoverOf(b, calm)
    <3>1. /\ b.step = "sweep" /\ b.rows = r.rows /\ b.pending = r.pending
          /\ b.sweep = r.sweep /\ b.page = r.page + 1 /\ b.mode = r.mode
      BY <1>0 DEF RunStates
    <3> HIDE DEF b
    <3>2. (b.page - 1) * PageSize = r.page * PageSize
      BY SMTT(60), <1>0, <3>1, SourceSyncAssumption DEF RunStates
    <3>3. \A k : HasRead(b, k) => HasRead(r, k)
      BY <2>1, <3>1, <3>2 DEF HasRead, Taking
    <3>4. Walked(r, calm) => Walked(b, calm)
      BY <2>1, <3>1, <3>3 DEF Walked, Taking
    <3>5. QED BY <1>0, <2>2, <3>1, <3>4 DEF CoverOf, AsRead, Trusted
  <2>5. QED BY <1>2, <2>1, <2>3, <2>4, Zenon
<1>6. CASE FlushNothing(i)
  <2>1. /\ Set(i, Resume(r)) /\ r.after \in {"take", "partial", "next"}
        /\ r.step = "flush" /\ r.pending = <<>>
    BY <1>6, RunType DEF FlushNothing
  <2>2. CoverOf(Resume(r), calm)
    BY <1>0, <2>1, CoverResume
  <2>3. QED BY <1>2, <2>1, <2>2
<1>7. CASE Submit(i)
  <2> DEFINE a == [r EXCEPT !.step = "store"]
  <2>1. Set(i, a) /\ r.step = "flush"
    BY <1>7, Zenon DEF Submit
  <2>2. CoverOf(a, calm)
    <3>1. /\ a.step = "store" /\ a.after = r.after /\ a.rows = r.rows
          /\ a.pending = r.pending /\ a.sweep = r.sweep /\ a.page = r.page
          /\ a.mode = r.mode /\ a.short = r.short
      BY <1>0 DEF RunStates
    <3> HIDE DEF a
    <3>2. (Taking(a) <=> Taking(r)) /\ \A k : HasRead(a, k) <=> HasRead(r, k)
      BY <2>1, <3>1 DEF HasRead, Taking
    <3>3. Walked(r, calm) => Walked(a, calm)
      BY <2>1, <3>1, <3>2 DEF Walked
    <3>4. QED BY <1>0, <2>1, <3>1, <3>2, <3>3 DEF CoverOf, AsRead, Trusted, Covering
  <2>3. QED BY <1>2, <2>1, <2>2
<1>8. CASE ToolFails(i) \/ SubmitRefused(i)
  <2> DEFINE a == [r EXCEPT !.step = "failed", !.pending = <<>>]
  <2>1. Set(i, a)
    BY <1>8, Zenon DEF ToolFails, SubmitRefused
  <2>2. CoverOf(a, calm)
    BY <1>0 DEF RunStates, CoverOf, AsRead, Covering, Taking
  <2>3. QED BY <1>2, <2>1, <2>2, Zenon
<1>9. CASE Deadline(i)
  <2> DEFINE b == [r EXCEPT !.step = "flush", !.after = "partial", !.rows = <<>>]
  <2>1. Set(i, b)
    BY <1>9, Zenon DEF Deadline, EndOfBudget
  <2>2. CoverOf(b, calm)
    BY <1>0 DEF RunStates, CoverOf, AsRead, Covering, Taking
  <2>3. QED BY <1>2, <2>1, <2>2, Zenon
<1>10. QED BY <1>3, <1>4, <1>5, <1>6, <1>7, <1>8, <1>9

\* What a page holds: rows as the source has them, of every position of the page;
\* and a short page is the end of the listing.
LEMMA PageRows ==
  ASSUME TypeInv, NEW s \in 1..Sweeps, NEW p \in Nat \ {0}
  PROVE  LET rows == PageOf(s, p) IN
         /\ \A k \in 1..Len(rows) : Current(rows[k])
         /\ \A k \in 1..Len(listing[s]) :
              ~Paged \/ ((p - 1) * PageSize < k /\ k <= p * PageSize) =>
                 listing[s][k] \in Ids(rows)
         /\ Paged /\ Len(rows) < PageSize => \A k \in 1..Len(listing[s]) : k <= p * PageSize
<1> DEFINE rows == PageOf(s, p)
           n == Len(listing[s])
           all == [k \in 1..n |-> Row(listing[s][k])]
           first == (p - 1) * PageSize + 1
           last == p * PageSize
           end == IF last < n THEN last ELSE n
<1>1. n \in Nat /\ PageSize \in Nat \ {0}
  BY SourceSyncAssumption DEF TypeInv, TypeOK
<1>2. (p - 1) * PageSize \in Nat /\ p * PageSize = (p - 1) * PageSize + PageSize
  <2>1. p - 1 \in Nat
    OBVIOUS
  <2>2. (p - 1) * PageSize \in Nat
    BY <1>1, <2>1, NatProduct
  <2>3. p * PageSize = (p - 1) * PageSize + PageSize
    BY <1>1
  <2>4. QED BY <2>2, <2>3
<1>3. first \in Nat \ {0} /\ last \in Nat /\ last = first + PageSize - 1
  BY <1>1, <1>2
<1>4. all \in Seq(Rows) /\ Len(all) = n /\ \A k \in 1..n : all[k] = Row(listing[s][k])
  BY <1>1 DEF TypeInv, TypeOK, Row, Rows
<1>5. \A k \in 1..n : Current(all[k]) /\ all[k].id = listing[s][k]
  BY <1>4 DEF Current, Row
<1>6. CASE ~Paged
  <2>1. rows = all
    BY <1>6 DEF PageOf
  <2>2. QED BY <1>4, <1>5, <1>6, <2>1 DEF Ids
<1>7. CASE Paged /\ first > n
  <2>1. rows = <<>>
    BY <1>4, <1>7 DEF PageOf
  <2>2. \A k \in 1..n : k < first /\ k <= last
    BY <1>1, <1>3, <1>7
  <2>3. QED BY <1>1, <1>2, <1>7, <2>1, <2>2
<1>8. CASE Paged /\ first <= n
  <2>1. rows = SubSeq(all, first, end)
    BY SMTT(60), <1>3, <1>4, <1>8 DEF PageOf
  <2>2. end \in Nat /\ end <= n /\ first <= end
    BY <1>1, <1>3, <1>8
  <2>3. /\ Len(rows) = end - first + 1
        /\ \A k \in 1..Len(rows) : first + k - 1 \in 1..n /\ rows[k] = all[first + k - 1]
    <3> HIDE DEF rows, all, end, first, last
    <3>1. rows = [k \in 1..(end - first + 1) |-> all[first + k - 1]]
      BY <1>3, <2>1, <2>2
    <3>2. end - first + 1 \in Nat
      BY <1>3, <2>2
    <3>3. Len(rows) = end - first + 1
      BY <3>1, <3>2
    <3>4. QED BY <1>1, <1>3, <2>2, <3>1, <3>3
  <2> HIDE DEF rows, all, end, first, last
  <2>4. \A k \in 1..Len(rows) : Current(rows[k])
    BY <1>5, <2>3
  <2>5. ASSUME NEW k \in 1..n, first - 1 < k, k <= last PROVE listing[s][k] \in Ids(rows)
    <3>1. k <= end
      BY <1>1, <1>3, <2>5 DEF end
    <3>2. k - first + 1 \in 1..Len(rows) /\ first + (k - first + 1) - 1 = k
      BY <1>1, <1>3, <2>2, <2>3, <2>5, <3>1
    <3>3. rows[k - first + 1].id = listing[s][k]
      BY <1>5, <2>3, <3>2
    <3>4. QED BY <3>2, <3>3 DEF Ids
  <2>6. Len(rows) < PageSize => n <= last
    BY <1>1, <1>3, <2>2, <2>3 DEF end
  <2>7. first - 1 = (p - 1) * PageSize
    BY <1>2 DEF first
  <2>8. QED BY <1>1, <1>3, <1>8, <2>4, <2>5, <2>6, <2>7 DEF rows, last
<1>9. first > n \/ first <= n
  BY <1>1, <1>3
<1> HIDE DEF rows, n, all, first, last, end
<1>10. QED BY <1>6, <1>7, <1>8, <1>9, Zenon

LEMMA CoverRead ==
  ASSUME TypeInv, CoverInv, NEW i \in Runs, ReadPage(i)
  PROVE  CoverInv'
<1> DEFINE r == run[i]
           calm == untouched[i]
           rows == PageOf(r.sweep, r.page)
           short == ~Paged \/ Len(rows) < PageSize
           a == [r EXCEPT !.step = "flush", !.after = "partial", !.rows = <<>>]
           b == [r EXCEPT !.step = "flush", !.after = "partial", !.pages = r.pages + 1]
           c == [r EXCEPT !.step = "take", !.rows = rows, !.pages = r.pages + 1,
                          !.short = short]
<1>0. TypeOK /\ r \in RunStates /\ CoverOf(r, calm)
  BY RunType DEF TypeInv, CoverInv
<1>1. UNCHANGED origin /\ ever' = ever /\ UNCHANGED untouched /\ r.step = "sweep"
  BY DEF ReadPage, stored, engine
<1>2. Set(i, a) \/ Set(i, b) \/ Set(i, c)
  BY Zenon DEF ReadPage, EndOfBudget
<1>3. r.sweep \in 1..Sweeps /\ r.page \in Nat \ {0} /\ PageSize \in Nat
  BY <1>0, SourceSyncAssumption, SMTT(30) DEF ReadPage, RunStates
<1>4. /\ \A k \in 1..Len(rows) : Current(rows[k])
      /\ \A k \in 1..Len(listing[r.sweep]) :
           ~Paged \/ ((r.page - 1) * PageSize < k /\ k <= r.page * PageSize) =>
              listing[r.sweep][k] \in Ids(rows)
      /\ Paged /\ short => \A k \in 1..Len(listing[r.sweep]) : k <= r.page * PageSize
  BY <1>3, PageRows
<1> HIDE DEF rows, short
<1>5. CASE Set(i, a) \/ Set(i, b)
  <2>1. CoverOf(a, calm) /\ CoverOf(b, calm)
    BY <1>0 DEF RunStates, CoverOf, AsRead, Covering, Taking
  <2>2. QED BY <1>0, <1>1, <1>5, <2>1, CoverMove, Zenon
<1>6. CASE Set(i, c)
  <2>1. /\ c.step = "take" /\ c.rows = rows /\ c.pending = r.pending
        /\ c.sweep = r.sweep /\ c.page = r.page /\ c.mode = r.mode /\ c.short = short
    BY <1>0 DEF RunStates
  <2> HIDE DEF c
  <2>2. AsRead(c, calm)
    BY <1>0, <1>4, <2>1 DEF CoverOf, AsRead
  <2>3. Trusted(c) => Walked(r, calm)
    BY <1>0, <1>1, <2>1 DEF CoverOf, Trusted, Covering
  <2>4. ASSUME Walked(r, calm) PROVE Walked(c, calm)
    <3>1. Ids(r.rows) = {}
      BY <1>1, <2>4 DEF Walked, Ids
    <3>2. ASSUME NEW k \in Calm(r.sweep, calm), HasRead(c, k)
          PROVE  \/ Known(listing[r.sweep][k])
                 \/ listing[r.sweep][k] \in Ids(r.pending) \cup Ids(rows)
      <4>1. k \in 1..Len(listing[r.sweep])
        BY DEF Calm
      <4>2. CASE HasRead(r, k)
        BY <1>3, <2>4, <3>1, <4>2 DEF Walked
      <4>3. CASE ~HasRead(r, k)
        <5>1. ~Paged \/ ((r.page - 1) * PageSize < k /\ k <= r.page * PageSize)
          <6>1. (r.page - 1) * PageSize \in Int
            BY <1>3
          <6>2. QED BY <2>1, <3>2, <4>1, <4>3, <6>1 DEF HasRead
        <5>2. QED BY <1>4, <4>1, <5>1
      <4>4. QED BY <4>2, <4>3
    <3>3. short => \A k \in 1..Len(listing[r.sweep]) : HasRead(c, k)
      BY <1>4, <2>1 DEF HasRead, Taking
    <3>4. QED BY <2>1, <2>4, <3>2, <3>3 DEF Walked, Taking
  <2>5. QED BY <1>0, <1>1, <1>6, <2>2, <2>3, <2>4, CoverMove DEF CoverOf
<1>7. QED BY <1>2, <1>5, <1>6

\* What a trusted run skips, the engine has.
LEMMA TrustedSkip ==
  ASSUME TypeInv, DigestInv, OldestFirst => WatermarkInv, NEW i \in Runs, NEW row \in Rows,
         Trusted(run[i]), IsUnchanged(i, row), Current(row), row.id \in Listed
  PROVE  Known(row.id)
<1>1. CASE OldestFirst
  BY <1>1, SkippedIsKnown
<1>2. CASE ~OldestFirst
  <2>1. run[i].digests[row.id] = row.digest
    BY <1>2 DEF Trusted, IsUnchanged, BehindCursor
  <2>2. row.digest # None /\ row.id \in Records
    BY SourceSyncAssumption DEF Rows, Contents
  <2>3. QED BY <2>1, <2>2 DEF DigestInv, Vouched, Current, Known
<1>3. QED BY <1>1, <1>2

LEMMA CoverTake ==
  ASSUME TypeInv, DigestInv, OldestFirst => WatermarkInv, CoverInv, NEW i \in Runs, Take(i)
  PROVE  CoverInv'
<1> DEFINE r == run[i]
           calm == untouched[i]
           row == Head(r.rows)
           skip == IsUnchanged(i, row)
           pending == IF skip THEN r.pending ELSE Append(r.pending, row)
           high == IF skip THEN r.high ELSE Higher(r.high, row.stamp)
           step == IF Len(pending) >= BatchSize THEN "flush" ELSE "take"
           c == [r EXCEPT !.rows = Tail(r.rows), !.seen = r.seen + 1,
                   !.pending = pending, !.high = high, !.step = step, !.after = "take"]
<1>0. TypeOK /\ r \in RunStates /\ CoverOf(r, calm)
  BY RunType DEF TypeInv, CoverInv
<1>1. /\ UNCHANGED origin /\ ever' = ever /\ UNCHANGED untouched
      /\ r.step = "take" /\ r.rows # <<>>
  BY DEF Take, stored, engine
<1>2. Set(i, c)
  BY Zenon DEF Take
<1>3. /\ r.rows \in Seq(Rows) /\ r.pending \in Seq(Rows) /\ Len(r.rows) \in Nat
      /\ Len(r.pending) \in Nat /\ Len(r.rows) >= 1 /\ row = r.rows[1] /\ row \in Rows
  BY <1>0, <1>1 DEF RunStates
<1>4. /\ Len(Tail(r.rows)) = Len(r.rows) - 1
      /\ \A k \in 1..Len(Tail(r.rows)) :
           k + 1 \in 1..Len(r.rows) /\ Tail(r.rows)[k] = r.rows[k + 1]
  BY <1>1, <1>3
<1>5. /\ skip => pending = r.pending
      /\ ~skip => pending = Append(r.pending, row)
      /\ step \in {"flush", "take"}
  OBVIOUS
<1> HIDE DEF row, skip, pending, high, step
<1>6. /\ c.rows = Tail(r.rows) /\ c.pending = pending /\ c.step = step /\ c.after = "take"
      /\ c.sweep = r.sweep /\ c.page = r.page /\ c.mode = r.mode /\ c.short = r.short
  BY <1>0 DEF RunStates
<1> HIDE DEF c
\* The batch: what it was, and the row unless that is skipped.
<1>7. /\ \A k \in 1..Len(pending) : pending[k] = row \/ \E m \in 1..Len(r.pending) : pending[k] = r.pending[m]
      /\ \A k \in 1..Len(r.pending) : k \in 1..Len(pending) /\ pending[k] = r.pending[k]
      /\ ~skip => \E k \in 1..Len(pending) : pending[k] = row
  <2>1. CASE skip
    BY <1>5, <2>1
  <2>2. CASE ~skip
    <3>1. /\ Len(pending) = Len(r.pending) + 1
          /\ \A k \in 1..Len(pending) :
               pending[k] = IF k = Len(r.pending) + 1 THEN row ELSE r.pending[k]
      BY <1>3, <1>5, <2>2
    <3>2. /\ \A k \in 1..Len(pending) : k = Len(r.pending) + 1 \/ k \in 1..Len(r.pending)
          /\ \A k \in 1..Len(r.pending) : k \in 1..Len(pending) /\ k # Len(r.pending) + 1
          /\ Len(r.pending) + 1 \in 1..Len(pending)
      BY <1>3, <3>1
    <3>3. QED BY <2>2, <3>1, <3>2
  <2>3. QED BY <2>1, <2>2
<1>8. AsRead(c, calm)
  <2>1. row.id \in calm => Current(row)
    BY <1>0, <1>3 DEF CoverOf, AsRead
  <2>2. \A k \in 1..Len(pending) : pending[k].id \in calm => Current(pending[k])
    BY <1>0, <1>7, <2>1 DEF CoverOf, AsRead
  <2>3. \A k \in 1..Len(Tail(r.rows)) : Tail(r.rows)[k].id \in calm => Current(Tail(r.rows)[k])
    BY <1>0, <1>4 DEF CoverOf, AsRead
  <2>4. QED BY <1>6, <2>2, <2>3 DEF AsRead
<1>9. Trusted(c) => Walked(r, calm) /\ Trusted(r)
  BY <1>0, <1>1, <1>6 DEF CoverOf, Trusted, Covering, Taking
<1>10. ASSUME Walked(r, calm), Trusted(r) PROVE Walked(c, calm)
  <2>1. Taking(r) /\ Taking(c) /\ \A k : HasRead(c, k) <=> HasRead(r, k)
    BY <1>1, <1>5, <1>6 DEF HasRead, Taking
  <2>2. \A x \in Ids(r.pending) : x \in Ids(pending)
    BY <1>7 DEF Ids
  <2>3. \A x \in Ids(r.rows) : x = row.id \/ x \in Ids(Tail(r.rows))
    <3> SUFFICES ASSUME NEW k \in 1..Len(r.rows), k # 1
                 PROVE  k - 1 \in 1..Len(Tail(r.rows)) /\ Tail(r.rows)[k - 1] = r.rows[k]
      BY <1>3 DEF Ids
    <3>1. k - 1 \in 1..Len(Tail(r.rows)) /\ (k - 1) + 1 = k
      BY <1>3, <1>4
    <3>2. QED BY <1>4, <3>1
  <2>4. row.id \in calm /\ row.id \in Listed => Known(row.id) \/ row.id \in Ids(pending)
    <3>1. row.id \in calm => Current(row)
      BY <1>0, <1>3 DEF CoverOf, AsRead
    <3>2. ~skip => row.id \in Ids(pending)
      BY <1>7 DEF Ids
    <3>3. skip /\ Current(row) /\ row.id \in Listed => Known(row.id)
      BY <1>3, <1>10, TrustedSkip DEF skip
    <3>4. QED BY <3>1, <3>2, <3>3
  <2>5. ASSUME r.sweep <= Sweeps, NEW k \in Calm(r.sweep, calm), HasRead(c, k)
        PROVE  \/ Known(listing[r.sweep][k])
               \/ listing[r.sweep][k] \in Ids(pending) \cup Ids(Tail(r.rows))
    <3> DEFINE x == listing[r.sweep][k]
    <3>1. r.sweep \in 1..Sweeps /\ k \in 1..Len(listing[r.sweep])
      BY SMTT(60), <1>0, <2>5, SourceSyncAssumption DEF RunStates, Calm
    <3>2. x \in Listed /\ x \in calm
      <4>1. listing[r.sweep] \in Seq(Records)
        BY <1>0, <3>1 DEF TypeOK
      <4>2. x \in Records
        BY <3>1, <4>1, ElementOfSeq
      <4>3. QED BY <3>1, <4>2 DEF Listed, Calm
    <3>3. Known(x) \/ x \in Ids(r.pending) \cup Ids(r.rows)
      BY <1>10, <2>1, <2>5 DEF Walked
    <3> HIDE DEF x
    <3>4. Known(x) \/ x \in Ids(pending) \cup Ids(Tail(r.rows))
      BY <2>2, <2>3, <2>4, <3>2, <3>3
    <3>5. QED BY <3>4 DEF x
  <2>6. QED BY <1>1, <1>5, <1>6, <1>10, <2>1, <2>5 DEF Walked
<1>11. QED BY <1>0, <1>1, <1>2, <1>8, <1>9, <1>10, CoverMove DEF CoverOf

\* A store: the batch has landed, so nothing is lost with it.
LEMMA CoverStore ==
  ASSUME TypeInv, DigestInv, CoverInv, NEW i \in Runs, StoreBatch(i)
  PROVE  CoverInv'
<1> DEFINE r == run[i]
           calm == untouched[i]
<1>0. /\ TypeOK /\ r \in RunStates /\ CoverOf(r, calm) /\ r.step = "store"
      /\ r.after \in {"take", "partial", "next"}
  BY RunType DEF TypeInv, CoverInv, StoreBatch
<1>1. PICK digests \in Kept(Merged(i)) :
        Set(i, Resume([r EXCEPT !.cursor = r.high, !.digests = digests, !.pending = <<>>]))
  BY DEF StoreBatch
<1> DEFINE q == [r EXCEPT !.cursor = r.high, !.digests = digests, !.pending = <<>>]
<1>2. q \in RunStates
  <2>1. digests \in Digests
    BY <1>0, KeptType
  <2>2. <<>> \in Seq(Rows) /\ r.high \in Stamps \cup {None}
    BY <1>0 DEF RunStates
  <2>3. ASSUME NEW e \in Seq(Rows), NEW h \in Stamps \cup {None}
        PROVE  [r EXCEPT !.cursor = h, !.digests = digests, !.pending = e] \in RunStates
    BY <1>0, <2>1 DEF RunStates
  <2>4. QED BY <2>2, <2>3, Zenon
<1>3. /\ q.step = r.step /\ q.after = r.after /\ q.rows = r.rows /\ q.pending = <<>>
      /\ q.sweep = r.sweep /\ q.page = r.page /\ q.mode = r.mode /\ q.short = r.short
  BY <1>0 DEF RunStates
<1> HIDE DEF q
<1>4. \A x \in Ids(r.pending) : x \in calm => Known(x)
  <2> SUFFICES ASSUME NEW x \in Ids(r.pending), x \in calm PROVE Known(x)
    OBVIOUS
  <2>1. r.pending \in Seq(Rows)
    BY <1>0 DEF RunStates
  <2>2. LastRow(r.pending, x) \in 1..Len(r.pending) /\ r.pending[LastRow(r.pending, x)].id = x
    BY <2>1, LastRowOf
  <2>3. PendingDigest(r.pending, x) = content[x]
    BY <1>0, <2>2 DEF CoverOf, AsRead, Current, PendingDigest
  <2>4. <<x, PendingDigest(r.pending, x)>> \in ever
    BY <1>0 DEF DigestInv
  <2>5. QED BY <2>3, <2>4 DEF Known
<1>5. CoverOf(q, calm)
  <2>1. AsRead(q, calm)
    BY <1>0, <1>3 DEF CoverOf, AsRead
  <2>2. Trusted(q) /\ Covering(q) => Walked(r, calm)
    BY <1>0, <1>3 DEF CoverOf, Trusted, Covering, Taking
  <2>3. (Taking(q) <=> Taking(r)) /\ \A k : HasRead(q, k) <=> HasRead(r, k)
    BY <1>3 DEF HasRead, Taking
  <2>4. \A k \in Calm(r.sweep, calm) : listing[r.sweep][k] \in calm
    BY DEF Calm
  <2>5. Walked(r, calm) => Walked(q, calm)
    BY <1>3, <1>4, <2>3, <2>4 DEF Walked
  <2>6. QED BY <2>1, <2>2, <2>5 DEF CoverOf
<1>6. CoverOf(Resume(q), calm)
  BY <1>0, <1>2, <1>3, <1>5, CoverResume
<1>7. UNCHANGED origin /\ UNCHANGED untouched /\ ever' = ever
  BY DEF StoreBatch, engine
<1>8. QED BY <1>0, <1>1, <1>6, <1>7, CoverMove DEF q

LEMMA CoverStart ==
  ASSUME TypeInv, CoverInv, NEW i \in Runs, NEW mode \in {"incremental", "full"},
         NEW budget \in Budgets, Start(i, mode, budget)
  PROVE  CoverInv'
<1> DEFINE cursor == IF mode = "full" THEN None ELSE kv.cursor
           digests == IF mode = "full" THEN NoDigests ELSE kv.digests
           new == [Idle EXCEPT !.step = "parents", !.mode = mode, !.budget = budget,
                     !.cursor = cursor, !.high = cursor, !.digests = digests]
<1>1. Set(i, new)
  BY DEF Start
<1>2. /\ new.step = "parents" /\ new.rows = <<>> /\ new.pending = <<>>
      /\ new.sweep = 1 /\ new.page = 1
  BY DEF Idle
<1> HIDE DEF new
<1>3. \A j \in Runs : run'[j] = IF j = i THEN new ELSE run[j]
  BY <1>1 DEF Set, TypeInv, TypeOK
<1>4. UNCHANGED origin /\ ever' = ever /\ untouched' = [untouched EXCEPT ![i] = Records]
  BY DEF Start, engine
<1>5. \A calm : CoverOf(new, calm)
  <2> SUFFICES ASSUME NEW calm PROVE CoverOf(new, calm)
    OBVIOUS
  <2>1. \A k \in Calm(1, calm) : ~HasRead(new, k)
    <3>1. \A k \in Calm(1, calm) : k \in Nat /\ k >= 1
      BY DEF Calm
    <3>2. (1 - 1) * PageSize = 0
      BY SourceSyncAssumption
    <3>3. QED BY <1>2, <3>1, <3>2 DEF HasRead, Taking
  <2>2. Walked(new, calm)
    BY <1>2, <2>1 DEF Walked, Taking
  <2>3. QED BY <1>2, <2>2 DEF CoverOf, AsRead
<1>6. ASSUME NEW j \in Runs PROVE CoverOf(run[j], untouched[j])'
  <2> DEFINE r == run'[j]
             calm == untouched'[j]
  <2>1. CoverOf(r, calm)
    BY <1>3, <1>4, <1>5 DEF CoverInv, TypeInv, TypeOK
  <2> HIDE DEF r, calm
  <2>2. PICK x, y : x = r /\ y = calm
    OBVIOUS
  <2>3. CoverOf(x, y)'
    BY <1>4, <2>1, <2>2, CoverKept
  <2>4. QED BY <2>2, <2>3 DEF r, calm
<1>7. QED BY <1>6 DEF CoverInv

\* A touch concerns the touched record only: no run claims anything of it any more,
\* and where the listing is reordered, a run claims all of it or nothing.
LEMMA CoverTouch ==
  ASSUME TypeInv, CoverInv, StillPages, NEW x \in Records, Touch(x)
  PROVE  CoverInv'
<1>1. /\ content \in [Records -> Contents] /\ stamp \in [Records -> Stamps]
      /\ listing \in [1..Sweeps -> Seq(Records)] /\ untouched \in [Runs -> SUBSET Records]
  BY DEF TypeInv, TypeOK
<1>2. /\ \A y \in Records \ {x} : content'[y] = content[y] /\ stamp'[y] = stamp[y]
      /\ \A i \in Runs : untouched'[i] = untouched[i] \ {x}
      /\ ever' = ever /\ run' = run
  BY <1>1 DEF Touch, engine
<1>3. \A y \in Records \ {x} : Known(y) => Known(y)'
  BY <1>2 DEF Known
<1>4. \A s \in 1..Sweeps :
        /\ Len(listing'[s]) = Len(listing[s])
        /\ Paged => listing'[s] = listing[s]
        /\ \A k \in 1..Len(listing[s]) :
             \E m \in 1..Len(listing[s]) : listing'[s][k] = listing[s][m]
  <2> SUFFICES ASSUME NEW s \in 1..Sweeps
               PROVE  /\ Len(listing'[s]) = Len(listing[s])
                      /\ Paged => listing'[s] = listing[s]
                      /\ \A k \in 1..Len(listing[s]) :
                           \E m \in 1..Len(listing[s]) : listing'[s][k] = listing[s][m]
    OBVIOUS
  <2> DEFINE list == listing[s]
             n == Len(list)
             at == CHOOSE k \in 1..n : list[k] = x
  <2>1. n \in Nat
    BY <1>1
  <2>2. CASE Ascending /\ \E k \in 1..n : list[k] = x
    <3>1. at \in 1..n /\ list[at] = x
      BY <2>2
    <3>2. listing'[s] = MovedLast(list, x)
      BY <2>2 DEF Touch
    <3>3. MovedLast(list, x) = [k \in 1..n |-> IF k < at THEN list[k]
                                               ELSE IF k < n THEN list[k + 1] ELSE x]
      BY DEF MovedLast
    <3> HIDE DEF at, list
    <3>4. Len(listing'[s]) = n
      BY <2>1, <3>2, <3>3
    <3>5. \A k \in 1..n : \E m \in 1..n : listing'[s][k] = list[m]
      <4> SUFFICES ASSUME NEW k \in 1..n PROVE \E m \in 1..n : listing'[s][k] = list[m]
        OBVIOUS
      <4>1. listing'[s][k] = IF k < at THEN list[k] ELSE IF k < n THEN list[k + 1] ELSE x
        BY <3>2, <3>3
      <4>2. k < n => k + 1 \in 1..n
        BY <2>1
      <4>3. QED BY <3>1, <4>1, <4>2
    <3>6. QED BY <2>2, <3>4, <3>5 DEF StillPages, list
  <2>3. CASE ~(Ascending /\ \E k \in 1..n : list[k] = x)
    <3>1. listing'[s] = list
      BY <2>3 DEF Touch
    <3>2. QED BY <3>1
  <2>4. QED BY <2>2, <2>3
<1>5. ASSUME NEW i \in Runs PROVE CoverOf(run[i], untouched[i])'
  <2> DEFINE r == run[i]
             calm == untouched[i]
             left == untouched[i] \ {x}
  <2>0. CoverOf(r, calm) /\ r \in RunStates
    BY RunType DEF CoverInv
  <2>range. r.sweep <= Sweeps => r.sweep \in 1..Sweeps
    <3>1. Sweeps \in Nat
      BY SourceSyncAssumption
    <3>2. r.sweep \in Nat \ {0}
      BY <2>0 DEF RunStates
    <3> HIDE DEF r
    <3>3. QED BY <3>1, <3>2
  <2>1. \A row : row.id \in left /\ Current(row) => Current(row)'
    BY <1>1, <1>2 DEF Current
  <2>2. AsRead(run[i], untouched[i])'
    <3>1. /\ \A k \in 1..Len(r.rows) : r.rows[k].id \in left => Current(r.rows[k])
          /\ \A k \in 1..Len(r.pending) : r.pending[k].id \in left => Current(r.pending[k])
      BY <2>0 DEF CoverOf, AsRead
    <3>2. run'[i] = run[i] /\ untouched'[i] = left
      BY <1>2
    <3>3. \A k \in 1..Len(r.rows) : r.rows[k].id \in left => Current(run[i].rows[k])'
      BY <2>1, <3>1, <3>2 DEF Current
    <3>4. \A k \in 1..Len(r.pending) : r.pending[k].id \in left => Current(run[i].pending[k])'
      BY <2>1, <3>1, <3>2 DEF Current
    <3>5. QED BY <3>2, <3>3, <3>4 DEF AsRead
  <2>3. \A s \in 1..Sweeps : \A k \in Calm(s, untouched[i])' :
          \E m \in Calm(s, calm) :
             /\ listing'[s][k] = listing[s][m] /\ listing[s][m] \in left
             /\ Paged => m = k
    <3> SUFFICES ASSUME NEW s \in 1..Sweeps, NEW k \in Calm(s, untouched[i])'
                 PROVE  \E m \in Calm(s, calm) :
                           /\ listing'[s][k] = listing[s][m] /\ listing[s][m] \in left
                           /\ Paged => m = k
      OBVIOUS
    <3>1. k \in 1..Len(listing[s]) /\ listing'[s][k] \in left
      BY <1>2, <1>4 DEF Calm
    <3>2. QED BY <1>4, <3>1 DEF Calm
  <2>4. \A k, m : HasRead(r, k) /\ (Paged => m = k) => HasRead(r, m)
    BY DEF HasRead
  <2>5. ASSUME Walked(r, calm) PROVE Walked(run[i], untouched[i])'
    <3>1. \A s \in 1..Sweeps : s < r.sweep => \A k \in Calm(s, untouched[i])' : Known(listing[s][k])'
      <4> SUFFICES ASSUME NEW s \in 1..Sweeps, s < r.sweep, NEW k \in Calm(s, untouched[i])'
                   PROVE  Known(listing[s][k])'
        OBVIOUS
      <4>1. PICK m \in Calm(s, calm) : listing'[s][k] = listing[s][m] /\ listing[s][m] \in left
        BY <2>3
      <4>2. Known(listing[s][m])
        BY <2>5 DEF Walked
      <4>3. PICK y \in Records \ {x} : y = listing[s][m]
        BY <1>1, <4>1
      <4>4. Known(y)'
        BY <1>3, <4>2, <4>3
      <4>5. QED BY <4>1, <4>3, <4>4 DEF Known
    <3>2. ASSUME r.sweep <= Sweeps, NEW k \in Calm(r.sweep, untouched[i])', HasRead(r, k)
          PROVE  \/ Known(listing[r.sweep][k])'
                 \/ listing'[r.sweep][k] \in Ids(r.pending) \cup Ids(r.rows)
      <4>0. r.sweep \in 1..Sweeps
        BY <2>range, <3>2
      <4>1. PICK m \in Calm(r.sweep, calm) :
              /\ listing'[r.sweep][k] = listing[r.sweep][m] /\ listing[r.sweep][m] \in left
              /\ Paged => m = k
        BY <1>2, <2>3, <4>0
      <4>2. Known(listing[r.sweep][m]) \/ listing[r.sweep][m] \in Ids(r.pending) \cup Ids(r.rows)
        BY <2>4, <2>5, <3>2, <4>1 DEF Walked
      <4>3. PICK y \in Records \ {x} : y = listing[r.sweep][m]
        BY <1>1, <4>1
      <4>4. Known(y) => Known(y)'
        BY <1>3, <4>3
      <4>5. y = listing'[r.sweep][k]
        BY <4>1, <4>3
      <4>6. CASE Known(y)
        <5>1. Known(y)'
          BY <4>4, <4>6
        <5>2. r' = r
          BY <1>2
        <5>3. QED BY <4>5, <5>1, <5>2 DEF Known
      <4>7. CASE y \in Ids(r.pending) \cup Ids(r.rows)
        BY <4>5, <4>7
      <4>8. QED BY <4>2, <4>3, <4>6, <4>7
    <3>3. Taking(r) /\ r.short /\ r.sweep <= Sweeps =>
            \A k \in 1..Len(listing'[r.sweep]) : HasRead(r, k)
      <4>1. Taking(r) /\ r.short /\ r.sweep <= Sweeps =>
              \A k \in 1..Len(listing[r.sweep]) : HasRead(r, k)
        BY <2>5 DEF Walked
      <4>2. r.sweep <= Sweeps => Len(listing'[r.sweep]) = Len(listing[r.sweep])
        BY <1>4, <2>range
      <4>3. QED BY <4>1, <4>2
    <3>4. /\ run'[i] = r /\ r' = r /\ Taking(run[i])' = Taking(r)
          /\ \A k : HasRead(run[i], k)' = HasRead(r, k)
          /\ \A rows : Ids(rows)' = Ids(rows)
      BY <1>2 DEF HasRead, Taking, Ids
    <3>5. /\ r.step \in {"parents", "sweep"} \/ (Taking(r) /\ r.step # "take" /\ r.after = "next")
               => r.rows = <<>>
          /\ Taking(r) /\ r.step # "take" /\ r.after = "next" => r.short
          /\ r.step = "parents" => r.sweep = 1 /\ r.page = 1
          /\ r.step = "completed" => r.sweep > Sweeps
      BY <2>5 DEF Walked
    <3> HIDE DEF r, calm, left
    <3>6. QED BY <3>1, <3>2, <3>3, <3>4, <3>5 DEF Walked
  <2>6. QED BY <1>2, <2>0, <2>2, <2>5 DEF CoverOf, Trusted, Covering, Taking, OldestFirst, TextLeq, Stamps
<1>6. QED BY <1>5 DEF CoverInv

\* CompletedRunCovers is not inductive: CoverInv follows a run through its sweeps.
LEMMA CoverStep ==
  StillPages /\ TypeInv /\ DigestInv /\ (OldestFirst => WatermarkInv) /\ CoverInv /\ [Next]_vars
    => CoverInv'
<1> SUFFICES ASSUME StillPages, TypeInv, DigestInv, OldestFirst => WatermarkInv, CoverInv,
                    [Next]_vars
             PROVE  CoverInv'
  OBVIOUS
<1>1. ASSUME NEW i \in Runs, Finish(i) \/ Conflict(i) \/ Die(i) PROVE CoverInv'
  <2>1. TypeOK /\ Set(i, Idle) /\ UNCHANGED origin /\ ever' = ever /\ UNCHANGED untouched
    BY <1>1 DEF Finish, Conflict, Die, engine, TypeInv
  <2>2. QED BY <2>1, CoverIdle, CoverMove
<1>2. CASE UNCHANGED vars
  <2>1. UNCHANGED origin /\ ever' = ever /\ run' = run /\ untouched' = untouched
    BY <1>2 DEF vars, origin
  <2>2. ASSUME NEW i \in Runs PROVE CoverOf(run[i], untouched[i])'
    <3>1. PICK x, y : x = run[i] /\ y = untouched[i]
      OBVIOUS
    <3>2. CoverOf(x, y)'
      BY <2>1, <3>1, CoverKept DEF CoverInv
    <3>3. x = run'[i] /\ y = untouched'[i]
      BY <2>1, <3>1
    <3>4. QED BY <3>2, <3>3
  <2>3. QED BY <2>2 DEF CoverInv
<1>3. QED
  BY <1>1, <1>2, CoverQuiet, CoverRead, CoverTake, CoverStore, CoverStart, CoverTouch
     DEF Next, RunStep, Failure

\* A run that reports "completed" left no listed record behind, for any number of sweeps,
\* pages, overlapping runs, failures and touches, unless the listing is reordered under a
\* paged walk or a watermark hides older records (which ss_parents shows it can).
THEOREM CompletionHolds ==
  ASSUME StillPages, ~Incremental \/ OldestFirst PROVE Spec => []CompletedRunCovers
<1>1. Init => CoverInv /\ DigestInv
  <2>1. ASSUME Init, NEW i \in Runs PROVE CoverOf(run[i], untouched[i])
    BY <2>1, CoverIdle DEF Init
  <2>2. Init => DigestInv
    BY DEF Init, DigestInv, Vouched, NoDigests, Idle
  <2>3. QED BY <2>1, <2>2 DEF CoverInv
<1>2. Spec => [](TypeInv /\ DigestInv)
  BY <1>1, TypeInit, TypeStep, DigestStep, PTL DEF Spec
<1>3. Spec => [](OldestFirst => WatermarkInv)
  <2>1. CASE OldestFirst
    <3>1. Spec => []WatermarkInv
      BY <2>1, WatermarkInvariant, PTL
    <3>2. QED BY <3>1, PTL
  <2>2. CASE ~OldestFirst
    <3>1. OldestFirst => WatermarkInv
      BY <2>2
    <3>2. QED BY <3>1, PTL
  <2>3. QED BY <2>1, <2>2
<1>4. Spec => [](TypeInv /\ CoverInv)
  BY <1>1, <1>2, <1>3, CoverStep, PTL DEF Spec
<1>5. TypeInv /\ CoverInv => CompletedRunCovers
  <2> SUFFICES ASSUME TypeInv, CoverInv, NEW i \in Runs, run[i].step = "completed",
                      NEW r \in untouched[i] \cap Listed
               PROVE  <<r, content[r]>> \in ever
    BY DEF CompletedRunCovers
  <2>1. Walked(run[i], untouched[i])
    BY DEF CoverInv, CoverOf, Covering, Trusted
  <2>2. PICK s \in 1..Sweeps : \E k \in 1..Len(listing[s]) : listing[s][k] = r
    BY DEF Listed
  <2>3. PICK k \in 1..Len(listing[s]) : listing[s][k] = r
    BY <2>2
  <2>4. k \in Calm(s, untouched[i])
    BY <2>3 DEF Calm
  <2>5. s < run[i].sweep
    <3>1. run[i].sweep \in Nat /\ run[i].sweep > Sweeps /\ Sweeps \in Nat
      BY <2>1, RunType, SourceSyncAssumption DEF Walked, RunStates
    <3>2. QED BY <3>1
  <2>6. QED BY <2>1, <2>3, <2>4, <2>5 DEF Walked, Known
<1>6. QED BY <1>4, <1>5, PTL


--------------------------------------------------------------------------------
(* The engine and the digests *)

\* One run of the source at a time.
OneRun == \A i, j \in Runs : i = j

\* Version d of the record is not older than what the engine took last.
NotOlder(x, d) == accepted[x] # None => accepted[x] <= d

\* Digests vouch for no newer content than the engine took.
Backed(digests) ==
    \A x \in Records : digests[x] # None => accepted[x] # None /\ accepted[x] >= digests[x]

\* The rows of a run are read in the order in which they will land: none is newer than
\* the source or older than the engine, unless it has just landed itself.
InOrder(r) ==
    /\ Backed(r.digests)
    /\ \A k \in 1..Len(r.rows) :
         r.rows[k].digest <= content[r.rows[k].id] /\ NotOlder(r.rows[k].id, r.rows[k].digest)
    /\ \A k \in 1..Len(r.pending) : r.pending[k].digest <= content[r.pending[k].id]
    /\ \A j \in 1..Len(r.pending), k \in 1..Len(r.rows) :
         r.pending[j].id = r.rows[k].id => r.pending[j].digest <= r.rows[k].digest
    /\ \A j, k \in 1..Len(r.pending) :
         j < k /\ r.pending[j].id = r.pending[k].id => r.pending[j].digest <= r.pending[k].digest
    /\ \A j, k \in 1..Len(r.rows) :
         j < k /\ r.rows[j].id = r.rows[k].id => r.rows[j].digest <= r.rows[k].digest
    /\ r.step # "store" =>
         \A k \in 1..Len(r.pending) : NotOlder(r.pending[k].id, r.pending[k].digest)
    /\ r.step = "store" =>
         \A x \in Ids(r.pending) : accepted[x] = PendingDigest(r.pending, x)

OrderInv ==
    /\ \A x \in Records : NotOlder(x, content[x])
    /\ Backed(kv.digests)
    /\ \A i \in Runs : InOrder(run[i])

\* The contents of a record are numbered in the order the source held them.
LEMMA OrderTypes ==
  ASSUME TypeInv
  PROVE  /\ \A x \in Records : content[x] \in Nat /\ accepted[x] \in Nat \cup {None}
         /\ \A x \in Records : kv.digests[x] \in Nat \cup {None}
         /\ None \notin Nat
         /\ \A row \in Rows : row.id \in Records /\ row.digest \in Nat
         /\ \A d \in Digests, x \in Records : d[x] \in Nat \cup {None}
BY SourceSyncAssumption DEF TypeInv, TypeOK, Digests, Contents, Rows

LEMMA RowsOf ==
  ASSUME NEW r \in RunStates
  PROVE  /\ r.rows \in Seq(Rows) /\ Len(r.rows) \in Nat
         /\ \A k \in 1..Len(r.rows) : r.rows[k] \in Rows
         /\ r.pending \in Seq(Rows) /\ Len(r.pending) \in Nat
         /\ \A k \in 1..Len(r.pending) : r.pending[k] \in Rows
         /\ r.digests \in Digests
<1>1. r.rows \in Seq(Rows) /\ r.pending \in Seq(Rows) /\ r.digests \in Digests
  BY DEF RunStates
<1>2. \A k \in 1..Len(r.rows) : r.rows[k] \in Rows
  BY <1>1, ElementOfSeq
<1>3. \A k \in 1..Len(r.pending) : r.pending[k] \in Rows
  BY <1>1, ElementOfSeq
<1>4. QED BY <1>1, <1>2, <1>3

\* What is said of a run goes on to hold while source and engine stay the same.
LEMMA OrderKept ==
  ASSUME content' = content, accepted' = accepted, NEW r, InOrder(r)
  PROVE  InOrder(r)'
<1>1. Backed(r.digests)'
  BY DEF InOrder, Backed
<1>2. \A x \in Ids(r.pending) : PendingDigest(r.pending, x)' = PendingDigest(r.pending, x)
  BY DEF PendingDigest, LastRow
<1>3. Ids(r.pending)' = Ids(r.pending)
  BY DEF Ids
<1>4. r.step = "store" => \A x \in Ids(r.pending)' : accepted'[x] = PendingDigest(r.pending, x)'
  BY <1>2, <1>3 DEF InOrder
<1>5. QED BY <1>1, <1>4 DEF InOrder, NotOlder

\* A step that only moves run i and lands nothing.
LEMMA OrderMove ==
  ASSUME TypeInv, OneRun, OrderInv, NEW i \in Runs, NEW new, Set(i, new), InOrder(new),
         content' = content, accepted' = accepted, Backed(kv'.digests)
  PROVE  OrderInv'
<1>1. run'[i] = new /\ \A j \in Runs : j = i
  BY DEF Set, TypeInv, TypeOK, OneRun
<1>2. \A x \in Records : NotOlder(x, content[x])'
  BY DEF OrderInv, NotOlder
<1>3. Backed(kv.digests)'
  BY DEF Backed
<1>4. InOrder(run[i])'
  <2>1. PICK q : q = run'[i]
    OBVIOUS
  <2>2. InOrder(q)'
    BY <1>1, <2>1, OrderKept
  <2>3. QED BY <2>1, <2>2
<1>5. QED BY <1>1, <1>2, <1>3, <1>4 DEF OrderInv

LEMMA OrderIdle == InOrder(Idle)
<1>1. /\ Idle.digests = NoDigests /\ Idle.rows = <<>> /\ Idle.pending = <<>>
      /\ Idle.step = "idle"
  BY DEF Idle
<1>2. QED BY <1>1 DEF InOrder, Backed, NoDigests

\* A run may give up rows and the batch, and go on, outside the store.
LEMMA OrderShrinks ==
  ASSUME NEW r \in RunStates, InOrder(r), NEW new,
         new.digests = r.digests, new.rows = r.rows \/ new.rows = <<>>,
         new.pending = <<>> \/ (new.pending = r.pending /\ r.step # "store"),
         new.step # "store"
  PROVE  InOrder(new)
<1>1. \A k \in 1..Len(new.rows) : k \in 1..Len(r.rows) /\ new.rows[k] = r.rows[k]
  OBVIOUS
<1>2. \A k \in 1..Len(new.pending) :
        k \in 1..Len(r.pending) /\ new.pending[k] = r.pending[k] /\ r.step # "store"
  OBVIOUS
<1>3. Backed(new.digests)
  BY DEF InOrder
<1>4. /\ \A k \in 1..Len(new.rows) :
           /\ new.rows[k].digest <= content[new.rows[k].id]
           /\ NotOlder(new.rows[k].id, new.rows[k].digest)
      /\ \A k \in 1..Len(new.pending) :
           /\ new.pending[k].digest <= content[new.pending[k].id]
           /\ NotOlder(new.pending[k].id, new.pending[k].digest)
  BY <1>1, <1>2 DEF InOrder
<1>5. \A j \in 1..Len(new.pending), k \in 1..Len(new.rows) :
        new.pending[j].id = new.rows[k].id => new.pending[j].digest <= new.rows[k].digest
  BY <1>1, <1>2 DEF InOrder
<1>6. \A j, k \in 1..Len(new.pending) :
        j < k /\ new.pending[j].id = new.pending[k].id =>
           new.pending[j].digest <= new.pending[k].digest
  BY <1>2 DEF InOrder
<1>7. \A j, k \in 1..Len(new.rows) :
        j < k /\ new.rows[j].id = new.rows[k].id => new.rows[j].digest <= new.rows[k].digest
  BY <1>1 DEF InOrder
<1>8. QED BY <1>3, <1>4, <1>5, <1>6, <1>7 DEF InOrder

\* The steps of a run that take and land nothing.
LEMMA OrderQuiet ==
  ASSUME TypeInv, OneRun, OrderInv, NEW i \in Runs,
         \/ ReadParents(i) \/ Complete(i) \/ PageDone(i) \/ FlushNothing(i)
         \/ ToolFails(i) \/ Deadline(i) \/ Finish(i) \/ Conflict(i) \/ Die(i)
  PROVE  OrderInv'
<1> DEFINE r == run[i]
<1>0. r \in RunStates /\ InOrder(r) /\ Backed(kv.digests)
  BY RunType DEF OrderInv
<1>1. content' = content /\ accepted' = accepted
  BY DEF ReadParents, Complete, PageDone, FlushNothing, ToolFails, Deadline, Finish,
     Conflict, Die, origin, engine
<1>2. CASE Finish(i) \/ Conflict(i) \/ Die(i)
  <2>1. Set(i, Idle) /\ Backed(kv'.digests)
    BY <1>0, <1>2 DEF Finish, Conflict, Die, Store, stored, InOrder
  <2>2. QED BY <1>1, <2>1, OrderIdle, OrderMove
<1>3. ASSUME kv' = kv, NEW new, Set(i, new), r.step # "store",
             new.digests = r.digests, new.rows = r.rows \/ new.rows = <<>>,
             new.pending = <<>> \/ new.pending = r.pending, new.step # "store"
      PROVE  OrderInv'
  <2>1. InOrder(new)
    BY <1>0, <1>3, OrderShrinks
  <2>2. QED BY <1>0, <1>1, <1>3, <2>1, OrderMove
<1>4. CASE ReadParents(i)
  <2> DEFINE a == [r EXCEPT !.step = "failed", !.pages = r.budget.pages]
             b == [r EXCEPT !.step = "sweep", !.pages = ParentPages]
  <2>1. (Set(i, a) \/ Set(i, b)) /\ r.step = "parents" /\ kv' = kv
    BY <1>4, Zenon DEF ReadParents, stored
  <2>2. /\ a.digests = r.digests /\ a.rows = r.rows /\ a.pending = r.pending /\ a.step # "store"
        /\ b.digests = r.digests /\ b.rows = r.rows /\ b.pending = r.pending /\ b.step # "store"
    BY <1>0 DEF RunStates
  <2> HIDE DEF a, b
  <2>3. QED BY <1>3, <2>1, <2>2
<1>5. CASE Complete(i)
  <2> DEFINE a == [r EXCEPT !.step = "completed"]
  <2>1. Set(i, a) /\ r.step = "sweep" /\ kv' = kv
    BY <1>5 DEF Complete, stored
  <2>2. a.digests = r.digests /\ a.rows = r.rows /\ a.pending = r.pending /\ a.step # "store"
    BY <1>0 DEF RunStates
  <2> HIDE DEF a
  <2>3. QED BY <1>3, <2>1, <2>2
<1>6. CASE PageDone(i)
  <2> DEFINE a == [r EXCEPT !.step = "flush", !.after = "next"]
             b == [r EXCEPT !.step = "sweep", !.page = r.page + 1]
  <2>1. (Set(i, a) \/ Set(i, b)) /\ r.step = "take" /\ kv' = kv
    BY <1>6, Zenon DEF PageDone, stored
  <2>2. /\ a.digests = r.digests /\ a.rows = r.rows /\ a.pending = r.pending /\ a.step # "store"
        /\ b.digests = r.digests /\ b.rows = r.rows /\ b.pending = r.pending /\ b.step # "store"
    BY <1>0 DEF RunStates
  <2> HIDE DEF a, b
  <2>3. QED BY <1>3, <2>1, <2>2
<1>7. CASE FlushNothing(i)
  <2> DEFINE a == Resume(r)
  <2>1. /\ Set(i, a) /\ r.step = "flush" /\ kv' = kv
        /\ r.after \in {"take", "partial", "next"}
    BY <1>7, RunType DEF FlushNothing, stored
  <2>2. a.digests = r.digests /\ a.rows = r.rows /\ a.pending = r.pending /\ a.step # "store"
    BY <1>0, <2>1 DEF Resume, RunStates
  <2> HIDE DEF a
  <2>3. QED BY <1>3, <2>1, <2>2
<1>8. CASE ToolFails(i)
  <2> DEFINE a == [r EXCEPT !.step = "failed", !.pending = <<>>]
  <2>1. Set(i, a) /\ r.step \in {"parents", "sweep"} /\ kv' = kv
    BY <1>8 DEF ToolFails, Calling, stored
  <2>2. a.digests = r.digests /\ a.rows = r.rows /\ a.pending = <<>> /\ a.step # "store"
    BY <1>0 DEF RunStates
  <2> HIDE DEF a
  <2>3. QED BY <1>3, <2>1, <2>2
<1>9. CASE Deadline(i)
  <2> DEFINE a == [r EXCEPT !.step = "flush", !.after = "partial", !.rows = <<>>]
  <2>1. Set(i, a) /\ r.step \in {"parents", "sweep"} /\ kv' = kv
    BY <1>9, Zenon DEF Deadline, EndOfBudget, Calling, stored
  <2>2. a.digests = r.digests /\ a.rows = <<>> /\ a.pending = r.pending /\ a.step # "store"
    BY <1>0 DEF RunStates
  <2> HIDE DEF a
  <2>3. QED BY <1>3, <2>1, <2>2
<1>10. QED BY <1>2, <1>4, <1>5, <1>6, <1>7, <1>8, <1>9

\* A page is read as the source is now: nothing the run or the engine has is newer.
LEMMA OrderRead ==
  ASSUME TypeInv, OneRun, OrderInv, NEW i \in Runs, ReadPage(i)
  PROVE  OrderInv'
<1> DEFINE r == run[i]
           rows == PageOf(r.sweep, r.page)
           short == ~Paged \/ Len(rows) < PageSize
           a == [r EXCEPT !.step = "flush", !.after = "partial", !.rows = <<>>]
           b == [r EXCEPT !.step = "flush", !.after = "partial", !.pages = r.pages + 1]
           c == [r EXCEPT !.step = "take", !.rows = rows, !.pages = r.pages + 1,
                          !.short = short]
<1>0. r \in RunStates /\ InOrder(r) /\ Backed(kv.digests)
  BY RunType DEF OrderInv
<1>1. content' = content /\ accepted' = accepted /\ kv' = kv /\ r.step = "sweep"
  BY DEF ReadPage, origin, stored, engine
<1>2. Set(i, a) \/ Set(i, b) \/ Set(i, c)
  BY Zenon DEF ReadPage, EndOfBudget
<1>3. r.sweep \in 1..Sweeps /\ r.page \in Nat \ {0}
  BY <1>0, SourceSyncAssumption, SMTT(30) DEF ReadPage, RunStates
<1>4. (\A k \in 1..Len(rows) : Current(rows[k])) /\ rows \in Seq(Rows)
  BY <1>3, PageRows, ReadType
<1> HIDE DEF rows, short
<1>5. CASE Set(i, a) \/ Set(i, b)
  <2>1. /\ a.digests = r.digests /\ a.rows = <<>> /\ a.pending = r.pending /\ a.step # "store"
        /\ b.digests = r.digests /\ b.rows = r.rows /\ b.pending = r.pending /\ b.step # "store"
    BY <1>0 DEF RunStates
  <2> HIDE DEF a, b
  <2>2. InOrder(a) /\ InOrder(b)
    BY <1>0, <1>1, <2>1, OrderShrinks
  <2>3. QED BY <1>0, <1>1, <1>5, <2>2, OrderMove
<1>6. CASE Set(i, c)
  <2>1. /\ c.digests = r.digests /\ c.rows = rows /\ c.pending = r.pending /\ c.step = "take"
    BY <1>0 DEF RunStates
  <2> HIDE DEF c
  <2>2. \A k \in 1..Len(rows) : rows[k] \in Rows /\ rows[k].digest = content[rows[k].id]
    BY <1>4, ElementOfSeq DEF Current
  <2>3. /\ \A k \in 1..Len(rows) :
             /\ rows[k].digest <= content[rows[k].id]
             /\ NotOlder(rows[k].id, rows[k].digest)
        /\ \A j, k \in 1..Len(rows) :
             j < k /\ rows[j].id = rows[k].id => rows[j].digest <= rows[k].digest
    BY <2>2, OrderTypes DEF OrderInv
  <2>4. \A j \in 1..Len(r.pending), k \in 1..Len(rows) :
          r.pending[j].id = rows[k].id => r.pending[j].digest <= rows[k].digest
    BY <1>0, <2>2 DEF InOrder
  <2>5. InOrder(c)
    BY <1>0, <1>1, <2>1, <2>3, <2>4 DEF InOrder
  <2>6. QED BY <1>0, <1>1, <1>6, <2>5, OrderMove
<1>7. QED BY <1>2, <1>5, <1>6

LEMMA OrderTake ==
  ASSUME TypeInv, OneRun, OrderInv, NEW i \in Runs, Take(i)
  PROVE  OrderInv'
<1> DEFINE r == run[i]
           row == Head(r.rows)
           skip == IsUnchanged(i, row)
           pending == IF skip THEN r.pending ELSE Append(r.pending, row)
           high == IF skip THEN r.high ELSE Higher(r.high, row.stamp)
           step == IF Len(pending) >= BatchSize THEN "flush" ELSE "take"
           c == [r EXCEPT !.rows = Tail(r.rows), !.seen = r.seen + 1,
                   !.pending = pending, !.high = high, !.step = step, !.after = "take"]
<1>0. r \in RunStates /\ InOrder(r) /\ Backed(kv.digests)
  BY RunType DEF OrderInv
<1>1. /\ content' = content /\ accepted' = accepted /\ kv' = kv
      /\ r.step = "take" /\ r.rows # <<>>
  BY DEF Take, origin, stored, engine
<1>2. Set(i, c)
  BY Zenon DEF Take
<1>3. /\ r.rows \in Seq(Rows) /\ r.pending \in Seq(Rows) /\ Len(r.rows) \in Nat
      /\ Len(r.pending) \in Nat /\ Len(r.rows) >= 1 /\ row = r.rows[1]
  BY <1>0, <1>1 DEF RunStates
<1>4. /\ Len(Tail(r.rows)) = Len(r.rows) - 1
      /\ \A k \in 1..Len(Tail(r.rows)) :
           /\ k + 1 \in 1..Len(r.rows) /\ 1 < k + 1
           /\ Tail(r.rows)[k] = r.rows[k + 1]
  BY <1>1, <1>3
<1>5. /\ skip => pending = r.pending
      /\ ~skip => pending = Append(r.pending, row)
      /\ step \in {"flush", "take"}
  OBVIOUS
<1> HIDE DEF row, skip, pending, high, step
<1>6. c.rows = Tail(r.rows) /\ c.pending = pending /\ c.step = step /\ c.digests = r.digests
  BY <1>0 DEF RunStates
<1> HIDE DEF c
<1>7. /\ \A k \in 1..Len(pending) : \/ k \in 1..Len(r.pending) /\ pending[k] = r.pending[k]
                                    \/ k = Len(r.pending) + 1 /\ pending[k] = row
  <2>1. CASE skip
    BY <1>5, <2>1
  <2>2. CASE ~skip
    <3>1. /\ Len(pending) = Len(r.pending) + 1
          /\ \A k \in 1..Len(pending) :
               pending[k] = IF k = Len(r.pending) + 1 THEN row ELSE r.pending[k]
      BY <1>3, <1>5, <2>2
    <3>2. \A k \in 1..Len(pending) :
            k = Len(r.pending) + 1 \/ (k \in 1..Len(r.pending) /\ k # Len(r.pending) + 1)
      BY <1>3, <3>1
    <3>3. QED BY <3>1, <3>2
  <2>3. QED BY <2>1, <2>2
<1>8. 1 \in 1..Len(r.rows)
  BY <1>3
<1>9. \A k \in 1..Len(pending) :
        /\ pending[k].digest <= content[pending[k].id]
        /\ NotOlder(pending[k].id, pending[k].digest)
  BY <1>0, <1>1, <1>3, <1>7, <1>8 DEF InOrder
<1>10. /\ \A k \in 1..Len(Tail(r.rows)) :
            /\ Tail(r.rows)[k].digest <= content[Tail(r.rows)[k].id]
            /\ NotOlder(Tail(r.rows)[k].id, Tail(r.rows)[k].digest)
       /\ \A j, k \in 1..Len(Tail(r.rows)) :
            j < k /\ Tail(r.rows)[j].id = Tail(r.rows)[k].id =>
               Tail(r.rows)[j].digest <= Tail(r.rows)[k].digest
  <2>1. \A j, k \in 1..Len(Tail(r.rows)) : j < k => j + 1 < k + 1
    OBVIOUS
  <2>2. QED BY <1>0, <1>4, <2>1 DEF InOrder
<1>11. \A j \in 1..Len(pending), k \in 1..Len(Tail(r.rows)) :
         pending[j].id = Tail(r.rows)[k].id => pending[j].digest <= Tail(r.rows)[k].digest
  <2> SUFFICES ASSUME NEW j \in 1..Len(pending), NEW k \in 1..Len(Tail(r.rows)),
                      pending[j].id = Tail(r.rows)[k].id
               PROVE  pending[j].digest <= Tail(r.rows)[k].digest
    OBVIOUS
  <2>1. k + 1 \in 1..Len(r.rows) /\ 1 < k + 1 /\ Tail(r.rows)[k] = r.rows[k + 1]
    BY <1>4
  <2>2. CASE j \in 1..Len(r.pending) /\ pending[j] = r.pending[j]
    BY <1>0, <2>1, <2>2 DEF InOrder
  <2>3. CASE pending[j] = r.rows[1]
    BY <1>0, <1>8, <2>1, <2>3 DEF InOrder
  <2>4. QED BY <1>3, <1>7, <2>2, <2>3
<1>12. \A j, k \in 1..Len(pending) :
         j < k /\ pending[j].id = pending[k].id => pending[j].digest <= pending[k].digest
  <2> SUFFICES ASSUME NEW j \in 1..Len(pending), NEW k \in 1..Len(pending), j < k,
                      pending[j].id = pending[k].id
               PROVE  pending[j].digest <= pending[k].digest
    OBVIOUS
  <2>1. j \in 1..Len(r.pending) /\ pending[j] = r.pending[j]
    <3>1. ~(j = Len(r.pending) + 1 /\ k \in 1..Len(r.pending))
      BY <1>3
    <3>2. ~(j = Len(r.pending) + 1 /\ k = Len(r.pending) + 1)
      BY <1>3
    <3>3. QED BY <1>7, <3>1, <3>2
  <2>2. CASE k \in 1..Len(r.pending) /\ pending[k] = r.pending[k]
    BY <1>0, <2>1, <2>2 DEF InOrder
  <2>3. CASE pending[k] = row
    BY <1>0, <1>3, <1>8, <2>1, <2>3 DEF InOrder
  <2>4. QED BY <1>7, <2>2, <2>3
<1>13. InOrder(c)
  BY <1>0, <1>5, <1>6, <1>9, <1>10, <1>11, <1>12 DEF InOrder
<1>14. QED BY <1>0, <1>1, <1>2, <1>13, OrderMove

\* A batch lands: what the engine has of a record is the newest row of the batch.
LEMMA OrderLand ==
  ASSUME TypeInv, OneRun, OrderInv, NEW i \in Runs, NEW new, Set(i, new),
         run[i].step = "flush", Land(run[i].pending), content' = content, kv' = kv,
         new.digests = run[i].digests, new.rows = run[i].rows,
         \/ new.pending = run[i].pending /\ new.step = "store"
         \/ new.pending = <<>> /\ new.step = "failed"
  PROVE  OrderInv'
<1> DEFINE r == run[i]
           p == r.pending
<1>0. r \in RunStates /\ InOrder(r) /\ Backed(kv.digests)
  BY RunType DEF OrderInv
<1>1. run'[i] = new /\ \A j \in Runs : j = i
  BY DEF Set, TypeInv, TypeOK, OneRun
<1>2. /\ r.rows \in Seq(Rows) /\ Len(r.rows) \in Nat /\ p \in Seq(Rows) /\ Len(p) \in Nat
      /\ \A k \in 1..Len(r.rows) : r.rows[k] \in Rows
      /\ \A k \in 1..Len(p) : p[k] \in Rows
      /\ r.digests \in Digests
  BY <1>0, RowsOf
<1>3. \A x \in Ids(p) :
        /\ x \in Records
        /\ accepted'[x] = PendingDigest(p, x)
        /\ \E m \in 1..Len(p) : p[m].id = x /\ p[m].digest = PendingDigest(p, x)
        /\ \A k \in 1..Len(p) : p[k].id = x => p[k].digest <= PendingDigest(p, x)
  <2> SUFFICES ASSUME NEW x \in Ids(p)
               PROVE  /\ x \in Records
                      /\ accepted'[x] = PendingDigest(p, x)
                      /\ \E m \in 1..Len(p) : p[m].id = x /\ p[m].digest = PendingDigest(p, x)
                      /\ \A k \in 1..Len(p) : p[k].id = x => p[k].digest <= PendingDigest(p, x)
    OBVIOUS
  <2> DEFINE m == LastRow(p, x)
  <2>1. /\ m \in 1..Len(p) /\ p[m].id = x /\ \A k \in (m + 1)..Len(p) : p[k].id # x
        /\ x \in Records /\ PendingEntity(p, x) = PendingDigest(p, x)
    BY <1>2, LastRowOf, PendingType
  <2>2. accepted'[x] = PendingDigest(p, x)
    BY <2>1 DEF Land
  <2>3. p[m].digest = PendingDigest(p, x)
    BY DEF PendingDigest
  <2> HIDE DEF m
  <2>4. ASSUME NEW k \in 1..Len(p), p[k].id = x PROVE p[k].digest <= p[m].digest
    <3>1. k <= m
      BY <1>2, <2>1, <2>4
    <3>2. CASE k = m
      BY <1>2, <3>2, OrderTypes
    <3>3. CASE k < m
      BY <1>0, <2>1, <2>4, <3>3 DEF InOrder
    <3>4. QED BY <1>2, <2>1, <3>1, <3>2, <3>3
  <2>5. QED BY <2>1, <2>2, <2>3, <2>4
<1>4. \A x \in Records : x \notin Ids(p) => accepted'[x] = accepted[x]
  BY DEF Land
\* The engine only moves forward.
<1>5. \A x \in Records : accepted[x] # None =>
        accepted'[x] # None /\ accepted'[x] >= accepted[x]
  <2> SUFFICES ASSUME NEW x \in Records, accepted[x] # None
               PROVE  accepted'[x] # None /\ accepted'[x] >= accepted[x]
    OBVIOUS
  <2>1. CASE x \in Ids(p)
    <3>1. PICK m \in 1..Len(p) : p[m].id = x /\ p[m].digest = accepted'[x]
      BY <1>3, <2>1
    <3>2. accepted[x] <= p[m].digest /\ p[m].digest \in Nat
      BY <1>0, <1>2, <3>1, OrderTypes DEF InOrder, NotOlder
    <3>3. QED BY <3>1, <3>2, OrderTypes
  <2>2. CASE x \notin Ids(p)
    BY <1>4, <2>2, OrderTypes
  <2>3. QED BY <2>1, <2>2
<1>6. \A d \in Digests : Backed(d) => Backed(d)'
  <2> SUFFICES ASSUME NEW d \in Digests, Backed(d), NEW x \in Records, d[x] # None
               PROVE  accepted'[x] # None /\ accepted'[x] >= d[x]
    BY DEF Backed
  <2>1. accepted[x] # None /\ accepted[x] >= d[x] /\ d[x] \in Nat /\ accepted[x] \in Nat
    BY OrderTypes DEF Backed
  <2>2. accepted'[x] # None /\ accepted'[x] >= accepted[x]
    BY <1>5, <2>1
  <2>3. accepted'[x] \in Nat
    <3>1. CASE x \in Ids(p)
      BY <1>2, <1>3, <3>1, OrderTypes
    <3>2. CASE x \notin Ids(p)
      BY <1>4, <2>1, <3>2
    <3>3. QED BY <3>1, <3>2
  <2>4. QED BY <2>1, <2>2, <2>3
<1>7. \A x \in Records : NotOlder(x, content[x])'
  <2> SUFFICES ASSUME NEW x \in Records, accepted'[x] # None PROVE accepted'[x] <= content[x]
    BY DEF NotOlder
  <2>1. CASE x \in Ids(p)
    <3>1. PICK m \in 1..Len(p) : p[m].id = x /\ p[m].digest = accepted'[x]
      BY <1>3, <2>1
    <3>2. QED BY <1>0, <3>1 DEF InOrder
  <2>2. CASE x \notin Ids(p)
    BY <1>4, <2>2 DEF OrderInv, NotOlder
  <2>3. QED BY <2>1, <2>2
<1>8. \A k \in 1..Len(r.rows) :
        accepted'[r.rows[k].id] # None => accepted'[r.rows[k].id] <= r.rows[k].digest
  <2> SUFFICES ASSUME NEW k \in 1..Len(r.rows), accepted'[r.rows[k].id] # None
               PROVE  accepted'[r.rows[k].id] <= r.rows[k].digest
    OBVIOUS
  <2> DEFINE x == r.rows[k].id
  <2>1. CASE x \in Ids(p)
    <3>1. PICK m \in 1..Len(p) : p[m].id = x /\ p[m].digest = accepted'[x]
      BY <1>3, <2>1
    <3>2. QED BY <1>0, <3>1 DEF InOrder
  <2>2. CASE x \notin Ids(p)
    <3>1. x \in Records
      BY <1>2, OrderTypes
    <3>2. QED BY <1>0, <1>4, <2>2, <3>1 DEF InOrder, NotOlder
  <2>3. QED BY <2>1, <2>2
<1>9. InOrder(run[i])'
  <2>1. PICK q : q = new
    OBVIOUS
  <2>2. Backed(q.digests)'
    BY <1>0, <1>2, <1>6, <2>1 DEF InOrder
  <2>3. \A k \in 1..Len(q.rows) :
          q.rows[k].digest <= content'[q.rows[k].id] /\ NotOlder(q.rows[k].id, q.rows[k].digest)'
    BY <1>0, <1>8, <2>1 DEF InOrder, NotOlder
  <2>4. q.step = "store" => \A x \in Ids(q.pending) : accepted'[x] = PendingDigest(q.pending, x)
    BY <1>3, <2>1
  <2>5. (q.step = "store" => \A x \in Ids(q.pending) : accepted[x] = PendingDigest(q.pending, x))'
    BY <2>4 DEF Ids, PendingDigest, LastRow
  <2>6. q.step # "store" => q.pending = <<>>
    BY <2>1
  <2>7. \A k \in 1..Len(q.pending) : k \in 1..Len(p) /\ q.pending[k] = p[k]
    BY <2>1
  <2>8. InOrder(q)'
    <3>1. \A k \in 1..Len(q.pending) : q.pending[k].digest <= content'[q.pending[k].id]
      BY <1>0, <2>7 DEF InOrder
    <3>2. \A j \in 1..Len(q.pending), k \in 1..Len(q.rows) :
            q.pending[j].id = q.rows[k].id => q.pending[j].digest <= q.rows[k].digest
      BY <1>0, <2>1, <2>7 DEF InOrder
    <3>3. \A j, k \in 1..Len(q.pending) :
            j < k /\ q.pending[j].id = q.pending[k].id => q.pending[j].digest <= q.pending[k].digest
      BY <1>0, <2>7 DEF InOrder
    <3>4. \A j, k \in 1..Len(q.rows) :
            j < k /\ q.rows[j].id = q.rows[k].id => q.rows[j].digest <= q.rows[k].digest
      BY <1>0, <2>1 DEF InOrder
    <3>5. (q.step # "store" =>
             \A k \in 1..Len(q.pending) : NotOlder(q.pending[k].id, q.pending[k].digest))'
      BY <2>6
    <3>6. QED BY <2>2, <2>3, <2>5, <3>1, <3>2, <3>3, <3>4, <3>5 DEF InOrder
  <2>9. q = run'[i]
    BY <1>1, <2>1
  <2>10. QED BY <2>8, <2>9
<1>10. Backed(kv.digests)'
  <2>1. kv.digests \in Digests
    BY DEF TypeInv, TypeOK
  <2>2. PICK d \in Digests : d = kv.digests
    BY <2>1
  <2>3. Backed(d)'
    BY <1>0, <1>6, <2>2
  <2>4. QED BY <2>2, <2>3
<1>11. QED BY <1>1, <1>7, <1>9, <1>10 DEF OrderInv

LEMMA OrderSubmit ==
  ASSUME TypeInv, OneRun, OrderInv, NEW i \in Runs, Submit(i) \/ SubmitRefused(i)
  PROVE  OrderInv'
<1> DEFINE r == run[i]
           a == [r EXCEPT !.step = "store"]
           b == [r EXCEPT !.step = "failed", !.pending = <<>>]
<1>0. r \in RunStates /\ InOrder(r) /\ Backed(kv.digests)
  BY RunType DEF OrderInv
<1>1. content' = content /\ kv' = kv /\ r.step = "flush"
  BY DEF Submit, SubmitRefused, origin, stored
<1>2. /\ a.digests = r.digests /\ a.rows = r.rows /\ a.pending = r.pending /\ a.step = "store"
      /\ b.digests = r.digests /\ b.rows = r.rows /\ b.pending = <<>> /\ b.step = "failed"
  BY <1>0 DEF RunStates
<1>3. \/ Set(i, a) /\ Land(r.pending)
      \/ Set(i, b) /\ Land(r.pending)
      \/ Set(i, b) /\ accepted' = accepted
  BY Zenon DEF Submit, SubmitRefused, engine
<1> HIDE DEF a, b
<1>4. CASE Land(r.pending)
  BY <1>1, <1>2, <1>3, <1>4, OrderLand, OrderMove, <1>0, OrderShrinks
<1>5. CASE Set(i, b) /\ accepted' = accepted
  <2>1. InOrder(b)
    BY <1>0, <1>2, OrderShrinks
  <2>2. QED BY <1>0, <1>1, <1>5, <2>1, OrderMove
<1>6. QED BY <1>3, <1>4, <1>5

\* What landed goes into the digests.
LEMMA OrderStore ==
  ASSUME TypeInv, OneRun, OrderInv, NEW i \in Runs, StoreBatch(i)
  PROVE  OrderInv'
<1> DEFINE r == run[i]
<1>0. /\ r \in RunStates /\ InOrder(r) /\ r.step = "store"
      /\ r.after \in {"take", "partial", "next"}
  BY RunType DEF OrderInv, StoreBatch
<1>1. PICK digests \in Kept(Merged(i)) :
        /\ Store(i, r.high, digests)
        /\ Set(i, Resume([r EXCEPT !.cursor = r.high, !.digests = digests, !.pending = <<>>]))
  BY DEF StoreBatch
<1>2. content' = content /\ accepted' = accepted
  BY DEF StoreBatch, origin, engine
<1>3. Backed(digests)
  <2>1. PICK keep : digests = [x \in Records |-> IF x \in keep THEN Merged(i)[x] ELSE None]
    BY DEF Kept
  <2>2. ASSUME NEW x \in Records, Merged(i)[x] # None
        PROVE  accepted[x] # None /\ accepted[x] >= Merged(i)[x]
    <3>1. Merged(i)[x] = IF x \in Ids(r.pending) THEN PendingDigest(r.pending, x) ELSE r.digests[x]
      BY DEF Merged
    <3>2. CASE x \in Ids(r.pending)
      <4>1. accepted[x] = Merged(i)[x]
        BY <1>0, <3>1, <3>2 DEF InOrder
      <4>2. accepted[x] \in Nat
        BY <2>2, <4>1, OrderTypes
      <4>3. QED BY <2>2, <4>1, <4>2
    <3>3. CASE x \notin Ids(r.pending)
      BY <1>0, <2>2, <3>1, <3>3 DEF InOrder, Backed
    <3>4. QED BY <3>2, <3>3
  <2>3. QED BY <2>1, <2>2 DEF Backed
<1> DEFINE q == [r EXCEPT !.cursor = r.high, !.digests = digests, !.pending = <<>>]
<1>4. /\ q.step = r.step /\ q.after = r.after /\ q.rows = r.rows /\ q.pending = <<>>
      /\ q.digests = digests /\ DOMAIN q = DOMAIN r
  BY <1>0 DEF RunStates
<1> HIDE DEF q
<1>5. /\ Resume(q).digests = digests /\ Resume(q).rows = r.rows
      /\ Resume(q).pending = <<>> /\ Resume(q).step # "store"
  BY <1>0, <1>4 DEF Resume, RunStates
<1>6. InOrder(Resume(q))
  BY <1>0, <1>3, <1>5 DEF InOrder
<1>7. kv'.digests = digests
  BY <1>1 DEF Store
<1>8. QED BY <1>1, <1>2, <1>3, <1>6, <1>7, OrderMove DEF q

LEMMA OrderStart ==
  ASSUME TypeInv, OneRun, OrderInv, NEW i \in Runs, NEW mode \in {"incremental", "full"},
         NEW budget \in Budgets, Start(i, mode, budget)
  PROVE  OrderInv'
<1> DEFINE cursor == IF mode = "full" THEN None ELSE kv.cursor
           digests == IF mode = "full" THEN NoDigests ELSE kv.digests
           new == [Idle EXCEPT !.step = "parents", !.mode = mode, !.budget = budget,
                     !.cursor = cursor, !.high = cursor, !.digests = digests]
<1>1. Set(i, new) /\ content' = content /\ accepted' = accepted /\ kv' = kv
  BY DEF Start, origin, engine
<1>2. Backed(digests) /\ Backed(kv.digests)
  BY DEF OrderInv, Backed, NoDigests
<1> HIDE DEF cursor, digests
<1>3. new.step = "parents" /\ new.rows = <<>> /\ new.pending = <<>> /\ new.digests = digests
  BY DEF Idle
<1> HIDE DEF new
<1>4. InOrder(new)
  BY <1>2, <1>3 DEF InOrder
<1>5. QED BY <1>1, <1>2, <1>4, OrderMove

\* The source only moves forward.
LEMMA OrderTouch ==
  ASSUME TypeInv, OrderInv, NEW x \in Records, Touch(x)
  PROVE  OrderInv'
<1>1. /\ accepted' = accepted /\ run' = run /\ kv' = kv
      /\ \A y \in Records : content[y] <= content'[y] /\ content[y] \in Nat /\ content'[y] \in Nat
  <2>1. content \in [Records -> Nat] /\ content' = [content EXCEPT ![x] = content[x] + 1]
    BY OrderTypes DEF Touch, TypeInv, TypeOK
  <2>2. \A y \in Records : content'[y] = IF y = x THEN content[y] + 1 ELSE content[y]
    BY <2>1
  <2>3. QED BY <2>1, <2>2 DEF Touch, stored, engine
<1>2. \A y \in Records : NotOlder(y, content[y])'
  <2> SUFFICES ASSUME NEW y \in Records, accepted[y] # None PROVE accepted[y] <= content'[y]
    BY <1>1 DEF NotOlder
  <2>1. accepted[y] <= content[y] /\ accepted[y] \in Nat
    BY OrderTypes DEF OrderInv, NotOlder
  <2>2. QED BY <1>1, <2>1
<1>3. Backed(kv.digests)'
  BY <1>1 DEF OrderInv, Backed
<1>4. ASSUME NEW i \in Runs PROVE InOrder(run[i])'
  <2>1. PICK q : q = run[i]
    OBVIOUS
  <2>2. q \in RunStates /\ InOrder(q)
    BY <2>1, RunType DEF OrderInv
  <2>3. /\ \A k \in 1..Len(q.rows) : q.rows[k] \in Rows
        /\ \A k \in 1..Len(q.pending) : q.pending[k] \in Rows
    BY <2>2, RowsOf
  <2>4. \A d \in Nat, y \in Records : d <= content[y] => d <= content'[y]
    BY <1>1
  <2>5. /\ \A k \in 1..Len(q.rows) : q.rows[k].digest <= content'[q.rows[k].id]
        /\ \A k \in 1..Len(q.pending) : q.pending[k].digest <= content'[q.pending[k].id]
    BY <2>2, <2>3, <2>4, OrderTypes DEF InOrder
  <2>6. Backed(q.digests)'
    BY <1>1, <2>2 DEF InOrder, Backed
  <2>7. (q.step = "store" => \A y \in Ids(q.pending) : accepted[y] = PendingDigest(q.pending, y))'
    <3>1. \A y \in Ids(q.pending) : PendingDigest(q.pending, y)' = PendingDigest(q.pending, y)
      BY DEF PendingDigest, LastRow
    <3>2. Ids(q.pending)' = Ids(q.pending)
      BY DEF Ids
    <3>3. QED BY <1>1, <2>2, <3>1, <3>2 DEF InOrder
  <2>8. InOrder(q)'
    BY <1>1, <2>2, <2>5, <2>6, <2>7 DEF InOrder, NotOlder
  <2>9. q = run'[i]
    BY <1>1, <2>1
  <2>10. QED BY <2>8, <2>9
<1>5. QED BY <1>2, <1>3, <1>4 DEF OrderInv

\* EngineNotOlder is not inductive: OrderInv adds the rows on their way.
LEMMA OrderStep == OneRun /\ TypeInv /\ OrderInv /\ [Next]_vars => OrderInv'
<1> SUFFICES ASSUME OneRun, TypeInv, OrderInv, [Next]_vars PROVE OrderInv'
  OBVIOUS
<1>1. CASE UNCHANGED vars
  <2>1. content' = content /\ accepted' = accepted /\ kv' = kv /\ run' = run
    BY <1>1 DEF vars
  <2>2. (\A x \in Records : NotOlder(x, content[x])') /\ Backed(kv.digests)'
    BY <2>1 DEF OrderInv, NotOlder, Backed
  <2>3. ASSUME NEW i \in Runs PROVE InOrder(run[i])'
    <3>1. PICK q : q = run[i]
      OBVIOUS
    <3>2. InOrder(q)'
      BY <2>1, <3>1, OrderKept DEF OrderInv
    <3>3. QED BY <2>1, <3>1, <3>2
  <2>4. QED BY <2>2, <2>3 DEF OrderInv
<1>2. QED
  BY <1>1, OrderQuiet, OrderRead, OrderTake, OrderSubmit, OrderStore, OrderStart, OrderTouch
     DEF Next, RunStep, Failure

\* As long as one sync() runs at a time, the engine never holds older content of a record
\* than the checkpoint vouches for: no failure, death or touch brings the two out of order.
THEOREM EngineKeepsUp == ASSUME OneRun PROVE Spec => []EngineNotOlder
<1>1. Init => OrderInv
  <2> SUFFICES ASSUME Init PROVE OrderInv
    OBVIOUS
  <2>1. \A x \in Records : NotOlder(x, content[x])
    BY DEF Init, NotOlder
  <2>2. Backed(kv.digests)
    BY DEF Init, Backed, NoDigests
  <2>3. QED BY <2>1, <2>2, OrderIdle DEF Init, OrderInv
<1>2. Spec => [](TypeInv /\ OrderInv)
  BY <1>1, TypeInit, TypeStep, OrderStep, PTL DEF Spec
<1>3. OrderInv => EngineNotOlder
  BY DEF OrderInv, Backed, EngineNotOlder
<1>4. QED BY <1>2, <1>3, PTL

================================================================================
