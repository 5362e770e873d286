---------------------------- MODULE SourceMountProofs ---------------------------
(***************************************************************************)
(* Proofs about SourceMount, for any number of paths, contents, commits of *)
(* others and lost receipts: a host that awaits each call loses no write   *)
(* and reads what the mount shows.                                         *)
(***************************************************************************)
EXTENDS SourceMount, TLAPS

\* A digest is neither "no entry" nor "no file".
MountConstants == None \notin Blobs /\ Absent \notin Blobs /\ None # Absent

--------------------------------------------------------------------------------
(* The invariant *)

Files == [Paths -> Contents]
FlushCalls == [step : {"idle", "sent", "ok", "no"}, changes : Entries, base : Nat,
               revision : Nat]
ReadCalls == [step : {"idle", "list", "blob", "done"}, path : Paths \cup {None}, ref : Nat,
              digest : Blobs \cup {None}, result : Contents \cup {None, "refused"},
              want : Contents \cup {None}]

\* Revision r of a receipt is the changeset "id" over revision b.
Made(id, b, r) == b \in 1..Tip /\ r \in 1..Tip /\ repo[r] = Applied(repo[b], id)

Told(f) ==
    flush[f].step = "ok" => Made(flush[f].changes, flush[f].base, flush[f].revision)

\* What a receipt says was done, and what an answered flush is told, was done.
ReceiptsAreTrue ==
    /\ \A s \in served \cup receipts : Made(s.id, s.base, s.revision)
    /\ \A f \in Flushes : Told(f)

Flushing(f) == flush[f].step # "idle"
Reading(r) == reader[r].step \in {"list", "blob"}

\* A read asks for a path of a revision that exists, and for a blob.
ReadsAreFormed ==
    \A r \in Readers :
        Reading(r) => /\ reader[r].path \in Paths /\ reader[r].ref \in 1..Tip
                      /\ reader[r].step = "blob" => reader[r].digest \in Blobs

\* At most one call is under way, and the host waits for it.
OneAtATime ==
    /\ \A f, g \in Flushes : Flushing(f) /\ Flushing(g) => f = g
    /\ \A r, q \in Readers : Reading(r) /\ Reading(q) => r = q
    /\ \A f \in Flushes, r \in Readers : ~(Flushing(f) /\ Reading(r))

\* A flush carries what is pending.
FlushIsCurrent ==
    \A f \in Flushes : Flushing(f) => flush[f].changes = pending /\ flush[f].base = base

\* A listing is of the base.
ListingIsCurrent == \A p \in Paths : listed[p] # None => listed[p] = repo[base][p]

\* A read looks at the base, for a path with nothing pending.
ReadIsCurrent ==
    \A r \in Readers :
        LET c == reader[r] IN
        /\ Reading(r) => c.path \in Paths /\ c.ref = base /\ c.want = repo[base][c.path]
        /\ c.step = "list" => listed[c.path] = None
        /\ c.step = "blob" => c.digest = c.want
        /\ c.step = "done" => c.result = c.want

Calm == OneAtATime /\ FlushIsCurrent /\ ListingIsCurrent /\ ReadIsCurrent /\ NoWriteLost

MountInv == TypeOK /\ ReceiptsAreTrue /\ ReadsAreFormed /\ (overlapped \/ Calm)

--------------------------------------------------------------------------------
(* Types *)

\* A changeset over files gives files.
LEMMA AppliedType ==
  ASSUME NEW files \in Files, NEW changes \in Entries
  PROVE  Applied(files, changes) \in Files
  BY DEF Files, Entries, Applied

\* The repository only grows.
Grows == \/ repo' = repo
         \/ \E files \in Files : repo' = Append(repo, files)

LEMMA RepoGrows ==
  ASSUME TypeOK, Grows
  PROVE  /\ repo' \in Seq(Files) /\ Tip \in Nat /\ Tip' \in Nat /\ Tip <= Tip'
         /\ \A i \in 1..Tip : repo[i] \in Files /\ repo'[i] = repo[i]
         /\ \A files \in Files : repo' = Append(repo, files) =>
              Tip' = Tip + 1 /\ repo'[Tip + 1] = files
<1>1. repo \in Seq(Files)
  BY DEF TypeOK, Files
<1>2. CASE repo' = repo
  BY <1>1, <1>2 DEF Tip
<1>3. ASSUME NEW files \in Files, repo' = Append(repo, files)
      PROVE  /\ repo' \in Seq(Files) /\ Tip \in Nat /\ Tip' \in Nat /\ Tip <= Tip'
             /\ Tip' = Tip + 1 /\ repo'[Tip + 1] = files
             /\ \A i \in 1..Tip : repo[i] \in Files /\ repo'[i] = repo[i]
  BY <1>1, <1>3 DEF Tip
<1>4. ASSUME repo' = repo, NEW files \in Files, repo' = Append(repo, files) PROVE FALSE
  <2>1. Len(repo') = Len(repo) + 1 /\ Len(repo) \in Nat
    BY <1>1, <1>4
  <2>2. QED BY <1>4, <2>1
<1>5. QED BY <1>2, <1>3, <1>4 DEF Grows

LEMMA StepsGrow == ASSUME TypeOK, [Next]_vars PROVE Grows
<1> USE DEF TypeOK, Grows, server
<1>1. ASSUME NEW p \in Paths, Write(p) \/ Delete(p) PROVE Grows
  BY <1>1 DEF Write, Delete, Record
<1>2. ASSUME NEW r \in Readers, NEW p \in Paths, Read(r, p) PROVE Grows
  BY <1>2 DEF Read
<1>3. ASSUME NEW f \in Flushes, Flush(f) \/ Refused(f) \/ Flushed(f) PROVE Grows
  BY <1>3 DEF Flush, Refused, Flushed
<1>4. ASSUME NEW f \in Flushes, Commit(f) PROVE Grows
  <2>1. CASE repo' = repo
    BY <2>1
  <2>2. CASE Tip < MaxRevisions /\ repo' = Append(repo, Applied(repo[Tip], flush[f].changes))
    <3>1. Tip \in 1..Tip /\ repo[Tip] \in Files /\ flush[f].changes \in Entries
      BY DEF Tip, Files
    <3>2. QED BY <2>2, <3>1, AppliedType
  <2>3. QED BY <1>4, <2>1, <2>2 DEF Commit
<1>5. ASSUME NEW r \in Readers, Listed(r) \/ Blob(r) PROVE Grows
  BY <1>5 DEF Listed, Blob
<1>6. CASE Push
  <2>1. PICK p \in Paths, content \in Contents : repo' = Append(repo, [repo[Tip] EXCEPT ![p] = content])
    BY <1>6 DEF Push
  <2>2. repo[Tip] \in Files
    BY DEF Tip, Files
  <2>3. [repo[Tip] EXCEPT ![p] = content] \in Files
    BY <2>2 DEF Files
  <2>4. QED BY <2>1, <2>3
<1>7. CASE UNCHANGED vars
  BY <1>7 DEF vars
<1>8. QED BY <1>1, <1>2, <1>3, <1>4, <1>5, <1>6, <1>7 DEF Next

\* The steps of a read, and of a flush that is answered.
LEMMA CallRecords ==
  /\ \A c \in ReadCalls : \A x \in Contents \cup {"refused"} :
       [c EXCEPT !.step = "done", !.result = x] \in ReadCalls
  /\ \A c \in ReadCalls : \A n \in Nat : \A d \in Blobs \cup {None} :
       [c EXCEPT !.step = "blob", !.ref = n, !.digest = d] \in ReadCalls
  /\ \A c \in FlushCalls : \A n \in Nat :
       [c EXCEPT !.step = "ok", !.revision = n] \in FlushCalls
  /\ \A c \in FlushCalls : [c EXCEPT !.step = "no"] \in FlushCalls
<1>1. ASSUME NEW c \in ReadCalls, NEW x \in Contents \cup {"refused"}
      PROVE  [c EXCEPT !.step = "done", !.result = x] \in ReadCalls
  BY DEF ReadCalls
<1>2. ASSUME NEW c \in ReadCalls, NEW n \in Nat, NEW d \in Blobs \cup {None}
      PROVE  [c EXCEPT !.step = "blob", !.ref = n, !.digest = d] \in ReadCalls
  BY DEF ReadCalls
<1>3. ASSUME NEW c \in FlushCalls, NEW n \in Nat
      PROVE  [c EXCEPT !.step = "ok", !.revision = n] \in FlushCalls
  BY DEF FlushCalls
<1>4. ASSUME NEW c \in FlushCalls PROVE [c EXCEPT !.step = "no"] \in FlushCalls
  BY DEF FlushCalls
<1>5. QED BY <1>1, <1>2, <1>3, <1>4

\* What calls carry is well formed; a flush, a commit and a read write such records.
LEMMA MountTypes ==
  ASSUME MountConstants, TypeOK, ReceiptsAreTrue, ReadsAreFormed, [Next]_vars PROVE TypeOK'
<1> USE DEF TypeOK, server, mount, client
<1>0. /\ repo' \in Seq([Paths -> Contents]) /\ Tip \in Nat /\ Tip' \in Nat /\ Tip <= Tip'
      /\ \A i \in 1..Tip : repo[i] \in [Paths -> Contents]
  BY StepsGrow, RepoGrows DEF Files
<1>1. ASSUME NEW p \in Paths, NEW content \in Contents, Record(p, content) PROVE TypeOK'
  BY <1>0, <1>1 DEF Record, Use, Entries, Tip
<1>2. ASSUME NEW r \in Readers, NEW p \in Paths, Read(r, p) PROVE TypeOK'
  <2>1. View[p] \in Contents
    BY <1>0 DEF View, Entries
  <2>2. [step |-> IF pending[p] # None THEN "done"
                  ELSE IF listed[p] = None THEN "list" ELSE "blob",
         path |-> p, ref |-> base, digest |-> listed[p],
         result |-> IF pending[p] # None THEN pending[p] ELSE None, want |-> View[p]] \in ReadCalls
    BY <1>0, <2>1 DEF ReadCalls, Entries
  <2>3. reader' \in [Readers -> ReadCalls]
    BY <1>2, <2>2 DEF Read, ReadCalls
  <2>4. QED BY <1>0, <1>2, <2>3 DEF Read, Use, ReadCalls, Tip
<1>3. ASSUME NEW f \in Flushes, Flush(f) PROVE TypeOK'
  <2>1. flush' \in [Flushes -> FlushCalls]
    <3>1. CASE flush' = [flush EXCEPT ![f] = [step |-> "sent", changes |-> pending,
                                              base |-> base, revision |-> 0]]
      BY <1>0, <3>1 DEF FlushCalls
    <3>2. ASSUME NEW c \in receipts,
                 flush' = [flush EXCEPT ![f] =
                             [step |-> IF c.base = base THEN "ok" ELSE "no",
                              changes |-> pending, base |-> base, revision |-> c.revision]]
          PROVE  flush' \in [Flushes -> FlushCalls]
      BY <1>0, <3>2 DEF FlushCalls, Receipts
    <3>3. QED BY <1>3, <3>1, <3>2 DEF Flush, Known
  <2>2. QED BY <1>0, <1>3, <2>1 DEF Flush, Use, FlushCalls, Tip
<1>4. ASSUME NEW f \in Flushes, Commit(f) PROVE TypeOK'
  <2>1. flush[f].changes \in Entries /\ flush[f].base \in Nat /\ Tip + 1 \in Nat
    BY <1>0
  <2>2. flush' \in [Flushes -> FlushCalls]
    <3>1. flush \in [Flushes -> FlushCalls]
      BY DEF FlushCalls
    <3>2. \A c \in served : c.revision \in Nat
      BY DEF Receipts
    <3>3. flush[f] \in FlushCalls
      BY <3>1
    <3>4. ASSUME NEW n \in Nat,
                 flush' = [flush EXCEPT ![f] = [flush[f] EXCEPT !.step = "ok", !.revision = n]]
          PROVE  flush' \in [Flushes -> FlushCalls]
      <4>1. [flush[f] EXCEPT !.step = "ok", !.revision = n] \in FlushCalls
        BY <3>3, CallRecords, Zenon
      <4>2. QED BY <3>1, <3>4, <4>1
    <3>5. ASSUME flush' = [flush EXCEPT ![f] = [flush[f] EXCEPT !.step = "no"]]
          PROVE  flush' \in [Flushes -> FlushCalls]
      <4>1. [flush[f] EXCEPT !.step = "no"] \in FlushCalls
        BY <3>3, CallRecords, Zenon
      <4>2. QED BY <3>1, <3>5, <4>1
    <3>6. \/ \E n \in Nat : flush' = [flush EXCEPT ![f].step = "ok", ![f].revision = n]
          \/ flush' = [flush EXCEPT ![f].step = "no"]
      BY <1>4, <2>1, <3>2 DEF Commit
    <3>7. QED BY <3>4, <3>5, <3>6
  <2>3. served' \subseteq Receipts
    BY <1>4, <2>1 DEF Commit, Receipts
  <2>4. faults' \in Nat
    BY <1>4 DEF Commit
  <2>5. QED BY <1>0, <1>4, <2>2, <2>3, <2>4 DEF Commit, FlushCalls, Tip
<1>5. ASSUME NEW f \in Flushes, Refused(f) PROVE TypeOK'
  <2>1. NoFlush \in FlushCalls
    BY DEF NoFlush, FlushCalls, NoChange, Entries
  <2>2. QED BY <1>0, <1>5, <2>1 DEF Refused, KeepPending, FlushCalls, Tip
<1>6. ASSUME NEW f \in Flushes, Flushed(f) PROVE TypeOK'
  <2>1. flush[f].revision \in 1..Tip /\ flush[f].changes \in Entries /\ flush[f].base \in Nat
    BY <1>6 DEF Flushed, ReceiptsAreTrue, Told, Made
  <2>2. receipts' \subseteq Receipts
    BY <1>6, <2>1, <1>0 DEF Flushed, Receipts
  <2>3. NoFlush \in FlushCalls /\ NoChange \in Entries /\ NoChange \in [Paths -> Blobs \cup {None}]
    BY DEF NoFlush, FlushCalls, NoChange, Entries
  <2>4. base' \in 1..Tip'
    BY <1>0, <1>6, <2>1 DEF Flushed, Tip
  <2>5. flush' \in [Flushes -> FlushCalls] /\ pending' \in Entries /\ listed' \in [Paths -> Blobs \cup {None}]
    BY <1>6, <2>3 DEF Flushed, FlushCalls, ClearListed
  <2>6. QED BY <1>0, <1>6, <2>2, <2>4, <2>5 DEF Flushed, FlushCalls
<1>7. ASSUME NEW r \in Readers, Listed(r) PROVE TypeOK'
  <2>1. reader \in [Readers -> ReadCalls]
    BY DEF ReadCalls
  <2>2. listed' \in [Paths -> Blobs \cup {None}]
    <3>1. reader[r].ref \in 1..Tip
      BY <1>7 DEF Listed, ReadsAreFormed, Reading
    <3>2. repo[reader[r].ref] \in [Paths -> Contents]
      BY <1>0, <3>1
    <3>3. QED BY <1>7, <3>2 DEF Listed, Contents
  <2>3. reader[r] \in ReadCalls /\ Absent \in Contents \cup {"refused"} /\ base \in Nat
    BY <1>0, <2>1 DEF Contents
  <2>4. reader' \in [Readers -> ReadCalls]
    <3>1. PICK d \in Blobs \cup {None} : d = listed'[reader[r].path]
      BY <1>7, <2>2 DEF Listed, ReadsAreFormed, Reading
    <3>2. [reader[r] EXCEPT !.step = "done", !.result = Absent] \in ReadCalls
      BY <2>3, CallRecords, Zenon
    <3>3. [reader[r] EXCEPT !.step = "blob", !.ref = base, !.digest = d] \in ReadCalls
      BY <2>3, CallRecords, Zenon
    <3>4. \/ reader' = [reader EXCEPT ![r] = [reader[r] EXCEPT !.step = "done", !.result = Absent]]
          \/ reader' = [reader EXCEPT ![r] =
                          [reader[r] EXCEPT !.step = "blob", !.ref = base, !.digest = d]]
      <4>1. reader' = IF listed'[reader[r].path] = None
                      THEN [reader EXCEPT ![r].step = "done", ![r].result = Absent]
                      ELSE [reader EXCEPT ![r].step = "blob", ![r].ref = base,
                                          ![r].digest = listed'[reader[r].path]]
        BY <1>7 DEF Listed
      <4>2. reader' = IF d = None
                      THEN [reader EXCEPT ![r].step = "done", ![r].result = Absent]
                      ELSE [reader EXCEPT ![r].step = "blob", ![r].ref = base, ![r].digest = d]
        BY <3>1, <4>1, Zenon
      <4>3. QED BY <4>2
    <3>5. QED BY <2>1, <3>2, <3>3, <3>4
  <2>5. QED BY <1>0, <1>7, <2>2, <2>4 DEF Listed, Tip, ReadCalls
<1>8. ASSUME NEW r \in Readers, Blob(r) PROVE TypeOK'
  <2>1. reader \in [Readers -> ReadCalls]
    BY DEF ReadCalls
  <2>2. reader[r].digest \in Blobs
    BY <1>8 DEF Blob, ReadsAreFormed, Reading
  <2>3. cache' \subseteq Blobs
    BY <1>8, <2>2 DEF Blob
  <2>4. PICK x \in Contents \cup {"refused"} :
          reader' = [reader EXCEPT ![r] = [reader[r] EXCEPT !.step = "done", !.result = x]]
    BY <1>8, <2>2 DEF Blob, Contents
  <2>5. reader' \in [Readers -> ReadCalls]
    <3>1. reader[r] \in ReadCalls
      BY <2>1
    <3>2. [reader[r] EXCEPT !.step = "done", !.result = x] \in ReadCalls
      BY <3>1, CallRecords, Zenon
    <3>3. QED BY <2>1, <2>4, <3>2
  <2>6. QED BY <1>0, <1>8, <2>3, <2>5 DEF Blob, Tip, ReadCalls
<1>9. CASE Push
  BY <1>0, <1>9 DEF Push, Tip
<1>10. CASE UNCHANGED vars
  BY <1>0, <1>10 DEF vars, Tip
<1>11. QED
  BY <1>1, <1>2, <1>3, <1>4, <1>5, <1>6, <1>7, <1>8, <1>9, <1>10
     DEF Next, Write, Delete, Contents

--------------------------------------------------------------------------------
(* Receipts *)

\* A revision that was made stays made: commits are appended.
LEMMA MadeKept ==
  ASSUME TypeOK, Grows, NEW id, NEW b, NEW r, Made(id, b, r)
  PROVE  Made(id, b, r)'
<1>1. b \in 1..Tip /\ r \in 1..Tip /\ repo[r] = Applied(repo[b], id)
  BY DEF Made
<1>2. b \in 1..Tip' /\ r \in 1..Tip' /\ repo'[b] = repo[b] /\ repo'[r] = repo[r]
  BY <1>1, RepoGrows
<1>3. QED BY <1>1, <1>2 DEF Made, Applied

\* Records of calls that a step leaves alone keep what they were told.
LEMMA ReceiptsKept ==
  ASSUME TypeOK, Grows, ReceiptsAreTrue
  PROVE  /\ \A s \in served \cup receipts : Made(s.id, s.base, s.revision)'
         /\ \A f \in Flushes : flush'[f] = flush[f] => Told(f)'
<1>1. ASSUME NEW s \in served \cup receipts PROVE Made(s.id, s.base, s.revision)'
  <2>1. PICK i, b, n : i = s.id /\ b = s.base /\ n = s.revision
    OBVIOUS
  <2>2. Made(i, b, n)'
    BY <2>1, MadeKept DEF ReceiptsAreTrue
  <2>3. QED BY <2>1, <2>2
<1>2. ASSUME NEW f \in Flushes, flush'[f] = flush[f] PROVE Told(f)'
  <2>1. PICK i, b, n : i = flush[f].changes /\ b = flush[f].base /\ n = flush[f].revision
    OBVIOUS
  <2>2. flush[f].step = "ok" => Made(i, b, n)'
    BY <2>1, MadeKept DEF ReceiptsAreTrue, Told
  <2>3. QED BY <1>2, <2>1, <2>2 DEF Told, Made
<1>3. QED BY <1>1, <1>2

LEMMA ReceiptsStep ==
  ASSUME TypeOK, ReceiptsAreTrue, [Next]_vars PROVE ReceiptsAreTrue'
<1>0. /\ Grows
      /\ \A s \in served \cup receipts : Made(s.id, s.base, s.revision)'
      /\ \A f \in Flushes : flush'[f] = flush[f] => Told(f)'
  BY StepsGrow, ReceiptsKept
<1>1. ASSUME served' \subseteq served, receipts' \subseteq receipts, \A f \in Flushes : Told(f)'
      PROVE  ReceiptsAreTrue'
  BY <1>0, <1>1 DEF ReceiptsAreTrue
<1>2. ASSUME NEW f \in Flushes, Flush(f) PROVE ReceiptsAreTrue'
  <2>1. \A g \in Flushes \ {f} : flush'[g] = flush[g]
    BY <1>2 DEF Flush, TypeOK
  <2>2. ASSUME flush'[f].step = "ok" PROVE Told(f)'
    <3>1. PICK c \in Known(f) : c.base = base /\ flush'[f] = [step |-> "ok", changes |-> pending,
                                        base |-> base, revision |-> c.revision]
      BY <1>2, <2>2 DEF Flush, TypeOK
    <3>2. Made(c.id, c.base, c.revision)' /\ c.id = pending
      BY <1>0, <3>1 DEF Known
    <3>3. flush'[f].changes = c.id /\ flush'[f].base = c.base /\ flush'[f].revision = c.revision
      BY <3>1, <3>2
    <3>4. QED BY <3>2, <3>3 DEF Told, Made
  <2>3. flush'[f].step # "ok" => Told(f)'
    BY DEF Told
  <2>4. QED BY <1>0, <1>1, <1>2, <2>1, <2>2, <2>3 DEF Flush, server, client
<1>3. ASSUME NEW f \in Flushes, Commit(f) PROVE ReceiptsAreTrue'
  <2>1. \A g \in Flushes \ {f} : flush'[g] = flush[g]
    BY <1>3 DEF Commit, TypeOK
  <2>2. flush'[f].changes = flush[f].changes /\ flush'[f].base = flush[f].base
    BY <1>3 DEF Commit, TypeOK
  <2>3. CASE UNCHANGED server
    <3>1. ASSUME flush'[f].step = "ok" PROVE Told(f)'
      <4>1. PICK s \in served : s.id = flush[f].changes /\ s.base = flush[f].base
                                /\ flush'[f].revision = s.revision
        <5>1. Tip < MaxRevisions /\ served' = served /\ repo' = Append(repo, Applied(repo[Tip], flush[f].changes)) => FALSE
          BY <2>3 DEF server, TypeOK, Tip
        <5>2. QED BY <1>3, <3>1, <5>1, <2>3 DEF Commit, TypeOK, server
      <4>2. Made(s.id, s.base, s.revision)'
        BY <1>0
      <4>3. flush'[f].changes = s.id /\ flush'[f].base = s.base /\ flush'[f].revision = s.revision
        BY <2>2, <4>1
      <4>4. QED BY <4>2, <4>3 DEF Told, Made
    <3>2. flush'[f].step # "ok" => Told(f)'
      BY DEF Told
    <3>3. QED BY <1>0, <1>1, <1>3, <2>1, <2>3, <3>1, <3>2 DEF Commit, server, client
  <2>4. CASE /\ flush[f].base = Tip
             /\ repo' = Append(repo, Applied(repo[Tip], flush[f].changes))
             /\ served' = served \cup {[id |-> flush[f].changes, base |-> flush[f].base,
                                        revision |-> Tip + 1]}
             /\ flush'[f].step = "ok" => flush'[f].revision = Tip + 1
    <3>0. Tip \in 1..Tip /\ repo[Tip] \in Files /\ flush[f].changes \in Entries
      BY DEF TypeOK, Tip, Files
    <3>1. Tip \in 1..Tip' /\ Tip + 1 \in 1..Tip' /\ repo'[Tip] = repo[Tip]
          /\ repo'[Tip + 1] = Applied(repo[Tip], flush[f].changes)
      <4>1. Applied(repo[Tip], flush[f].changes) \in Files
        BY <3>0, AppliedType
      <4>2. Tip' = Tip + 1 /\ repo'[Tip + 1] = Applied(repo[Tip], flush[f].changes)
        BY <1>0, <2>4, <4>1, RepoGrows
      <4>3. Tip \in Nat /\ repo'[Tip] = repo[Tip]
        BY <1>0, <3>0, RepoGrows
      <4>4. QED BY <3>0, <4>2, <4>3
    <3>2. PICK i, t : i = flush[f].changes /\ t = Tip
      OBVIOUS
    <3>3. Made(i, t, t + 1)'
      BY <3>1, <3>2 DEF Made, Applied
    <3>4. ASSUME NEW s \in served' PROVE Made(s.id, s.base, s.revision)'
      <4>1. s \in served \/ (s.id = i /\ s.base = t /\ s.revision = t + 1)
        BY <2>4, <3>2, <3>4
      <4>2. QED BY <1>0, <3>3, <4>1
    <3>5. flush'[f].step = "ok" =>
            flush'[f].changes = i /\ flush'[f].base = t /\ flush'[f].revision = t + 1
      BY <2>2, <2>4, <3>2
    <3>6. Told(f)'
      BY <3>3, <3>5 DEF Told, Made
    <3>7. receipts' = receipts
      BY <1>3 DEF Commit, client
    <3>8. QED BY <1>0, <2>1, <3>4, <3>6, <3>7 DEF ReceiptsAreTrue
  <2>5. QED BY <1>3, <2>3, <2>4 DEF Commit, TypeOK
<1>4. ASSUME NEW f \in Flushes, Refused(f) PROVE ReceiptsAreTrue'
  <2>1. \A g \in Flushes : flush'[g] = flush[g] \/ flush'[g].step = "idle"
    BY <1>4 DEF Refused, TypeOK, NoFlush
  <2>2. QED BY <1>0, <1>1, <1>4, <2>1 DEF Refused, server, client, Told
<1>5. ASSUME NEW f \in Flushes, Flushed(f) PROVE ReceiptsAreTrue'
  <2>1. \A g \in Flushes : flush'[g] = flush[g] \/ flush'[g].step = "idle"
    BY <1>5 DEF Flushed, TypeOK, NoFlush
  <2>2. PICK i, b, n : i = flush[f].changes /\ b = flush[f].base /\ n = flush[f].revision
    OBVIOUS
  <2>3. Made(i, b, n)'
    BY <1>0, <1>5, <2>2, MadeKept DEF Flushed, ReceiptsAreTrue, Told
  <2>4. served' = served
        /\ \A s \in receipts' : s \in receipts \/ (s.id = i /\ s.base = b /\ s.revision = n)
    BY <1>5, <2>2 DEF Flushed, server
  <2>5. ASSUME NEW s \in served' \cup receipts' PROVE Made(s.id, s.base, s.revision)'
    BY <1>0, <2>3, <2>4
  <2>6. QED BY <1>0, <2>1, <2>5 DEF ReceiptsAreTrue, Told
<1>6. ASSUME flush' = flush, served' = served, receipts' = receipts PROVE ReceiptsAreTrue'
  BY <1>0, <1>1, <1>6
<1>7. QED
  BY <1>2, <1>3, <1>4, <1>5, <1>6
     DEF Next, Write, Delete, Record, Read, Listed, Blob, Push, vars, server, client

--------------------------------------------------------------------------------
(* A host that awaits its calls *)

LEMMA FormedStep ==
  ASSUME TypeOK, ReadsAreFormed, [Next]_vars PROVE ReadsAreFormed'
<1> USE DEF ReadsAreFormed, Reading
<1>0. Tip \in Nat /\ Tip' \in Nat /\ Tip <= Tip' /\ base \in 1..Tip
  BY StepsGrow, RepoGrows DEF TypeOK
<1>1. ASSUME NEW r \in Readers, NEW p \in Paths, Read(r, p) PROVE ReadsAreFormed'
  BY <1>0, <1>1 DEF Read, TypeOK
<1>2. ASSUME NEW r \in Readers, Listed(r) PROVE ReadsAreFormed'
  <2>1. \A q \in Readers \ {r} : reader'[q] = reader[q]
    BY <1>2 DEF Listed, TypeOK
  <2>2. reader'[r].path = reader[r].path
    BY <1>2 DEF Listed, TypeOK
  <2>3. ASSUME reader'[r].step # "done"
        PROVE  /\ reader'[r].step = "blob" /\ reader'[r].ref = base
               /\ reader'[r].digest \in Blobs
    <3>1. /\ reader'[r].step = "blob" /\ reader'[r].ref = base
          /\ reader'[r].digest = listed'[reader[r].path] /\ listed'[reader[r].path] # None
      BY <1>2, <2>3 DEF Listed, TypeOK
    <3>2. reader[r].path \in Paths /\ reader[r].ref \in 1..Tip
      BY <1>2 DEF Listed
    <3>3. listed[reader[r].path] \in Blobs \cup {None}
          /\ repo[reader[r].ref][reader[r].path] \in Contents
      BY <3>2 DEF TypeOK, Tip
    <3>4. QED BY <1>2, <3>1, <3>2, <3>3 DEF Listed, Contents
  <2>4. reader[r].path \in Paths /\ reader'[r].path \in Paths
    BY <1>2, <2>2 DEF Listed
  <2>5. ASSUME NEW q \in Readers, Reading(q)'
        PROVE  /\ reader'[q].path \in Paths /\ reader'[q].ref \in 1..Tip'
               /\ reader'[q].step = "blob" => reader'[q].digest \in Blobs
    <3>1. CASE q = r
      BY <1>0, <2>3, <2>4, <2>5, <3>1
    <3>2. CASE q # r
      BY <1>0, <2>1, <2>5, <3>2
    <3>3. QED BY <3>1, <3>2
  <2>6. QED BY <2>5
<1>3. ASSUME NEW r \in Readers, Blob(r) PROVE ReadsAreFormed'
  <2>1. \A q \in Readers : reader'[q] = reader[q] \/ reader'[q].step = "done"
    BY <1>3 DEF Blob, TypeOK
  <2>2. QED BY <1>0, <2>1
<1>4. ASSUME reader' = reader PROVE ReadsAreFormed'
  BY <1>0, <1>4
<1>5. QED
  BY <1>1, <1>2, <1>3, <1>4
     DEF Next, Write, Delete, Record, Flush, Commit, Refused, Flushed, Push, vars

\* A call begins when no other is under way, so it ends in the mount it began in.
LEMMA CalmStep ==
  ASSUME MountConstants, TypeOK, ReceiptsAreTrue, ReadsAreFormed, overlapped \/ Calm,
         [Next]_vars, ~overlapped'
  PROVE  Calm'
<1> USE DEF Calm, OneAtATime, FlushIsCurrent, ListingIsCurrent, ReadIsCurrent, NoWriteLost,
            Flushing, Reading
<1>0. /\ Tip \in Nat /\ base \in 1..Tip /\ repo[base] \in Files
      /\ \A i \in 1..Tip : repo'[i] = repo[i]
  BY StepsGrow, RepoGrows DEF TypeOK
<1>1. Calm
  BY DEF Next, Write, Delete, Record, Use, Read, Flush, Commit, Refused, Flushed, Listed,
         Blob, Push, vars, TypeOK
<1>2. ASSUME NEW p \in Paths, NEW content \in Contents, Record(p, content) PROVE Calm'
  <2>1. Quiet
    BY <1>2 DEF Record, Use, TypeOK
  <2>2. UNCHANGED <<base, listed, flush, reader>> /\ repo' = repo
    BY <1>2 DEF Record, server
  <2>3. View' = written'
    <3>1. pending' = [pending EXCEPT ![p] = content] /\ written' = [written EXCEPT ![p] = content]
          /\ content # None
      BY <1>2 DEF Record, MountConstants, Contents
    <3>2. \A q \in Paths : View'[q] = written'[q]
      BY <1>1, <2>2, <3>1 DEF View, TypeOK, Entries
    <3>3. QED BY <3>1, <3>2 DEF View, TypeOK
  <2>4. QED BY <1>1, <2>1, <2>2, <2>3 DEF Quiet
<1>3. ASSUME NEW r \in Readers, NEW p \in Paths, Read(r, p) PROVE Calm'
  <2>1. Quiet
    BY <1>3 DEF Read, Use, TypeOK
  <2>2. UNCHANGED <<base, listed, flush, pending, written>> /\ repo' = repo
    BY <1>3 DEF Read, server, mount
  <2>3. View' = View
    BY <2>2 DEF View
  <2>4. /\ \A q \in Readers \ {r} : reader'[q] = reader[q]
        /\ reader'[r] = [step |-> IF pending[p] # None THEN "done"
                   ELSE IF listed[p] = None THEN "list" ELSE "blob",
              path |-> p, ref |-> base, digest |-> listed[p],
              result |-> IF pending[p] # None THEN pending[p] ELSE None, want |-> View[p]]
    BY <1>3 DEF Read, TypeOK
  <2>5. View[p] = IF pending[p] # None THEN pending[p] ELSE repo[base][p]
    BY DEF View
  <2>6. OneAtATime' /\ FlushIsCurrent' /\ ListingIsCurrent' /\ NoWriteLost'
    BY <1>1, <2>1, <2>2, <2>3, <2>4 DEF Quiet
  <2>7. ReadIsCurrent'
    BY <1>1, <2>1, <2>2, <2>4, <2>5 DEF Quiet
  <2>8. QED BY <2>6, <2>7
<1>4. ASSUME NEW f \in Flushes, Flush(f) PROVE Calm'
  <2>1. Quiet
    BY <1>4 DEF Flush, Use, TypeOK
  <2>2. UNCHANGED <<base, listed, reader, pending, written>> /\ repo' = repo
    BY <1>4 DEF Flush, server, mount
  <2>3. /\ \A g \in Flushes \ {f} : flush'[g] = flush[g]
        /\ flush'[f].changes = pending /\ flush'[f].base = base
    BY <1>4 DEF Flush, TypeOK
  <2>4. View' = View
    BY <2>2 DEF View
  <2>5. QED BY <1>1, <2>1, <2>2, <2>3, <2>4 DEF Quiet
<1>5. ASSUME NEW f \in Flushes, Commit(f) PROVE Calm'
  <2>1. UNCHANGED <<base, listed, reader, pending, written>> /\ repo'[base] = repo[base]
    BY <1>0, <1>5 DEF Commit, mount
  <2>2. /\ \A g \in Flushes \ {f} : flush'[g] = flush[g]
        /\ flush'[f].changes = flush[f].changes /\ flush'[f].base = flush[f].base
        /\ flush[f].step # "idle"
    BY <1>5 DEF Commit, TypeOK
  <2>3. View' = View
    BY <2>1 DEF View
  <2>4. QED BY <1>1, <2>1, <2>2, <2>3
<1>6. ASSUME NEW f \in Flushes, Refused(f) PROVE Calm'
  <2>1. UNCHANGED <<base, listed, reader, pending, written>> /\ repo' = repo
    BY <1>6 DEF Refused, server, KeepPending
  <2>2. /\ \A g \in Flushes \ {f} : flush'[g] = flush[g]
        /\ flush'[f].step = "idle"
    BY <1>6 DEF Refused, TypeOK, NoFlush
  <2>3. View' = View
    BY <2>1 DEF View
  <2>4. QED BY <1>1, <2>1, <2>2, <2>3
<1>7. ASSUME NEW f \in Flushes, Flushed(f) PROVE Calm'
  <2>1. /\ pending' = NoChange /\ base' = flush[f].revision /\ listed' = NoChange
        /\ reader' = reader /\ written' = written /\ repo' = repo
        /\ flush[f].step = "ok"
    BY <1>7 DEF Flushed, server, ClearListed
  <2>2. /\ \A g \in Flushes \ {f} : flush'[g] = flush[g]
        /\ flush'[f].step = "idle"
    BY <1>7 DEF Flushed, TypeOK, NoFlush
  <2>3. repo[flush[f].revision] = Applied(repo[base], pending)
    BY <1>1, <2>1 DEF ReceiptsAreTrue, Told, Made
  <2>4. View' = View
    <3>1. \A q \in Paths : View'[q] = Applied(repo[base], pending)[q]
      BY <2>1, <2>3 DEF View, NoChange
    <3>2. \A q \in Paths : Applied(repo[base], pending)[q] = View[q]
      BY DEF Applied, View
    <3>3. QED BY <3>1, <3>2 DEF View
  <2>5. \A r \in Readers : ~Reading(r) /\ ~Reading(r)'
    BY <1>1, <2>1
  <2>6. QED BY <1>1, <2>1, <2>2, <2>4, <2>5 DEF NoChange
<1>8. ASSUME NEW r \in Readers, Listed(r) PROVE Calm'
  <2> DEFINE p == reader[r].path
  <2>1. UNCHANGED <<base, flush, pending, written>> /\ repo' = repo
    BY <1>8 DEF Listed, server
  <2>2. View' = View
    BY <2>1 DEF View
  <2>3. /\ p \in Paths /\ reader[r].ref = base /\ reader[r].want = repo[base][p]
        /\ listed[p] = None
    BY <1>1, <1>8 DEF Listed
  <2>4. listed' = [q \in Paths |-> IF repo[base][q] = Absent THEN listed[q] ELSE repo[base][q]]
    BY <1>8, <2>3 DEF Listed
  <2>5. ListingIsCurrent'
    BY <1>1, <2>1, <2>4
  <2>6. \A q \in Readers \ {r} : reader'[q] = reader[q]
    <3>1. reader = [q \in Readers |-> reader[q]]
      BY DEF TypeOK
    <3>2. PICK x : reader' = [reader EXCEPT ![r] = x]
      <4> HIDE DEF p
      <4>1. reader' = [reader EXCEPT ![r] = [reader[r] EXCEPT !.step = "done", !.result = Absent]]
            \/ reader' = [reader EXCEPT ![r] = [reader[r] EXCEPT !.step = "blob", !.ref = base,
                                                              !.digest = listed'[p]]]
        BY <1>8 DEF Listed, p
      <4>2. QED BY <4>1
    <3>3. QED BY <3>1, <3>2
  <2>7. repo[base][p] # None
    BY <1>0, <2>3 DEF Files, Contents, MountConstants
  <2>8. listed'[p] = IF repo[base][p] = Absent THEN None ELSE repo[base][p]
    BY <2>3, <2>4
  <2>9. /\ reader'[r].path = p /\ reader'[r].want = reader[r].want
        /\ repo[base][p] = Absent => reader'[r].step = "done" /\ reader'[r].result = Absent
        /\ repo[base][p] # Absent => /\ reader'[r].step = "blob" /\ reader'[r].ref = base
                                     /\ reader'[r].digest = repo[base][p]
    <3>1. reader' = IF listed'[p] = None
                    THEN [reader EXCEPT ![r].step = "done", ![r].result = Absent]
                    ELSE [reader EXCEPT ![r].step = "blob", ![r].ref = base,
                                        ![r].digest = listed'[p]]
      BY <1>8 DEF Listed
    <3>2. PICK d : d = listed'[p]
      OBVIOUS
    <3>3. reader' = IF d = None
                    THEN [reader EXCEPT ![r].step = "done", ![r].result = Absent]
                    ELSE [reader EXCEPT ![r].step = "blob", ![r].ref = base, ![r].digest = d]
      BY <3>1, <3>2, Zenon
    <3>4. reader \in [Readers -> ReadCalls]
      BY DEF TypeOK, ReadCalls
    <3>5. d = IF repo[base][p] = Absent THEN None ELSE repo[base][p]
      BY <2>8, <3>2
    <3>6. QED BY <2>7, <3>3, <3>4, <3>5 DEF ReadCalls
  <2>10. Reading(r) /\ \A q \in Readers \ {r} : ~Reading(q) /\ ~Reading(q)'
    BY <1>1, <1>8, <2>6 DEF Listed
  <2>11. OneAtATime' /\ FlushIsCurrent' /\ NoWriteLost'
    <3>1. \A f \in Flushes : ~Flushing(f) /\ ~Flushing(f)'
      BY <1>1, <2>1, <2>10
    <3>2. QED BY <1>1, <2>1, <2>2, <2>10, <3>1
  <2>12. ReadIsCurrent'
    <3> HIDE DEF p
    <3>1. ASSUME NEW q \in Readers \ {r} PROVE reader'[q].step = "done" => reader'[q].result = reader'[q].want
      BY <1>1, <2>6
    <3>2. reader'[r].step # "list"
          /\ (reader'[r].step = "blob" => /\ reader'[r].digest = reader'[r].want
                                         /\ reader'[r].ref = base /\ p \in Paths
                                         /\ reader'[r].want = repo[base][p])
          /\ (reader'[r].step = "done" => reader'[r].result = reader'[r].want)
      BY <2>3, <2>9
    <3>3. QED BY <2>1, <2>6, <2>9, <2>10, <3>1, <3>2
  <2>13. QED BY <2>5, <2>11, <2>12
<1>9. ASSUME NEW r \in Readers, Blob(r) PROVE Calm'
  <2>1. UNCHANGED <<base, listed, flush, pending, written>> /\ repo' = repo
    BY <1>9 DEF Blob, server, mount
  <2>2. View' = View
    BY <2>1 DEF View
  <2>3. /\ reader[r].ref = base /\ reader[r].digest = repo[base][reader[r].path]
        /\ reader[r].want = reader[r].digest
    BY <1>1, <1>9 DEF Blob
  <2>4. \A q \in Readers \ {r} : reader'[q] = reader[q]
    BY <1>9 DEF Blob, TypeOK
  <2>5. /\ reader'[r].step = "done" /\ reader'[r].want = reader[r].want
        /\ reader'[r].result = reader[r].digest
    BY <1>9, <2>3 DEF Blob, TypeOK
  <2>6. QED BY SMTT(60), <1>1, <2>1, <2>2, <2>3, <2>4, <2>5
<1>10. ASSUME UNCHANGED <<base, listed, flush, reader, pending, written>> PROVE Calm'
  <2>1. repo'[base] = repo[base] /\ View' = View
    BY <1>0, <1>10 DEF View
  <2>2. QED BY <1>1, <1>10, <2>1
<1>11. QED
  BY <1>2, <1>3, <1>4, <1>5, <1>6, <1>7, <1>8, <1>9, <1>10
     DEF Next, Write, Delete, Contents, Push, vars, mount

--------------------------------------------------------------------------------
(* The theorems *)

\* Neither property is inductive: MountInv says what the one call under way carries
\* and what the server's receipts stand for.
LEMMA MountInvariant == ASSUME MountConstants PROVE Spec => []MountInv
<1>1. ASSUME Init PROVE MountInv
  <2>1. TypeOK
    <3>1. Nothing \in Files /\ NoChange \in Entries /\ NoFlush \in FlushCalls
          /\ NoRead \in ReadCalls /\ NoChange \in [Paths -> Blobs \cup {None}]
      BY DEF Nothing, Files, Contents, NoChange, Entries, NoFlush, FlushCalls, NoRead, ReadCalls
    <3>2. repo \in Seq(Files) /\ base \in 1..Tip
      BY <1>1, <3>1 DEF Init, Tip
    <3>3. flush \in [Flushes -> FlushCalls] /\ reader \in [Readers -> ReadCalls]
      BY <1>1, <3>1 DEF Init
    <3>4. QED BY <1>1, <3>1, <3>2, <3>3 DEF Init, TypeOK, Files, FlushCalls, ReadCalls, Nothing, Contents
  <2>2. ReceiptsAreTrue /\ ReadsAreFormed
    BY <1>1 DEF Init, ReceiptsAreTrue, Told, ReadsAreFormed, Reading, NoFlush, NoRead
  <2>3. Calm
    <3>1. View = Nothing
      BY <1>1 DEF Init, View, NoChange, Nothing
    <3>2. QED
      BY <1>1, <3>1 DEF Init, Calm, OneAtATime, FlushIsCurrent, ListingIsCurrent, ReadIsCurrent,
                        NoWriteLost, Flushing, Reading, NoFlush, NoRead, NoChange
  <2>4. QED BY <2>1, <2>2, <2>3 DEF MountInv
<1>2. MountInv /\ [Next]_vars => MountInv'
  BY MountTypes, ReceiptsStep, FormedStep, CalmStep DEF MountInv
<1>3. QED BY <1>1, <1>2, PTL DEF Spec

\* "Writes are recorded as a pending changeset": a host that awaits each call loses no
\* write, whatever flush was refused, whatever receipt was lost, and however others
\* moved the branch.
THEOREM WritesHold == ASSUME MountConstants PROVE Spec => []WritesAreKept
<1>1. MountInv => WritesAreKept
  BY DEF MountInv, Calm, WritesAreKept
<1>2. QED BY <1>1, MountInvariant, PTL

\* What such a host reads is what the mount showed when it asked, from the pending
\* changeset, the listing, the cache or the server.
THEOREM ReadsHold == ASSUME MountConstants PROVE Spec => []ReadsAreCurrent
<1>1. MountInv => ReadsAreCurrent
  BY DEF MountInv, Calm, ReadIsCurrent, ReadsAreCurrent
<1>2. QED BY <1>1, MountInvariant, PTL

================================================================================
