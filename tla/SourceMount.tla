------------------------------ MODULE SourceMount ------------------------------
(***************************************************************************)
(* A sparse workspace over the source client.  Writes stay in a pending    *)
(* changeset until flush sends them as one commit against the revision the *)
(* mount is based on; reads see the pending changeset over that revision.  *)
(* listdir, read and flush await the server; write and delete do not, so   *)
(* they may run while one of those is under way.                           *)
(*                                                                         *)
(* A blob is its digest.  Listing a directory lists every path.            *)
(***************************************************************************)
EXTENDS Integers, Sequences

CONSTANTS
    Paths, Blobs,
    None,
    Flushes, Readers,   \* calls of flush and read that may be under way at once
    MaxRevisions,       \* bound: commits to the repository
    MaxWrites,          \* bound: writes and deletes
    MaxFaults           \* bound: answers that are lost

Absent == "absent"
Contents == Blobs \cup {Absent}
NoChange == [p \in Paths |-> None]
Nothing == [p \in Paths |-> Absent]

VARIABLES
    repo,      \* repo[i]: the files of revision i
    served,    \* commits the server made: operation id, base and revision
    base,      \* _base
    pending,   \* pending[p]: the blob put, Absent for a delete, None for no entry
    listed,    \* _listed[p]: the digest, or None
    cache,     \* blobs in the client's cache
    receipts,  \* _SourceChannel.receipts
    flush,     \* flush[f]
    reader,    \* reader[r]
    written,   \* written[p]: what p should hold, by the host's last write
    overlapped, \* the host has used the mount while a call of its was under way
    writes, faults

vars == <<repo, served, base, pending, listed, cache, receipts, flush, reader,
          written, overlapped, writes, faults>>
server == <<repo, served>>
mount == <<base, pending, listed>>
client == <<cache, receipts>>

Tip == Len(repo)
Entries == [Paths -> Contents \cup {None}]
Receipts == [id : Entries, base : Nat, revision : Nat]

TypeOK ==
    /\ repo \in Seq([Paths -> Contents])
    /\ served \subseteq Receipts /\ receipts \subseteq Receipts
    /\ base \in 1..Tip /\ pending \in Entries /\ listed \in [Paths -> Blobs \cup {None}]
    /\ cache \subseteq Blobs
    /\ flush \in [Flushes -> [step : {"idle", "sent", "ok", "no"}, changes : Entries,
                              base : Nat, revision : Nat]]
    /\ reader \in [Readers -> [step : {"idle", "list", "blob", "done"},
                               path : Paths \cup {None}, ref : Nat,
                               digest : Blobs \cup {None},
                               result : Contents \cup {None, "refused"},
                               want : Contents \cup {None}]]
    /\ written \in [Paths -> Contents] /\ overlapped \in BOOLEAN
    /\ writes \in Nat /\ faults \in Nat

NoFlush == [step |-> "idle", changes |-> NoChange, base |-> 0, revision |-> 0]
NoRead == [step |-> "idle", path |-> None, ref |-> 0, digest |-> None,
           result |-> None, want |-> None]

\* start: the mount is based on the revision it finds.
Init ==
    /\ repo = <<Nothing>> /\ served = {}
    /\ base = 1 /\ pending = NoChange /\ listed = NoChange
    /\ cache = {} /\ receipts = {}
    /\ flush = [f \in Flushes |-> NoFlush]
    /\ reader = [r \in Readers |-> NoRead]
    /\ written = Nothing /\ overlapped = FALSE
    /\ writes = 0 /\ faults = 0

\* What the mount shows: the pending changeset over its base.
View == [p \in Paths |-> IF pending[p] # None THEN pending[p] ELSE repo[base][p]]

Quiet ==
    /\ \A f \in Flushes : flush[f].step = "idle"
    /\ \A r \in Readers : reader[r].step \in {"idle", "done"}
Use == overlapped' = (overlapped \/ ~Quiet)

--------------------------------------------------------------------------------
(* write and delete *)

Record(p, content) ==
    /\ Use /\ writes < MaxWrites /\ writes' = writes + 1
    /\ pending' = [pending EXCEPT ![p] = content]
    /\ written' = [written EXCEPT ![p] = content]
    /\ UNCHANGED <<server, base, listed, client, flush, reader, faults>>

Write(p) == \E blob \in Blobs : Record(p, blob)
Delete(p) == Record(p, Absent)

--------------------------------------------------------------------------------
(* flush *)

\* The receipt of an operation id the channel already has, if it fits the request.
Known(f) == {r \in receipts : r.id = pending}

Flush(f) ==
    /\ Use /\ flush[f].step = "idle" /\ pending # NoChange
    /\ \/ /\ Known(f) = {}
          /\ flush' = [flush EXCEPT ![f] = [step |-> "sent", changes |-> pending,
                                            base |-> base, revision |-> 0]]
       \/ \E r \in Known(f) :
            flush' = [flush EXCEPT ![f] =
                        [step |-> IF r.base = base THEN "ok" ELSE "no",
                         changes |-> pending, base |-> base, revision |-> r.revision]]
    /\ UNCHANGED <<server, mount, client, reader, written, writes, faults>>

Applied(files, changes) ==
    [p \in Paths |-> IF changes[p] = None THEN files[p] ELSE changes[p]]

\* The server: a repeated operation id gets its receipt, a base that is not the
\* head is a conflict.
Commit(f) ==
    LET c == flush[f]
        again == {s \in served : s.id = c.changes /\ s.base = c.base} IN
    /\ c.step = "sent"
    /\ \/ \E s \in again :
            /\ flush' = [flush EXCEPT ![f].step = "ok", ![f].revision = s.revision]
            /\ UNCHANGED <<server, faults>>
       \/ /\ again = {} /\ c.base # Tip
          /\ flush' = [flush EXCEPT ![f].step = "no"] /\ UNCHANGED <<server, faults>>
       \/ /\ again = {} /\ c.base = Tip /\ Tip < MaxRevisions
          /\ repo' = Append(repo, Applied(repo[Tip], c.changes))
          /\ served' = served \cup {[id |-> c.changes, base |-> c.base,
                                     revision |-> Tip + 1]}
          /\ \/ /\ flush' = [flush EXCEPT ![f].step = "ok", ![f].revision = Tip + 1]
                /\ UNCHANGED faults
             \* The commit is made, its receipt is lost.
             \/ /\ faults < MaxFaults /\ faults' = faults + 1
                /\ flush' = [flush EXCEPT ![f].step = "no"]
    /\ UNCHANGED <<mount, client, reader, written, overlapped, writes>>

\* Fault: the changeset is dropped whether the commit was made or not.
DropAlways == pending' = NoChange
KeepPending == UNCHANGED pending

Refused(f) ==
    /\ flush[f].step = "no"
    /\ flush' = [flush EXCEPT ![f] = NoFlush]
    /\ KeepPending
    /\ UNCHANGED <<server, base, listed, client, reader, written, overlapped, writes, faults>>

\* Fault: the listing of the old base stays.
KeepListed == UNCHANGED listed
ClearListed == listed' = NoChange

Flushed(f) ==
    /\ flush[f].step = "ok"
    /\ receipts' = {r \in receipts : r.id # flush[f].changes} \cup
                   {[id |-> flush[f].changes, base |-> flush[f].base,
                     revision |-> flush[f].revision]}
    /\ pending' = NoChange /\ base' = flush[f].revision /\ ClearListed
    /\ flush' = [flush EXCEPT ![f] = NoFlush]
    /\ UNCHANGED <<server, cache, reader, written, overlapped, writes, faults>>

--------------------------------------------------------------------------------
(* listdir and read *)

Read(r, p) ==
    /\ Use /\ reader[r].step \in {"idle", "done"}
    /\ reader' = [reader EXCEPT ![r] =
         [step |-> IF pending[p] # None THEN "done"
                   ELSE IF listed[p] = None THEN "list" ELSE "blob",
          path |-> p, ref |-> base, digest |-> listed[p],
          result |-> IF pending[p] # None THEN pending[p] ELSE None, want |-> View[p]]]
    /\ UNCHANGED <<server, mount, client, flush, written, writes, faults>>

\* The entries of the revision that was asked for, whatever the base is by now;
\* the blob is asked for at the base of now.
Listed(r) ==
    LET p == reader[r].path
        entries == repo[reader[r].ref] IN
    /\ reader[r].step = "list"
    /\ listed' = [q \in Paths |-> IF entries[q] = Absent THEN listed[q] ELSE entries[q]]
    /\ reader' = IF listed'[p] = None
                 THEN [reader EXCEPT ![r].step = "done", ![r].result = Absent]
                 ELSE [reader EXCEPT ![r].step = "blob", ![r].ref = base,
                                     ![r].digest = listed'[p]]
    /\ UNCHANGED <<server, base, pending, client, flush, written, overlapped, writes, faults>>

\* client.blob: the cache by digest, else the server, whose answer must have
\* the digest of the entry.  The cache may have evicted the blob.
Blob(r) ==
    LET digest == reader[r].digest
        actual == repo[reader[r].ref][reader[r].path] IN
    /\ reader[r].step = "blob"
    /\ \/ /\ digest \in cache /\ UNCHANGED cache
          /\ reader' = [reader EXCEPT ![r].step = "done", ![r].result = digest]
       \/ /\ actual = digest
          /\ cache' = cache \cup {digest}
          /\ reader' = [reader EXCEPT ![r].step = "done", ![r].result = digest]
       \/ /\ actual # digest /\ UNCHANGED cache
          /\ reader' = [reader EXCEPT ![r].step = "done", ![r].result = "refused"]
    /\ UNCHANGED <<server, mount, receipts, flush, written, overlapped, writes, faults>>

\* Another client commits.
Push ==
    /\ Tip < MaxRevisions
    /\ \E p \in Paths : \E content \in Contents \ {repo[Tip][p]} :
         repo' = Append(repo, [repo[Tip] EXCEPT ![p] = content])
    /\ UNCHANGED <<served, mount, client, flush, reader, written, overlapped, writes, faults>>

Next ==
    \/ \E p \in Paths : Write(p) \/ Delete(p) \/ \E r \in Readers : Read(r, p)
    \/ \E f \in Flushes : Flush(f) \/ Commit(f) \/ Refused(f) \/ Flushed(f)
    \/ \E r \in Readers : Listed(r) \/ Blob(r)
    \/ Push

Spec == Init /\ [][Next]_vars

--------------------------------------------------------------------------------
(* Properties *)

\* "Writes are recorded as a pending changeset": no write is lost, the pending
\* changeset over the base is what the host last wrote.
NoWriteLost == View = written

\* A host that awaits each call before it uses the mount again loses no write,
\* whatever was refused, lost or committed by others in between.
WritesAreKept == overlapped \/ NoWriteLost

\* Its reads return what the mount showed when it asked.
ReadsAreCurrent ==
    \A r \in Readers :
        ~overlapped /\ reader[r].step = "done" => reader[r].result = reader[r].want
================================================================================
