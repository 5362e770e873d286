----------------------------- MODULE FileDocuments -----------------------------
(***************************************************************************)
(* Text files under one root, ingested by modification time.  A poll lists *)
(* the tree, then stats and reads one file after the other while the tree  *)
(* goes on changing; the cursor becomes the largest mtime it took.         *)
(***************************************************************************)
EXTENDS DocumentIngest, Sequences

CONSTANTS
    Order,      \* sorted(walker): the paths in order
    MaxTime,    \* bound: the clock
    MaxEdits    \* bound: edits

VARIABLES
    clock,
    file,     \* file[p]: its content and its st_mtime_ns
    todo,     \* the files of the listing that are still to be looked at
    newest,   \* poll's "newest"
    seen,     \* the mtime poll took of the file it reads next
    raced,    \* files whose last edit fell into a poll, or into the cursor's tick
    edits

tree == <<clock, file, raced, edits>>
scan == <<todo, newest, seen>>
vars == <<ingestVars, tree, scan>>

TypeOK ==
    /\ IngestTypeOK(0..MaxTime)
    /\ clock \in 0..MaxTime /\ edits \in Nat
    /\ file \in [Paths -> [content : Contents, mtime : 0..MaxTime]]
    /\ todo \in Seq(Paths) /\ newest \in -1..MaxTime /\ seen \in -1..MaxTime
    /\ raced \subseteq Paths

Init ==
    /\ IngestInit
    /\ clock = 0 /\ edits = 0
    /\ file = [p \in Paths |-> [content |-> Absent, mtime |-> 0]]
    /\ todo = <<>> /\ newest = -1 /\ seen = -1
    /\ raced = {}

--------------------------------------------------------------------------------
(* The tree *)

Tick == clock < MaxTime /\ clock' = clock + 1
        /\ UNCHANGED <<ingestVars, scan, file, raced, edits>>

Edit(p) ==
    /\ edits < MaxEdits /\ edits' = edits + 1
    /\ \E content \in Contents \ {file[p].content} :
         file' = [file EXCEPT ![p] = [content |-> content, mtime |-> clock]]
    /\ raced' = IF ~Idle \/ (cursor # None /\ clock <= cursor)
                THEN raced \cup {p} ELSE raced \ {p}
    /\ UNCHANGED <<ingestVars, scan, clock>>

--------------------------------------------------------------------------------
(* FilesystemDocumentSource.poll *)

\* int(cursor) if cursor else -1
Prior == IF run.previous = None THEN -1 ELSE run.previous

Begin ==
    /\ Idle
    /\ run' = [NoRun EXCEPT !.step = "scan", !.previous = cursor]
    /\ newest' = IF cursor = None THEN -1 ELSE cursor
    /\ todo' = SelectSeq(Order, LAMBDA p : file[p].content # Absent)
    /\ seen' = -1
    /\ UNCHANGED <<engine, cursor, refused, faults, tree>>

Gone(p) == file[p].content = Absent

\* A file that is gone since the listing is left out, or, gone since is_file saw
\* it, ends the poll with an error.
Raise == run' = NoRun /\ todo' = <<>> /\ newest' = -1 /\ seen' = -1

Stat ==
    /\ run.step = "scan" /\ todo # <<>>
    /\ LET p == Head(todo) IN
       \/ Gone(p) /\ Raise
       \/ /\ Gone(p) \/ file[p].mtime <= Prior
          /\ todo' = Tail(todo) /\ UNCHANGED <<run, newest, seen>>
       \/ /\ ~Gone(p) /\ file[p].mtime > Prior
          /\ run' = [run EXCEPT !.step = "read"] /\ seen' = file[p].mtime
          /\ UNCHANGED <<todo, newest>>
    /\ UNCHANGED <<engine, cursor, refused, faults, tree>>

ReadFile ==
    /\ run.step = "read"
    /\ LET p == Head(todo) IN
       \/ Gone(p) /\ Raise
       \/ /\ file[p].content = Blank
          /\ run' = [run EXCEPT !.step = "scan"] /\ todo' = Tail(todo)
          /\ UNCHANGED <<newest, seen>>
       \/ /\ file[p].content \in Texts
          /\ run' = [run EXCEPT !.step = "scan", !.documents[p] = file[p].content]
          /\ newest' = IF newest < seen THEN seen ELSE newest
          /\ todo' = Tail(todo) /\ UNCHANGED seen
    /\ UNCHANGED <<engine, cursor, refused, faults, tree>>

End ==
    /\ run.step = "scan" /\ todo = <<>>
    /\ run' = [run EXCEPT !.step = "polled",
                          !.cursor = IF newest >= 0 THEN newest ELSE run.previous]
    /\ UNCHANGED <<engine, cursor, refused, faults, tree, scan>>

Ingest == Submit /\ UNCHANGED <<tree, scan>>

Next == Tick \/ (\E p \in Paths : Edit(p)) \/ Begin \/ Stat \/ ReadFile \/ End \/ Ingest

Spec == Init /\ [][Next]_vars

--------------------------------------------------------------------------------
(* Properties *)

\* The cursor hides no text: a file at or before it is in the engine as it is,
\* unless its last edit raced a poll or fell into the cursor's tick.
CursorHidesNothing ==
    cursor # None =>
        \A p \in Paths \ raced :
            file[p].content \in Texts /\ file[p].mtime <= cursor =>
                engine[p] = file[p].content
================================================================================
