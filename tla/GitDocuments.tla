------------------------------ MODULE GitDocuments -----------------------------
(***************************************************************************)
(* A domain pack of a git repository, ingested at HEAD.  The cursor is a   *)
(* commit; a poll diffs from it, or lists HEAD when git does not know it.  *)
(***************************************************************************)
EXTENDS DocumentIngest, Sequences

CONSTANTS
    Pack,         \* the paths the pack selects
    MaxCommits,   \* bound: commits
    MaxRewrites   \* bound: times HEAD moves back, or git loses a commit

VARIABLES
    commits,   \* commits[i]: the files of commit i
    head,      \* HEAD
    known,     \* commits git still has
    rewrites,
    relisted   \* a poll found its cursor gone

repository == <<commits, head, known, rewrites>>
vars == <<ingestVars, repository, relisted>>

TypeOK ==
    /\ commits \in Seq([Paths -> Contents])
    /\ head \in 1..Len(commits) /\ known \subseteq 1..Len(commits)
    /\ IngestTypeOK(1..Len(commits))
    /\ rewrites \in Nat /\ relisted \in BOOLEAN

Init ==
    /\ IngestInit
    /\ commits = <<[p \in Paths |-> Absent]>>
    /\ head = 1 /\ known = {1}
    /\ rewrites = 0 /\ relisted = FALSE

--------------------------------------------------------------------------------
(* The repository *)

Commit ==
    /\ Len(commits) < MaxCommits
    /\ \E p \in Paths : \E content \in Contents \ {commits[head][p]} :
         commits' = Append(commits, [commits[head] EXCEPT ![p] = content])
    /\ head' = Len(commits) + 1
    /\ known' = known \cup {head'}
    /\ UNCHANGED <<ingestVars, rewrites, relisted>>

\* HEAD moves back, or to another branch.
Reset ==
    /\ rewrites < MaxRewrites /\ rewrites' = rewrites + 1
    /\ \E c \in known \ {head} : head' = c
    /\ UNCHANGED <<ingestVars, commits, known, relisted>>

\* A pruned branch, a fresh shallow clone.
Forget ==
    /\ rewrites < MaxRewrites /\ rewrites' = rewrites + 1
    /\ \E c \in known \ {head} : known' = known \ {c}
    /\ UNCHANGED <<ingestVars, commits, head, relisted>>

--------------------------------------------------------------------------------
(* GitMarkdownDocumentSource.poll *)

Known(c) == c # None /\ c \in known

\* _changes: the diff, or all of HEAD
Changed(c, p) ==
    IF Known(c) THEN commits[head][p] \notin {Absent, commits[c][p]}
    ELSE commits[head][p] # Absent

\* Fault: removed files are not looked for.
NoneDeleted(c, p) == FALSE
Deleted(c, p) == Known(c) /\ commits[c][p] # Absent /\ commits[head][p] = Absent

Text(content) == IF content \in Texts THEN content ELSE None

Poll ==
    /\ Idle /\ cursor # head
    /\ relisted' = (relisted \/ (cursor # None /\ ~Known(cursor)))
    /\ run' = [step |-> "polled", previous |-> cursor, cursor |-> head,
               documents |-> [p \in Paths |-> IF p \in Pack /\ Changed(cursor, p)
                                              THEN Text(commits[head][p]) ELSE None],
               withdrawals |-> {p \in Pack : Deleted(cursor, p)}]
    /\ UNCHANGED <<engine, cursor, refused, faults, repository>>

Ingest == Submit /\ UNCHANGED <<repository, relisted>>

Next == Commit \/ Reset \/ Forget \/ Poll \/ Ingest

Spec == Init /\ [][Next]_vars

--------------------------------------------------------------------------------
(* Properties *)

Mirrors(p) ==
    LET content == commits[cursor][p] IN
    /\ content \in Texts => engine[p] = content
    /\ content = Absent => engine[p] = Absent

\* As long as nothing was refused and no cursor was lost, the engine holds the
\* pack as it is at the cursor, whatever was committed, reset or failed.
PackIsMirrored ==
    ~refused /\ ~relisted /\ cursor # None => \A p \in Pack : Mirrors(p)


\* "deletions become withdrawals": once a run has brought the cursor to HEAD, the
\* engine has nothing under a path that HEAD does not have.
DeletionsAreWithdrawn ==
    Idle /\ cursor = head =>
        \A p \in Pack : commits[head][p] = Absent => engine[p] = Absent
================================================================================
