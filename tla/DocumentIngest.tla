----------------------------- MODULE DocumentIngest ----------------------------
(***************************************************************************)
(* ingest_documents: read the durable cursor, poll a document source after *)
(* it, drop what governance refuses, commit the rest with the new cursor.  *)
(* A source fills the batch; see GitDocuments and FileDocuments.           *)
(*                                                                         *)
(* One call runs at a time: IngestStream has overlapping ones.             *)
(***************************************************************************)
EXTENDS Integers

CONSTANTS
    Paths,
    Texts,      \* what a file may say
    Governed,   \* texts that governance refuses at times
    None,
    MaxFaults   \* bound: submissions that fail

Absent == "absent"
Blank == "blank"   \* no text to ingest, or more than _MAX_FILE_BYTES
Contents == Texts \cup {Absent, Blank}

VARIABLES
    engine,    \* engine[p]: the text the engine holds under p's record id
    cursor,    \* the cursor of the durable checkpoint
    run,       \* the call under way: step, the cursor it read, its batch
    refused,   \* a document was refused at some time
    faults

ingestVars == <<engine, cursor, run, refused, faults>>

NoDocuments == [p \in Paths |-> None]
NoRun == [step |-> "idle", previous |-> None, documents |-> NoDocuments,
          withdrawals |-> {}, cursor |-> None]
Idle == run.step = "idle"

IngestTypeOK(Cursors) ==
    /\ engine \in [Paths -> Texts \cup {Absent}]
    /\ cursor \in Cursors \cup {None}
    /\ run \in [step : {"idle", "scan", "read", "polled"}, previous : Cursors \cup {None},
                documents : [Paths -> Texts \cup {None}],
                withdrawals : SUBSET Paths, cursor : Cursors \cup {None}]
    /\ refused \in BOOLEAN /\ faults \in Nat

IngestInit ==
    /\ engine = [p \in Paths |-> Absent]
    /\ cursor = None
    /\ run = NoRun
    /\ refused = FALSE /\ faults = 0

\* Fault: the cursor advances past a refused document.
Always(failures) == run.cursor
NextCursor(failures) == IF failures = {} THEN run.cursor ELSE run.previous

Accepted(failures) ==
    /\ engine' = [p \in Paths |->
                    IF p \in run.withdrawals THEN Absent
                    ELSE IF run.documents[p] # None /\ p \notin failures
                    THEN run.documents[p] ELSE engine[p]]
    /\ cursor' = NextCursor(failures)

\* _govern, the early return (nothing to submit and no new cursor changes
\* nothing), ingest.submit.
Submit ==
    /\ run.step = "polled" /\ run' = NoRun
    /\ \E failures \in SUBSET {p \in Paths : run.documents[p] \in Governed} :
         /\ refused' = (refused \/ failures # {})
         /\ \/ Accepted(failures) /\ UNCHANGED faults
            \/ faults < MaxFaults /\ faults' = faults + 1 /\ UNCHANGED <<engine, cursor>>
================================================================================
