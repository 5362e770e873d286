--------------------------------- MODULE MCCore --------------------------------
(* Write-back and the ingest stream, with everything that overlaps in them.  A
   behaviour is of one of them, chosen by the initial state; the other stays in
   its initial state, so that the properties are the modules' own. *)
EXTENDS WriteBack, IngestStream, TLC

VARIABLE part   \* which of them this behaviour is of

CONSTANTS
    cs1, cs2, k1, c1, c2, t1, t2,   \* write-back
    g1, g2, w1, p1, p2              \* ingest stream

\* Two change sets reuse one idempotency key; the second was prepared against
\* the version the first one produces, so only the key stands between them.
ReusedKey == cs1 :> k1 @@ cs2 :> k1
Bases == cs1 :> 0 @@ cs2 :> 1
TwoInstances == t1 :> c1 @@ t2 :> c2

\* The cursorless writer shares the first pager's process.
Together == g1 :> p1 @@ g2 :> p2 @@ w1 :> p1

\* The same stream over a provider that never sends a walk back and with no request
\* lost, for callers that also start over.
Restarted == INSTANCE IngestStream WITH
    Loops <- FALSE, Resume <- {TRUE, FALSE}, MaxFaults <- 0

CoreInit == part \in {"writeback", "stream", "restarted"} /\ Init /\ StreamInit

CoreNext ==
    \/ part = "writeback" /\ Next /\ UNCHANGED <<part, streamVars>>
    \/ part = "stream" /\ StreamNext /\ UNCHANGED <<part, vars>>
    \/ part = "restarted" /\ Restarted!StreamNext /\ UNCHANGED <<part, vars>>

CoreSpec == CoreInit /\ [][CoreNext]_<<part, vars, streamVars>>
================================================================================
