------------------------------ MODULE ForeignRead ------------------------------
(***************************************************************************)
(* The client of EG's foreign-read lifecycle: open, chunks, then complete  *)
(* or abort.  It keeps the handles that are open, a bounded fence of those *)
(* that ended, and the number of opens under way.  Phases of one handle    *)
(* take turns; a phase that fails closes the handle, best effort, because  *)
(* nobody knows what the server made of it.                                *)
(*                                                                         *)
(* Every chunk has one row, so the next sequence is also the row count.    *)
(***************************************************************************)
EXTENDS Integers, SequencesExt

CONSTANTS
    Calls,          \* method calls of the client, each used once
    Handles,        \* execution ids the server issues
    None,
    MaxExecutions,  \* _MAX_EXECUTIONS
    MaxRows,        \* limits.max_rows
    Reissues,       \* whether the server may issue an id again
    MaxFaults       \* bound: failures, and ids the server issues again

VARIABLES
    server,     \* server[h]: state and next sequence of the execution
    executions, \* handles in _executions
    expected,   \* expected[h]: expected_sequence of the last execution of h
    tombstones, \* _tombstones, oldest first
    pending,    \* _pending_opens
    call,       \* call[c]
    requests,   \* requests on their way to the server
    expired,    \* handles past their deadline
    known,      \* handles whose open result was validated
    told,       \* handles the server was asked to end
    faults

vars == <<server, executions, expected, tombstones, pending, call, requests,
          expired, known, told, faults>>
client == <<executions, expected, tombstones, pending>>

Kinds == {"open", "chunk", "complete", "abort"}

\* terminal: the execution that the call found has ended since.
TypeOK ==
    /\ server \in [Handles -> [state : {"none", "open", "closed"}, next : Nat]]
    /\ executions \subseteq Handles /\ expected \in [Handles -> Nat]
    /\ tombstones \in Seq(Handles) /\ Len(tombstones) <= MaxExecutions
    /\ pending \in Nat
    /\ call \in [Calls ->
         [step : {"idle", "opening", "waiting", "sent", "aborting", "ok", "failed"},
          kind : Kinds, handle : Handles \cup {None}, seq : Nat,
          reply : {"none", "yes", "no"}, terminal : BOOLEAN]]
    /\ requests \subseteq
         [call : Calls, kind : Kinds, handle : Handles \cup {None}, seq : Nat]
    /\ expired \subseteq Handles /\ known \subseteq Handles /\ told \subseteq Handles
    /\ faults \in Nat

Init ==
    /\ server = [h \in Handles |-> [state |-> "none", next |-> 0]]
    /\ executions = {} /\ expected = [h \in Handles |-> 0]
    /\ tombstones = <<>>
    /\ pending = 0
    /\ call = [c \in Calls |->
                 [step |-> "idle", kind |-> "open", handle |-> None, seq |-> 0,
                  reply |-> "none", terminal |-> FALSE]]
    /\ requests = {} /\ expired = {} /\ known = {} /\ told = {}
    /\ faults = 0

Fault == faults < MaxFaults /\ faults' = faults + 1

--------------------------------------------------------------------------------
(* The server *)

Request(c, kind, h, seq) ==
    requests' = requests \cup {[call |-> c, kind |-> kind, handle |-> h, seq |-> seq]}

\* The phase the call is waiting for; a clean-up is an abort.
Awaits(c) ==
    CASE call[c].step \in {"opening", "sent"} -> call[c].kind
      [] call[c].step = "aborting" -> "abort"
      [] OTHER -> "nothing"

Reply(r, answer, h) ==
    call' = IF Awaits(r.call) = r.kind /\ call[r.call].reply = "none"
            THEN [call EXCEPT ![r.call].reply = answer, ![r.call].handle = h]
            ELSE call

\* The id is new, or one whose execution ended and that no request names.
ServeOpen(r) ==
    /\ r.kind = "open"
    /\ \E h \in Handles :
         /\ \/ server[h].state = "none" /\ UNCHANGED faults
            \/ /\ Reissues /\ server[h].state = "closed" /\ h \notin expired /\ Fault
               /\ \A q \in requests : q.handle # h
         /\ server' = [server EXCEPT ![h] = [state |-> "open", next |-> 0]]
         /\ Reply(r, "yes", h)
         /\ told' = told \ {h} /\ known' = known \ {h}

ServePhase(r) ==
    LET s == server[r.handle]
        accepted == /\ s.state = "open" /\ r.handle \notin expired
                    /\ r.kind # "abort" => s.next = r.seq IN
    /\ r.kind # "open"
    /\ server' = IF ~accepted THEN server
                 ELSE IF r.kind = "chunk"
                 THEN [server EXCEPT ![r.handle].next = @ + 1]
                 ELSE [server EXCEPT ![r.handle].state = "closed"]
    /\ Reply(r, IF accepted THEN "yes" ELSE "no", r.handle)
    /\ UNCHANGED <<told, known, faults>>

Serve(r) ==
    /\ requests' = requests \ {r}
    /\ ServeOpen(r) \/ ServePhase(r)
    /\ UNCHANGED <<client, expired>>

\* The call is cancelled, times out, or gets no answer or a malformed one; the
\* server may still serve the request, or has.
GiveUp(c) ==
    /\ Awaits(c) # "nothing" /\ call[c].reply # "no" /\ Fault
    /\ call' = [call EXCEPT ![c].reply = "no"]
    /\ UNCHANGED <<server, client, requests, expired, known, told>>

Expire(h) ==
    /\ server[h].state = "open" /\ h \notin expired
    /\ expired' = expired \cup {h}
    /\ UNCHANGED <<server, client, call, requests, known, told, faults>>

--------------------------------------------------------------------------------
(* The client's tables *)

\* Fault: tombstones are kept for ever.
Unbounded(s) == s
Newest(s) ==
    IF Len(s) > MaxExecutions THEN SubSeq(s, Len(s) - MaxExecutions + 1, Len(s)) ELSE s

\* _terminalize of a set of handles, in any order: each becomes the newest
\* tombstone, and the oldest ones make room.
Terminalize(hs) ==
    /\ executions' = executions \ hs
    /\ \E s \in SetToSeqs(hs) :
         tombstones' = Newest(SelectSeq(tombstones, LAMBDA h : h \notin hs) \o s)

\* The calls, when c goes to "step" and the executions of hs end.
After(c, step, hs) ==
    [d \in Calls |->
       [call[d] EXCEPT !.step = IF d = c THEN step ELSE @,
                       !.reply = IF d = c THEN "none" ELSE @,
                       !.terminal = @ \/ (call[d].step = "waiting" /\ call[d].handle \in hs)]]

LockFree(h) ==
    \A c \in Calls :
        call[c].step \in {"sent", "aborting"} /\ call[c].kind # "open" => call[c].handle # h

--------------------------------------------------------------------------------
(* open *)

\* _reap_expired skips a handle whose lock is held.
Reaped == {h \in executions \cap expired : LockFree(h)}

\* Fault: opens under way are not counted.
TrackedOnly == Cardinality(executions \ Reaped) < MaxExecutions
Room == Cardinality(executions \ Reaped) + pending < MaxExecutions

Open(c) ==
    /\ call[c].step = "idle"
    /\ Terminalize(Reaped) /\ UNCHANGED expected
    /\ \/ /\ Room
          /\ pending' = pending + 1
          /\ call' = After(c, "opening", Reaped)
          /\ Request(c, "open", None, 0)
       \/ ~Room /\ call' = After(c, "failed", Reaped) /\ UNCHANGED <<pending, requests>>
    /\ UNCHANGED <<server, expired, known, told, faults>>

\* Fault: a failed open keeps its reservation.
KeepReservation == pending' = pending
ReturnReservation == pending' = pending - 1

OpenFails(c) ==
    /\ call[c].step = "opening" /\ call[c].reply = "no"
    /\ ReturnReservation
    /\ call' = After(c, "failed", {})
    /\ UNCHANGED <<server, executions, expected, tombstones, requests, expired, known,
                   told, faults>>

Tell(c, h, seq) == Request(c, "abort", h, seq) /\ told' = told \cup {h}
\* Fault: a handle that cannot be tracked is dropped.
Forget(c, h, seq) == UNCHANGED <<requests, told>>
AbortUntracked(c, h, seq) == Tell(c, h, seq)

Duplicate(h) == h \in executions \/ \E i \in DOMAIN tombstones : tombstones[i] = h

Opened(c) ==
    LET h == call[c].handle IN
    /\ call[c].step = "opening" /\ call[c].reply = "yes"
    /\ pending' = pending - 1
    /\ \/ /\ h \in expired
          /\ call' = After(c, "failed", {})
          /\ UNCHANGED <<executions, expected, requests, told, known>>
       \/ /\ h \notin expired /\ Duplicate(h)
          /\ AbortUntracked(c, h, 0) /\ known' = known \cup {h}
          /\ call' = After(c, "aborting", {})
          /\ UNCHANGED <<executions, expected>>
       \/ /\ h \notin expired /\ ~Duplicate(h)
          /\ executions' = executions \cup {h} /\ expected' = [expected EXCEPT ![h] = 0]
          /\ known' = known \cup {h}
          /\ call' = After(c, "ok", {})
          /\ UNCHANGED <<requests, told>>
    /\ UNCHANGED <<server, tombstones, expired, faults>>

--------------------------------------------------------------------------------
(* chunk, complete, abort and cancel *)

\* _find; the caller numbers its chunks ahead, cancel takes what is expected now.
Find(c, kind, h) ==
    /\ call[c].step = "idle" /\ kind # "open" /\ h \in executions
    /\ \E seq \in expected[h]..expected[h] + 1 :
         call' = [call EXCEPT ![c].step = "waiting", ![c].kind = kind,
                              ![c].handle = h, ![c].seq = seq]
    /\ UNCHANGED <<server, client, requests, expired, known, told, faults>>

\* Fault: the table is consulted once, before the lock.
FoundOnce(c) == FALSE
Ended(c) == call[c].terminal

Admitted(c) ==
    /\ call[c].seq = expected[call[c].handle]
    /\ call[c].kind = "chunk" => call[c].seq < MaxRows

\* The lock is acquired: _check_open, the checks of the phase, the request.
Enter(c) ==
    LET h == call[c].handle IN
    /\ call[c].step = "waiting" /\ LockFree(h)
    /\ \/ /\ Ended(c)
          /\ call' = After(c, "failed", {})
          /\ UNCHANGED <<executions, tombstones, requests, told>>
       \/ /\ ~Ended(c) /\ h \in expired
          /\ Terminalize({h})
          /\ call' = After(c, "failed", {h})
          /\ UNCHANGED <<requests, told>>
       \/ /\ ~Ended(c) /\ h \notin expired /\ ~Admitted(c)
          /\ call' = After(c, "failed", {})
          /\ UNCHANGED <<executions, tombstones, requests, told>>
       \/ /\ ~Ended(c) /\ h \notin expired /\ Admitted(c)
          /\ call' = After(c, "sent", {})
          /\ Request(c, call[c].kind, h, call[c].seq)
          /\ told' = IF call[c].kind = "chunk" THEN told ELSE told \cup {h}
          /\ UNCHANGED <<executions, tombstones>>
    /\ UNCHANGED <<server, expected, pending, expired, known, faults>>

Succeeds(c) ==
    LET h == call[c].handle IN
    /\ call[c].step = "sent" /\ call[c].reply = "yes"
    /\ IF call[c].kind = "chunk"
       THEN /\ expected' = [expected EXCEPT ![h] = @ + 1]
            /\ call' = After(c, "ok", {}) /\ UNCHANGED <<executions, tombstones>>
       ELSE Terminalize({h}) /\ call' = After(c, "ok", {h}) /\ UNCHANGED expected
    /\ UNCHANGED <<server, pending, requests, expired, known, told, faults>>

\* A chunk or complete that failed: abort_execution under the lock.
CleansUp(c) ==
    LET h == call[c].handle IN
    /\ call[c].step = "sent" /\ call[c].reply = "no" /\ call[c].kind # "abort"
    /\ Tell(c, h, expected[h])
    /\ call' = After(c, "aborting", {})
    /\ UNCHANGED <<server, client, expired, known, faults>>

AbortFails(c) ==
    /\ call[c].step = "sent" /\ call[c].reply = "no" /\ call[c].kind = "abort"
    /\ Terminalize({call[c].handle})
    /\ call' = After(c, "failed", {call[c].handle})
    /\ UNCHANGED <<server, expected, pending, requests, expired, known, told, faults>>

\* Fault: the execution outlives a phase of unknown outcome.
Stays(c) == {}
\* What the failed phase of c ends, whatever became of its abort.
Ends(c) == IF call[c].kind = "open" THEN {} ELSE {call[c].handle}

CleanedUp(c) ==
    /\ call[c].step = "aborting" /\ call[c].reply # "none"
    /\ Terminalize(Ends(c))
    /\ call' = After(c, "failed", Ends(c))
    /\ UNCHANGED <<server, expected, pending, requests, expired, known, told, faults>>

--------------------------------------------------------------------------------

Step(c) ==
    \/ Open(c) \/ OpenFails(c) \/ Opened(c) \/ Enter(c) \/ Succeeds(c)
    \/ CleansUp(c) \/ AbortFails(c) \/ CleanedUp(c) \/ GiveUp(c)
    \/ \E kind \in Kinds, h \in Handles : Find(c, kind, h)

Next ==
    \/ \E c \in Calls : Step(c)
    \/ \E r \in requests : Serve(r)
    \/ \E h \in Handles : Expire(h)

Spec == Init /\ [][Next]_vars

--------------------------------------------------------------------------------
(* Properties *)

\* The client never holds more executions than _MAX_EXECUTIONS, the opens that
\* are still with the server included.
WithinCapacity == Cardinality(executions) + pending <= MaxExecutions

\* Every reservation belongs to an open that is under way: none is lost on a
\* failed, cancelled or refused open.
ReservationsAreHeld == pending = Cardinality({c \in Calls : call[c].step = "opening"})

\* An execution that no call is working on is where the server has it, so that
\* its next phase can succeed: after a phase of unknown outcome the client
\* gives the handle up rather than guess.
InStep ==
    \A h \in executions \ expired :
        LockFree(h) => server[h].state = "open" /\ expected[h] = server[h].next

\* A handle that the client validated and no longer tracks is not left open:
\* the server was asked to end it, or it expires by itself.
NoHandleLeft ==
    \A h \in known \ (executions \cup expired) : server[h].state = "open" => h \in told

\* No phase is sent for an execution that ended, not even by a call that had
\* found it open and waited for its turn.
OpenStep ==
    \A c \in Calls :
        call[c].step = "waiting" /\ call'[c].step = "sent" => ~call[c].terminal
NothingAfterEnd == [][OpenStep]_vars
================================================================================
