----------------------------- MODULE PartProofs ------------------------------
(* Theorems about calls that leave the process: file locks, retries and fallbacks,
   decisions and payments of CallSupport, ForeignRead, the tokens of Authentication and
   HttpClients.  The variables are those of the modules, and none of the theorems
   is about two of the modules: a name that two of them have is shared.  *)
EXTENDS Integers, Sequences, FiniteSets, FiniteSetTheorems, TLAPS

CONSTANTS
    None,
    Attempts, Fallbacks, MaxFallbacks, Processes, Patience, MaxUses, MaxCrashes,
    Challenges, Allowed, Single, Daily, Monthly, Approval, MaxPayments, MaxRecords, MaxResets,
    Calls, Digests, Strange,
    Methods, Handles, MaxExecutions, MaxRows, Reissues, MaxFaults,
    TokenRequests, Posts, MaxAttempts, MaxAccessTokens, MaxTokenFaults,
    SecretRequests, MaxIssued, MaxSecretFaults,
    LoginCallers, MaxLogins, MaxLoginTokens, MaxLoginFaults,
    CallerRequests, TokenHolders, CacheSize, Skew, Lifetimes, MaxTime, MaxCallerFaults,
    Settings, Targets, ClientRequests, Addresses, ClassOf, Answers, MaxRetryAfter, RetryAfters,
    MaxChanges, Threads, MaxRetries, Cap, Epoch, Headers, MaxApiTime,
    PaceRequests, MinInterval, MaxPaceTime

VARIABLES
    asked, state, made, held, proc, file, seen, updates, torn, crashes,
    payments, daily, monthly, count, records, today, month, strayed, resets,
    caller, task, loop, log, unlogged,
    server, executions, expected, tombstones, pending, call, requests, expired, known,
    told, faults,
    endpoint, tokenIssued, tokenLive, tokenCache, rotated, tokenReq, effects, lost,
    tokenFaults, kind, store, secretLive, secretIssued, secretReq, excused, secretFaults,
    port, codefile, loginCaller, logins, grants, aged, shared, loginFaults,
    callerReq, holder, callerCache, callerIssued, now, callerFaults,
    client, airgap, dns, origins, req, dialled, got, changes,
    apiCall, credential, valid, apiLast, observed, acted, apiNow,
    paceNow, queue, paceLast, left, rest

Support == INSTANCE CallSupport
Foreign == INSTANCE ForeignRead WITH Calls <- Methods
Auth == INSTANCE Authentication
Http == INSTANCE HttpClients WITH call <- apiCall, token <- credential, seen <- observed, sent <- left

\* The modules of the instances count as this one does.
LEMMA SameCount == \A S : Support!Cardinality(S) = Cardinality(S)
BY DEF Support!Cardinality, Cardinality

LEMMA SameForeignCount == \A S : Foreign!Cardinality(S) = Cardinality(S)
BY DEF Foreign!Cardinality, Cardinality

--------------------------------------------------------------------------------
(* file_lock and library_state: the advisory lock of a file's sibling. *)

\* No mode is the value for "none".
LockConstants == None \notin {"exclusive", "shared"}

Places == {"idle", "trying", "waiting", "reading", "writing", "rest", "looking", "leaving"}
Uses == [at : Places, tries : Nat, read : Nat, uses : Nat]

LockTypes ==
    /\ held \in [Processes -> {"exclusive", "shared", None}]
    /\ proc \in [Processes -> Uses]
    /\ file \in Nat \X Nat /\ updates \in Nat /\ torn \in BOOLEAN

\* A process is where the lock it holds lets it be.
HeldAsUsed ==
    \A p \in Processes :
        /\ proc[p].at \in {"idle", "trying", "waiting"} => held[p] = None
        /\ proc[p].at \in {"reading", "writing", "rest"} => held[p] = "exclusive"
        /\ proc[p].at = "looking" => held[p] = "shared"

\* The holder of the exclusive lock is alone.
ExclusiveAlone ==
    \A p, q \in Processes : held[p] = "exclusive" /\ p # q => held[q] = None

\* The first half has every update, and a writer has read it; the second half has it too,
\* but between the two writes and after a death there.
FileAsWritten ==
    /\ file[1] = updates
    /\ (\A p \in Processes : proc[p].at # "rest") => file[2] = file[1] \/ torn
    /\ \A p \in Processes :
         /\ proc[p].at = "writing" => proc[p].read = updates
         /\ proc[p].at = "rest" => proc[p].read + 1 = updates
    /\ \A s \in seen : s.file[1] = s.file[2] \/ s.torn

LockInv == LockTypes /\ HeldAsUsed /\ ExclusiveAlone /\ FileAsWritten

LEMMA LockInit == ASSUME LockConstants PROVE Support!LockInit => LockInv
<1> USE DEF LockConstants
<1> SUFFICES ASSUME Support!LockInit PROVE LockInv
  OBVIOUS
<1>1. LockTypes
  BY DEF Support!LockInit, Support!LockIdle, LockTypes, Uses, Places
<1>2. HeldAsUsed /\ ExclusiveAlone /\ FileAsWritten
  BY DEF Support!LockInit, Support!LockIdle, HeldAsUsed, ExclusiveAlone, FileAsWritten
<1>3. QED BY <1>1, <1>2 DEF LockInv

\* What a step does to the process that takes it, and that it leaves the others alone.
LEMMA LockMove ==
  ASSUME LockTypes, NEW p \in Processes, NEW proc1 \in Uses,
         proc' = [proc EXCEPT ![p] = proc1]
  PROVE  /\ proc' \in [Processes -> Uses] /\ proc'[p] = proc1
         /\ \A q \in Processes \ {p} : proc'[q] = proc[q]
BY DEF LockTypes

\* What a process does next is a use again.
LEMMA UseMoved ==
  \A u \in Uses, place \in Places :
    /\ [u EXCEPT !.at = place] \in Uses
    /\ [u EXCEPT !.at = place].at = place
    /\ [u EXCEPT !.at = place].read = u.read
BY DEF Uses

LEMMA UseBegun ==
  \A u \in Uses, place \in Places, n \in Nat :
    /\ [u EXCEPT !.at = place, !.tries = 0, !.uses = n] \in Uses
    /\ [u EXCEPT !.at = place, !.tries = 0, !.uses = n].at = place
BY DEF Uses

LEMMA UseTried ==
  \A u \in Uses, n \in Nat :
    [u EXCEPT !.tries = n] \in Uses /\ [u EXCEPT !.tries = n].at = u.at
BY DEF Uses

LEMMA UseRead ==
  \A u \in Uses, n \in Nat :
    /\ [u EXCEPT !.at = "writing", !.read = n] \in Uses
    /\ [u EXCEPT !.at = "writing", !.read = n].at = "writing"
    /\ [u EXCEPT !.at = "writing", !.read = n].read = n
BY DEF Uses, Places

LEMMA UseCounts == \A u \in Uses : u.tries + 1 \in Nat /\ u.uses + 1 \in Nat
BY DEF Uses

\* A process that neither takes nor gives up the lock, nor touches the file.
LEMMA LockQuiet ==
  ASSUME LockInv, NEW p \in Processes, NEW u \in Uses,
         proc' = [proc EXCEPT ![p] = u], UNCHANGED <<held, file, updates, torn, seen>>,
         proc[p].at \in {"idle", "trying", "waiting"},
         u.at \in {"idle", "trying", "waiting"}
  PROVE  LockInv'
<1>1. proc' \in [Processes -> Uses] /\ proc'[p] = u /\ \A q \in Processes \ {p} : proc'[q] = proc[q]
  BY LockMove DEF LockInv
<1>2. LockTypes'
  BY <1>1 DEF LockInv, LockTypes
<1>3. HeldAsUsed' /\ ExclusiveAlone'
  BY <1>1 DEF LockInv, HeldAsUsed, ExclusiveAlone
<1>4. FileAsWritten'
  BY <1>1 DEF LockInv, FileAsWritten
<1>5. QED BY <1>2, <1>3, <1>4 DEF LockInv

\* Every step of a process keeps the invariant.
LEMMA LockStep ==
  ASSUME LockConstants, LockInv, NEW p \in Processes,
         \/ Support!Begin(p, "trying") \/ Support!Begin(p, "waiting") \/ Support!TryLock(p)
         \/ Support!LockShared(p) \/ Support!LockRead(p) \/ Support!Write(p, 1)
         \/ Support!Write(p, 2) \/ Support!Look(p) \/ Support!Unlock(p) \/ Support!Crash(p)
  PROVE  LockInv'
<1>0. proc[p] \in Uses /\ LockTypes /\ held[p] \in {"exclusive", "shared", None}
  BY DEF LockInv, LockTypes
<1>1. ASSUME NEW place \in {"trying", "waiting"}, Support!Begin(p, place) PROVE LockInv'
  <2> DEFINE n == proc[p].uses + 1
             u == [proc[p] EXCEPT !.at = place, !.tries = 0, !.uses = n]
  <2>1. n \in Nat /\ place \in Places
    BY <1>0, UseCounts DEF Places
  <2>2. u \in Uses /\ u.at = place
    <3> HIDE DEF n
    <3>1. QED BY <1>0, <2>1, UseBegun, ZenonT(60)
  <2>3. proc' = [proc EXCEPT ![p] = u] /\ UNCHANGED <<held, file, updates, torn, seen>> /\ proc[p].at = "idle"
    BY <1>1 DEF Support!Begin
  <2> HIDE DEF u
  <2>4. QED BY <2>2, <2>3, LockQuiet
<1>2. CASE Support!TryLock(p) /\ ~Support!Available(p, "exclusive")
  <2>1. PICK u \in Uses : /\ proc' = [proc EXCEPT ![p] = u]
                          /\ u.at \in {"idle", "trying"}
    <3> DEFINE a == [proc[p] EXCEPT !.at = "idle"]
               n == proc[p].tries + 1
               b == [proc[p] EXCEPT !.tries = n]
    <3>1. a \in Uses /\ a.at = "idle"
      <4>1. "idle" \in Places
        BY DEF Places
      <4>2. QED BY <1>0, <4>1, UseMoved
    <3>2. b \in Uses /\ b.at = "trying"
      <4>1. n \in Nat /\ proc[p].at = "trying"
        BY <1>0, <1>2, UseCounts DEF Support!TryLock
      <4> HIDE DEF n
      <4>2. QED BY <1>0, <4>1, UseTried
    <3>3. proc' = [proc EXCEPT ![p] = a] \/ proc' = [proc EXCEPT ![p] = b]
      BY <1>2 DEF Support!TryLock, Support!At
    <3> HIDE DEF a, b
    <3>4. QED BY <3>1, <3>2, <3>3
  <2>2. UNCHANGED <<held, file, updates, torn, seen>> /\ proc[p].at = "trying"
    BY <1>2 DEF Support!TryLock
  <2>3. QED BY <2>1, <2>2, LockQuiet
<1>3. ASSUME NEW mode \in {"exclusive", "shared"}, NEW place \in {"reading", "looking"},
             mode = "exclusive" <=> place = "reading",
             Support!Available(p, mode), proc[p].at \in {"trying", "waiting"},
             held' = [held EXCEPT ![p] = mode], Support!At(p, place),
             UNCHANGED <<file, seen, updates, torn>>
      PROVE  LockInv'
  <2> DEFINE u == [proc[p] EXCEPT !.at = place]
  <2>1. u \in Uses /\ u.at = place
    <3>1. place \in Places
      BY DEF Places
    <3>2. QED BY <1>0, <3>1, UseMoved
  <2>2. proc' = [proc EXCEPT ![p] = u]
    BY <1>3 DEF Support!At
  <2> HIDE DEF u
  <2>3. proc' \in [Processes -> Uses] /\ proc'[p] = u /\ \A q \in Processes \ {p} : proc'[q] = proc[q]
    BY <1>0, <2>1, <2>2, LockMove
  <2>4. /\ held' \in [Processes -> {"exclusive", "shared", None}] /\ held'[p] = mode
        /\ \A q \in Processes \ {p} : held'[q] = held[q]
    BY <1>0, <1>3 DEF LockTypes
  <2>5. \A q \in Processes \ {p} :
          /\ held[q] # "exclusive"
          /\ mode = "exclusive" => held[q] = None
    BY <1>3 DEF Support!Available, Support!Others, LockConstants
  <2>6. LockTypes'
    BY <1>0, <1>3, <2>3, <2>4 DEF LockTypes
  <2>7. HeldAsUsed'
    BY <1>3, <2>1, <2>3, <2>4 DEF LockInv, HeldAsUsed
  <2>8. ExclusiveAlone'
    BY <2>4, <2>5, LockConstants DEF LockConstants, LockInv, ExclusiveAlone
  <2>9. FileAsWritten'
    BY <1>3, <2>1, <2>3 DEF LockInv, FileAsWritten
  <2>10. QED BY <2>6, <2>7, <2>8, <2>9 DEF LockInv
<1>4. CASE Support!TryLock(p) /\ Support!Available(p, "exclusive")
  BY <1>3, <1>4 DEF Support!TryLock
<1>5. CASE Support!LockShared(p)
  BY <1>3, <1>5 DEF Support!LockShared
\* Under the exclusive lock nobody else reads, writes or looks.
<1>6. ASSUME proc[p].at \in {"reading", "writing", "rest"}, NEW q \in Processes \ {p}
      PROVE  proc[q].at \notin {"reading", "writing", "rest", "looking"}
  BY <1>6 DEF LockInv, HeldAsUsed, ExclusiveAlone, LockConstants
<1>7. CASE Support!LockRead(p)
  <2> DEFINE u == [proc[p] EXCEPT !.at = "writing", !.read = file[1]]
  <2>1. file[1] \in Nat /\ proc[p].at = "reading"
    BY <1>0, <1>7 DEF LockTypes, Support!LockRead
  <2>2. u \in Uses /\ u.at = "writing" /\ u.read = file[1]
    BY <1>0, <2>1, UseRead
  <2>3. proc' = [proc EXCEPT ![p] = u] /\ UNCHANGED <<held, file, seen, updates, torn>>
    BY <1>7 DEF Support!LockRead
  <2> HIDE DEF u
  <2>4. proc' \in [Processes -> Uses] /\ proc'[p] = u /\ \A q \in Processes \ {p} : proc'[q] = proc[q]
    BY <1>0, <2>2, <2>3, LockMove
  <2>5. LockTypes' /\ HeldAsUsed' /\ ExclusiveAlone'
    BY <2>1, <2>2, <2>3, <2>4 DEF LockInv, LockTypes, HeldAsUsed, ExclusiveAlone
  <2>6. \A q \in Processes : proc[q].at # "rest"
    BY <1>6, <2>1
  <2>7. file[1] = updates
    BY DEF LockInv, FileAsWritten
  <2>8. FileAsWritten'
    BY <2>2, <2>3, <2>4, <2>6, <2>7, <1>6 DEF LockInv, FileAsWritten
  <2>9. QED BY <2>5, <2>8 DEF LockInv
<1>8. ASSUME NEW part \in {1, 2}, Support!Write(p, part) PROVE LockInv'
  <2> DEFINE u == [proc[p] EXCEPT !.at = IF part = 1 THEN "rest" ELSE "leaving"]
  <2>1. u \in Uses /\ u.at = (IF part = 1 THEN "rest" ELSE "leaving") /\ u.read = proc[p].read
    <3>1. (IF part = 1 THEN "rest" ELSE "leaving") \in Places
      BY DEF Places
    <3>2. QED BY <1>0, <3>1, UseMoved
  <2>2. /\ proc' = [proc EXCEPT ![p] = u] /\ UNCHANGED <<held, seen>>
        /\ proc[p].at = (IF part = 1 THEN "writing" ELSE "rest")
        /\ file' = [file EXCEPT ![part] = proc[p].read + 1]
        /\ updates' = IF part = 1 THEN updates + 1 ELSE updates
        /\ torn' = IF part = 2 THEN FALSE ELSE torn
    BY <1>8 DEF Support!Write, Support!At
  <2> HIDE DEF u
  <2>3. proc' \in [Processes -> Uses] /\ proc'[p] = u /\ \A q \in Processes \ {p} : proc'[q] = proc[q]
    BY <1>0, <2>1, <2>2, LockMove
  <2>4. \A q \in Processes \ {p} : proc[q].at \notin {"reading", "writing", "rest", "looking"}
    BY <1>6, <2>2
  <2>5. /\ updates \in Nat /\ file \in Nat \X Nat /\ proc[p].read \in Nat /\ file[1] = updates
        /\ proc[p].at = "writing" => proc[p].read = updates
        /\ proc[p].at = "rest" => proc[p].read + 1 = updates
    BY <1>0 DEF LockInv, FileAsWritten, LockTypes, Uses
  <2>6. CASE part = 1
    <3>1. file' \in Nat \X Nat /\ file'[1] = updates' /\ updates' = updates + 1
      BY <2>2, <2>5, <2>6
    <3>2. LockTypes'
      BY <1>0, <2>2, <2>3, <2>5, <2>6, <3>1 DEF LockTypes
    <3>3. HeldAsUsed' /\ ExclusiveAlone'
      BY <2>1, <2>2, <2>3, <2>6 DEF LockInv, HeldAsUsed, ExclusiveAlone
    <3>4. FileAsWritten'
      BY <2>1, <2>2, <2>3, <2>4, <2>5, <2>6, <3>1 DEF LockInv, FileAsWritten
    <3>5. QED BY <3>2, <3>3, <3>4 DEF LockInv
  <2>7. CASE part = 2
    <3>1. file' \in Nat \X Nat /\ file'[1] = updates /\ file'[2] = updates /\ updates' = updates
      BY <2>2, <2>5, <2>7
    <3>2. LockTypes'
      BY <1>0, <2>2, <2>3, <2>5, <2>7, <3>1 DEF LockTypes
    <3>3. HeldAsUsed' /\ ExclusiveAlone'
      BY <2>1, <2>2, <2>3, <2>7 DEF LockInv, HeldAsUsed, ExclusiveAlone
    <3>4. FileAsWritten'
      BY <2>1, <2>2, <2>3, <2>4, <2>7, <3>1 DEF LockInv, FileAsWritten
    <3>5. QED BY <3>2, <3>3, <3>4 DEF LockInv
  <2>8. QED BY <2>6, <2>7
<1>9. ASSUME NEW place \in {"idle", "leaving"}, Support!At(p, place), UNCHANGED <<file, updates>>,
             \/ place = "leaving" /\ UNCHANGED held
             \/ place = "idle" /\ held' = [held EXCEPT ![p] = None],
             torn' \in BOOLEAN, torn' = torn \/ seen' = seen,
             proc[p].at = "rest" => torn', proc[p].at # "rest" => torn' = torn,
             \/ UNCHANGED seen
             \/ proc[p].at = "looking" /\ seen' = seen \cup {[file |-> file, torn |-> torn]}
      PROVE  LockInv'
  <2> DEFINE u == [proc[p] EXCEPT !.at = place]
  <2>1. u \in Uses /\ u.at = place /\ proc' = [proc EXCEPT ![p] = u]
    <3>1. place \in Places
      BY DEF Places
    <3>2. u \in Uses /\ u.at = place
      BY <1>0, <3>1, UseMoved
    <3>3. QED BY <1>9, <3>2 DEF Support!At
  <2> HIDE DEF u
  <2>2. proc' \in [Processes -> Uses] /\ proc'[p] = u /\ \A q \in Processes \ {p} : proc'[q] = proc[q]
    BY <1>0, <2>1, LockMove
  <2>3. /\ held' \in [Processes -> {"exclusive", "shared", None}]
        /\ place = "idle" => held'[p] = None
        /\ \A q \in Processes : held'[q] = held[q] \/ held'[q] = None
        /\ \A q \in Processes \ {p} : held'[q] = held[q]
    BY <1>0, <1>9 DEF LockTypes
  <2>4. LockTypes'
    BY <1>0, <1>9, <2>2, <2>3 DEF LockTypes
  <2>5. HeldAsUsed' /\ ExclusiveAlone'
    BY <1>9, <2>1, <2>2, <2>3 DEF LockConstants, LockInv, HeldAsUsed, ExclusiveAlone
  <2>6. proc[p].at = "looking" => \A q \in Processes : proc[q].at # "rest"
    BY DEF LockConstants, LockInv, HeldAsUsed, ExclusiveAlone
  <2>7. proc[p].at = "looking" => file[1] = file[2] \/ torn
    BY <2>6 DEF LockInv, FileAsWritten
  <2>8. FileAsWritten'
    BY <1>9, <2>1, <2>2, <2>7 DEF LockInv, FileAsWritten
  <2>9. QED BY <2>4, <2>5, <2>8 DEF LockInv
<1>10. CASE Support!Look(p)
  BY <1>0, <1>9, <1>10 DEF Support!Look, LockTypes
<1>11. CASE Support!Unlock(p)
  BY <1>0, <1>9, <1>11 DEF Support!Unlock, LockTypes
<1>12. CASE Support!Crash(p)
  BY <1>0, <1>9, <1>12 DEF Support!Crash, LockTypes
<1>13. QED BY <1>1, <1>2, <1>4, <1>5, <1>7, <1>8, <1>10, <1>11, <1>12

\* The processes that share the file through file_lock lose no update that was begun, and
\* the first to see half of one is whoever comes after a writer that died between its two
\* writes, until the file is next written whole: the lock keeps others out while its holder
\* lives and is given up when it dies, and repairs nothing.
THEOREM LockKeepsUpdates == ASSUME LockConstants PROVE Support!LockSpec => []Support!UpdatesAreKept
<1>1. Support!LockInit => LockInv
  BY LockInit
<1>2. LockInv /\ [Support!LockNext]_Support!lockVars => LockInv'
  <2> SUFFICES ASSUME LockInv, [Support!LockNext]_Support!lockVars PROVE LockInv'
    OBVIOUS
  <2>1. CASE Support!LockNext
    BY <2>1, LockStep DEF Support!LockNext
  <2>2. CASE UNCHANGED Support!lockVars
    BY <2>2 DEF Support!lockVars, LockInv, LockTypes, HeldAsUsed, ExclusiveAlone, FileAsWritten
  <2>3. QED BY <2>1, <2>2
<1>3. LockInv => Support!UpdatesAreKept
  BY DEF LockInv, FileAsWritten, HeldAsUsed, Support!UpdatesAreKept
<1>4. QED BY <1>1, <1>2, <1>3, PTL DEF Support!LockSpec

--------------------------------------------------------------------------------
(* run_with_resilience: which calls are made, and after which ends. *)

\* A policy makes an attempt at least; fallbacks are counted.
ResilienceConstants == Attempts \subseteq Nat \ {0} /\ Fallbacks \subseteq Nat

Ends == Support!Outcomes \cup {"under way"}
Made == [call : Nat, end : Ends]

ResilienceTypes ==
    /\ asked.attempts \in Nat \ {0} /\ asked.fallbacks \in Nat /\ asked.safe \in BOOLEAN
    /\ state \in {"new", "waiting", "calling", "refused", "returned", "raised"}
    /\ made \in Seq(Made) /\ Len(made) <= Support!Places

\* The calls are those of the plan, from its first, and each but the last failed with an
\* error that the caller lists.
CallsAsPlanned ==
    /\ \A n \in DOMAIN made : made[n].call = Support!Plan(n)
    /\ \A n \in DOMAIN made : n < Len(made) => made[n].end = "listed"
    /\ Len(made) > 1 => asked.safe

\* How the last call ended is what the helper does.
StateAsEnded ==
    /\ state \in {"new", "refused"} => made = <<>>
    /\ state \in {"waiting", "calling"} => Support!Affirmed
    /\ state = "waiting" => Len(made) < Support!Places
    /\ state = "waiting" /\ made # <<>> => made[Len(made)].end = "listed"
    /\ state = "calling" => made # <<>> /\ made[Len(made)].end = "under way"
    /\ state = "returned" => made # <<>> /\ made[Len(made)].end = "value"
    /\ state = "raised" =>
         /\ made # <<>> /\ made[Len(made)].end \notin {"value", "under way"}
         /\ made[Len(made)].end = "listed" =>
              Len(made) = Support!Places \/ Len(made) < asked.attempts

ResilienceInv == ResilienceTypes /\ CallsAsPlanned /\ StateAsEnded

LEMMA ResilienceStarts ==
  ASSUME ResilienceConstants PROVE Support!ResilienceInit => ResilienceInv
<1> SUFFICES ASSUME Support!ResilienceInit PROVE ResilienceInv
  OBVIOUS
<1>1. /\ asked.attempts \in Nat \ {0} /\ asked.fallbacks \in Nat /\ asked.safe \in BOOLEAN
      /\ state = "new" /\ made = <<>>
  BY DEF ResilienceConstants, Support!ResilienceInit
<1>2. made \in Seq(Made) /\ Len(made) = 0 /\ DOMAIN made = {}
  BY <1>1
<1>3. ResilienceTypes /\ CallsAsPlanned /\ StateAsEnded
  BY <1>1, <1>2 DEF ResilienceTypes, CallsAsPlanned, StateAsEnded, Support!Places
<1>4. QED BY <1>3 DEF ResilienceInv

\* What Append and a change of the last element leave.
LEMMA MadeAppended ==
  \A q \in Seq(Made), e \in Made :
    /\ Append(q, e) \in Seq(Made) /\ Len(Append(q, e)) = Len(q) + 1
    /\ Append(q, e)[Len(q) + 1] = e /\ Append(q, e) # <<>>
    /\ \A n \in 1..Len(q) : Append(q, e)[n] = q[n]
OBVIOUS

LEMMA MadeChanged ==
  \A q \in Seq(Made), e \in Made : \A i \in 1..Len(q) :
    /\ [q EXCEPT ![i] = e] \in Seq(Made) /\ Len([q EXCEPT ![i] = e]) = Len(q)
    /\ [q EXCEPT ![i] = e][i] = e /\ [q EXCEPT ![i] = e] # <<>>
    /\ \A n \in 1..Len(q) : n # i => [q EXCEPT ![i] = e][n] = q[n]
OBVIOUS

LEMMA ResilienceStep ==
  ASSUME ResilienceInv, [Support!ResilienceNext]_Support!resilienceVars
  PROVE  ResilienceInv'
<1> USE DEF Support!Places
<1>0. /\ made \in Seq(Made) /\ Len(made) \in Nat /\ DOMAIN made = 1..Len(made)
      /\ asked.attempts \in Nat \ {0} /\ asked.fallbacks \in Nat
      /\ made # <<>> => Len(made) \in 1..Len(made)
  BY DEF ResilienceInv, ResilienceTypes
<1>1. CASE Support!Start
  BY <1>1 DEF Support!Start, Support!Valid, Support!Affirmed, ResilienceInv, ResilienceTypes,
              CallsAsPlanned, StateAsEnded, Support!Plan
<1>2. CASE Support!Call /\ state' = "calling"
  <2> DEFINE new == [call |-> Support!Plan(Len(made) + 1), end |-> "under way"]
  <2>1. /\ made' = Append(made, new) /\ state = "waiting" /\ UNCHANGED asked
    BY <1>2 DEF Support!Call
  <2>2. new \in Made /\ new.end = "under way" /\ new.call = Support!Plan(Len(made) + 1)
    <3>1. Support!Plan(Len(made) + 1) \in Nat
      BY <1>0 DEF Support!Plan
    <3>2. "under way" \in Ends
      BY DEF Ends
    <3>3. QED BY <3>1, <3>2 DEF Made
  <2> HIDE DEF new
  <2>3. /\ made' # <<>> /\ made' \in Seq(Made) /\ Len(made') = Len(made) + 1
        /\ DOMAIN made' = 1..Len(made')
        /\ made'[Len(made')] = new /\ \A n \in 1..Len(made) : made'[n] = made[n]
    <3>1. made \in Seq(Made) /\ new \in Made /\ made' = Append(made, new)
      BY <1>0, <2>1, <2>2
    <3>2. QED BY <1>0, <3>1, MadeAppended
  <2>4. ResilienceTypes'
    BY <1>2, <2>1, <2>3 DEF ResilienceInv, ResilienceTypes, StateAsEnded
  <2>5. CallsAsPlanned'
    <3>1. \A n \in DOMAIN made' : made'[n].call = Support!Plan(n)'
      <4>1. ASSUME NEW n \in 1..Len(made') PROVE made'[n].call = Support!Plan(n)'
        <5>1. CASE n = Len(made) + 1
          BY <1>0, <2>1, <2>2, <2>3, <5>1 DEF Support!Plan
        <5>2. CASE n # Len(made) + 1
          <6>1. n \in 1..Len(made)
            BY <1>0, <2>3, <5>2
          <6>2. QED BY <1>0, <2>1, <2>3, <6>1 DEF ResilienceInv, CallsAsPlanned, Support!Plan
        <5>3. QED BY <5>1, <5>2
      <4>2. QED BY <2>3, <4>1
    <3>2. \A n \in DOMAIN made' : n < Len(made') => made'[n].end = "listed"
      BY <2>1, <2>3 DEF ResilienceInv, CallsAsPlanned, StateAsEnded
    <3>3. Len(made') > 1 => asked'.safe
      BY <2>1, <2>3 DEF ResilienceInv, ResilienceTypes, StateAsEnded, Support!Affirmed
    <3>4. QED BY <3>1, <3>2, <3>3 DEF CallsAsPlanned
  <2>6. StateAsEnded'
    BY <1>0, <1>2, <2>1, <2>2, <2>3 DEF ResilienceInv, StateAsEnded, Support!Affirmed
  <2>7. QED BY <2>4, <2>5, <2>6 DEF ResilienceInv
<1>3. CASE Support!Call /\ state' # "calling"
  <2>1. /\ state = "waiting" /\ state' = "raised" /\ UNCHANGED <<asked, made>>
        /\ made # <<>> /\ Len(made) < asked.attempts
    <3>1. made = <<>> => Len(made) = 0
      OBVIOUS
    <3>2. /\ state = "waiting" /\ state' = "raised" /\ UNCHANGED <<asked, made>>
          /\ Len(made) \in 1..(asked.attempts - 1)
      BY <1>3 DEF Support!Call
    <3>3. QED BY <1>0, <3>1, <3>2
  <2>2. ResilienceTypes'
    BY <2>1 DEF ResilienceInv, ResilienceTypes
  <2>3. CallsAsPlanned'
    BY <2>1 DEF ResilienceInv, CallsAsPlanned, Support!Plan
  <2>4. StateAsEnded'
    BY <2>1 DEF ResilienceInv, StateAsEnded
  <2>5. QED BY <2>2, <2>3, <2>4 DEF ResilienceInv
<1>4. ASSUME NEW end \in Support!Outcomes, Support!Answer(end) PROVE ResilienceInv'
  <2>1. /\ state = "calling" /\ UNCHANGED asked /\ made' = [made EXCEPT ![Len(made)].end = end]
        /\ state' = IF end = "value" THEN "returned"
                    ELSE IF Len(made) = Support!Places \/ end # "listed" THEN "raised"
                    ELSE "waiting"
    BY <1>4 DEF Support!Answer, Support!Last, Support!Retryable
  <2>2. made \in Seq(Made) /\ Len(made) \in 1..Len(made) /\ Len(made) <= Support!Places
    BY <1>0, <2>1 DEF ResilienceInv, ResilienceTypes, StateAsEnded
  <2>3. /\ made' \in Seq(Made) /\ Len(made') = Len(made) /\ made' # <<>>
        /\ \A n \in 1..Len(made) : made'[n].call = made[n].call
        /\ \A n \in 1..Len(made) : n # Len(made) => made'[n] = made[n]
        /\ made'[Len(made)].end = end
    <3> DEFINE last == [made[Len(made)] EXCEPT !.end = end]
    <3>1. made[Len(made)] \in Made
      BY <2>2
    <3>2. end \in Ends
      BY <1>4 DEF Ends
    <3>3. last \in Made /\ last.end = end /\ last.call = made[Len(made)].call
      BY <3>1, <3>2 DEF Made
    <3>4. made' = [made EXCEPT ![Len(made)] = last]
      BY <2>1
    <3> HIDE DEF last
    <3>5. /\ made' \in Seq(Made) /\ made' # <<>> /\ Len(made') = Len(made) /\ made'[Len(made)] = last
          /\ \A n \in 1..Len(made) : n # Len(made) => made'[n] = made[n]
      <4>1. made \in Seq(Made) /\ last \in Made /\ Len(made) \in 1..Len(made)
        BY <1>0, <2>2, <3>3
      <4>2. QED BY <3>4, <4>1, MadeChanged
    <3>6. QED BY <2>2, <3>3, <3>5
  <2>4. ResilienceTypes'
    BY <2>1, <2>3 DEF ResilienceInv, ResilienceTypes
  <2>5. CallsAsPlanned'
    BY <2>1, <2>3 DEF ResilienceInv, CallsAsPlanned, Support!Plan
  <2>6. StateAsEnded'
    <3>1. CASE state' = "waiting"
      <4>1. end = "listed" /\ Len(made) # asked.attempts + asked.fallbacks
        BY <2>1, <3>1
      <4>2. Len(made') < Support!Places'
        BY <1>0, <2>1, <2>2, <2>3, <4>1
      <4>3. Support!Affirmed
        BY <2>1 DEF ResilienceInv, StateAsEnded
      <4>4. Support!Affirmed'
        BY <2>1, <4>3 DEF Support!Affirmed
      <4>5. QED BY <2>3, <3>1, <4>1, <4>2, <4>4 DEF StateAsEnded
    <3>2. CASE state' = "returned"
      BY <1>0, <2>1, <2>2, <2>3, <3>2 DEF StateAsEnded
    <3>3. CASE state' = "raised"
      <4>1. end \notin {"value", "under way"}
        BY <1>4, <2>1, <3>3 DEF Support!Outcomes
      <4>2. QED BY <1>0, <2>1, <2>2, <2>3, <3>3, <4>1 DEF StateAsEnded
    <3>4. QED BY <2>1, <3>1, <3>2, <3>3
  <2>7. QED BY <2>4, <2>5, <2>6 DEF ResilienceInv
<1>5. CASE UNCHANGED Support!resilienceVars
  BY <1>5 DEF Support!resilienceVars, ResilienceInv, ResilienceTypes, CallsAsPlanned,
              StateAsEnded, Support!Plan, Support!Affirmed
<1>6. QED BY <1>1, <1>2, <1>3, <1>4, <1>5 DEF Support!ResilienceNext

\* The calls of the plan up to one of a fallback: every attempt, and each fallback
\* before it once.
LEMMA PlanCounts ==
  ASSUME ResilienceInv, NEW n \in DOMAIN made, made[n].call > 0,
         NEW c \in 0..(made[n].call - 1)
  PROVE  Cardinality({m \in DOMAIN made : made[m].call = c})
           = IF c = 0 THEN asked.attempts ELSE 1
<1>1. /\ DOMAIN made = 1..Len(made) /\ n \in Nat /\ asked.attempts \in Nat \ {0} /\ c \in Nat
      /\ Len(made) \in Nat
  BY DEF ResilienceInv, ResilienceTypes
<1>2. n > asked.attempts /\ c < n - asked.attempts /\ n <= Len(made)
  BY <1>1 DEF ResilienceInv, CallsAsPlanned, Support!Plan
<1>3. \A m \in 1..Len(made) :
        made[m].call = IF m <= asked.attempts THEN 0 ELSE m - asked.attempts
  BY <1>1 DEF ResilienceInv, CallsAsPlanned, Support!Plan
<1>4. CASE c = 0
  <2>1. {m \in DOMAIN made : made[m].call = c} = 1..asked.attempts
    BY <1>1, <1>2, <1>3, <1>4
  <2>2. Cardinality(1..asked.attempts) = asked.attempts
    <3>1. 1 \in Int /\ asked.attempts \in Int
      BY <1>1
    <3>2. Cardinality(1..asked.attempts) = IF 1 > asked.attempts THEN 0 ELSE asked.attempts - 1 + 1
      BY <3>1, FS_Interval, Zenon
    <3>3. QED BY <1>1, <3>2
  <2>3. QED BY <1>4, <2>1, <2>2
<1>5. CASE c # 0
  <2>1. {m \in DOMAIN made : made[m].call = c} = {c + asked.attempts}
    BY <1>1, <1>2, <1>3, <1>5
  <2>2. QED BY <1>5, <2>1, FS_Singleton
<1>6. QED BY <1>4, <1>5

LEMMA ResilienceHolds ==
  ASSUME ResilienceConstants PROVE Support!ResilienceSpec => []ResilienceInv
BY ResilienceStarts, ResilienceStep, PTL DEF Support!ResilienceSpec

\* A second call is made only where the caller said that is safe, and only after one that
\* ended with an error it lists.
THEOREM SecondCallsAreEarned ==
  ASSUME ResilienceConstants
  PROVE  Support!ResilienceSpec => []Support!SecondCallIsEarned
<1>1. ResilienceInv => Support!SecondCallIsEarned
  BY DEF ResilienceInv, ResilienceTypes, CallsAsPlanned, Support!SecondCallIsEarned
<1>2. QED BY <1>1, ResilienceHolds, PTL

\* Every attempt of the primary comes before a fallback, each fallback before the next, and
\* an error is raised only when no call is left that it allows.
THEOREM PlansAreFollowed ==
  ASSUME ResilienceConstants
  PROVE  Support!ResilienceSpec => []Support!PlanIsFollowed
<1>1. ASSUME ResilienceInv PROVE Support!PlanIsFollowed
  <2>1. DOMAIN made = 1..Len(made) /\ Len(made) \in Nat /\ asked.attempts \in Nat \ {0}
    BY <1>1 DEF ResilienceInv, ResilienceTypes
  <2>2. \A m, n \in DOMAIN made : m <= n => made[m].call <= made[n].call
    BY <1>1, <2>1 DEF ResilienceInv, CallsAsPlanned, Support!Plan
  <2>3. \A n \in DOMAIN made : made[n].call > 0 =>
          \A c \in 0..(made[n].call - 1) :
            Cardinality({m \in DOMAIN made : made[m].call = c})
              = IF c = 0 THEN asked.attempts ELSE 1
    BY <1>1, PlanCounts
  <2>4. state = "returned" <=> \E n \in DOMAIN made : made[n].end = "value"
    <3>1. ASSUME NEW n \in DOMAIN made, made[n].end = "value" PROVE state = "returned"
      <4>1. n = Len(made) /\ made # <<>>
        BY <1>1, <2>1, <3>1 DEF ResilienceInv, CallsAsPlanned
      <4>2. QED BY <1>1, <3>1, <4>1 DEF ResilienceInv, ResilienceTypes, StateAsEnded
    <3>2. state = "returned" => Len(made) \in DOMAIN made /\ made[Len(made)].end = "value"
      BY <1>1, <2>1 DEF ResilienceInv, ResilienceTypes, StateAsEnded
    <3>3. QED BY <3>1, <3>2
  <2>5. state = "raised" /\ made[Len(made)].end = "listed" =>
          Len(made) = Support!Places \/ Len(made) < asked.attempts
    BY <1>1 DEF ResilienceInv, StateAsEnded
  <2>6. QED BY <2>2, <2>3, <2>4, <2>5, SameCount, Zenon DEF Support!PlanIsFollowed
<1>2. QED BY <1>1, ResilienceHolds, PTL

--------------------------------------------------------------------------------
(* EpistemicGraphDecisionRunner: the question on the engine's loop and the caller that
   may no longer wait for it.  *)

Answered == {"log", "settle", "done"}
Executed == {"acted", "explored"}

\* A function of the calls; the record of a question that has its answer, whole.
DecisionShape ==
    /\ DOMAIN caller = DOMAIN Calls /\ DOMAIN task = DOMAIN Calls
    /\ \A c \in DOMAIN Calls :
         /\ task[c].at \in Answered =>
              task[c] = [at |-> task[c].at, answer |-> task[c].answer, reading |-> task[c].reading]
         /\ caller[c].at = "idle" => task[c].at = "none"
         /\ task[c].at \in {"decide", "log"} => Calls[c].bound

\* What an answer was read as is an option of the call that this answer executed.
ReadingIsOwn ==
    \A c \in DOMAIN Calls : task[c].at \in Answered /\ task[c].reading.option # None =>
        /\ task[c].reading.option \in Calls[c].offered
        /\ task[c].answer.option = task[c].reading.option
        /\ task[c].answer.kind \in Executed

\* A decided choice is the reading of the question, which is over.
ChoiceIsRead ==
    \A c \in DOMAIN Calls : caller[c].at = "done" =>
        IF caller[c].choice.decided
        THEN /\ task[c].at = "done" /\ task[c].reading.option # None
             /\ caller[c].choice.option = task[c].reading.option
        ELSE caller[c].choice.option = Calls[c].pick

\* A record is of the answer its question has; an answer that is always kept is not lost.
LogIsOwn ==
    /\ \A r \in log :
         /\ r = [call |-> r.call, answer |-> r.answer] /\ r.call \in DOMAIN Calls
         /\ task[r.call].at \in {"settle", "done"} /\ task[r.call].answer = r.answer
         /\ Calls[r.call].mode # "never" /\ Calls[r.call].bound
    /\ \A c \in DOMAIN Calls :
         task[c].at \in {"settle", "done"} /\ task[c].answer # None
           /\ Calls[c].mode = "always" =>
         \/ c \in unlogged \/ task[c].answer.kind = "empty"
         \/ [call |-> c, answer |-> task[c].answer] \in log

DecisionInv ==
    /\ Support!DecisionTypeOK /\ DecisionShape /\ ReadingIsOwn /\ ChoiceIsRead /\ LogIsOwn

LEMMA DecisionStarts == Support!DecisionInit => DecisionInv
<1> SUFFICES ASSUME Support!DecisionInit PROVE DecisionInv
  OBVIOUS
<1>1. Support!DecisionTypeOK
  BY DEF Support!DecisionInit, Support!DecisionTypeOK, Support!DecisionIdle, Support!NoTask
<1>2. DecisionShape /\ ReadingIsOwn /\ ChoiceIsRead /\ LogIsOwn
  BY DEF Support!DecisionInit, Support!DecisionIdle, Support!NoTask, DecisionShape,
         ReadingIsOwn, ChoiceIsRead, LogIsOwn, Answered
<1>3. QED BY <1>1, <1>2 DEF DecisionInv

\* What the engine may answer is read as one of the call's options that it executed,
\* or as none.
LEMMA ReadAsOffered ==
  ASSUME NEW c, NEW a, NEW r, r = Support!DecisionRead(c, a)
  PROVE  /\ r = [option |-> r.option, reason |-> r.reason]
         /\ r.option # None => /\ r.option \in Calls[c].offered /\ a.option = r.option
                               /\ a.kind \in Executed
BY DEF Support!DecisionRead, Support!Reading, Executed

\* What each kind of step leaves of the others.
LEMMA DecisionFrame ==
  ASSUME DecisionInv, NEW c \in DOMAIN Calls, NEW t, NEW d \in DOMAIN Calls
  PROVE  /\ DOMAIN [task EXCEPT ![c] = t] = DOMAIN Calls
         /\ DOMAIN [caller EXCEPT ![c] = t] = DOMAIN Calls
         /\ [task EXCEPT ![c] = t][d] = IF d = c THEN t ELSE task[d]
         /\ [caller EXCEPT ![c] = t][d] = IF d = c THEN t ELSE caller[d]
BY DEF DecisionInv, DecisionShape

\* A question moves on, and its caller with it or not, while the log stays.
LEMMA DecisionMove ==
  ASSUME DecisionInv, NEW c \in DOMAIN Calls,
         DOMAIN task' = DOMAIN Calls, DOMAIN caller' = DOMAIN Calls,
         \A d \in DOMAIN Calls \ {c} : task'[d] = task[d] /\ caller'[d] = caller[d],
         UNCHANGED <<log, unlogged>>, loop' \in {"up", "closed"},
         caller'[c].at \in {"idle", "waiting", "done"}, task'[c].at \in {"none", "decide"} \cup Answered,
         task'[c].at \in Answered => task'[c] = [at |-> task'[c].at, answer |-> task'[c].answer, reading |-> task'[c].reading],
         caller'[c].at = "idle" => task'[c].at = "none",
         task'[c].at \in {"decide", "log"} => Calls[c].bound,
         task'[c].at \in Answered /\ task'[c].reading.option # None =>
           /\ task'[c].reading.option \in Calls[c].offered /\ task'[c].answer.option = task'[c].reading.option
           /\ task'[c].answer.kind \in Executed,
         caller'[c].at = "done" =>
           IF caller'[c].choice.decided
           THEN /\ task'[c].at = "done" /\ task'[c].reading.option # None /\ caller'[c].choice.option = task'[c].reading.option
           ELSE caller'[c].choice.option = Calls[c].pick,
         \/ task'[c] = task[c]
         \/ task[c].at \in {"none", "decide"} /\ (task'[c].at = "settle" => task'[c].answer = None)
              /\ task'[c].at # "done"
         \/ task[c].at = "settle" /\ task'[c].at = "done" /\ task'[c].answer = task[c].answer
  PROVE  DecisionInv'
<1>1. Support!DecisionTypeOK'
  BY DEF DecisionInv, Support!DecisionTypeOK, Answered
<1>2. DecisionShape'
  BY DEF DecisionInv, DecisionShape
<1>3. ReadingIsOwn'
  BY DEF DecisionInv, ReadingIsOwn
<1>4. ChoiceIsRead'
  BY DEF DecisionInv, ChoiceIsRead
<1>5. LogIsOwn'
  <2>1. \A d \in DOMAIN Calls :
          task[d].at \in {"settle", "done"} =>
            task'[d].at \in {"settle", "done"} /\ task'[d].answer = task[d].answer
    OBVIOUS
  <2>2. \A d \in DOMAIN Calls :
          task'[d].at \in {"settle", "done"} =>
            \/ task[d].at \in {"settle", "done"} /\ task'[d].answer = task[d].answer
            \/ task'[d].answer = None
    OBVIOUS
  <2>3. QED BY <2>1, <2>2 DEF DecisionInv, LogIsOwn
<1>6. QED BY <1>1, <1>2, <1>3, <1>4, <1>5 DEF DecisionInv

LEMMA DecisionStep ==
  ASSUME DecisionInv, NEW c \in DOMAIN Calls,
         Support!Step(c)
  PROVE  DecisionInv'
<1>0. /\ caller[c].at \in {"idle", "waiting", "done"} /\ loop \in {"up", "closed"}
      /\ task[c].at \in {"none", "decide"} \cup Answered
      /\ caller[c].at = "idle" => task[c].at = "none"
      /\ task[c].at \in {"decide", "log"} => Calls[c].bound
      /\ task[c].at \in Answered =>
           task[c] = [at |-> task[c].at, answer |-> task[c].answer, reading |-> task[c].reading]
      /\ task[c].at \in Answered /\ task[c].reading.option # None =>
           /\ task[c].reading.option \in Calls[c].offered
           /\ task[c].answer.option = task[c].reading.option
           /\ task[c].answer.kind \in Executed
      /\ caller[c].at = "done" =>
           IF caller[c].choice.decided
           THEN /\ task[c].at = "done" /\ task[c].reading.option # None
                /\ caller[c].choice.option = task[c].reading.option
           ELSE caller[c].choice.option = Calls[c].pick
  BY DEF DecisionInv, DecisionShape, ReadingIsOwn, ChoiceIsRead, Support!DecisionTypeOK, Answered
<1>1. CASE Support!Choose(c)
  <2>1. caller[c].at = "idle" /\ task[c].at = "none" /\ UNCHANGED <<loop, log, unlogged>>
    BY <1>1, <1>0 DEF Support!Choose, Support!DecisionIdle
  <2>2. CASE Support!Asked(c) /\ Support!MayBlock(c)
    <3> DEFINE u == [at |-> "waiting"]
               t == IF Calls[c].bound THEN [at |-> "decide"]
                    ELSE [at |-> "settle", answer |-> None,
                          reading |-> [option |-> None, reason |-> "unbound"]]
    <3>1. caller' = [caller EXCEPT ![c] = u] /\ task' = [task EXCEPT ![c] = t]
      BY <1>1, <2>2 DEF Support!Choose, Support!Reading
    <3>2. /\ t.at \in {"decide", "settle"} /\ u.at = "waiting"
          /\ t.at = "settle" => /\ t.answer = None /\ t.reading.option = None
                                /\ t = [at |-> t.at, answer |-> t.answer, reading |-> t.reading]
          /\ t.at = "decide" => Calls[c].bound
      OBVIOUS
    <3> HIDE DEF t, u
    <3>3. QED BY <2>1, <3>1, <3>2, DecisionFrame, DecisionMove, <1>0 DEF Answered
  <2>3. CASE ~(Support!Asked(c) /\ Support!MayBlock(c))
    <3> DEFINE u == [at |-> "done", choice |-> [option |-> Calls[c].pick, decided |-> FALSE,
                                             reason |-> "unasked"]]
    <3>1. caller' = [caller EXCEPT ![c] = u] /\ task' = task
      BY <1>1, <2>3 DEF Support!Choose, Support!Return, Support!Fallback, Support!Choice
    <3>2. u.at = "done" /\ ~u.choice.decided /\ u.choice.option = Calls[c].pick
      OBVIOUS
    <3> HIDE DEF u
    <3>3. QED BY <2>1, <3>1, <3>2, DecisionFrame, DecisionMove, <1>0 DEF Answered
  <2>4. QED BY <2>2, <2>3
<1>2. CASE Support!Decide(c)
  <2>1. PICK a, r : /\ task' = [task EXCEPT ![c] = [at |-> "log", answer |-> a, reading |-> r]]
                    /\ r = Support!DecisionRead(c, a)
    BY <1>2 DEF Support!Decide
  <2> DEFINE t == [at |-> "log", answer |-> a, reading |-> r]
  <2>2. /\ t.at = "log" /\ t.reading = r /\ t.answer = a
        /\ t = [at |-> t.at, answer |-> t.answer, reading |-> t.reading]
    OBVIOUS
  <2>3. UNCHANGED <<caller, loop, log, unlogged>> /\ task[c].at = "decide"
    BY <1>2 DEF Support!Decide
  <2>4. task' = [task EXCEPT ![c] = t]
    BY <2>1
  <2> HIDE DEF t
  <2>5. QED BY <2>1, <2>2, <2>3, <2>4, ReadAsOffered, DecisionFrame, DecisionMove, <1>0
            DEF Answered
<1>3. CASE Support!DecideFails(c)
  <2> DEFINE t == [at |-> "settle", answer |-> None,
                   reading |-> [option |-> None, reason |-> "unavailable"]]
  <2>1. /\ t.at = "settle" /\ t.reading.option = None /\ t.answer = None
        /\ t = [at |-> t.at, answer |-> t.answer, reading |-> t.reading]
    OBVIOUS
  <2>2. /\ UNCHANGED <<caller, loop, log, unlogged>> /\ task[c].at = "decide"
        /\ task' = [task EXCEPT ![c] = t]
    BY <1>3 DEF Support!DecideFails, Support!Reading
  <2> HIDE DEF t
  <2>3. QED BY <2>1, <2>2, DecisionFrame, DecisionMove, <1>0 DEF Answered
<1>4. CASE Support!Log(c)
  <2> DEFINE t == [task[c] EXCEPT !.at = "settle"]
  <2>1. /\ task[c].at = "log" /\ task' = [task EXCEPT ![c] = t] /\ UNCHANGED <<caller, loop>>
        /\ \/ /\ Support!Loggable(c, task[c].answer) /\ UNCHANGED unlogged
              /\ log' = log \cup {[call |-> c, answer |-> task[c].answer]}
           \/ unlogged' = unlogged \cup {c} /\ UNCHANGED log
           \/ ~Support!Loggable(c, task[c].answer) /\ UNCHANGED <<log, unlogged>>
    BY <1>4 DEF Support!Log
  <2>2. /\ t.at = "settle" /\ t.reading = task[c].reading /\ t.answer = task[c].answer
        /\ t = [at |-> t.at, answer |-> t.answer, reading |-> t.reading]
        /\ Calls[c].bound
    BY <2>1, <1>0 DEF Answered
  <2> HIDE DEF t
  <2>3. /\ DOMAIN task' = DOMAIN Calls /\ task'[c] = t
        /\ \A d \in DOMAIN Calls \ {c} : task'[d] = task[d]
    BY <2>1, DecisionFrame
  <2>4. Support!DecisionTypeOK'
    BY <2>1, <2>2, <2>3 DEF DecisionInv, Support!DecisionTypeOK
  <2>5. DecisionShape'
    BY <2>1, <2>2, <2>3 DEF DecisionInv, DecisionShape
  <2>6. ReadingIsOwn'
    BY <2>1, <2>2, <2>3 DEF DecisionInv, ReadingIsOwn, Answered
  <2>7. ChoiceIsRead'
    BY <2>1, <2>2, <2>3 DEF DecisionInv, ChoiceIsRead
  <2>8. LogIsOwn'
    <3>1. ASSUME NEW r \in log'
          PROVE  /\ r = [call |-> r.call, answer |-> r.answer] /\ r.call \in DOMAIN Calls
                 /\ task'[r.call].at \in {"settle", "done"} /\ task'[r.call].answer = r.answer
                 /\ Calls[r.call].mode # "never" /\ Calls[r.call].bound
      <4>1. CASE r \in log
        BY <2>1, <2>2, <2>3, <4>1 DEF DecisionInv, LogIsOwn
      <4>2. CASE r \notin log
        BY <2>1, <2>2, <2>3, <4>2 DEF Support!Loggable
      <4>3. QED BY <4>1, <4>2
    <3>2. ASSUME NEW d \in DOMAIN Calls, task'[d].at \in {"settle", "done"},
                 task'[d].answer # None, Calls[d].mode = "always"
          PROVE  \/ d \in unlogged' \/ task'[d].answer.kind = "empty"
                 \/ [call |-> d, answer |-> task'[d].answer] \in log'
      <4>1. CASE d = c
        BY <2>1, <2>2, <2>3, <3>2, <4>1 DEF Support!Loggable
      <4>2. CASE d # c
        BY <2>1, <2>3, <3>2, <4>2 DEF DecisionInv, LogIsOwn
      <4>3. QED BY <4>1, <4>2
    <3>3. QED BY <3>1, <3>2 DEF LogIsOwn
  <2>9. QED BY <2>4, <2>5, <2>6, <2>7, <2>8 DEF DecisionInv
<1>5. CASE Support!Settle(c)
  <2> DEFINE t == [task[c] EXCEPT !.at = "done"]
             u == IF caller[c].at = "waiting"
                  THEN [at |-> "done", choice |-> Support!Settled(c, task[c].reading)]
                  ELSE caller[c]
  <2>1. /\ task[c].at = "settle" /\ task' = [task EXCEPT ![c] = t]
        /\ UNCHANGED <<loop, log, unlogged>>
        /\ caller[c].at = "waiting" => caller' = [caller EXCEPT ![c] = u]
        /\ caller[c].at # "waiting" => UNCHANGED caller
    BY <1>5 DEF Support!Settle, Support!Return
  <2>2. /\ t.at = "done" /\ t.reading = task[c].reading /\ t.answer = task[c].answer
        /\ t = [at |-> t.at, answer |-> t.answer, reading |-> t.reading]
    BY <2>1, <1>0 DEF Answered
  <2>3. /\ u.at \in {"idle", "waiting", "done"} /\ u.at # "idle"
        /\ u.at = "done" => IF u.choice.decided
                            THEN /\ task[c].reading.option # None
                                 /\ u.choice.option = task[c].reading.option
                            ELSE u.choice.option = Calls[c].pick
    BY <2>1, <1>0 DEF Support!Settled, Support!Choice, Support!Fallback
  <2>4. /\ DOMAIN caller' = DOMAIN Calls /\ caller'[c] = u
        /\ \A d \in DOMAIN Calls \ {c} : caller'[d] = caller[d]
    BY <2>1, DecisionFrame DEF DecisionInv, DecisionShape
  <2> HIDE DEF t, u
  <2>5. QED BY <2>1, <2>2, <2>3, <2>4, DecisionFrame, DecisionMove, <1>0 DEF Answered
<1>6. CASE Support!Timeout(c)
  <2> DEFINE u == [at |-> "done", choice |-> [option |-> Calls[c].pick, decided |-> FALSE,
                                           reason |-> "unavailable"]]
  <2>1. caller' = [caller EXCEPT ![c] = u] /\ task' = task
    BY <1>6 DEF Support!Timeout, Support!Return, Support!Fallback, Support!Choice
  <2>2. u.at = "done" /\ ~u.choice.decided /\ u.choice.option = Calls[c].pick
    OBVIOUS
  <2> HIDE DEF u
  <2>3. UNCHANGED <<loop, log, unlogged>> /\ caller[c].at = "waiting"
    BY <1>6 DEF Support!Timeout
  <2>4. QED BY <2>1, <2>2, <2>3, DecisionFrame, DecisionMove, <1>0 DEF Answered
<1>7. QED BY <1>1, <1>2, <1>3, <1>4, <1>5, <1>6 DEF Support!Step

LEMMA DecisionKept ==
  ASSUME DecisionInv, [Support!DecisionNext]_Support!decisionVars
  PROVE  DecisionInv'
<1>1. CASE \E c \in DOMAIN Calls : Support!Step(c)
  BY <1>1, DecisionStep
<1>2. CASE Support!CloseLoop
  BY <1>2 DEF Support!CloseLoop, DecisionInv, Support!DecisionTypeOK, DecisionShape,
              ReadingIsOwn, ChoiceIsRead, LogIsOwn
<1>3. CASE UNCHANGED Support!decisionVars
  BY <1>3 DEF Support!decisionVars, DecisionInv, Support!DecisionTypeOK, DecisionShape,
              ReadingIsOwn, ChoiceIsRead, LogIsOwn
<1>4. QED BY <1>1, <1>2, <1>3 DEF Support!DecisionNext

LEMMA DecisionHolds == Support!DecisionSpec => []DecisionInv
BY DecisionStarts, DecisionKept, PTL DEF Support!DecisionSpec

\* A choice is the call site's own, or an option it offered that the engine executed
\* for this very question, whatever answers come late, are strange or never come.
THEOREM ChoicesAreEarned == Support!DecisionSpec => []Support!ChoiceIsEarned
<1>1. DecisionInv => Support!ChoiceIsEarned
  BY DEF DecisionInv, ReadingIsOwn, ChoiceIsRead, Support!ChoiceIsEarned, Answered, Executed
<1>2. QED BY <1>1, DecisionHolds, PTL

\* A decision that is acted on has its record in the log or its loss told, one at most,
\* and none is of a point that keeps no records.
THEOREM DecisionsAreLogged == Support!DecisionSpec => []Support!DecisionIsLogged
<1>1. ASSUME DecisionInv PROVE Support!DecisionIsLogged
  <2>1. \A r, s \in log : r.call = s.call => r = s
    BY <1>1 DEF DecisionInv, LogIsOwn
  <2>2. QED BY <1>1, <2>1 DEF DecisionInv, ChoiceIsRead, LogIsOwn, Support!DecisionIsLogged
<1>2. QED BY <1>1, DecisionHolds, PTL

--------------------------------------------------------------------------------
(* X402PaymentClient and PaymentGuard: what is counted when a payment is recorded, and
   what a host that follows the workflow can rely on. *)

\* Amounts and limits are natural numbers, and no payment is the value for "none".
PaymentConstants ==
    /\ \A c \in Challenges : c.amount \in Nat
    /\ Single \in Nat /\ Daily \in Nat /\ Monthly \in Nat
    /\ None \notin Nat

Payment == [challenge : Challenges, proved : BOOLEAN, granted : BOOLEAN]
Entry == [payment : Nat, status : {"confirmed", "failed"}]

PaymentTypes ==
    /\ payments \in Seq(Payment) /\ records \in Seq(Entry)
    /\ daily \in Nat /\ monthly \in Nat /\ strayed \in BOOLEAN
    /\ \A n \in DOMAIN records : records[n].payment \in DOMAIN payments

\* A confirmed record has a proof of its own.
RecordsAreProved ==
    \A n \in Support!Confirmed :
        payments[records[n].payment].proved /\ payments[records[n].payment].challenge.named

CountIsTrue ==
    IsFiniteSet(Support!Confirmed) /\ count = Cardinality(Support!Confirmed)

\* What the limits on a single payment allow.
Payable(c) ==
    c.amount <= Single /\ c.amount <= Approval /\ <<c.currency, c.chain>> \in Allowed

\* While the host keeps to the workflow, the one payment that is approved still fits.
PendingFits ==
    ~strayed =>
      /\ daily <= Daily /\ monthly <= Monthly
      /\ \A n \in Support!Confirmed : Payable(payments[records[n].payment].challenge)
      /\ \A p, q \in Support!Pending : p = q
      /\ \A p \in Support!Pending :
           /\ Payable(payments[p].challenge)
           /\ daily + payments[p].challenge.amount <= Daily
           /\ monthly + payments[p].challenge.amount <= Monthly

PaymentInv == PaymentTypes /\ RecordsAreProved /\ CountIsTrue /\ PendingFits

LEMMA PaymentStarts ==
  ASSUME PaymentConstants, Support!PaymentInit PROVE PaymentInv
<1>1. /\ payments = <<>> /\ records = <<>> /\ daily = 0 /\ monthly = 0 /\ count = 0
      /\ strayed = FALSE
  BY DEF Support!PaymentInit
<1>2. payments \in Seq(Payment) /\ records \in Seq(Entry) /\ DOMAIN payments = {} /\ DOMAIN records = {}
  BY <1>1
<1>3. Support!Confirmed = {} /\ Support!Pending = {}
  BY <1>2 DEF Support!Confirmed, Support!Pending
<1>4. CountIsTrue
  BY <1>1, <1>3, FS_EmptySet DEF CountIsTrue
<1>5. PaymentTypes /\ RecordsAreProved
  BY <1>1, <1>2, <1>3 DEF PaymentTypes, RecordsAreProved
<1>6. PendingFits
  BY <1>1, <1>3 DEF PendingFits, PaymentConstants
<1>7. QED BY <1>4, <1>5, <1>6 DEF PaymentInv

\* What Append and a change of one element leave.
LEMMA PaymentsMove ==
  ASSUME payments \in Seq(Payment)
  PROVE  /\ \A e \in Payment :
              /\ Append(payments, e) \in Seq(Payment)
              /\ DOMAIN Append(payments, e) = DOMAIN payments \cup {Len(payments) + 1}
              /\ Append(payments, e)[Len(payments) + 1] = e
              /\ \A n \in DOMAIN payments : Append(payments, e)[n] = payments[n]
         /\ \A p \in DOMAIN payments, e \in Payment :
              /\ [payments EXCEPT ![p] = e] \in Seq(Payment)
              /\ DOMAIN [payments EXCEPT ![p] = e] = DOMAIN payments
              /\ [payments EXCEPT ![p] = e][p] = e
              /\ \A n \in DOMAIN payments : n # p => [payments EXCEPT ![p] = e][n] = payments[n]
         /\ DOMAIN payments = 1..Len(payments) /\ Len(payments) \in Nat
         /\ Len(payments) + 1 \notin DOMAIN payments
         /\ \A p \in DOMAIN payments : payments[p] \in Payment
OBVIOUS

LEMMA RecordsMove ==
  ASSUME records \in Seq(Entry), NEW e \in Entry
  PROVE  /\ Append(records, e) \in Seq(Entry)
         /\ DOMAIN Append(records, e) = DOMAIN records \cup {Len(records) + 1}
         /\ Append(records, e)[Len(records) + 1] = e
         /\ \A n \in DOMAIN records : Append(records, e)[n] = records[n]
         /\ Len(records) + 1 \notin DOMAIN records
OBVIOUS

\* A payment that moves on, with nothing recorded: a proof stays, and what is newly
\* approved fits and was approved alone, or the host strays.
LEMMA PaymentMove ==
  ASSUME PaymentConstants, PaymentInv, NEW p \in DOMAIN payments, NEW e \in Payment,
         payments' = [payments EXCEPT ![p] = e],
         UNCHANGED <<daily, monthly, count, records>>,
         e.challenge = payments[p].challenge, payments[p].proved => e.proved,
         strayed' \in BOOLEAN, strayed => strayed',
         e.granted =>
           \/ payments[p].granted
           \/ /\ Payable(e.challenge) /\ Support!Fits(e.challenge.amount)
              /\ ~strayed' => Support!Pending \ {p} = {}
  PROVE  PaymentInv'
<1>1. /\ payments \in Seq(Payment) /\ records \in Seq(Entry) /\ daily \in Nat /\ monthly \in Nat
      /\ \A n \in DOMAIN records : records[n].payment \in DOMAIN payments
  BY DEF PaymentInv, PaymentTypes
<1>2. /\ payments' \in Seq(Payment) /\ DOMAIN payments' = DOMAIN payments
      /\ payments'[p] = e /\ \A n \in DOMAIN payments : n # p => payments'[n] = payments[n]
  BY <1>1, PaymentsMove
<1>3. Support!Confirmed' = Support!Confirmed /\ Support!Confirmed \subseteq DOMAIN records
  BY DEF Support!Confirmed
<1>4. PaymentTypes'
  BY <1>1, <1>2 DEF PaymentTypes
<1>5. RecordsAreProved'
  BY <1>1, <1>2, <1>3 DEF PaymentInv, RecordsAreProved
<1>6. CountIsTrue'
  BY <1>3 DEF PaymentInv, CountIsTrue
<1>7. PendingFits'
  <2>1. SUFFICES ASSUME ~strayed' PROVE PendingFits'
    BY DEF PendingFits
  <2>2. ~strayed
    BY <2>1
  <2>3. /\ \A n \in Support!Confirmed : Payable(payments'[records[n].payment].challenge)
        /\ daily <= Daily /\ monthly <= Monthly
    BY <1>1, <1>2, <1>3, <2>2 DEF PaymentInv, PendingFits
  <2>4. \A q \in Support!Pending' : q = p \/ q \in Support!Pending
    BY <1>2 DEF Support!Pending
  <2>5. p \in Support!Pending' => e.granted
    BY <1>2 DEF Support!Pending
  <2>6. \A q, r \in Support!Pending' : q = r
    BY <2>1, <2>2, <2>4, <2>5 DEF PaymentInv, PendingFits, Support!Pending
  <2>7. \A q \in Support!Pending' :
           /\ Payable(payments'[q].challenge)
           /\ daily + payments'[q].challenge.amount <= Daily
           /\ monthly + payments'[q].challenge.amount <= Monthly
    BY <1>1, <1>2, <2>2, <2>4, <2>5
       DEF PaymentInv, PendingFits, Support!Pending, Support!Fits
  <2>8. QED BY <1>3, <2>1, <2>3, <2>6, <2>7 DEF PendingFits, Payable
<1>8. QED BY <1>4, <1>5, <1>6, <1>7 DEF PaymentInv

LEMMA PaymentHandled ==
  ASSUME PaymentConstants, PaymentInv, NEW c \in Challenges, Support!Handle(c)
  PROVE  PaymentInv'
<1> DEFINE e == [challenge |-> c, proved |-> FALSE, granted |-> FALSE]
           n == Len(payments) + 1
<1>1. /\ payments' = Append(payments, e)
      /\ UNCHANGED <<daily, monthly, count, records, strayed>>
  BY DEF Support!Handle
<1>2. e \in Payment /\ ~e.granted
  BY DEF Payment
<1> HIDE DEF e
<1>3. /\ payments \in Seq(Payment)
      /\ \A m \in DOMAIN records : records[m].payment \in DOMAIN payments
  BY DEF PaymentInv, PaymentTypes
<1>4. /\ payments' \in Seq(Payment) /\ DOMAIN payments' = DOMAIN payments \cup {n}
      /\ payments'[n] = e /\ \A p \in DOMAIN payments : payments'[p] = payments[p]
      /\ n \notin DOMAIN payments
  BY <1>1, <1>2, <1>3, PaymentsMove
<1> HIDE DEF n
<1>5. Support!Confirmed' = Support!Confirmed /\ Support!Confirmed \subseteq DOMAIN records
  BY <1>1 DEF Support!Confirmed
<1>6. PaymentTypes'
  BY <1>1, <1>4 DEF PaymentInv, PaymentTypes
<1>7. RecordsAreProved'
  BY <1>1, <1>3, <1>4, <1>5 DEF PaymentInv, RecordsAreProved
<1>8. CountIsTrue'
  BY <1>1, <1>5 DEF PaymentInv, CountIsTrue
<1>9. PendingFits'
  <2>1. Support!Pending' = Support!Pending /\ Support!Pending \subseteq DOMAIN payments
    BY <1>2, <1>4 DEF Support!Pending
  <2>2. QED BY <1>1, <1>3, <1>4, <1>5, <2>1 DEF PaymentInv, PendingFits, Payable
<1>10. QED BY <1>6, <1>7, <1>8, <1>9 DEF PaymentInv

LEMMA PaymentAuthorized ==
  ASSUME PaymentConstants, PaymentInv, NEW p \in DOMAIN payments, Support!Authorize(p)
  PROVE  PaymentInv'
<1> DEFINE ok == Support!Approved(payments[p].challenge)
           e == [payments[p] EXCEPT !.granted = ok]
<1>1. /\ payments' = [payments EXCEPT ![p] = e]
      /\ strayed' = (strayed \/ (ok /\ Support!Pending \ {p} # {}))
      /\ UNCHANGED <<daily, monthly, count, records>>
  BY DEF Support!Authorize
<1>2. payments[p] \in Payment
  BY PaymentsMove DEF PaymentInv, PaymentTypes
<1>3. ok \in BOOLEAN
  BY DEF Support!Approved
<1>4. ok => Payable(payments[p].challenge) /\ Support!Fits(payments[p].challenge.amount)
  BY DEF Support!Approved, Payable
<1> HIDE DEF ok
<1>5. /\ e \in Payment /\ e.challenge = payments[p].challenge /\ e.proved = payments[p].proved
      /\ e.granted = ok
  BY <1>2, <1>3 DEF Payment
<1> HIDE DEF e
<1>6. strayed' \in BOOLEAN /\ (strayed => strayed')
  BY <1>1
<1>7. ok /\ ~strayed' => Support!Pending \ {p} = {}
  BY <1>1
<1>8. e.granted => /\ Payable(e.challenge) /\ Support!Fits(e.challenge.amount)
                   /\ ~strayed' => Support!Pending \ {p} = {}
  BY <1>4, <1>5, <1>7
<1>9. QED BY <1>1, <1>5, <1>6, <1>8, PaymentMove

LEMMA PaymentSigned ==
  ASSUME PaymentConstants, PaymentInv, NEW p \in DOMAIN payments, Support!CreateProof(p)
  PROVE  PaymentInv'
<1> DEFINE e == [payments[p] EXCEPT !.proved = TRUE]
<1>1. /\ payments' = [payments EXCEPT ![p] = e]
      /\ UNCHANGED <<daily, monthly, count, records, strayed>>
  BY DEF Support!CreateProof
<1>2. payments[p] \in Payment /\ strayed \in BOOLEAN
  BY PaymentsMove DEF PaymentInv, PaymentTypes
<1>3. /\ e \in Payment /\ e.challenge = payments[p].challenge /\ e.proved
      /\ e.granted = payments[p].granted
  BY <1>2 DEF Payment
<1> HIDE DEF e
<1>4. QED BY <1>1, <1>2, <1>3, PaymentMove

\* What is recorded of a payment, and counted if it is confirmed.
LEMMA PaymentRecorded ==
  ASSUME PaymentConstants, PaymentInv, NEW p \in DOMAIN payments, NEW proof \in Support!Proofs,
         NEW status \in {"confirmed", "failed"}, Support!Record(p, proof, status)
  PROVE  PaymentInv'
<1>1. payments[p] \in Payment /\ p \in Nat /\ daily \in Nat /\ monthly \in Nat /\ strayed \in BOOLEAN
  BY PaymentsMove DEF PaymentInv, PaymentTypes
<1>2. CASE status = "confirmed" /\ ~Support!ProofMatches(p, proof)
  BY <1>2 DEF Support!Record, Support!paymentVars, PaymentInv, PaymentTypes, RecordsAreProved,
              CountIsTrue, Support!Confirmed, PendingFits, Support!Pending
<1>3. CASE ~(status = "confirmed" /\ ~Support!ProofMatches(p, proof))
  <2> DEFINE paid == status = "confirmed"
             e == [payments[p] EXCEPT !.granted = FALSE]
             r == [payment |-> p, status |-> status]
             n == Len(records) + 1
             amount == payments[p].challenge.amount
  <2>1. /\ payments' = [payments EXCEPT ![p] = e] /\ records' = Append(records, r)
        /\ daily' = daily + (IF paid THEN amount ELSE 0)
        /\ monthly' = monthly + (IF paid THEN amount ELSE 0)
        /\ count' = count + Support!Cardinality(IF paid THEN {n} ELSE {})
        /\ strayed' = (strayed \/ (paid /\ ~payments[p].granted))
        /\ paid => Support!ProofMatches(p, proof)
    BY <1>3 DEF Support!Record
  <2>2. e \in Payment /\ e.challenge = payments[p].challenge /\ e.proved = payments[p].proved /\ ~e.granted
    BY <1>1 DEF Payment
  <2>3. r \in Entry /\ r.payment = p /\ r.status = status
    BY <1>1 DEF Entry
  <2> HIDE DEF e, r
  <2>4. /\ payments' \in Seq(Payment) /\ DOMAIN payments' = DOMAIN payments
        /\ payments'[p] = e /\ \A q \in DOMAIN payments : q # p => payments'[q] = payments[q]
    BY <2>1, <2>2, PaymentsMove DEF PaymentInv, PaymentTypes
  <2>5. /\ records' \in Seq(Entry) /\ DOMAIN records' = DOMAIN records \cup {n}
        /\ records'[n] = r /\ \A m \in DOMAIN records : records'[m] = records[m]
        /\ n \notin DOMAIN records
    BY <2>1, <2>3, RecordsMove DEF PaymentInv, PaymentTypes
  <2> HIDE DEF n
  <2>6. amount \in Nat
    BY <1>1 DEF PaymentConstants, Payment
  <2>7. /\ Support!Confirmed' = Support!Confirmed \cup (IF paid THEN {n} ELSE {})
        /\ n \notin Support!Confirmed /\ Support!Confirmed \subseteq DOMAIN records
    BY <2>3, <2>5 DEF Support!Confirmed
  <2>8. \A m \in DOMAIN records : records[m].payment \in DOMAIN payments
    BY DEF PaymentInv, PaymentTypes
  <2>9. \A q \in DOMAIN payments :
          payments'[q].challenge = payments[q].challenge /\ payments'[q].proved = payments[q].proved
    BY <2>2, <2>4
  <2>10. daily' \in Nat /\ monthly' \in Nat
    BY <1>1, <2>1, <2>6
  <2>11. PaymentTypes'
    <3>1. strayed' \in BOOLEAN
      BY <1>1, <2>1
    <3>2. QED BY <2>3, <2>4, <2>5, <2>8, <2>10, <3>1 DEF PaymentTypes
  \* A proof that matches is one that was made.
  <2>12. paid => payments[p].proved /\ payments[p].challenge.named
    BY <1>1, <2>1 DEF PaymentConstants, Support!ProofMatches, Support!Proofs
  <2>13. RecordsAreProved'
    BY <2>3, <2>5, <2>7, <2>8, <2>9, <2>12 DEF PaymentInv, RecordsAreProved
  <2>14. CountIsTrue'
    <3>1. IsFiniteSet(Support!Confirmed) /\ count = Cardinality(Support!Confirmed)
      BY DEF PaymentInv, CountIsTrue
    <3>2. CASE paid
      <4>1. IsFiniteSet(Support!Confirmed \cup {n})
            /\ Cardinality(Support!Confirmed \cup {n}) = Cardinality(Support!Confirmed) + 1
        BY <2>7, <3>1, FS_AddElement
      <4>2. Support!Cardinality({n}) = 1
        BY SameCount, FS_Singleton
      <4>3. QED BY <2>1, <2>7, <3>1, <3>2, <4>1, <4>2 DEF CountIsTrue
    <3>3. CASE ~paid
      <4>1. Support!Cardinality({}) = 0
        BY SameCount, FS_EmptySet
      <4>2. Cardinality(Support!Confirmed) \in Nat
        BY <3>1, FS_CardinalityType
      <4>3. QED BY <2>1, <2>7, <3>1, <3>3, <4>1, <4>2 DEF CountIsTrue
    <3>4. QED BY <3>2, <3>3
  <2>15. PendingFits'
    <3>1. SUFFICES ASSUME ~strayed' PROVE PendingFits'
      BY DEF PendingFits
    <3>2. ~strayed /\ (paid => p \in Support!Pending)
      BY <2>1, <3>1 DEF Support!Pending
    <3>3. Support!Pending' = Support!Pending \ {p} /\ Support!Pending \subseteq DOMAIN payments
      BY <2>2, <2>4 DEF Support!Pending
    <3>4. /\ daily <= Daily /\ monthly <= Monthly
          /\ \A m \in Support!Confirmed : Payable(payments[records[m].payment].challenge)
          /\ \A q, s \in Support!Pending : q = s
          /\ \A q \in Support!Pending :
               /\ Payable(payments[q].challenge)
               /\ daily + payments[q].challenge.amount <= Daily
               /\ monthly + payments[q].challenge.amount <= Monthly
      BY <3>2 DEF PaymentInv, PendingFits
    <3>5. \A m \in Support!Confirmed' : Payable(payments'[records'[m].payment].challenge)
      BY <2>3, <2>5, <2>7, <2>8, <2>9, <3>2, <3>4
    <3>6. CASE paid
      <4>1. Support!Pending' = {}
        BY <3>2, <3>3, <3>4, <3>6
      <4>2. daily' <= Daily /\ monthly' <= Monthly
        BY <2>1, <3>2, <3>4, <3>6
      <4>3. QED BY <3>5, <4>1, <4>2 DEF PendingFits, Payable
    <3>7. CASE ~paid
      <4>1. daily' = daily /\ monthly' = monthly
        BY <1>1, <2>1, <3>7
      <4>2. QED BY <2>9, <3>3, <3>4, <3>5, <4>1 DEF PendingFits, Payable
    <3>8. QED BY <3>6, <3>7
  <2>16. QED BY <2>11, <2>13, <2>14, <2>15 DEF PaymentInv
<1>4. QED BY <1>2, <1>3

LEMMA PaymentsReset ==
  ASSUME PaymentConstants, PaymentInv, Support!ResetDaily \/ Support!ResetMonthly
  PROVE  PaymentInv'
<1>1. /\ UNCHANGED <<payments, records, count, strayed>>
      /\ daily' = daily \/ daily' = 0
      /\ monthly' = monthly \/ monthly' = 0
  BY DEF Support!ResetDaily, Support!ResetMonthly
<1>2. /\ daily \in Nat /\ monthly \in Nat /\ Daily \in Nat /\ Monthly \in Nat
      /\ \A p \in DOMAIN payments : payments[p].challenge.amount \in Nat
  BY PaymentsMove DEF PaymentConstants, PaymentInv, PaymentTypes, Payment
<1>3. PaymentTypes' /\ RecordsAreProved' /\ CountIsTrue'
  BY <1>1, <1>2 DEF PaymentInv, PaymentTypes, RecordsAreProved, CountIsTrue, Support!Confirmed
<1>4. PendingFits'
  BY <1>1, <1>2 DEF PaymentInv, PendingFits, Support!Pending, Support!Confirmed, Payable
<1>5. QED BY <1>3, <1>4 DEF PaymentInv

LEMMA PaymentStep ==
  ASSUME PaymentConstants, PaymentInv, [Support!PaymentNext]_Support!paymentVars
  PROVE  PaymentInv'
<1>1. CASE UNCHANGED Support!paymentVars
  BY <1>1 DEF Support!paymentVars, PaymentInv, PaymentTypes, RecordsAreProved, CountIsTrue,
              Support!Confirmed, PendingFits, Support!Pending
<1>2. CASE Support!PaymentNext
  BY <1>2, PaymentHandled, PaymentAuthorized, PaymentSigned, PaymentRecorded, PaymentsReset
     DEF Support!PaymentNext
<1>3. QED BY <1>1, <1>2

LEMMA PaymentHolds ==
  ASSUME PaymentConstants PROVE Support!PaymentSpec => []PaymentInv
BY PaymentStarts, PaymentStep, PTL DEF Support!PaymentSpec

\* What the client gives a host that keeps to its workflow, with one payment at a time
\* approved and confirmed at most once after that: what it spends in a day and in a month
\* stays within the budget, and each payment within the limits, through failed records,
\* renewed approvals and resets.  The hypothesis is the host's: the client checks none of it.
THEOREM BudgetHolds ==
  ASSUME PaymentConstants
  PROVE  Support!PaymentSpec => []Support!WithinBudget
<1>1. ASSUME PaymentInv PROVE Support!WithinBudget
  BY <1>1 DEF PaymentInv, PendingFits, Payable, Support!WithinBudget
<1>2. QED BY <1>1, PaymentHolds, PTL

\* However often and in whatever order a host calls the client: a payment is recorded as
\* confirmed only with a proof made for its own challenge, which has an identifier, and
\* the count of payments is the number of records that are confirmed.
THEOREM ConfirmedAreProved ==
  ASSUME PaymentConstants
  PROVE  Support!PaymentSpec => []Support!ConfirmedIsProved
<1>1. ASSUME PaymentInv PROVE Support!ConfirmedIsProved
  <2>1. count = Support!Cardinality(Support!Confirmed)
    BY <1>1, SameCount DEF PaymentInv, CountIsTrue
  <2>2. QED BY <1>1, <2>1 DEF PaymentInv, RecordsAreProved, Support!ConfirmedIsProved
<1>2. QED BY <1>1, PaymentHolds, PTL

--------------------------------------------------------------------------------
(* The client of foreign reads: what its tables hold while calls are under way, given up
   and answered late.  *)

ForeignConstants == MaxExecutions \in Nat

Steps == {"idle", "opening", "waiting", "sent", "aborting", "ok", "failed"}
Call == [step : Steps, kind : Foreign!Kinds, handle : Handles \cup {None}, seq : Nat,
         reply : {"none", "yes", "no"}, terminal : BOOLEAN]
CallsTyped == call \in [Methods -> Call]

\* What After leaves of each call.
LEMMA AfterCall ==
  ASSUME CallsTyped, NEW c \in Methods, NEW place \in Steps, NEW hs,
         call' = Foreign!After(c, place, hs)
  PROVE  /\ CallsTyped' /\ call'[c].step = place /\ call'[c].reply = "none"
         /\ \A d \in Methods :
              /\ call'[d].kind = call[d].kind /\ call'[d].handle = call[d].handle
              /\ call'[d].seq = call[d].seq
              /\ call'[d].terminal
                   = (call[d].terminal \/ (call[d].step = "waiting" /\ call[d].handle \in hs))
              /\ d # c => call'[d].step = call[d].step /\ call'[d].reply = call[d].reply
<1>1. ASSUME NEW d \in Methods
      PROVE  /\ call'[d] \in Call
             /\ call'[d].step = (IF d = c THEN place ELSE call[d].step)
             /\ call'[d].reply = (IF d = c THEN "none" ELSE call[d].reply)
             /\ call'[d].kind = call[d].kind /\ call'[d].handle = call[d].handle
             /\ call'[d].seq = call[d].seq
             /\ call'[d].terminal
                  = (call[d].terminal \/ (call[d].step = "waiting" /\ call[d].handle \in hs))
  <2> DEFINE s == IF d = c THEN place ELSE call[d].step
             r == IF d = c THEN "none" ELSE call[d].reply
             t == call[d].terminal \/ (call[d].step = "waiting" /\ call[d].handle \in hs)
  <2>1. call'[d] = [call[d] EXCEPT !.step = s, !.reply = r, !.terminal = t]
    BY DEF Foreign!After
  <2>2. call[d] \in Call /\ s \in Steps /\ r \in {"none", "yes", "no"} /\ t \in BOOLEAN
    BY DEF CallsTyped, Call
  <2> HIDE DEF s, r, t
  <2>3. /\ call'[d] \in Call /\ call'[d].step = s /\ call'[d].reply = r /\ call'[d].terminal = t
        /\ call'[d].kind = call[d].kind /\ call'[d].handle = call[d].handle
        /\ call'[d].seq = call[d].seq
    BY <2>1, <2>2 DEF Call
  <2>4. QED BY <2>3 DEF s, r, t
<1>2. DOMAIN call' = Methods /\ call' = [d \in Methods |-> call'[d]]
  BY DEF Foreign!After
<1>3. CallsTyped'
  BY <1>1, <1>2 DEF CallsTyped
<1>4. QED BY <1>1, <1>3

\* What a reply, a give-up and a find leave: every step but the one's own.
LEMMA ReplyCall ==
  ASSUME CallsTyped, NEW r, r.call \in Methods, NEW answer \in {"yes", "no"},
         NEW h \in Handles, Foreign!Reply(r, answer, h)
  PROVE  /\ CallsTyped'
         /\ \A d \in Methods :
              /\ call'[d].step = call[d].step /\ call'[d].kind = call[d].kind
              /\ call'[d].seq = call[d].seq /\ call'[d].terminal = call[d].terminal
              /\ \/ call'[d] = call[d]
                 \/ /\ d = r.call /\ Foreign!Awaits(d) = r.kind /\ call[d].reply = "none"
                    /\ call'[d].reply = answer /\ call'[d].handle = h
<1>1. CASE call' = call
  BY <1>1 DEF CallsTyped
<1>2. CASE /\ Foreign!Awaits(r.call) = r.kind /\ call[r.call].reply = "none"
           /\ call' = [call EXCEPT ![r.call].reply = answer, ![r.call].handle = h]
  <2> DEFINE e == [call[r.call] EXCEPT !.reply = answer, !.handle = h]
  <2>1. /\ e \in Call /\ e.reply = answer /\ e.handle = h /\ e.step = call[r.call].step
        /\ e.kind = call[r.call].kind /\ e.seq = call[r.call].seq
        /\ e.terminal = call[r.call].terminal
    BY DEF CallsTyped, Call
  <2>2. call' = [call EXCEPT ![r.call] = e]
    BY <1>2 DEF CallsTyped
  <2> HIDE DEF e
  <2>3. QED BY <1>2, <2>1, <2>2 DEF CallsTyped
<1>3. QED BY <1>1, <1>2 DEF Foreign!Reply

LEMMA GiveUpCall ==
  ASSUME CallsTyped, NEW c \in Methods, Foreign!GiveUp(c)
  PROVE  /\ CallsTyped' /\ call'[c].reply = "no"
         /\ \A d \in Methods :
              /\ call'[d].step = call[d].step /\ call'[d].kind = call[d].kind
              /\ call'[d].handle = call[d].handle /\ call'[d].seq = call[d].seq
              /\ call'[d].terminal = call[d].terminal
              /\ d # c => call'[d] = call[d]
<1> DEFINE e == [call[c] EXCEPT !.reply = "no"]
<1>1. /\ e \in Call /\ e.reply = "no" /\ e.step = call[c].step /\ e.kind = call[c].kind
      /\ e.handle = call[c].handle /\ e.seq = call[c].seq /\ e.terminal = call[c].terminal
  BY DEF CallsTyped, Call
<1>2. call' = [call EXCEPT ![c] = e]
  BY DEF Foreign!GiveUp
<1> HIDE DEF e
<1>3. QED BY <1>1, <1>2 DEF CallsTyped

LEMMA FindCall ==
  ASSUME CallsTyped, expected \in [Handles -> Nat], NEW c \in Methods,
         NEW what \in Foreign!Kinds, NEW h \in Handles, Foreign!Find(c, what, h)
  PROVE  /\ CallsTyped' /\ call[c].step = "idle" /\ call'[c].step = "waiting"
         /\ call'[c].kind = what /\ call'[c].handle = h /\ what # "open" /\ h \in executions
         /\ call'[c].reply = call[c].reply /\ call'[c].terminal = call[c].terminal
         /\ \A d \in Methods \ {c} : call'[d] = call[d]
<1>1. PICK seq \in expected[h]..expected[h] + 1 :
        call' = [call EXCEPT ![c].step = "waiting", ![c].kind = what, ![c].handle = h,
                             ![c].seq = seq]
  BY DEF Foreign!Find
<1> DEFINE e == [call[c] EXCEPT !.step = "waiting", !.kind = what, !.handle = h, !.seq = seq]
<1>2. seq \in Nat
  BY DEF Foreign!Find
<1>3. /\ e \in Call /\ e.step = "waiting" /\ e.kind = what /\ e.handle = h
      /\ e.reply = call[c].reply /\ e.terminal = call[c].terminal
  BY <1>2 DEF CallsTyped, Call, Steps
<1>4. call' = [call EXCEPT ![c] = e]
  BY <1>1
<1> HIDE DEF e
<1>5. QED BY <1>3, <1>4 DEF CallsTyped, Foreign!Find

\* The opens under way, each with its reservation.
Opening == {c \in Methods : call[c].step = "opening"}
RequestsTyped ==
    \A r \in requests : /\ r.call \in Methods /\ r.kind \in Foreign!Kinds
                        /\ r.kind # "open" => r.handle \in Handles
CapacityInv ==
    /\ CallsTyped /\ expected \in [Handles -> Nat] /\ executions \subseteq Handles
    /\ RequestsTyped
    /\ IsFiniteSet(executions) /\ IsFiniteSet(Opening) /\ pending = Cardinality(Opening)
    /\ Cardinality(executions) + pending <= MaxExecutions
    /\ \A c \in Methods :
         /\ call[c].step \in {"waiting", "sent"} => call[c].kind # "open"
         /\ call[c].step \in {"waiting", "sent"} \/ (call[c].step = "aborting" /\ call[c].kind # "open")
            \/ call[c].reply = "yes" => call[c].handle \in Handles
         /\ call[c].step = "idle" => call[c].reply = "none"

LEMMA CapacityStarts == ASSUME ForeignConstants, Foreign!Init PROVE CapacityInv
<1>1. executions = {} /\ Opening = {} /\ pending = 0
  BY DEF Foreign!Init, Opening
<1>2. CallsTyped
  BY DEF Foreign!Init, CallsTyped, Call, Steps, Foreign!Kinds
<1>3. IsFiniteSet({}) /\ Cardinality({}) = 0
  BY FS_EmptySet
<1>4. expected \in [Handles -> Nat] /\ requests = {}
  BY DEF Foreign!Init
<1>5. \A c \in Methods : call[c].step = "idle" /\ call[c].reply = "none"
  BY DEF Foreign!Init
<1>6. QED BY <1>1, <1>2, <1>3, <1>4, <1>5 DEF CapacityInv, RequestsTyped, ForeignConstants

\* A step that leaves the tables and reservations alone or makes room, and opens nothing.
LEMMA CapacityEases ==
  ASSUME ForeignConstants, CapacityInv, NEW hs, executions' = executions \ hs, UNCHANGED pending, Opening' = Opening
  PROVE  /\ IsFiniteSet(executions') /\ executions' \subseteq Handles
         /\ IsFiniteSet(Opening') /\ pending' = Cardinality(Opening')
         /\ Cardinality(executions') + pending' <= MaxExecutions
<1>1. executions' \in SUBSET executions /\ IsFiniteSet(executions) /\ executions \subseteq Handles
  BY DEF CapacityInv
<1>2. IsFiniteSet(executions') /\ Cardinality(executions') <= Cardinality(executions)
  BY <1>1, FS_Subset
<1>3. Cardinality(executions) \in Nat /\ Cardinality(executions') \in Nat
  BY <1>1, <1>2, FS_CardinalityType
<1>4. IsFiniteSet(Opening) /\ pending = Cardinality(Opening) /\ Cardinality(Opening) \in Nat
  BY FS_CardinalityType DEF CapacityInv
<1>5. QED BY <1>1, <1>2, <1>3, <1>4 DEF CapacityInv, ForeignConstants

\* An open that is over gives its reservation back, to the execution it opened or not.
LEMMA CapacityReturns ==
  ASSUME ForeignConstants, CapacityInv, NEW c \in Opening, Opening' = Opening \ {c}, pending' = pending - 1,
         NEW h \in Handles,
         executions' = executions \/ executions' = executions \cup {h}
  PROVE  /\ IsFiniteSet(executions') /\ executions' \subseteq Handles
         /\ IsFiniteSet(Opening') /\ pending' = Cardinality(Opening')
         /\ Cardinality(executions') + pending' <= MaxExecutions
<1>1. /\ IsFiniteSet(executions) /\ executions \subseteq Handles /\ IsFiniteSet(Opening)
      /\ pending = Cardinality(Opening) /\ Cardinality(executions) + pending <= MaxExecutions
  BY DEF CapacityInv
<1>2. IsFiniteSet(Opening \ {c}) /\ Cardinality(Opening \ {c}) = Cardinality(Opening) - 1
  BY <1>1, FS_RemoveElement
<1>3. /\ IsFiniteSet(executions \cup {h})
      /\ Cardinality(executions \cup {h}) \in {Cardinality(executions), Cardinality(executions) + 1}
  BY <1>1, FS_AddElement
<1>4. Cardinality(executions) \in Nat /\ Cardinality(Opening) \in Nat
  BY <1>1, FS_CardinalityType
<1>5. CASE executions' = executions
  BY <1>1, <1>2, <1>4, <1>5 DEF ForeignConstants
<1>6. CASE executions' = executions \cup {h}
  BY <1>1, <1>2, <1>3, <1>4, <1>6 DEF ForeignConstants
<1>7. QED BY <1>5, <1>6

\* An open takes its reservation where there is room.
LEMMA CapacityTaken ==
  ASSUME ForeignConstants, CapacityInv, NEW c \in Methods \ Opening, Opening' = Opening \cup {c},
         pending' = pending + 1, NEW hs, executions' = executions \ hs,
         Cardinality(executions \ hs) + pending < MaxExecutions
  PROVE  /\ IsFiniteSet(executions') /\ executions' \subseteq Handles
         /\ IsFiniteSet(Opening') /\ pending' = Cardinality(Opening')
         /\ Cardinality(executions') + pending' <= MaxExecutions
<1>1. /\ IsFiniteSet(executions) /\ executions \subseteq Handles /\ IsFiniteSet(Opening)
      /\ pending = Cardinality(Opening) /\ executions \ hs \in SUBSET executions
  BY DEF CapacityInv
<1>2. IsFiniteSet(Opening \cup {c}) /\ Cardinality(Opening \cup {c}) = Cardinality(Opening) + 1
  BY <1>1, FS_AddElement
<1>3. IsFiniteSet(executions \ hs)
  BY <1>1, FS_Subset
<1>4. Cardinality(executions \ hs) \in Nat /\ Cardinality(Opening) \in Nat
  BY <1>1, <1>3, FS_CardinalityType
<1>5. QED BY <1>1, <1>2, <1>3, <1>4 DEF ForeignConstants

CallsSettled ==
    \A c \in Methods :
        /\ call[c].step \in {"waiting", "sent"} => call[c].kind # "open"
        /\ call[c].step \in {"waiting", "sent"} \/ (call[c].step = "aborting" /\ call[c].kind # "open")
           \/ call[c].reply = "yes" => call[c].handle \in Handles
        /\ call[c].step = "idle" => call[c].reply = "none"

LEMMA CapacityStep ==
  ASSUME ForeignConstants, CapacityInv, [Foreign!Next]_Foreign!vars
  PROVE  CapacityInv'
<1>0. /\ CallsTyped /\ expected \in [Handles -> Nat] /\ CallsSettled
      /\ RequestsTyped
  BY DEF CapacityInv, CallsSettled, RequestsTyped
<1>1. ASSUME NEW c \in Methods, NEW place \in Steps \ {"idle", "opening", "waiting"}, NEW hs,
             executions' = executions \ hs, UNCHANGED pending, expected' \in [Handles -> Nat],
             call' = Foreign!After(c, place, hs), call[c].step # "opening",
             place \in {"sent", "aborting"} => call[c].step \in {"waiting", "sent"},
             RequestsTyped'
      PROVE  CapacityInv'
  <2>1. CallsTyped'
    BY <1>0, <1>1, AfterCall
  <2>2. Opening' = Opening
    BY <1>0, <1>1, AfterCall DEF Opening
  <2>3. CallsSettled'
    BY <1>0, <1>1, AfterCall DEF CallsSettled
  <2>4. QED BY <1>1, <2>1, <2>2, <2>3, CapacityEases DEF CapacityInv, CallsSettled, RequestsTyped
<1>2. ASSUME NEW c \in Methods, NEW place \in {"failed", "aborting", "ok"}, NEW h \in Handles,
             executions' = executions \/ executions' = executions \cup {h}, pending' = pending - 1,
             expected' \in [Handles -> Nat],
             call' = Foreign!After(c, place, {}), call[c].step = "opening",
             place = "aborting" => call[c].handle \in Handles,
             RequestsTyped'
      PROVE  CapacityInv'
  <2>0. place \in Steps
    BY DEF Steps
  <2>1. CallsTyped'
    BY <1>0, <1>2, <2>0, AfterCall
  <2>2. Opening' = Opening \ {c} /\ c \in Opening
    BY <1>0, <1>2, <2>0, AfterCall DEF Opening
  <2>3. CallsSettled'
    BY <1>0, <1>2, <2>0, AfterCall DEF CallsSettled
  <2>4. QED BY <1>2, <2>1, <2>2, <2>3, CapacityReturns DEF CapacityInv, CallsSettled, RequestsTyped
<1>3. ASSUME NEW c \in Methods, Foreign!Open(c) PROVE CapacityInv'
  <2>1. /\ call[c].step = "idle" /\ executions' = executions \ Foreign!Reaped /\ UNCHANGED expected
    BY <1>3 DEF Foreign!Open, Foreign!Terminalize, RequestsTyped
  <2>2. CASE /\ Foreign!Room /\ pending' = pending + 1
             /\ call' = Foreign!After(c, "opening", Foreign!Reaped)
             /\ Foreign!Request(c, "open", None, 0)
    <3>1. CallsTyped'
      BY <1>0, <2>2, AfterCall DEF Steps
    <3>2. Opening' = Opening \cup {c} /\ c \notin Opening
      BY <1>0, <2>1, <2>2, AfterCall DEF Opening, Steps
    <3>3. CallsSettled'
      BY <1>0, <2>1, <2>2, AfterCall DEF CallsSettled, Steps
    <3>4. Cardinality(executions \ Foreign!Reaped) + pending < MaxExecutions
      BY <2>2, SameForeignCount DEF Foreign!Room
    <3>5. RequestsTyped'
      BY <1>0, <2>2 DEF Foreign!Request, Foreign!Kinds, RequestsTyped
    <3>6. QED BY <1>0, <2>1, <2>2, <3>1, <3>2, <3>3, <3>4, <3>5, CapacityTaken
              DEF CapacityInv, CallsSettled, RequestsTyped
  <2>3. CASE /\ ~Foreign!Room /\ call' = Foreign!After(c, "failed", Foreign!Reaped)
             /\ UNCHANGED <<pending, requests>>
    <3>1. "failed" \in Steps \ {"idle", "opening", "waiting"}
      BY DEF Steps
    <3>2. RequestsTyped'
      BY <1>0, <2>3 DEF RequestsTyped
    <3>3. QED BY <1>0, <1>1, <2>1, <2>3, <3>1, <3>2
  <2>4. QED BY <1>3, <2>2, <2>3 DEF Foreign!Open
<1>4. ASSUME NEW c \in Methods, Foreign!OpenFails(c) PROVE CapacityInv'
  <2>1. /\ call[c].step = "opening" /\ pending' = pending - 1 /\ call' = Foreign!After(c, "failed", {})
        /\ UNCHANGED <<executions, expected, requests>>
    BY <1>4 DEF Foreign!OpenFails, Foreign!ReturnReservation
  <2>2. CASE Handles # {}
    <3>1. PICK h \in Handles : TRUE
      BY <2>2
    <3>2. RequestsTyped'
      BY <1>0, <2>1 DEF RequestsTyped
    <3>3. QED BY <1>0, <1>2, <2>1, <3>2
  <2>3. CASE Handles = {}
    <3>1. CallsTyped' /\ CallsSettled'
      BY <1>0, <2>1, AfterCall DEF CallsSettled, Steps
    <3>2. Opening' = Opening \ {c} /\ c \in Opening
      BY <1>0, <2>1, AfterCall DEF Opening, Steps
    <3>3. IsFiniteSet(Opening \ {c}) /\ Cardinality(Opening \ {c}) = Cardinality(Opening) - 1
      BY <3>2, FS_RemoveElement DEF CapacityInv
    <3>4. Cardinality(Opening) \in Nat /\ Cardinality(executions) \in Nat
      BY FS_CardinalityType DEF CapacityInv
    <3>5. QED BY <1>0, <2>1, <3>1, <3>2, <3>3, <3>4 DEF CapacityInv, CallsSettled, RequestsTyped, ForeignConstants
  <2>4. QED BY <2>2, <2>3
<1>5. ASSUME NEW c \in Methods, Foreign!Opened(c) PROVE CapacityInv'
  <2> DEFINE h == call[c].handle
  <2>1. call[c].step = "opening" /\ call[c].reply = "yes" /\ h \in Handles /\ pending' = pending - 1
    BY <1>0, <1>5 DEF Foreign!Opened, CallsSettled
  <2>2. /\ executions' = executions \/ executions' = executions \cup {h}
        /\ expected' \in [Handles -> Nat]
        /\ \E place \in {"failed", "aborting", "ok"} : call' = Foreign!After(c, place, {})
        /\ RequestsTyped'
    BY <1>0, <1>5, <2>1
       DEF Foreign!Opened, Foreign!AbortUntracked, Foreign!Tell, Foreign!Request, Foreign!Kinds, RequestsTyped
  <2>3. QED BY <1>2, <2>1, <2>2
<1>6. ASSUME NEW c \in Methods,
             \/ Foreign!Enter(c) \/ Foreign!Succeeds(c) \/ Foreign!CleansUp(c)
             \/ Foreign!AbortFails(c) \/ Foreign!CleanedUp(c)
      PROVE  CapacityInv'
  <2>1. PICK place, hs :
          /\ place \in {"failed", "ok", "sent", "aborting"}
          /\ executions' = executions \ hs /\ UNCHANGED pending /\ expected' \in [Handles -> Nat]
          /\ call' = Foreign!After(c, place, hs) /\ call[c].step \in {"waiting", "sent", "aborting"}
          /\ place \in {"sent", "aborting"} => call[c].step \in {"waiting", "sent"}
          /\ RequestsTyped'
    <3>1. CASE Foreign!Enter(c)
      <4>1. CASE call' = Foreign!After(c, "failed", {}) /\ UNCHANGED <<executions, requests>>
        BY <1>0, <3>1, <4>1 DEF Foreign!Enter, RequestsTyped
      <4>2. CASE /\ Foreign!Terminalize({call[c].handle}) /\ UNCHANGED requests
                 /\ call' = Foreign!After(c, "failed", {call[c].handle})
        BY <1>0, <3>1, <4>2 DEF Foreign!Enter, Foreign!Terminalize, RequestsTyped
      <4>3. CASE /\ call' = Foreign!After(c, "sent", {}) /\ UNCHANGED executions
                 /\ Foreign!Request(c, call[c].kind, call[c].handle, call[c].seq)
        BY <1>0, <3>1, <4>3
           DEF Foreign!Enter, Foreign!Request, RequestsTyped, CallsSettled, CallsTyped, Call
      <4>4. QED BY <3>1, <4>1, <4>2, <4>3 DEF Foreign!Enter
    <3>2. CASE Foreign!Succeeds(c)
      <4>1. CASE call[c].kind = "chunk"
        BY <1>0, <3>2, <4>1 DEF Foreign!Succeeds, CallsSettled, RequestsTyped
      <4>2. CASE call[c].kind # "chunk"
        BY <1>0, <3>2, <4>2 DEF Foreign!Succeeds, Foreign!Terminalize, RequestsTyped
      <4>3. QED BY <4>1, <4>2
    <3>3. CASE Foreign!CleansUp(c)
      BY <1>0, <3>3
         DEF Foreign!CleansUp, Foreign!Tell, Foreign!Request, Foreign!client, Foreign!Kinds,
             RequestsTyped, CallsSettled
    <3>4. CASE Foreign!AbortFails(c)
      BY <1>0, <3>4 DEF Foreign!AbortFails, Foreign!Terminalize, RequestsTyped
    <3>5. CASE Foreign!CleanedUp(c)
      BY <1>0, <3>5 DEF Foreign!CleanedUp, Foreign!Terminalize, RequestsTyped
    <3>6. QED BY <1>6, <3>1, <3>2, <3>3, <3>4, <3>5
  <2>2. place \in Steps \ {"idle", "opening", "waiting"}
    BY <2>1 DEF Steps
  <2>3. QED BY <1>1, <2>1, <2>2
<1>7. ASSUME NEW c \in Methods, NEW what \in Foreign!Kinds, NEW h \in Handles, Foreign!Find(c, what, h)
      PROVE  CapacityInv'
  <2>1. CallsTyped' /\ CallsSettled'
    BY <1>0, <1>7, FindCall DEF CallsSettled
  <2>2. Opening' = Opening
    BY <1>0, <1>7, FindCall DEF Opening
  <2>3. UNCHANGED <<executions, expected, pending, requests>>
    BY <1>7 DEF Foreign!Find, Foreign!client
  <2>4. QED BY <2>1, <2>2, <2>3 DEF CapacityInv, CallsSettled, RequestsTyped
<1>8. ASSUME NEW c \in Methods, Foreign!GiveUp(c) PROVE CapacityInv'
  <2>1. Foreign!Awaits(c) # "nothing"
    BY <1>8 DEF Foreign!GiveUp
  <2>2. call[c].step # "idle"
    BY <2>1 DEF Foreign!Awaits
  <2>3. CallsTyped' /\ CallsSettled'
    BY <1>0, <1>8, <2>2, GiveUpCall DEF CallsSettled
  <2>4. Opening' = Opening
    BY <1>0, <1>8, GiveUpCall DEF Opening
  <2>5. UNCHANGED <<executions, expected, pending, requests>>
    BY <1>8 DEF Foreign!GiveUp, Foreign!client
  <2>6. QED BY <2>3, <2>4, <2>5 DEF CapacityInv, CallsSettled, RequestsTyped
<1>9. ASSUME NEW r \in requests, Foreign!Serve(r) PROVE CapacityInv'
  <2>1. UNCHANGED <<executions, expected, pending>> /\ requests' = requests \ {r}
    BY <1>9 DEF Foreign!Serve, Foreign!client
  <2>2. PICK answer \in {"yes", "no"}, h \in Handles : Foreign!Reply(r, answer, h)
    BY <1>0, <1>9 DEF Foreign!Serve, Foreign!ServeOpen, Foreign!ServePhase, RequestsTyped
  <2>3. CallsTyped' /\ \A d \in Methods :
          /\ call'[d].step = call[d].step /\ call'[d].kind = call[d].kind
          /\ \/ call'[d] = call[d]
             \/ /\ Foreign!Awaits(d) = r.kind /\ call'[d].reply = answer /\ call'[d].handle = h
    BY <1>0, <2>2, ReplyCall DEF RequestsTyped
  <2>4. \A d \in Methods : call[d].step = "idle" => Foreign!Awaits(d) = "nothing"
    BY DEF Foreign!Awaits
  <2>5. r.kind # "nothing"
    BY <1>9 DEF CapacityInv, RequestsTyped, Foreign!Kinds
  <2>6. CallsSettled'
    BY <1>0, <2>3, <2>4, <2>5 DEF CallsSettled
  <2>7. Opening' = Opening
    BY <2>3 DEF Opening
  <2>8. QED BY <1>0, <2>1, <2>3, <2>6, <2>7 DEF CapacityInv, CallsSettled, RequestsTyped
<1>10. ASSUME NEW h \in Handles, Foreign!Expire(h) PROVE CapacityInv'
  BY <1>10 DEF Foreign!Expire, Foreign!client, CapacityInv, CallsTyped, RequestsTyped, Opening
<1>11. CASE UNCHANGED Foreign!vars
  BY <1>11 DEF Foreign!vars, CapacityInv, CallsTyped, RequestsTyped, Opening
<1>12. QED BY <1>3, <1>4, <1>5, <1>6, <1>7, <1>8, <1>9, <1>10, <1>11 DEF Foreign!Next, Foreign!Step

LEMMA CapacityHolds ==
  ASSUME ForeignConstants PROVE Foreign!Spec => []CapacityInv
BY CapacityStarts, CapacityStep, PTL DEF Foreign!Spec

\* The client holds no more executions than it may, the opens under way included, however
\* many calls open at once, fail, are cancelled or are answered late.
THEOREM CapacityIsKept ==
  ASSUME ForeignConstants PROVE Foreign!Spec => []Foreign!WithinCapacity
<1>1. CapacityInv => Foreign!WithinCapacity
  BY SameForeignCount DEF CapacityInv, Foreign!WithinCapacity
<1>2. QED BY <1>1, CapacityHolds, PTL

\* No reservation is lost or returned twice.
THEOREM ReservationsHold ==
  ASSUME ForeignConstants PROVE Foreign!Spec => []Foreign!ReservationsAreHeld
<1>1. ASSUME CapacityInv PROVE Foreign!ReservationsAreHeld
  <2>1. Foreign!ReservationsAreHeld <=> pending = Foreign!Cardinality(Opening)
    BY DEF Foreign!ReservationsAreHeld, Opening
  <2>2. QED BY <1>1, <2>1, SameForeignCount DEF CapacityInv
<1>2. QED BY <1>1, CapacityHolds, PTL

\* A call that has the lock of its handle.
Holds(c) == call[c].step \in {"sent", "aborting"} /\ call[c].kind # "open"

\* Phases under way, and those that wait and were not told otherwise, are of executions
\* that are tracked, one at a time.
PhasesAreTracked ==
    /\ \A c \in Methods :
         /\ call[c].step \in {"idle", "opening"} => call[c].kind = "open"
         /\ Holds(c) => call[c].handle \in executions
         /\ call[c].step = "waiting" /\ ~call[c].terminal => call[c].handle \in executions
    /\ \A c, d \in Methods : Holds(c) /\ Holds(d) /\ call[c].handle = call[d].handle => c = d

\* A request names the handle of its call.
RequestsAreOwn ==
    \A r \in requests : r.kind # "open" =>
        /\ r.handle = call[r.call].handle
        /\ call[r.call].step \notin {"idle", "opening", "waiting"}

\* A call that is to end its execution has told the server, unless it is another's by now.
EndsAreTold ==
    \A c \in Methods :
        Holds(c) /\ (call[c].step = "aborting" \/ call[c].kind # "chunk")
          /\ call[c].handle \in known => call[c].handle \in told

Server == [state : {"none", "open", "closed"}, next : Nat]
ServerTyped == server \in [Handles -> Server] /\ known \subseteq Handles

HandleInv ==
    /\ CapacityInv /\ ServerTyped /\ PhasesAreTracked /\ RequestsAreOwn /\ EndsAreTold /\ Foreign!NoHandleLeft

LEMMA HandlesStart == ASSUME ForeignConstants, Foreign!Init PROVE HandleInv
<1>1. CapacityInv
  BY CapacityStarts
<1>2. ServerTyped /\ PhasesAreTracked /\ RequestsAreOwn /\ EndsAreTold /\ Foreign!NoHandleLeft
  BY DEF Server, ServerTyped, Foreign!Init, PhasesAreTracked, RequestsAreOwn, EndsAreTold, Foreign!NoHandleLeft, Holds
<1>3. QED BY <1>1, <1>2 DEF HandleInv

\* A step of a call of the client: it goes to a place, the executions of hs end and those
\* of new begin.
Moves(c, place, hs, new) ==
    /\ call' = Foreign!After(c, place, hs) /\ executions' = (executions \ hs) \cup new
    /\ UNCHANGED <<server, expired>> /\ told \subseteq told' /\ known \subseteq known'
    /\ known' \subseteq Handles
    /\ \A d \in Methods \ {c} : Holds(d) => call[d].handle \notin hs
    /\ call[c].step # "opening" \/ place # "sent"
    /\ place = "opening" => call[c].step = "idle"
    /\ place \in {"sent", "aborting"} /\ call[c].kind # "open" =>
         /\ Holds(c) \/ Foreign!LockFree(call[c].handle)
         /\ call[c].handle \in executions \ hs
         /\ place = "aborting" \/ call[c].kind # "chunk" => call[c].handle \in told'
    /\ \A h \in known' \ known : h \in told' \/ (h \notin executions /\ h \in executions')
    /\ \A h \in hs : h \in expired \/ h \notin known \/ h \in told'
    /\ \A r \in requests' \ requests :
         /\ r.call = c
         /\ r.kind # "open" => r.handle = call[c].handle /\ place # "opening"

LEMMA HandlesMove ==
  ASSUME HandleInv, CapacityInv', NEW c \in Methods, NEW place \in Steps \ {"idle", "waiting"},
         NEW hs, NEW new, Moves(c, place, hs, new)
  PROVE  HandleInv'
<1> USE DEF Moves
<1>1. /\ CallsTyped /\ executions \subseteq Handles
  BY DEF HandleInv, CapacityInv
<1>2. /\ CallsTyped' /\ call'[c].step = place
      /\ \A d \in Methods :
           /\ call'[d].kind = call[d].kind /\ call'[d].handle = call[d].handle
           /\ call'[d].terminal
                = (call[d].terminal \/ (call[d].step = "waiting" /\ call[d].handle \in hs))
           /\ d # c => call'[d].step = call[d].step
  BY <1>1, AfterCall
<1>3. \A d \in Methods : d # c => (Holds(d)' <=> Holds(d))
  BY <1>2 DEF Holds
<1>4. Holds(c)' <=> place \in {"sent", "aborting"} /\ call[c].kind # "open"
  BY <1>2 DEF Holds
<1>5. PhasesAreTracked'
  <2>1. ASSUME NEW d \in Methods
        PROVE  /\ call'[d].step \in {"idle", "opening"} => call'[d].kind = "open"
               /\ Holds(d)' => call'[d].handle \in executions'
               /\ call'[d].step = "waiting" /\ ~call'[d].terminal => call'[d].handle \in executions'
    <3>1. CASE d = c
      BY <1>2, <1>4, <3>1 DEF HandleInv, PhasesAreTracked
    <3>2. CASE d # c
      BY <1>2, <1>3, <3>2 DEF HandleInv, PhasesAreTracked
    <3>3. QED BY <3>1, <3>2
  <2>2. ASSUME NEW d \in Methods, NEW e \in Methods, Holds(d)', Holds(e)',
               call'[d].handle = call'[e].handle, d # e
        PROVE  FALSE
    <3>1. CASE d = c
      <4>1. Holds(e) /\ call[e].handle = call[c].handle /\ ~Holds(c)
        BY <1>2, <1>3, <2>2, <3>1 DEF HandleInv, PhasesAreTracked
      <4>2. QED BY <1>4, <2>2, <3>1, <4>1 DEF Foreign!LockFree, Holds
    <3>2. CASE e = c
      <4>1. Holds(d) /\ call[d].handle = call[c].handle /\ ~Holds(c)
        BY <1>2, <1>3, <2>2, <3>2 DEF HandleInv, PhasesAreTracked
      <4>2. QED BY <1>4, <2>2, <3>2, <4>1 DEF Foreign!LockFree, Holds
    <3>3. CASE d # c /\ e # c
      BY <1>2, <1>3, <2>2, <3>3 DEF HandleInv, PhasesAreTracked
    <3>4. QED BY <3>1, <3>2, <3>3
  <2>3. QED BY <2>1, <2>2 DEF PhasesAreTracked
<1>6. RequestsAreOwn'
  <2>1. ASSUME NEW r \in requests', r.kind # "open"
        PROVE  /\ r.handle = call'[r.call].handle
               /\ call'[r.call].step \notin {"idle", "opening", "waiting"}
    <3>1. r.call \in Methods
      BY DEF CapacityInv, RequestsTyped
    <3>2. CASE r \in requests
      <4>1. /\ r.handle = call[r.call].handle
            /\ call[r.call].step \notin {"idle", "opening", "waiting"}
        BY <2>1, <3>2 DEF HandleInv, RequestsAreOwn
      <4>2. QED BY <1>2, <3>1, <4>1
    <3>3. CASE r \notin requests
      BY <1>2, <2>1, <3>3
    <3>4. QED BY <3>2, <3>3
  <2>2. QED BY <2>1 DEF RequestsAreOwn
<1>7. EndsAreTold'
  <2>1. ASSUME NEW d \in Methods, Holds(d)', call'[d].step = "aborting" \/ call'[d].kind # "chunk",
               call'[d].handle \in known'
        PROVE  call'[d].handle \in told'
    <3>1. CASE d = c
      BY <1>2, <1>4, <2>1, <3>1
    <3>2. CASE d # c
      <4>1. Holds(d) /\ call[d].handle \in executions
        BY <1>3, <2>1, <3>2 DEF HandleInv, PhasesAreTracked
      <4>2. CASE call[d].handle \in known
        BY <1>2, <2>1, <3>2, <4>1, <4>2 DEF HandleInv, EndsAreTold
      <4>3. CASE call[d].handle \notin known
        BY <1>2, <2>1, <3>2, <4>1, <4>3
      <4>4. QED BY <4>2, <4>3
    <3>3. QED BY <3>1, <3>2
  <2>2. QED BY <2>1 DEF EndsAreTold
<1>8. Foreign!NoHandleLeft'
  BY DEF HandleInv, Foreign!NoHandleLeft
<1>9. ServerTyped'
  BY DEF HandleInv, ServerTyped
<1>10. QED BY <1>5, <1>6, <1>7, <1>8, <1>9 DEF HandleInv

LEMMA HandlesStep ==
  ASSUME ForeignConstants, HandleInv, [Foreign!Next]_Foreign!vars
  PROVE  HandleInv'
<1>0. CapacityInv' /\ CallsTyped /\ executions \subseteq Handles /\ expected \in [Handles -> Nat]
      /\ RequestsTyped /\ ServerTyped /\ known \subseteq Handles
  BY CapacityStep DEF HandleInv, CapacityInv, ServerTyped
<1>a. /\ "opening" \in Steps \ {"idle", "waiting"} /\ "sent" \in Steps \ {"idle", "waiting"}
      /\ "aborting" \in Steps \ {"idle", "waiting"} /\ "ok" \in Steps \ {"idle", "waiting"}
      /\ "failed" \in Steps \ {"idle", "waiting"}
  BY DEF Steps
<1>1. ASSUME NEW c \in Methods, Foreign!Open(c) PROVE HandleInv'
  <2>1. /\ executions' = (executions \ Foreign!Reaped) \cup {} /\ call[c].step = "idle"
        /\ UNCHANGED <<server, expired, known, told>>
    BY <1>1 DEF Foreign!Open, Foreign!Terminalize
  <2>2. PICK place \in {"opening", "failed"} :
          /\ call' = Foreign!After(c, place, Foreign!Reaped)
          /\ \A r \in requests' \ requests : r.call = c /\ r.kind = "open"
    BY <1>1 DEF Foreign!Open, Foreign!Request
  <2>3. \A d \in Methods : Holds(d) => call[d].handle \notin Foreign!Reaped
    BY DEF Holds, Foreign!Reaped, Foreign!LockFree
  <2>4. \A h \in Foreign!Reaped : h \in expired
    BY DEF Foreign!Reaped
  <2>5. place \in Steps \ {"idle", "waiting"} /\ place \notin {"sent", "aborting"}
    BY <1>a
  <2>6. Moves(c, place, Foreign!Reaped, {})
    BY <1>0, <2>1, <2>2, <2>3, <2>4, <2>5 DEF Moves
  <2>7. QED BY <1>0, <1>a, <2>6, <2>5, HandlesMove
<1>2. ASSUME NEW c \in Methods, Foreign!OpenFails(c) PROVE HandleInv'
  <2>1. /\ executions' = (executions \ {}) \cup {} /\ call' = Foreign!After(c, "failed", {})
        /\ UNCHANGED <<server, expired, known, told, requests>>
    BY <1>2 DEF Foreign!OpenFails
  <2>2. Moves(c, "failed", {}, {})
    BY <1>0, <1>a, <2>1 DEF Moves
  <2>3. QED BY <1>0, <1>a, <2>2, HandlesMove
<1>3. ASSUME NEW c \in Methods, Foreign!Opened(c) PROVE HandleInv'
  <2> DEFINE h == call[c].handle
  <2>1. /\ UNCHANGED <<server, expired>> /\ call[c].step = "opening" /\ call[c].kind = "open"
        /\ h \in Handles
    BY <1>3 DEF Foreign!Opened, HandleInv, PhasesAreTracked, CapacityInv
  <2>2. CASE call' = Foreign!After(c, "failed", {}) /\ UNCHANGED <<executions, requests, told, known>>
    <3>1. Moves(c, "failed", {}, {})
      BY <1>0, <1>a, <2>1, <2>2 DEF Moves
    <3>2. QED BY <1>0, <1>a, <3>1, HandlesMove
  <2>3. CASE /\ Foreign!AbortUntracked(c, h, 0) /\ known' = known \cup {h}
             /\ call' = Foreign!After(c, "aborting", {}) /\ UNCHANGED executions
    <3>1. /\ executions' = (executions \ {}) \cup {} /\ told' = told \cup {h}
          /\ \A r \in requests' \ requests : r.call = c /\ r.handle = h
      BY <2>3 DEF Foreign!AbortUntracked, Foreign!Tell, Foreign!Request
    <3>2. /\ told \subseteq told' /\ known \subseteq known' /\ known' \subseteq Handles
          /\ \A g \in known' \ known : g \in told'
      BY <1>0, <2>1, <2>3, <3>1
    <3>3. Moves(c, "aborting", {}, {})
      BY <1>0, <1>a, <2>1, <2>3, <3>1, <3>2 DEF Moves
    <3>4. QED BY <1>0, <1>a, <3>3, HandlesMove
  <2>4. CASE /\ ~Foreign!Duplicate(h) /\ executions' = executions \cup {h} /\ known' = known \cup {h}
             /\ call' = Foreign!After(c, "ok", {}) /\ UNCHANGED <<requests, told>>
    <3>1. h \notin executions /\ executions' = (executions \ {}) \cup {h}
      BY <2>4 DEF Foreign!Duplicate
    <3>2. known \subseteq known' /\ known' \subseteq Handles /\ \A g \in known' \ known : g = h
      BY <1>0, <2>1, <2>4
    <3>3. Moves(c, "ok", {}, {h})
      BY <1>0, <1>a, <2>1, <2>4, <3>1, <3>2 DEF Moves
    <3>4. QED BY <1>0, <1>a, <3>3, HandlesMove
  <2>5. QED BY <1>3, <2>2, <2>3, <2>4 DEF Foreign!Opened
<1>4. ASSUME NEW c \in Methods, Foreign!Enter(c) PROVE HandleInv'
  <2> DEFINE h == call[c].handle
  <2>1. /\ UNCHANGED <<server, expired, known>> /\ call[c].step = "waiting" /\ Foreign!LockFree(h)
    BY <1>4 DEF Foreign!Enter
  <2>2. CASE /\ call' = Foreign!After(c, "failed", {}) /\ UNCHANGED <<executions, requests, told>>
    <3>1. Moves(c, "failed", {}, {})
      BY <1>0, <1>a, <2>1, <2>2 DEF Moves
    <3>2. QED BY <1>0, <1>a, <3>1, HandlesMove
  <2>3. CASE /\ h \in expired /\ Foreign!Terminalize({h})
             /\ call' = Foreign!After(c, "failed", {h}) /\ UNCHANGED <<requests, told>>
    <3>1. executions' = (executions \ {h}) \cup {}
      BY <2>3 DEF Foreign!Terminalize
    <3>2. \A d \in Methods \ {c} : Holds(d) => call[d].handle \notin {h}
      BY <2>1 DEF Holds, Foreign!LockFree
    <3>3. Moves(c, "failed", {h}, {})
      BY <1>0, <1>a, <2>1, <2>3, <3>1, <3>2 DEF Moves
    <3>4. QED BY <1>0, <1>a, <3>3, HandlesMove
  <2>4. CASE /\ ~Foreign!Ended(c) /\ call' = Foreign!After(c, "sent", {})
             /\ Foreign!Request(c, call[c].kind, h, call[c].seq) /\ UNCHANGED executions
             /\ told' = IF call[c].kind = "chunk" THEN told ELSE told \cup {h}
    <3>1. /\ executions' = (executions \ {}) \cup {}
          /\ \A r \in requests' \ requests : r.call = c /\ r.handle = h
      BY <2>4 DEF Foreign!Request
    <3>2. h \in executions
      BY <2>1, <2>4 DEF Foreign!Ended, HandleInv, PhasesAreTracked
    <3>3. Moves(c, "sent", {}, {})
      BY <1>0, <1>a, <2>1, <2>4, <3>1, <3>2 DEF Moves
    <3>4. QED BY <1>0, <1>a, <3>3, HandlesMove
  <2>5. QED BY <1>4, <2>2, <2>3, <2>4 DEF Foreign!Enter
\* The execution of a phase that ends it.
<1>5. ASSUME NEW c \in Methods, Holds(c), call[c].handle \notin known \/ call[c].handle \in told,
             NEW place \in {"ok", "failed"}, Foreign!Terminalize({call[c].handle}),
             call' = Foreign!After(c, place, {call[c].handle}),
             UNCHANGED <<server, requests, expired, known, told>>
      PROVE  HandleInv'
  <2>1. executions' = (executions \ {call[c].handle}) \cup {}
    BY <1>5 DEF Foreign!Terminalize
  <2>2. \A d \in Methods \ {c} : Holds(d) => call[d].handle \notin {call[c].handle}
    BY <1>5 DEF HandleInv, PhasesAreTracked
  <2>3. Moves(c, place, {call[c].handle}, {})
    BY <1>0, <1>a, <1>5, <2>1, <2>2 DEF Moves
  <2>4. QED BY <1>0, <1>a, <2>3, HandlesMove
<1>6. ASSUME NEW c \in Methods, Foreign!Succeeds(c) PROVE HandleInv'
  <2>1. Holds(c) /\ call[c].step = "sent"
    BY <1>6 DEF Foreign!Succeeds, Holds, HandleInv, CapacityInv
  <2>2. CASE call[c].kind = "chunk"
    <3>1. /\ executions' = (executions \ {}) \cup {} /\ call' = Foreign!After(c, "ok", {})
          /\ UNCHANGED <<server, requests, expired, known, told>>
      BY <1>6, <2>2 DEF Foreign!Succeeds
    <3>2. Moves(c, "ok", {}, {})
      BY <1>0, <1>a, <2>1, <3>1 DEF Moves
    <3>3. QED BY <1>0, <1>a, <3>2, HandlesMove
  <2>3. CASE call[c].kind # "chunk"
    <3>1. call[c].handle \notin known \/ call[c].handle \in told
      BY <2>1, <2>3 DEF HandleInv, EndsAreTold
    <3>2. QED BY <1>5, <1>6, <2>1, <2>3, <3>1 DEF Foreign!Succeeds
  <2>4. QED BY <2>2, <2>3
<1>7. ASSUME NEW c \in Methods, Foreign!CleansUp(c) PROVE HandleInv'
  <2>1. Holds(c) /\ call[c].step = "sent"
    BY <1>7 DEF Foreign!CleansUp, Holds, HandleInv, CapacityInv
  <2>2. /\ executions' = (executions \ {}) \cup {} /\ call' = Foreign!After(c, "aborting", {})
        /\ UNCHANGED <<server, expired, known>> /\ told' = told \cup {call[c].handle}
        /\ \A r \in requests' \ requests : r.call = c /\ r.handle = call[c].handle
    BY <1>7 DEF Foreign!CleansUp, Foreign!Tell, Foreign!Request, Foreign!client
  <2>3. call[c].handle \in executions
    BY <2>1 DEF HandleInv, PhasesAreTracked
  <2>4. Moves(c, "aborting", {}, {})
    BY <1>0, <1>a, <2>1, <2>2, <2>3 DEF Moves
  <2>5. QED BY <1>0, <1>a, <2>4, HandlesMove
<1>8. ASSUME NEW c \in Methods, Foreign!AbortFails(c) PROVE HandleInv'
  <2>1. Holds(c) /\ call[c].kind # "chunk"
    BY <1>8 DEF Foreign!AbortFails, Holds
  <2>2. call[c].handle \notin known \/ call[c].handle \in told
    BY <2>1 DEF HandleInv, EndsAreTold
  <2>3. QED BY <1>5, <1>8, <2>1, <2>2 DEF Foreign!AbortFails
<1>9. ASSUME NEW c \in Methods, Foreign!CleanedUp(c) PROVE HandleInv'
  <2>1. CASE call[c].kind = "open"
    <3>1. /\ executions' = (executions \ {}) \cup {} /\ call' = Foreign!After(c, "failed", {})
          /\ UNCHANGED <<server, requests, expired, known, told>>
      BY <1>9, <2>1 DEF Foreign!CleanedUp, Foreign!Terminalize, Foreign!Ends
    <3>2. Moves(c, "failed", {}, {})
      BY <1>0, <1>a, <3>1 DEF Moves
    <3>3. QED BY <1>0, <1>a, <3>2, HandlesMove
  <2>2. CASE call[c].kind # "open"
    <3>1. Holds(c) /\ call[c].step = "aborting"
      BY <1>9, <2>2 DEF Foreign!CleanedUp, Holds
    <3>2. call[c].handle \notin known \/ call[c].handle \in told
      BY <3>1 DEF HandleInv, EndsAreTold
    <3>3. QED BY <1>5, <1>9, <2>2, <3>1, <3>2 DEF Foreign!CleanedUp, Foreign!Ends
  <2>3. QED BY <2>1, <2>2
\* Steps that move no call of the client but into the queue of its handle.
<1>10. ASSUME NEW c \in Methods, Foreign!GiveUp(c) PROVE HandleInv'
  <2>1. \A d \in Methods :
          /\ call'[d].step = call[d].step /\ call'[d].kind = call[d].kind
          /\ call'[d].handle = call[d].handle /\ call'[d].terminal = call[d].terminal
    BY <1>0, <1>10, GiveUpCall
  <2>2. UNCHANGED <<server, executions, requests, expired, known, told>>
    BY <1>10 DEF Foreign!GiveUp, Foreign!client
  <2>3. PhasesAreTracked' /\ EndsAreTold' /\ ServerTyped'
    BY <2>1, <2>2 DEF HandleInv, PhasesAreTracked, EndsAreTold, Holds, ServerTyped
  <2>4. RequestsAreOwn' /\ Foreign!NoHandleLeft'
    BY <1>0, <2>1, <2>2 DEF HandleInv, RequestsAreOwn, RequestsTyped, Foreign!NoHandleLeft
  <2>5. QED BY <1>0, <2>3, <2>4 DEF HandleInv
<1>11. ASSUME NEW c \in Methods, NEW what \in Foreign!Kinds, NEW h \in Handles,
              Foreign!Find(c, what, h)
       PROVE  HandleInv'
  <2>1. /\ call[c].step = "idle" /\ call'[c].step = "waiting" /\ call'[c].handle = h
        /\ call'[c].kind = what /\ h \in executions /\ \A d \in Methods \ {c} : call'[d] = call[d]
    BY <1>0, <1>11, FindCall
  <2>2. UNCHANGED <<server, executions, requests, expired, known, told>>
    BY <1>11 DEF Foreign!Find, Foreign!client
  <2>3. PhasesAreTracked' /\ EndsAreTold' /\ ServerTyped'
    BY <2>1, <2>2 DEF HandleInv, PhasesAreTracked, EndsAreTold, Holds, ServerTyped
  <2>4. RequestsAreOwn' /\ Foreign!NoHandleLeft'
    BY <1>0, <2>1, <2>2 DEF HandleInv, RequestsAreOwn, RequestsTyped, Foreign!NoHandleLeft
  <2>5. QED BY <1>0, <2>3, <2>4 DEF HandleInv
<1>12. ASSUME NEW r \in requests, Foreign!Serve(r) PROVE HandleInv'
  <2>1. /\ UNCHANGED <<executions, expired>> /\ requests' = requests \ {r}
        /\ r.call \in Methods /\ r.kind \in Foreign!Kinds
    BY <1>0, <1>12 DEF Foreign!Serve, Foreign!client, RequestsTyped
  <2>2. PICK answer \in {"yes", "no"}, h \in Handles :
          /\ Foreign!Reply(r, answer, h)
          /\ \/ r.kind = "open" /\ told' = told \ {h} /\ known' = known \ {h}
                /\ server' = [server EXCEPT ![h] = [state |-> "open", next |-> 0]]
             \/ r.kind # "open" /\ h = r.handle /\ UNCHANGED <<told, known>>
                /\ Foreign!ServePhase(r)
    <3>1. CASE Foreign!ServeOpen(r)
      BY <3>1 DEF Foreign!ServeOpen
    <3>2. CASE Foreign!ServePhase(r)
      BY <1>0, <3>2 DEF Foreign!ServePhase, RequestsTyped
    <3>3. QED BY <1>12, <3>1, <3>2 DEF Foreign!Serve
  <2>3. \A d \in Methods :
          /\ call'[d].step = call[d].step /\ call'[d].kind = call[d].kind
          /\ call'[d].terminal = call[d].terminal
          /\ call'[d].handle = call[d].handle
             \/ (d = r.call /\ Foreign!Awaits(d) = r.kind /\ call'[d].handle = h)
    BY <1>0, <2>1, <2>2, ReplyCall
  <2>4. \A d \in Methods :
          /\ call'[d].handle = call[d].handle \/ call[d].step = "opening"
    <3>1. ASSUME NEW d \in Methods, call'[d].handle # call[d].handle PROVE call[d].step = "opening"
      <4>1. d = r.call /\ Foreign!Awaits(d) = r.kind /\ call'[d].handle = h
        BY <2>3, <3>1
      <4>2. CASE r.kind # "open"
        BY <2>2, <3>1, <4>1, <4>2 DEF HandleInv, RequestsAreOwn
      <4>3. CASE r.kind = "open"
        BY <4>1, <4>3 DEF Foreign!Awaits, HandleInv, CapacityInv
      <4>4. QED BY <4>2, <4>3
    <3>2. QED BY <3>1
  <2>5. PhasesAreTracked'
    BY <2>1, <2>3, <2>4 DEF HandleInv, PhasesAreTracked, Holds
  <2>6. EndsAreTold'
    BY <2>2, <2>3, <2>4 DEF HandleInv, EndsAreTold, Holds
  <2>7. RequestsAreOwn'
    BY <1>0, <2>1, <2>3, <2>4 DEF HandleInv, RequestsAreOwn, RequestsTyped
  <2>8. Foreign!NoHandleLeft'
    <3>1. CASE r.kind = "open"
      BY <1>0, <2>1, <2>2, <3>1 DEF HandleInv, Foreign!NoHandleLeft, ServerTyped, Server
    <3>2. CASE r.kind # "open"
      <4>1. \A g \in known : server'[g].state = "open" => server[g].state = "open"
        BY <1>0, <2>2, <3>2 DEF Foreign!ServePhase, ServerTyped, Server
      <4>2. QED BY <2>1, <2>2, <3>2, <4>1 DEF HandleInv, Foreign!NoHandleLeft
    <3>3. QED BY <3>1, <3>2
  <2>9. ServerTyped'
    <3>1. known' \subseteq Handles
      BY <1>0, <2>2
    <3>2. server' \in [Handles -> Server]
      BY <1>0, <2>2 DEF ServerTyped, Server, Foreign!ServePhase
    <3>3. QED BY <3>1, <3>2 DEF ServerTyped
  <2>10. QED BY <1>0, <2>5, <2>6, <2>7, <2>8, <2>9 DEF HandleInv
<1>13. ASSUME NEW h \in Handles, Foreign!Expire(h) PROVE HandleInv'
  BY <1>0, <1>13
     DEF Foreign!Expire, Foreign!client, HandleInv, PhasesAreTracked, RequestsAreOwn,
         EndsAreTold, Foreign!NoHandleLeft, Holds, ServerTyped
<1>14. CASE UNCHANGED Foreign!vars
  BY <1>0, <1>14
     DEF Foreign!vars, HandleInv, PhasesAreTracked, RequestsAreOwn, EndsAreTold,
         Foreign!NoHandleLeft, Holds, ServerTyped
<1>15. QED BY <1>1, <1>2, <1>3, <1>4, <1>6, <1>7, <1>8, <1>9, <1>10, <1>11, <1>12, <1>13, <1>14
           DEF Foreign!Next, Foreign!Step

LEMMA HandlesHold ==
  ASSUME ForeignConstants PROVE Foreign!Spec => []HandleInv
BY HandlesStart, HandlesStep, PTL DEF Foreign!Spec

\* An execution that the client validated and no longer tracks ended, expires by itself or
\* was told to end: whatever call failed, was cancelled or got no answer on the way.
THEOREM NoHandleIsLeft ==
  ASSUME ForeignConstants PROVE Foreign!Spec => []Foreign!NoHandleLeft
<1>1. HandleInv => Foreign!NoHandleLeft
  BY DEF HandleInv
<1>2. QED BY <1>1, HandlesHold, PTL

\* The phases of an execution take turns, and each that is under way is of one that the
\* client tracks.
THEOREM PhasesTakeTurns ==
  ASSUME ForeignConstants PROVE Foreign!Spec => []PhasesAreTracked
<1>1. HandleInv => PhasesAreTracked
  BY DEF HandleInv
<1>2. QED BY <1>1, HandlesHold, PTL

\* No phase is sent for an execution that ended while its call waited for the lock.
THEOREM NothingIsSentAfterEnd ==
  ASSUME ForeignConstants PROVE Foreign!Spec => Foreign!NothingAfterEnd
<1>1. ASSUME CapacityInv, Foreign!Next PROVE Foreign!OpenStep
  <2> SUFFICES ASSUME NEW d \in Methods, call[d].step = "waiting", call'[d].step = "sent"
               PROVE  ~call[d].terminal
    BY DEF Foreign!OpenStep
  <2>0. CallsTyped /\ RequestsTyped /\ expected \in [Handles -> Nat]
    BY <1>1 DEF CapacityInv
  \* A call that goes anywhere but to its request is not the one.
  <2>1. ASSUME NEW c \in Methods, NEW place \in Steps \ {"sent"}, NEW hs,
               call' = Foreign!After(c, place, hs)
        PROVE  FALSE
    BY <2>0, <2>1, AfterCall
  <2>2. ASSUME NEW c \in Methods, Foreign!Enter(c) PROVE ~call[d].terminal
    <3>1. CASE \E hs : call' = Foreign!After(c, "failed", hs)
      BY <2>1, <3>1 DEF Steps
    <3>2. CASE ~Foreign!Ended(c) /\ call' = Foreign!After(c, "sent", {})
      <4>1. d = c
        BY <2>0, <3>2, AfterCall DEF Steps
      <4>2. QED BY <3>2, <4>1 DEF Foreign!Ended
    <3>3. QED BY <2>2, <3>1, <3>2 DEF Foreign!Enter
  <2>3. ASSUME NEW c \in Methods,
               \/ Foreign!Open(c) \/ Foreign!OpenFails(c) \/ Foreign!Opened(c) \/ Foreign!Succeeds(c)
               \/ Foreign!CleansUp(c) \/ Foreign!AbortFails(c) \/ Foreign!CleanedUp(c)
        PROVE  FALSE
    <3>1. PICK place, hs :
            /\ place \in {"opening", "failed", "ok", "aborting"}
            /\ call' = Foreign!After(c, place, hs)
      BY <2>3 DEF Foreign!Open, Foreign!OpenFails, Foreign!Opened, Foreign!Succeeds,
                  Foreign!CleansUp, Foreign!AbortFails, Foreign!CleanedUp
    <3>2. QED BY <2>1, <3>1 DEF Steps
  <2>4. ASSUME NEW c \in Methods, Foreign!GiveUp(c) PROVE FALSE
    BY <2>0, <2>4, GiveUpCall
  <2>5. ASSUME NEW c \in Methods, NEW what \in Foreign!Kinds, NEW h \in Handles,
               Foreign!Find(c, what, h)
        PROVE  FALSE
    BY <2>0, <2>5, FindCall
  <2>6. ASSUME NEW r \in requests, Foreign!Serve(r) PROVE FALSE
    <3>1. PICK answer \in {"yes", "no"}, h \in Handles : Foreign!Reply(r, answer, h)
      BY <2>0, <2>6 DEF Foreign!Serve, Foreign!ServeOpen, Foreign!ServePhase, RequestsTyped
    <3>2. QED BY <2>0, <3>1, ReplyCall DEF RequestsTyped
  <2>7. ASSUME NEW h \in Handles, Foreign!Expire(h) PROVE FALSE
    BY <2>7 DEF Foreign!Expire
  <2>8. QED BY <1>1, <2>2, <2>3, <2>4, <2>5, <2>6, <2>7 DEF Foreign!Next, Foreign!Step
<1>2. CapacityInv /\ [Foreign!Next]_Foreign!vars => [Foreign!OpenStep]_Foreign!vars
  BY <1>1
<1>3. QED BY <1>2, CapacityHolds, PTL DEF Foreign!Spec, Foreign!NothingAfterEnd

\* An open whose answer the client has not taken yet.
OpenedBy(c) == call[c].step = "opening" /\ call[c].reply = "yes"
\* A phase that names the execution is on its way.
Named(rs, h) == \E r \in rs : r.kind # "open" /\ r.handle = h
InOrder(s, h, n) == s[h].state = "open" /\ s[h].next = n

\* What the server opened is untouched until the client takes it.
OpenedAreFresh ==
    \A c \in Methods : OpenedBy(c) =>
        /\ call[c].handle \notin executions /\ ~Named(requests, call[c].handle)
        /\ call[c].handle \notin expired => InOrder(server, call[c].handle, 0)
        /\ \A d \in Methods : OpenedBy(d) /\ call[d].handle = call[c].handle => c = d

\* The server knows what is tracked, named or opened.
ServerKnows ==
    \A h \in Handles : server[h].state = "none" =>
        /\ h \notin executions /\ ~Named(requests, h)
        /\ \A c \in Methods : OpenedBy(c) => call[c].handle # h

\* An execution that nobody works on is where the client expects it; one that is worked on
\* is so until its request is served, and a chunk ahead then.
FreeInStep ==
    \A h \in executions \ expired : Foreign!LockFree(h) => InOrder(server, h, expected[h]) /\ ~Named(requests, h)
HeldInStep ==
    \A c \in Methods : call[c].step = "sent" /\ call[c].handle \notin expired =>
        /\ call[c].reply = "none" =>
             /\ InOrder(server, call[c].handle, expected[call[c].handle])
             /\ \A r \in requests : r.kind # "open" /\ r.handle = call[c].handle =>
                  r = [call |-> c, kind |-> call[c].kind, handle |-> call[c].handle, seq |-> call[c].seq]
        /\ call[c].reply = "yes" /\ call[c].kind = "chunk" =>
             InOrder(server, call[c].handle, expected[call[c].handle] + 1) /\ ~Named(requests, call[c].handle)

StepInv == OpenedAreFresh /\ ServerKnows /\ FreeInStep /\ HeldInStep

LEMMA StepStarts == ASSUME Foreign!Init PROVE StepInv
<1>1. /\ executions = {} /\ requests = {}
      /\ \A c \in Methods : call[c].step = "idle"
  BY DEF Foreign!Init
<1>2. QED
  BY <1>1 DEF StepInv, OpenedAreFresh, ServerKnows, FreeInStep, HeldInStep, OpenedBy, Named

\* The facts of the other invariants that the steps below rest on.
HandleFacts ==
    /\ CallsTyped /\ executions \subseteq Handles /\ expected \in [Handles -> Nat]
    /\ server \in [Handles -> Server] /\ RequestsTyped
    /\ \A c \in Methods :
         /\ call[c].step \in {"waiting", "sent"} => call[c].kind # "open" /\ call[c].handle \in Handles
         /\ call[c].step \in {"idle", "opening"} => call[c].kind = "open"
         /\ call[c].reply = "yes" => call[c].handle \in Handles
         /\ Holds(c) => call[c].handle \in executions
         /\ call[c].step = "waiting" /\ ~call[c].terminal => call[c].handle \in executions
    /\ \A c, d \in Methods : Holds(c) /\ Holds(d) /\ call[c].handle = call[d].handle => c = d
    /\ RequestsAreOwn

LEMMA HandlesFacts == HandleInv => HandleFacts
BY DEF HandleInv, CapacityInv, ServerTyped, PhasesAreTracked, HandleFacts

\* A step of a call that sends no phase of a tracked execution, but it keeps the lock or
\* the execution ends.
Yields(c, place, hs) ==
    /\ call' = Foreign!After(c, place, hs) /\ executions' = executions \ hs
    /\ UNCHANGED <<server, expired, expected>>
    /\ place \in Steps \ {"idle", "waiting", "sent"}
    /\ Holds(c) => place = "aborting" \/ call[c].handle \in hs
    /\ \A r \in requests' \ requests : r.kind # "open" =>
         /\ r.handle = call[c].handle /\ r.handle \in Handles
         /\ (Holds(c) /\ place = "aborting") \/ OpenedBy(c)
    /\ requests \subseteq requests'

LEMMA YieldKeepsStep ==
  ASSUME HandleFacts, StepInv, NEW c \in Methods, NEW place, NEW hs, Yields(c, place, hs)
  PROVE  StepInv'
<1>1. /\ call'[c].step = place /\ call'[c].reply = "none"
      /\ \A d \in Methods :
           /\ call'[d].kind = call[d].kind /\ call'[d].handle = call[d].handle
           /\ call'[d].seq = call[d].seq
           /\ d # c => call'[d].step = call[d].step /\ call'[d].reply = call[d].reply
  BY AfterCall DEF Yields, HandleFacts
<1>2. \A d \in Methods : OpenedBy(d)' <=> d # c /\ OpenedBy(d)
  BY <1>1 DEF OpenedBy
<1>3. \A d \in Methods : d # c => (Holds(d)' <=> Holds(d))
  BY <1>1 DEF Holds
<1>4. \A h : Named(requests', h) =>
        \/ Named(requests, h)
        \/ h = call[c].handle /\ h \in Handles /\ ((Holds(c) /\ Holds(c)') \/ OpenedBy(c))
  BY <1>1 DEF Named, Yields, Holds
<1>5. /\ UNCHANGED <<server, expired, expected>> /\ executions' \subseteq executions
      /\ \A h \in executions' : h \notin hs
  BY DEF Yields
<1>6. \A h, n : InOrder(server', h, n) <=> InOrder(server, h, n)
  BY <1>5 DEF InOrder
<1>7. OpenedAreFresh'
  <2>1. ASSUME NEW d \in Methods, OpenedBy(d)'
        PROVE  /\ call'[d].handle \notin executions' /\ ~Named(requests', call'[d].handle)
               /\ call'[d].handle \notin expired' => InOrder(server', call'[d].handle, 0)
               /\ \A e \in Methods : OpenedBy(e)' /\ call'[e].handle = call'[d].handle => d = e
    <3>1. OpenedBy(d) /\ d # c /\ call'[d].handle = call[d].handle
      BY <1>1, <1>2, <2>1
    <3>2. /\ call[d].handle \notin executions /\ ~Named(requests, call[d].handle)
          /\ call[d].handle \notin expired => InOrder(server, call[d].handle, 0)
          /\ \A e \in Methods : OpenedBy(e) /\ call[e].handle = call[d].handle => d = e
      BY <3>1 DEF StepInv, OpenedAreFresh
    <3>3. ~(call[d].handle = call[c].handle /\ (Holds(c) \/ OpenedBy(c)))
      BY <3>1, <3>2 DEF HandleFacts
    <3>4. ~Named(requests', call[d].handle)
      BY <1>4, <3>2, <3>3
    <3>5. call[d].handle \notin expired' => InOrder(server', call[d].handle, 0)
      BY <1>5, <1>6, <3>2
    <3>6. QED BY <1>1, <1>2, <1>5, <3>1, <3>2, <3>4, <3>5
  <2>2. QED BY <2>1 DEF OpenedAreFresh
<1>8. ServerKnows'
  <2>1. ASSUME NEW h \in Handles, server[h].state = "none"
        PROVE  h \notin executions' /\ ~Named(requests', h) /\ \A d \in Methods : OpenedBy(d)' => call'[d].handle # h
    <3>1. h \notin executions /\ ~Named(requests, h) /\ \A d \in Methods : OpenedBy(d) => call[d].handle # h
      BY <2>1 DEF StepInv, ServerKnows
    <3>2. ~(h = call[c].handle /\ (Holds(c) \/ OpenedBy(c)))
      BY <3>1 DEF HandleFacts
    <3>3. QED BY <1>1, <1>2, <1>4, <1>5, <3>1, <3>2
  <2>2. QED BY <1>5, <2>1 DEF ServerKnows
<1>9. FreeInStep'
  <2>1. ASSUME NEW h \in executions' \ expired', Foreign!LockFree(h)'
        PROVE  InOrder(server', h, expected'[h]) /\ ~Named(requests', h)
    <3>1. \A d \in Methods : Holds(d)' => call'[d].handle # h
      BY <2>1 DEF Foreign!LockFree, Holds
    <3>2. \A d \in Methods : Holds(d) => call[d].handle # h
      BY <1>1, <1>3, <1>5, <2>1, <3>1 DEF Yields, Holds
    <3>3. InOrder(server, h, expected[h]) /\ ~Named(requests, h) /\ h \in executions
      BY <1>5, <2>1, <3>2 DEF StepInv, FreeInStep, Foreign!LockFree, Holds
    <3>4. ~Named(requests', h)
      BY <1>4, <3>2, <3>3 DEF StepInv, OpenedAreFresh
    <3>5. InOrder(server', h, expected'[h])
      BY <1>5, <3>3 DEF InOrder
    <3>6. QED BY <3>4, <3>5
  <2>2. QED BY <2>1 DEF FreeInStep
<1>10. HeldInStep'
  <2>1. ASSUME NEW d \in Methods, call'[d].step = "sent", call'[d].handle \notin expired'
        PROVE  /\ d # c /\ call[d].step = "sent" /\ call[d].handle \notin expired
               /\ \A r \in requests' : r.kind # "open" /\ r.handle = call[d].handle => r \in requests
    <3>1. d # c /\ call[d].step = "sent" /\ call[d].handle \notin expired
      BY <1>1, <1>5, <2>1 DEF Yields
    <3>2. call[d].handle \in executions /\ Holds(d)
      BY <3>1 DEF HandleFacts, Holds
    <3>3. ~(call[d].handle = call[c].handle /\ (Holds(c) \/ OpenedBy(c)))
      BY <3>1, <3>2 DEF HandleFacts, StepInv, OpenedAreFresh
    <3>4. QED BY <3>1, <3>3 DEF Yields
  <2>2. ASSUME NEW d \in Methods, call'[d].step = "sent", call'[d].handle \notin expired'
        PROVE  Named(requests', call[d].handle) => Named(requests, call[d].handle)
    BY <2>1, <2>2 DEF Named
  <2>3. ASSUME NEW d \in Methods, call'[d].step = "sent", call'[d].handle \notin expired',
               call'[d].reply = "none"
        PROVE  /\ InOrder(server', call'[d].handle, expected'[call'[d].handle])
               /\ \A r \in requests' : r.kind # "open" /\ r.handle = call'[d].handle =>
                    r = [call |-> d, kind |-> call'[d].kind, handle |-> call'[d].handle,
                         seq |-> call'[d].seq]
    <3>1. d # c /\ call[d].step = "sent" /\ call[d].handle \notin expired /\ call[d].reply = "none"
      BY <1>1, <2>1, <2>3
    <3>2. /\ InOrder(server, call[d].handle, expected[call[d].handle])
          /\ \A r \in requests : r.kind # "open" /\ r.handle = call[d].handle =>
               r = [call |-> d, kind |-> call[d].kind, handle |-> call[d].handle, seq |-> call[d].seq]
      BY <3>1 DEF StepInv, HeldInStep
    <3>3. InOrder(server', call'[d].handle, expected'[call'[d].handle])
      BY <1>1, <1>5, <3>2 DEF InOrder
    <3>4. QED BY <1>1, <2>1, <2>3, <3>2, <3>3
  <2>4. ASSUME NEW d \in Methods, call'[d].step = "sent", call'[d].handle \notin expired',
               call'[d].reply = "yes", call'[d].kind = "chunk"
        PROVE  /\ InOrder(server', call'[d].handle, expected'[call'[d].handle] + 1)
               /\ ~Named(requests', call'[d].handle)
    <3>1. /\ d # c /\ call[d].step = "sent" /\ call[d].handle \notin expired /\ call[d].reply = "yes"
          /\ call[d].kind = "chunk"
      BY <1>1, <2>1, <2>4
    <3>2. InOrder(server, call[d].handle, expected[call[d].handle] + 1) /\ ~Named(requests, call[d].handle)
      BY <3>1 DEF StepInv, HeldInStep
    <3>3. InOrder(server', call'[d].handle, expected'[call'[d].handle] + 1)
      BY <1>1, <1>5, <3>2 DEF InOrder
    <3>4. QED BY <1>1, <2>2, <2>4, <3>2, <3>3
  <2>5. QED BY <2>3, <2>4 DEF HeldInStep
<1>11. QED BY <1>7, <1>8, <1>9, <1>10 DEF StepInv

\* An id is issued once, to one open.
LEMMA OpenKeepsStep ==
  ASSUME ~Reissues, HandleFacts, StepInv, NEW r \in requests, requests' = requests \ {r},
         UNCHANGED <<executions, expected, expired>>, Foreign!ServeOpen(r)
  PROVE  StepInv'
<1>0. /\ CallsTyped /\ server \in [Handles -> Server] /\ r.call \in Methods /\ r.kind = "open"
      /\ executions \subseteq Handles
  BY DEF HandleFacts, RequestsTyped, Foreign!ServeOpen
<1>1. PICK h \in Handles :
        /\ server[h].state = "none" /\ Foreign!Reply(r, "yes", h)
        /\ server' = [server EXCEPT ![h] = [state |-> "open", next |-> 0]]
  BY DEF Foreign!ServeOpen
<1>2. /\ InOrder(server', h, 0) /\ server'[h].state = "open"
      /\ \A g \in Handles : g # h => server'[g] = server[g]
  BY <1>0, <1>1 DEF InOrder
<1>3. /\ h \notin executions /\ ~Named(requests, h)
      /\ \A d \in Methods : OpenedBy(d) => call[d].handle # h
  BY <1>1 DEF StepInv, ServerKnows
<1>4. \A d \in Methods :
        /\ call'[d].step = call[d].step /\ call'[d].kind = call[d].kind
        /\ call'[d].seq = call[d].seq
        /\ \/ call'[d] = call[d]
           \/ d = r.call /\ call[d].step = "opening" /\ call'[d].handle = h
  <2>1. \A d \in Methods : Foreign!Awaits(d) = "open" => call[d].step = "opening"
    BY DEF Foreign!Awaits, HandleFacts
  <2>2. QED BY <1>0, <1>1, <2>1, ReplyCall
<1>5. \A g : Named(requests', g) => Named(requests, g)
  BY DEF Named
<1>6. OpenedAreFresh'
  <2>1. ASSUME NEW d \in Methods, OpenedBy(d)'
        PROVE  /\ call'[d].handle \notin executions' /\ ~Named(requests', call'[d].handle)
               /\ call'[d].handle \notin expired' => InOrder(server', call'[d].handle, 0)
               /\ \/ d = r.call /\ call'[d].handle = h
                  \/ OpenedBy(d) /\ call'[d] = call[d] /\ call[d].handle # h
    <3>1. CASE d = r.call /\ call'[d].handle = h
      <4>1. h \notin executions' /\ ~Named(requests', h)
        BY <1>3, <1>5
      <4>2. QED BY <1>2, <3>1, <4>1
    <3>2. CASE call'[d] = call[d]
      <4>1. /\ OpenedBy(d) /\ call[d].handle # h /\ call[d].handle \in Handles
            /\ call[d].handle \notin executions /\ ~Named(requests, call[d].handle)
            /\ call[d].handle \notin expired => InOrder(server, call[d].handle, 0)
        BY <1>3, <2>1, <3>2 DEF OpenedBy, StepInv, OpenedAreFresh, HandleFacts
      <4>2. QED BY <1>2, <1>5, <3>2, <4>1 DEF InOrder
    <3>3. QED BY <1>4, <3>1, <3>2
  <2>2. QED BY <2>1 DEF OpenedAreFresh, StepInv
<1>7. ServerKnows'
  <2>1. ASSUME NEW g \in Handles, server'[g].state = "none"
        PROVE  /\ g \notin executions' /\ ~Named(requests', g)
               /\ \A d \in Methods : OpenedBy(d)' => call'[d].handle # g
    <3>1. g # h /\ server[g].state = "none"
      BY <1>2, <2>1
    <3>2. g \notin executions /\ ~Named(requests, g) /\ \A d \in Methods : OpenedBy(d) => call[d].handle # g
      BY <3>1 DEF StepInv, ServerKnows
    <3>3. QED BY <1>4, <1>5, <3>1, <3>2 DEF OpenedBy
  <2>2. QED BY <2>1 DEF ServerKnows
<1>8. \A g : Foreign!LockFree(g)' => Foreign!LockFree(g)
  BY <1>4 DEF Foreign!LockFree
<1>9. FreeInStep'
  <2>1. ASSUME NEW g \in executions' \ expired', Foreign!LockFree(g)'
        PROVE  InOrder(server', g, expected'[g]) /\ ~Named(requests', g)
    <3>1. g \in executions \ expired /\ Foreign!LockFree(g) /\ g # h /\ g \in Handles
      BY <1>0, <1>3, <1>8, <2>1
    <3>2. QED BY <1>2, <1>5, <3>1 DEF StepInv, FreeInStep, InOrder
  <2>2. QED BY <2>1 DEF FreeInStep
<1>10. HeldInStep'
  <2>1. ASSUME NEW d \in Methods, call'[d].step = "sent"
        PROVE  /\ call'[d] = call[d] /\ call[d].step = "sent" /\ call[d].handle # h
               /\ call[d].handle \in Handles
    BY <1>0, <1>3, <1>4, <2>1 DEF HandleFacts, Holds
  <2>2. ASSUME NEW g \in Handles, g # h, NEW n PROVE InOrder(server, g, n) => InOrder(server', g, n)
    BY <1>2, <2>2 DEF InOrder
  <2>3. QED BY <1>5, <2>1, <2>2, ZenonT(60) DEF StepInv, HeldInStep
<1>11. QED BY <1>6, <1>7, <1>9, <1>10 DEF StepInv

\* A phase that is served moves its own execution on, and takes its request away.
LEMMA PhaseKeepsStep ==
  ASSUME HandleFacts, StepInv, NEW r \in requests, requests' = requests \ {r},
         UNCHANGED <<executions, expected, expired>>, Foreign!ServePhase(r)
  PROVE  StepInv'
<1> DEFINE h == r.handle
           accepted == /\ server[h].state = "open" /\ h \notin expired
                       /\ r.kind # "abort" => server[h].next = r.seq
<1>0. /\ CallsTyped /\ server \in [Handles -> Server] /\ r.call \in Methods /\ r.kind # "open"
      /\ executions \subseteq Handles /\ Named(requests, h) /\ h \in Handles
      /\ r.handle = call[r.call].handle /\ expected \in [Handles -> Nat]
  BY DEF HandleFacts, RequestsTyped, Foreign!ServePhase, Named, RequestsAreOwn
<1>1. /\ Foreign!Reply(r, IF accepted THEN "yes" ELSE "no", h)
      /\ server' = IF ~accepted THEN server
                   ELSE IF r.kind = "chunk" THEN [server EXCEPT ![h].next = @ + 1]
                   ELSE [server EXCEPT ![h].state = "closed"]
  BY DEF Foreign!ServePhase
<1>2. /\ \A g \in Handles : g # h => server'[g] = server[g]
      /\ \A g \in Handles : server'[g].state = "none" => server[g].state = "none"
      /\ accepted /\ r.kind = "chunk" =>
           server'[h].state = server[h].state /\ server'[h].next = server[h].next + 1
  BY <1>0, <1>1 DEF Server
<1>3. \A d \in Methods :
        /\ call'[d].step = call[d].step /\ call'[d].kind = call[d].kind
        /\ call'[d].seq = call[d].seq /\ call'[d].handle = call[d].handle
        /\ \/ call'[d] = call[d]
           \/ /\ d = r.call /\ Foreign!Awaits(d) = r.kind /\ call[d].reply = "none"
              /\ call'[d].reply = IF accepted THEN "yes" ELSE "no"
  <2> DEFINE answer == IF accepted THEN "yes" ELSE "no"
  <2>1. answer \in {"yes", "no"} /\ Foreign!Reply(r, answer, h)
    BY <1>1
  <2> HIDE DEF answer, accepted
  <2>2. \A d \in Methods :
          /\ call'[d].step = call[d].step /\ call'[d].kind = call[d].kind /\ call'[d].seq = call[d].seq
          /\ \/ call'[d] = call[d]
             \/ /\ d = r.call /\ Foreign!Awaits(d) = r.kind /\ call[d].reply = "none"
                /\ call'[d].reply = answer /\ call'[d].handle = h
    BY <1>0, <2>1, ReplyCall
  <2>3. QED BY <1>0, <2>2 DEF answer
<1>4. \A d \in Methods : OpenedBy(d)' <=> OpenedBy(d)
  BY <1>0, <1>3 DEF OpenedBy, Foreign!Awaits, HandleFacts
<1>5. \A g : Named(requests', g) => Named(requests, g)
  BY DEF Named
<1>6. \A g \in Handles : \A n : g # h => (InOrder(server', g, n) <=> InOrder(server, g, n))
  BY <1>2 DEF InOrder
<1>a. \A d \in Methods : OpenedBy(d) => call[d].handle \in Handles
  BY DEF OpenedBy, HandleFacts
<1> HIDE DEF accepted, h
<1>7. OpenedAreFresh'
  <2>1. ASSUME NEW d \in Methods, OpenedBy(d)'
        PROVE  /\ call'[d].handle \notin executions' /\ ~Named(requests', call'[d].handle)
               /\ call'[d].handle \notin expired' => InOrder(server', call'[d].handle, 0)
               /\ OpenedBy(d) /\ call'[d].handle = call[d].handle
    <3>1. OpenedBy(d) /\ call'[d].handle = call[d].handle /\ call[d].handle \in Handles
      BY <1>3, <1>4, <1>a, <2>1
    <3>2. /\ call[d].handle \notin executions /\ ~Named(requests, call[d].handle)
          /\ call[d].handle \notin expired => InOrder(server, call[d].handle, 0)
      BY <3>1 DEF StepInv, OpenedAreFresh
    <3>3. QED BY <1>0, <1>5, <1>6, <3>1, <3>2
  <2>2. QED BY <2>1 DEF StepInv, OpenedAreFresh
<1>8. ServerKnows'
  <2>1. ASSUME NEW g \in Handles, server'[g].state = "none"
        PROVE  /\ g \notin executions' /\ ~Named(requests', g)
               /\ \A d \in Methods : OpenedBy(d)' => call'[d].handle # g
    <3>1. g \notin executions /\ ~Named(requests, g) /\ \A d \in Methods : OpenedBy(d) => call[d].handle # g
      BY <1>2, <2>1 DEF StepInv, ServerKnows
    <3>2. QED BY <1>3, <1>4, <1>5, <3>1
  <2>2. QED BY <2>1 DEF ServerKnows
<1>9. FreeInStep'
  <2>1. ASSUME NEW g \in executions' \ expired', Foreign!LockFree(g)'
        PROVE  InOrder(server', g, expected'[g]) /\ ~Named(requests', g)
    <3>1. g \in executions \ expired /\ Foreign!LockFree(g) /\ g \in Handles
      BY <1>0, <1>3, <2>1 DEF Foreign!LockFree
    <3>2. InOrder(server, g, expected[g]) /\ ~Named(requests, g)
      BY <3>1 DEF StepInv, FreeInStep
    <3>3. QED BY <1>0, <1>5, <1>6, <3>1, <3>2
  <2>2. QED BY <2>1 DEF FreeInStep
<1>10. HeldInStep'
  <2>1. ASSUME NEW d \in Methods, call'[d].step = "sent", call'[d].handle \notin expired',
               call'[d].reply = "none"
        PROVE  /\ InOrder(server', call'[d].handle, expected'[call'[d].handle])
               /\ \A q \in requests' : q.kind # "open" /\ q.handle = call'[d].handle =>
                    q = [call |-> d, kind |-> call'[d].kind, handle |-> call'[d].handle,
                         seq |-> call'[d].seq]
    <3>1. /\ call'[d] = call[d] /\ call[d].step = "sent" /\ call[d].handle \notin expired
          /\ call[d].reply = "none" /\ call[d].handle \in Handles
      BY <1>3, <2>1 DEF HandleFacts
    <3>2. /\ InOrder(server, call[d].handle, expected[call[d].handle])
          /\ \A q \in requests : q.kind # "open" /\ q.handle = call[d].handle =>
               q = [call |-> d, kind |-> call[d].kind, handle |-> call[d].handle, seq |-> call[d].seq]
      BY <3>1 DEF StepInv, HeldInStep
    <3>3. call[d].handle # h
      <4>1. SUFFICES ASSUME call[d].handle = h PROVE FALSE
        OBVIOUS
      <4>2. r.call = d /\ r.kind = call[d].kind
        BY <1>0, <3>2, <4>1 DEF h
      <4>3. Foreign!Awaits(d) = r.kind
        BY <3>1, <4>2 DEF Foreign!Awaits
      <4>4. call' = [call EXCEPT ![d].reply = IF accepted THEN "yes" ELSE "no", ![d].handle = h]
        BY <1>1, <3>1, <4>2, <4>3 DEF Foreign!Reply
      <4>5. call'[d].reply # "none"
        BY <1>0, <4>4 DEF CallsTyped, Call
      <4>6. QED BY <2>1, <4>5
    <3>4. QED BY <1>6, <3>1, <3>2, <3>3
  <2>2. ASSUME NEW d \in Methods, call'[d].step = "sent", call'[d].handle \notin expired',
               call'[d].reply = "yes", call'[d].kind = "chunk"
        PROVE  /\ InOrder(server', call'[d].handle, expected'[call'[d].handle] + 1)
               /\ ~Named(requests', call'[d].handle)
    <3>1. /\ call'[d].handle = call[d].handle /\ call[d].step = "sent" /\ call[d].kind = "chunk"
          /\ call[d].handle \notin expired /\ call[d].handle \in Handles
      BY <1>3, <2>2 DEF HandleFacts
    <3>2. CASE call'[d] = call[d]
      <4>1. InOrder(server, call[d].handle, expected[call[d].handle] + 1) /\ ~Named(requests, call[d].handle)
        BY <2>2, <3>1, <3>2 DEF StepInv, HeldInStep
      <4>2. QED BY <1>0, <1>5, <1>6, <3>1, <4>1
    <3>3. CASE d = r.call /\ Foreign!Awaits(d) = r.kind /\ call[d].reply = "none" /\ accepted
      <4>1. /\ InOrder(server, call[d].handle, expected[call[d].handle])
            /\ \A q \in requests : q.kind # "open" /\ q.handle = call[d].handle =>
                 q = [call |-> d, kind |-> call[d].kind, handle |-> call[d].handle, seq |-> call[d].seq]
        BY <3>1, <3>3 DEF StepInv, HeldInStep
      <4>2. r.kind = "chunk" /\ call[d].handle = h
        BY <1>0, <3>1, <3>3 DEF Foreign!Awaits, h
      <4>3. InOrder(server', h, expected[h] + 1)
        BY <1>2, <3>3, <4>1, <4>2 DEF InOrder
      <4>4. ~Named(requests', h)
        BY <1>0, <4>1, <4>2 DEF Named, h
      <4>5. QED BY <3>1, <4>2, <4>3, <4>4
    <3>4. QED BY <1>3, <2>2, <3>2, <3>3
  <2>3. QED BY <2>1, <2>2 DEF HeldInStep
<1>11. QED BY <1>7, <1>8, <1>9, <1>10 DEF StepInv

LEMMA StepKept ==
  ASSUME ForeignConstants, ~Reissues, HandleInv, StepInv, [Foreign!Next]_Foreign!vars
  PROVE  StepInv'
<1>0. /\ HandleFacts /\ CallsTyped /\ executions \subseteq Handles
      /\ expected \in [Handles -> Nat] /\ server \in [Handles -> Server] /\ RequestsTyped
  BY HandlesFacts DEF HandleFacts
<1>a. /\ "opening" \in Steps \ {"idle", "waiting", "sent"}
      /\ "aborting" \in Steps \ {"idle", "waiting", "sent"}
      /\ "ok" \in Steps \ {"idle", "waiting", "sent"}
      /\ "failed" \in Steps \ {"idle", "waiting", "sent"}
      /\ "sent" \in Steps
  BY DEF Steps
<1>1. ASSUME NEW c \in Methods, Foreign!Open(c) PROVE StepInv'
  <2>1. PICK place \in {"opening", "failed"} :
          /\ call' = Foreign!After(c, place, Foreign!Reaped)
          /\ requests \subseteq requests' /\ \A r \in requests' \ requests : r.kind = "open"
    BY <1>1 DEF Foreign!Open, Foreign!Request
  <2>2. /\ executions' = executions \ Foreign!Reaped /\ call[c].step = "idle"
        /\ UNCHANGED <<server, expired, expected>>
    BY <1>1 DEF Foreign!Open, Foreign!Terminalize
  <2>3. Yields(c, place, Foreign!Reaped)
    BY <1>a, <2>1, <2>2 DEF Yields, Holds
  <2>4. QED BY <1>0, <2>3, YieldKeepsStep
<1>2. ASSUME NEW c \in Methods, Foreign!OpenFails(c) PROVE StepInv'
  <2>1. /\ call' = Foreign!After(c, "failed", {}) /\ executions' = executions \ {}
        /\ UNCHANGED <<server, expired, expected, requests>> /\ call[c].step = "opening"
    BY <1>2 DEF Foreign!OpenFails
  <2>2. Yields(c, "failed", {})
    BY <1>a, <2>1 DEF Yields, Holds
  <2>3. QED BY <1>0, <2>2, YieldKeepsStep
<1>3. ASSUME NEW c \in Methods, Foreign!Opened(c) PROVE StepInv'
  <2> DEFINE h == call[c].handle
  <2>1. /\ UNCHANGED <<server, expired>> /\ OpenedBy(c) /\ call[c].kind = "open" /\ h \in Handles
    BY <1>0, <1>3 DEF Foreign!Opened, HandleFacts, OpenedBy
  <2>2. CASE /\ call' = Foreign!After(c, "failed", {})
             /\ UNCHANGED <<executions, expected, requests>>
    <3>1. executions' = executions \ {}
      BY <2>2
    <3>2. Yields(c, "failed", {})
      BY <1>a, <2>1, <2>2, <3>1 DEF Yields, Holds
    <3>3. QED BY <1>0, <3>2, YieldKeepsStep
  <2>3. CASE /\ Foreign!AbortUntracked(c, h, 0) /\ call' = Foreign!After(c, "aborting", {})
             /\ UNCHANGED <<executions, expected>>
    <3>1. executions' = executions \ {}
      BY <2>3
    <3>2. requests \subseteq requests' /\ \A r \in requests' \ requests : r.handle = h
      BY <2>3 DEF Foreign!AbortUntracked, Foreign!Tell, Foreign!Request
    <3>3. Yields(c, "aborting", {})
      BY <1>a, <2>1, <2>3, <3>1, <3>2 DEF Yields, Holds
    <3>4. QED BY <1>0, <3>3, YieldKeepsStep
  <2>4. CASE /\ h \notin expired /\ executions' = executions \cup {h}
             /\ expected' = [expected EXCEPT ![h] = 0]
             /\ call' = Foreign!After(c, "ok", {}) /\ UNCHANGED requests
    <3>1. /\ h \notin executions /\ ~Named(requests, h) /\ InOrder(server, h, 0)
          /\ \A d \in Methods : OpenedBy(d) /\ call[d].handle = h => d = c
      BY <2>1, <2>4 DEF StepInv, OpenedAreFresh
    <3>2. /\ call'[c].step = "ok"
          /\ \A d \in Methods :
               /\ call'[d].kind = call[d].kind /\ call'[d].handle = call[d].handle
               /\ call'[d].seq = call[d].seq
               /\ d # c => call'[d].step = call[d].step /\ call'[d].reply = call[d].reply
      BY <1>0, <1>a, <2>4, AfterCall
    <3>3. /\ \A d \in Methods : OpenedBy(d)' <=> d # c /\ OpenedBy(d)
          /\ \A d \in Methods : Holds(d)' <=> Holds(d)
      BY <2>1, <3>2 DEF OpenedBy, Holds
    <3>4. expected'[h] = 0 /\ \A g \in executions : expected'[g] = expected[g] /\ g # h
      BY <1>0, <2>1, <2>4, <3>1
    <3>5. OpenedAreFresh'
      BY <2>1, <2>4, <3>1, <3>2, <3>3 DEF StepInv, OpenedAreFresh
    <3>6. ServerKnows'
      BY <2>1, <2>4, <3>1, <3>2, <3>3 DEF StepInv, ServerKnows, InOrder
    <3>7. FreeInStep'
      <4>1. ASSUME NEW g \in executions' \ expired', Foreign!LockFree(g)'
            PROVE  InOrder(server', g, expected'[g]) /\ ~Named(requests', g)
        <5>1. CASE g = h
          BY <2>1, <2>4, <3>1, <3>4, <5>1
        <5>2. CASE g # h
          <6>1. g \in executions \ expired /\ Foreign!LockFree(g)
            BY <2>1, <2>4, <3>2, <3>3, <4>1, <5>2 DEF Foreign!LockFree, Holds
          <6>2. QED BY <2>1, <2>4, <3>4, <6>1 DEF StepInv, FreeInStep
        <5>3. QED BY <5>1, <5>2
      <4>2. QED BY <4>1 DEF FreeInStep
    <3>8. HeldInStep'
      <4>1. \A d \in Methods : call'[d].step = "sent" =>
              d # c /\ call[d].step = "sent" /\ call[d].handle \in executions
        BY <1>0, <3>2 DEF HandleFacts, Holds
      <4>2. QED BY <2>1, <2>4, <3>2, <3>4, <4>1 DEF StepInv, HeldInStep
    <3>9. QED BY <3>5, <3>6, <3>7, <3>8 DEF StepInv
  <2>5. QED BY <1>3, <2>2, <2>3, <2>4 DEF Foreign!Opened
<1>4. ASSUME NEW c \in Methods, Foreign!Enter(c) PROVE StepInv'
  <2> DEFINE h == call[c].handle
  <2>1. /\ UNCHANGED <<server, expected, expired>> /\ call[c].step = "waiting"
        /\ Foreign!LockFree(h) /\ ~Holds(c) /\ ~OpenedBy(c)
        /\ call[c].kind # "open" /\ h \in Handles
    BY <1>0, <1>4 DEF Foreign!Enter, Holds, OpenedBy, HandleFacts
  <2>2. CASE call' = Foreign!After(c, "failed", {}) /\ UNCHANGED <<executions, requests>>
    <3>1. executions' = executions \ {}
      BY <2>2
    <3>2. Yields(c, "failed", {})
      BY <1>a, <2>1, <2>2, <3>1 DEF Yields
    <3>3. QED BY <1>0, <3>2, YieldKeepsStep
  <2>3. CASE /\ Foreign!Terminalize({h}) /\ call' = Foreign!After(c, "failed", {h})
             /\ UNCHANGED requests
    <3>1. executions' = executions \ {h}
      BY <2>3 DEF Foreign!Terminalize
    <3>2. Yields(c, "failed", {h})
      BY <1>a, <2>1, <2>3, <3>1 DEF Yields
    <3>3. QED BY <1>0, <3>2, YieldKeepsStep
  <2>4. CASE /\ ~Foreign!Ended(c) /\ h \notin expired /\ Foreign!Admitted(c)
             /\ call' = Foreign!After(c, "sent", {})
             /\ Foreign!Request(c, call[c].kind, h, call[c].seq) /\ UNCHANGED executions
    <3> DEFINE q == [call |-> c, kind |-> call[c].kind, handle |-> h, seq |-> call[c].seq]
    <3>1. /\ h \in executions /\ ~Named(requests, h) /\ InOrder(server, h, expected[h])
          /\ call[c].seq = expected[h]
      BY <1>0, <2>1, <2>4
         DEF Foreign!Ended, Foreign!Admitted, HandleFacts, StepInv, FreeInStep
    <3>2. /\ call'[c].step = "sent" /\ call'[c].reply = "none"
          /\ \A d \in Methods :
               /\ call'[d].kind = call[d].kind /\ call'[d].handle = call[d].handle
               /\ call'[d].seq = call[d].seq
               /\ d # c => call'[d].step = call[d].step /\ call'[d].reply = call[d].reply
      BY <1>0, <1>a, <2>4, AfterCall
    <3>3. requests' = requests \cup {q} /\ q.handle = h
      BY <2>4 DEF Foreign!Request
    <3> HIDE DEF q
    <3>4. \A g : g # h => (Named(requests', g) <=> Named(requests, g))
      BY <3>3 DEF Named
    <3>5. /\ \A d \in Methods : OpenedBy(d)' <=> OpenedBy(d)
          /\ \A d \in Methods : d # c => (Holds(d)' <=> Holds(d))
          /\ Holds(c)'
      BY <2>1, <3>2 DEF OpenedBy, Holds
    <3>6. server[h].state # "none" /\ \A d \in Methods : OpenedBy(d) => call[d].handle # h
      BY <3>1 DEF InOrder, StepInv, OpenedAreFresh
    <3>7. OpenedAreFresh'
      BY <2>1, <2>4, <3>2, <3>4, <3>5, <3>6 DEF StepInv, OpenedAreFresh
    <3>8. ServerKnows'
      BY <2>1, <2>4, <3>2, <3>4, <3>5, <3>6 DEF StepInv, ServerKnows
    <3>9. FreeInStep'
      <4>1. ASSUME NEW g \in executions' \ expired', Foreign!LockFree(g)'
            PROVE  g # h /\ g \in executions \ expired /\ Foreign!LockFree(g)
        BY <2>1, <2>4, <3>2, <3>5, <4>1 DEF Foreign!LockFree, Holds
      <4>2. QED BY <2>1, <3>4, <4>1 DEF StepInv, FreeInStep
    <3>10. HeldInStep'
      <4>1. ASSUME NEW d \in Methods, d # c, call'[d].step = "sent", call'[d].handle \notin expired'
            PROVE  /\ call'[d].reply = "none" =>
                        /\ InOrder(server', call'[d].handle, expected'[call'[d].handle])
                        /\ \A r \in requests' : r.kind # "open" /\ r.handle = call'[d].handle =>
                             r = [call |-> d, kind |-> call'[d].kind, handle |-> call'[d].handle,
                                  seq |-> call'[d].seq]
                   /\ call'[d].reply = "yes" /\ call'[d].kind = "chunk" =>
                        /\ InOrder(server', call'[d].handle, expected'[call'[d].handle] + 1)
                        /\ ~Named(requests', call'[d].handle)
        <5>1. /\ call[d].step = "sent" /\ call[d].handle \notin expired /\ call[d].kind # "open"
              /\ call[d].handle # h
          BY <1>0, <2>1, <3>2, <4>1 DEF HandleFacts, Foreign!LockFree
        <5>2. \A r \in requests' : r.handle = call[d].handle => r \in requests
          BY <3>3, <5>1
        <5>3. QED BY <2>1, <3>2, <3>4, <4>1, <5>1, <5>2 DEF StepInv, HeldInStep
      <4>2. /\ InOrder(server', call'[c].handle, expected'[call'[c].handle])
            /\ \A r \in requests' : r.kind # "open" /\ r.handle = call'[c].handle =>
                 r = [call |-> c, kind |-> call'[c].kind, handle |-> call'[c].handle,
                      seq |-> call'[c].seq]
        BY <2>1, <3>1, <3>2, <3>3 DEF Named, q
      <4>3. QED BY <3>2, <4>1, <4>2 DEF HeldInStep
    <3>11. QED BY <3>7, <3>8, <3>9, <3>10 DEF StepInv
  <2>5. QED BY <1>4, <2>2, <2>3, <2>4 DEF Foreign!Enter
\* The execution of a phase that ends it.
<1>5. ASSUME NEW c \in Methods, Holds(c), NEW place \in {"ok", "failed"},
             Foreign!Terminalize({call[c].handle}),
             call' = Foreign!After(c, place, {call[c].handle}),
             UNCHANGED <<server, requests, expired, expected>>
      PROVE  StepInv'
  <2>1. executions' = executions \ {call[c].handle}
    BY <1>5 DEF Foreign!Terminalize
  <2>2. Yields(c, place, {call[c].handle})
    BY <1>a, <1>5, <2>1 DEF Yields
  <2>3. QED BY <1>0, <2>2, YieldKeepsStep
<1>6. ASSUME NEW c \in Methods, Foreign!Succeeds(c) PROVE StepInv'
  <2> DEFINE h == call[c].handle
  <2>1. Holds(c) /\ call[c].step = "sent" /\ call[c].reply = "yes" /\ h \in executions
    BY <1>0, <1>6 DEF Foreign!Succeeds, Holds, HandleFacts
  <2>2. CASE call[c].kind = "chunk"
    <3>1. /\ expected' = [expected EXCEPT ![h] = @ + 1] /\ call' = Foreign!After(c, "ok", {})
          /\ UNCHANGED <<executions, server, requests, expired>>
      BY <1>6, <2>2 DEF Foreign!Succeeds
    <3>2. /\ call'[c].step = "ok"
          /\ \A d \in Methods :
               /\ call'[d].kind = call[d].kind /\ call'[d].handle = call[d].handle
               /\ call'[d].seq = call[d].seq
               /\ d # c => call'[d].step = call[d].step /\ call'[d].reply = call[d].reply
      BY <1>0, <1>a, <3>1, AfterCall
    <3>3. /\ \A d \in Methods : OpenedBy(d)' <=> OpenedBy(d)
          /\ \A d \in Methods : d # c => (Holds(d)' <=> Holds(d))
      BY <2>1, <3>2 DEF OpenedBy, Holds
    <3>4. expected'[h] = expected[h] + 1 /\ \A g \in executions : g # h => expected'[g] = expected[g]
      BY <1>0, <2>1, <3>1
    <3>5. OpenedAreFresh' /\ ServerKnows'
      BY <3>1, <3>2, <3>3 DEF StepInv, OpenedAreFresh, ServerKnows
    <3>6. FreeInStep'
      <4>1. ASSUME NEW g \in executions' \ expired', Foreign!LockFree(g)'
            PROVE  InOrder(server', g, expected'[g]) /\ ~Named(requests', g)
        <5>1. CASE g = h
          BY <2>1, <2>2, <3>1, <3>4, <4>1, <5>1 DEF StepInv, HeldInStep
        <5>2. CASE g # h
          <6>1. g \in executions \ expired /\ Foreign!LockFree(g)
            BY <2>1, <3>1, <3>2, <3>3, <4>1, <5>2 DEF Foreign!LockFree, Holds
          <6>2. QED BY <3>1, <3>4, <5>2, <6>1 DEF StepInv, FreeInStep
        <5>3. QED BY <5>1, <5>2
      <4>2. QED BY <4>1 DEF FreeInStep
    <3>7. HeldInStep'
      <4>1. \A d \in Methods : call'[d].step = "sent" =>
              /\ d # c /\ call[d].step = "sent" /\ call[d].handle \in executions
              /\ call[d].handle # h
        BY <1>0, <2>1, <3>2 DEF HandleFacts, Holds
      <4>2. QED BY <3>1, <3>2, <3>4, <4>1 DEF StepInv, HeldInStep
    <3>8. QED BY <3>5, <3>6, <3>7 DEF StepInv
  <2>3. CASE call[c].kind # "chunk"
    BY <1>5, <1>6, <2>1, <2>3 DEF Foreign!Succeeds
  <2>4. QED BY <2>2, <2>3
<1>7. ASSUME NEW c \in Methods, Foreign!CleansUp(c) PROVE StepInv'
  <2>1. Holds(c) /\ call[c].handle \in Handles
    BY <1>0, <1>7 DEF Foreign!CleansUp, Holds, HandleFacts
  <2>2. /\ executions' = executions \ {} /\ call' = Foreign!After(c, "aborting", {})
        /\ UNCHANGED <<server, expired, expected>> /\ requests \subseteq requests'
        /\ \A r \in requests' \ requests : r.handle = call[c].handle
    BY <1>7 DEF Foreign!CleansUp, Foreign!Tell, Foreign!Request, Foreign!client
  <2>3. Yields(c, "aborting", {})
    BY <1>a, <2>1, <2>2 DEF Yields
  <2>4. QED BY <1>0, <2>3, YieldKeepsStep
<1>8. ASSUME NEW c \in Methods, Foreign!AbortFails(c) PROVE StepInv'
  <2>1. Holds(c)
    BY <1>8 DEF Foreign!AbortFails, Holds
  <2>2. QED BY <1>5, <1>8, <2>1 DEF Foreign!AbortFails
<1>9. ASSUME NEW c \in Methods, Foreign!CleanedUp(c) PROVE StepInv'
  <2>1. CASE call[c].kind = "open"
    <3>1. /\ executions' = executions \ {} /\ call' = Foreign!After(c, "failed", {})
          /\ UNCHANGED <<server, requests, expired, expected>>
      BY <1>9, <2>1 DEF Foreign!CleanedUp, Foreign!Terminalize, Foreign!Ends
    <3>2. Yields(c, "failed", {})
      BY <1>a, <2>1, <3>1 DEF Yields, Holds
    <3>3. QED BY <1>0, <3>2, YieldKeepsStep
  <2>2. CASE call[c].kind # "open"
    <3>1. Holds(c)
      BY <1>9, <2>2 DEF Foreign!CleanedUp, Holds
    <3>2. QED BY <1>5, <1>9, <2>2, <3>1 DEF Foreign!CleanedUp, Foreign!Ends
  <2>3. QED BY <2>1, <2>2
<1>10. ASSUME NEW c \in Methods, Foreign!GiveUp(c) PROVE StepInv'
  <2>1. /\ \A d \in Methods :
             /\ call'[d].step = call[d].step /\ call'[d].kind = call[d].kind
             /\ call'[d].handle = call[d].handle /\ call'[d].seq = call[d].seq
             /\ call'[d].reply = call[d].reply \/ call'[d].reply = "no"
        /\ UNCHANGED <<server, executions, expected, requests, expired>>
    BY <1>0, <1>10, GiveUpCall DEF Foreign!GiveUp, Foreign!client
  <2>2. \A d \in Methods : OpenedBy(d)' => OpenedBy(d)
    BY <2>1 DEF OpenedBy
  <2>3. OpenedAreFresh' /\ ServerKnows'
    BY <2>1, <2>2 DEF StepInv, OpenedAreFresh, ServerKnows
  <2>4. FreeInStep'
    BY <2>1 DEF StepInv, FreeInStep, Foreign!LockFree
  <2>5. HeldInStep'
    BY <2>1 DEF StepInv, HeldInStep
  <2>6. QED BY <2>3, <2>4, <2>5 DEF StepInv
<1>11. ASSUME NEW c \in Methods, NEW what \in Foreign!Kinds, NEW h \in Handles,
              Foreign!Find(c, what, h)
       PROVE  StepInv'
  <2>1. /\ call[c].step = "idle" /\ call'[c].step = "waiting"
        /\ \A d \in Methods \ {c} : call'[d] = call[d]
        /\ UNCHANGED <<server, executions, expected, requests, expired>>
    <3>1. UNCHANGED <<server, executions, expected, requests, expired>>
      BY <1>11 DEF Foreign!Find, Foreign!client
    <3>2. QED BY <1>0, <1>11, <3>1, FindCall
  <2>2. \A d \in Methods : OpenedBy(d)' => OpenedBy(d) /\ d # c
    BY <2>1 DEF OpenedBy
  <2>3. OpenedAreFresh' /\ ServerKnows'
    BY <2>1, <2>2 DEF StepInv, OpenedAreFresh, ServerKnows
  <2>4. FreeInStep'
    BY <2>1 DEF StepInv, FreeInStep, Foreign!LockFree
  <2>5. HeldInStep'
    BY <2>1 DEF StepInv, HeldInStep
  <2>6. QED BY <2>3, <2>4, <2>5 DEF StepInv
<1>13. ASSUME NEW h \in Handles, Foreign!Expire(h) PROVE StepInv'
  <2>1. /\ expired \subseteq expired'
        /\ UNCHANGED <<server, executions, expected, requests, call>>
    BY <1>13 DEF Foreign!Expire, Foreign!client
  <2>2. OpenedAreFresh' /\ ServerKnows' /\ FreeInStep' /\ HeldInStep'
    BY <2>1 DEF StepInv, OpenedAreFresh, ServerKnows, FreeInStep, HeldInStep, OpenedBy,
                Foreign!LockFree
  <2>3. QED BY <2>2 DEF StepInv
<1>14. CASE UNCHANGED Foreign!vars
  BY <1>14 DEF Foreign!vars, StepInv, OpenedAreFresh, ServerKnows, FreeInStep, HeldInStep,
               OpenedBy, Foreign!LockFree
<1>12. ASSUME NEW r \in requests, Foreign!Serve(r) PROVE StepInv'
  <2>1. requests' = requests \ {r} /\ UNCHANGED <<executions, expected, expired>>
    BY <1>12 DEF Foreign!Serve, Foreign!client
  <2>2. CASE Foreign!ServeOpen(r)
    BY <1>0, <2>1, <2>2, OpenKeepsStep
  <2>3. CASE Foreign!ServePhase(r)
    BY <1>0, <2>1, <2>3, PhaseKeepsStep
  <2>4. QED BY <1>12, <2>2, <2>3 DEF Foreign!Serve
<1>15. QED BY <1>1, <1>2, <1>3, <1>4, <1>6, <1>7, <1>8, <1>9, <1>10, <1>11, <1>12, <1>13, <1>14
           DEF Foreign!Next, Foreign!Step

LEMMA StepsHold ==
  ASSUME ForeignConstants, ~Reissues PROVE Foreign!Spec => []StepInv
<1>1. Foreign!Init => StepInv
  BY StepStarts
<1>2. HandleInv /\ StepInv /\ [Foreign!Next]_Foreign!vars => StepInv'
  BY StepKept
<1>3. QED BY <1>1, <1>2, HandlesHold, PTL DEF Foreign!Spec

\* An execution that nobody works on is where the client expects it, if the server issues
\* an id once: the next phase that the client sends is accepted, whatever was given up.
THEOREM ClientIsInStep ==
  ASSUME ForeignConstants, ~Reissues PROVE Foreign!Spec => []Foreign!InStep
<1>1. StepInv => Foreign!InStep
  BY DEF StepInv, FreeInStep, Foreign!InStep, InOrder
<1>2. QED BY <1>1, StepsHold, PTL

--------------------------------------------------------------------------------
(* Refresh tokens: requests that share a provider mint one at a time, are sent again
   after transport failures, and once more after a 401.  *)

TokenConstants == Posts \subseteq TokenRequests

TokenStages == {"idle", "token", "mint", "minted", "send", "pause", "done"}
TokenReq == [step : TokenStages, token : Nat, second : BOOLEAN, since : Nat, attempt : Nat,
             status : {"none", "ok", "401", "busy", "error"}]
TokensTyped ==
    /\ endpoint \in [refresh : Nat, reused : BOOLEAN] /\ tokenIssued \in Nat
    /\ tokenCache \in [token : Nat, fresh : BOOLEAN]
    /\ rotated \in Nat /\ tokenReq \in [TokenRequests -> TokenReq]
    /\ effects \in [TokenRequests -> Nat] /\ lost \in BOOLEAN

Minting(r) == tokenReq[r].step \in {"mint", "minted"}

\* The lock: one request mints at a time.
OneMints == \A r, q \in TokenRequests : Minting(r) /\ Minting(q) => r = q

\* The provider has what the endpoint takes next, but between an answer and its rotation.
HasNext ==
    /\ endpoint.reused => lost
    /\ ~lost /\ (\A r \in TokenRequests : tokenReq[r].step # "minted") =>
         rotated = endpoint.refresh

\* A request that is not idempotent is over once it had an effect.
PostsEnd ==
    \A r \in Posts : effects[r] <= 1 /\ (tokenReq[r].step # "done" => effects[r] = 0)

\* The second try of a request has a token issued after its 401.
SecondIsNewer ==
    \A r \in TokenRequests :
        /\ tokenReq[r].since <= tokenIssued
        /\ tokenReq[r].step # "done" => tokenReq[r].status = "none"
        /\ tokenReq[r].second /\ tokenReq[r].step = "minted" => tokenIssued > tokenReq[r].since
        /\ tokenReq[r].second /\ tokenReq[r].step \in {"send", "pause"} =>
             tokenReq[r].token > tokenReq[r].since
        /\ tokenReq[r].status = "401" => tokenReq[r].token > tokenReq[r].since

TokenInv == TokensTyped /\ OneMints /\ HasNext /\ PostsEnd /\ SecondIsNewer

LEMMA TokensStart == ASSUME TokenConstants, Auth!TokenInit PROVE TokenInv
<1>1. TokensTyped
  BY DEF Auth!TokenInit, TokensTyped, TokenReq, TokenStages
<1>2. OneMints /\ HasNext /\ PostsEnd /\ SecondIsNewer
  BY DEF TokenConstants, Auth!TokenInit, OneMints, Minting, HasNext, PostsEnd, SecondIsNewer
<1>3. QED BY <1>1, <1>2 DEF TokenInv

\* A request goes from one place to another and keeps the rest, or ends.
LEMMA Goes ==
  \A r \in TokenRequests, s \in TokenStages, t \in {"none", "ok", "401", "busy", "error"} :
     /\ TokensTyped /\ Auth!TokenGoto(r, s) =>
          /\ tokenReq' \in [TokenRequests -> TokenReq] /\ tokenReq'[r].step = s
          /\ tokenReq'[r].token = tokenReq[r].token /\ tokenReq'[r].second = tokenReq[r].second
          /\ tokenReq'[r].since = tokenReq[r].since /\ tokenReq'[r].status = tokenReq[r].status
          /\ \A q \in TokenRequests \ {r} : tokenReq'[q] = tokenReq[q]
     /\ TokensTyped /\ Auth!TokenEnd(r, t) =>
          /\ tokenReq' \in [TokenRequests -> TokenReq] /\ tokenReq'[r].step = "done"
          /\ tokenReq'[r].token = tokenReq[r].token /\ tokenReq'[r].second = tokenReq[r].second
          /\ tokenReq'[r].since = tokenReq[r].since /\ tokenReq'[r].status = t
          /\ \A q \in TokenRequests \ {r} : tokenReq'[q] = tokenReq[q]
<1> TAKE r \in TokenRequests, s \in TokenStages, t \in {"none", "ok", "401", "busy", "error"}
<1>1. ASSUME TokensTyped, Auth!TokenGoto(r, s)
      PROVE  /\ tokenReq' \in [TokenRequests -> TokenReq] /\ tokenReq'[r].step = s
             /\ tokenReq'[r].token = tokenReq[r].token /\ tokenReq'[r].second = tokenReq[r].second
             /\ tokenReq'[r].since = tokenReq[r].since /\ tokenReq'[r].status = tokenReq[r].status
             /\ \A q \in TokenRequests \ {r} : tokenReq'[q] = tokenReq[q]
  BY <1>1 DEF TokensTyped, TokenReq, Auth!TokenGoto
<1>2. ASSUME TokensTyped, Auth!TokenEnd(r, t)
      PROVE  /\ tokenReq' \in [TokenRequests -> TokenReq] /\ tokenReq'[r].step = "done"
             /\ tokenReq'[r].token = tokenReq[r].token /\ tokenReq'[r].second = tokenReq[r].second
             /\ tokenReq'[r].since = tokenReq[r].since /\ tokenReq'[r].status = t
             /\ \A q \in TokenRequests \ {r} : tokenReq'[q] = tokenReq[q]
  BY <1>2, ZenonT(60) DEF TokensTyped, TokenReq, Auth!TokenEnd, TokenStages
<1>3. QED BY <1>1, <1>2

\* Where a request is after an attempt.
Follows(r, outcome) ==
    /\ tokenReq' \in [TokenRequests -> TokenReq]
    /\ \A q \in TokenRequests \ {r} : tokenReq'[q] = tokenReq[q]
    /\ tokenReq'[r].token = tokenReq[r].token
    /\ \/ /\ tokenReq'[r].step = "pause" /\ Auth!Retried(r, outcome)
          /\ tokenReq'[r].second = tokenReq[r].second /\ tokenReq'[r].since = tokenReq[r].since
          /\ tokenReq'[r].status = tokenReq[r].status
       \/ /\ outcome = "401" /\ ~tokenReq[r].second /\ tokenReq'[r].step = "token"
          /\ tokenReq'[r].since = tokenIssued /\ tokenReq'[r].status = tokenReq[r].status
       \/ /\ tokenReq'[r].step = "done" /\ tokenReq'[r].second = tokenReq[r].second
          /\ tokenReq'[r].since = tokenReq[r].since
          /\ tokenReq'[r].status = Auth!Status(outcome)
          /\ outcome = "401" => tokenReq[r].second

LEMMA OutcomeFollows ==
  \A r \in TokenRequests, outcome \in {"ok", "401", "busy", "paused", "broken", "unsent", "tls"} :
     TokensTyped /\ Auth!Outcome(r, outcome) => Follows(r, outcome)
<1> SUFFICES ASSUME NEW r \in TokenRequests,
                    NEW outcome \in {"ok", "401", "busy", "paused", "broken", "unsent", "tls"},
                    TokensTyped, Auth!Outcome(r, outcome)
             PROVE  Follows(r, outcome)
  OBVIOUS
<1>0. tokenReq \in [TokenRequests -> TokenReq] /\ tokenIssued \in Nat
  BY DEF TokensTyped
<1>1. CASE Auth!Retried(r, outcome) /\ tokenReq' = [tokenReq EXCEPT ![r].step = "pause"]
  BY <1>0, <1>1 DEF Follows, TokenReq, TokenStages
<1>2. CASE /\ outcome = "401" /\ ~tokenReq[r].second
           /\ tokenReq' = [tokenReq EXCEPT ![r].step = "token", ![r].second = TRUE,
                                           ![r].since = tokenIssued, ![r].attempt = 1]
  BY <1>0, <1>2 DEF Follows, TokenReq, TokenStages
<1>3. CASE /\ ~(outcome = "401" /\ ~tokenReq[r].second)
           /\ tokenReq' = [tokenReq EXCEPT ![r].step = "done", ![r].status = Auth!Status(outcome)]
  <2>1. Auth!Status(outcome) \in {"none", "ok", "401", "busy", "error"}
    BY DEF Auth!Status
  <2>2. QED BY <1>0, <1>3, <2>1 DEF Follows, TokenReq, TokenStages
<1>4. QED BY <1>1, <1>2, <1>3 DEF Auth!Outcome

LEMMA TokenKept ==
  ASSUME TokenConstants, TokenInv, [Auth!TokenNext]_Auth!tokenVars
  PROVE  TokenInv'
<1>0. /\ TokensTyped /\ tokenReq \in [TokenRequests -> TokenReq] /\ tokenIssued \in Nat
      /\ effects \in [TokenRequests -> Nat] /\ Posts \subseteq TokenRequests
      /\ endpoint \in [refresh : Nat, reused : BOOLEAN] /\ rotated \in Nat /\ lost \in BOOLEAN
  BY DEF TokenInv, TokensTyped, TokenConstants
<1>1. ASSUME NEW r \in TokenRequests, Auth!TokenBegin(r) PROVE TokenInv'
  <2>1. /\ tokenReq' \in [TokenRequests -> TokenReq] /\ tokenReq'[r].step = "token"
        /\ tokenReq[r].step = "idle"
        /\ tokenReq'[r].token = tokenReq[r].token /\ tokenReq'[r].second = tokenReq[r].second
        /\ tokenReq'[r].since = tokenReq[r].since /\ tokenReq'[r].status = tokenReq[r].status
        /\ \A q \in TokenRequests \ {r} : tokenReq'[q] = tokenReq[q]
    BY <1>0, <1>1, Goes DEF Auth!TokenBegin, TokenStages
  <2>2. UNCHANGED <<endpoint, tokenIssued, tokenCache, rotated, effects, lost>>
    BY <1>1 DEF Auth!TokenBegin
  <2>3. TokensTyped' /\ OneMints' /\ HasNext'
    BY <1>0, <2>1, <2>2 DEF TokenInv, TokensTyped, OneMints, Minting, HasNext
  <2>4. PostsEnd' /\ SecondIsNewer'
    BY <1>0, <2>1, <2>2 DEF TokenInv, PostsEnd, SecondIsNewer
  <2>5. QED BY <2>3, <2>4 DEF TokenInv
<1>2. ASSUME NEW r \in TokenRequests, Auth!GetToken(r) PROVE TokenInv'
  <2>1. /\ tokenReq[r].step = "token"
        /\ UNCHANGED <<endpoint, tokenIssued, tokenCache, rotated, effects, lost>>
        /\ \A q \in TokenRequests : ~Minting(q)
    BY <1>2 DEF Auth!GetToken, Auth!LockFree, Minting
  <2>2. /\ tokenReq' \in [TokenRequests -> TokenReq]
        /\ tokenReq'[r].second = tokenReq[r].second
        /\ tokenReq'[r].since = tokenReq[r].since /\ tokenReq'[r].status = tokenReq[r].status
        /\ \A q \in TokenRequests \ {r} : tokenReq'[q] = tokenReq[q]
        /\ \/ tokenReq'[r].step = "mint" /\ tokenReq'[r].token = tokenReq[r].token
           \/ tokenReq'[r].step = "send" /\ ~tokenReq[r].second
    <3>1. CASE Auth!TokenGoto(r, "mint")
      BY <1>0, <3>1, Goes DEF TokenStages
    <3>2. CASE /\ ~tokenReq[r].second
               /\ tokenReq' = [tokenReq EXCEPT ![r].step = "send", ![r].token = tokenCache.token]
      BY <1>0, <3>2, ZenonT(60) DEF TokensTyped, TokenReq, TokenStages
    <3>3. QED BY <1>2, <3>1, <3>2 DEF Auth!GetToken, Auth!Forced
  <2>3. TokensTyped' /\ OneMints' /\ HasNext'
    BY <1>0, <2>1, <2>2 DEF TokenInv, TokensTyped, OneMints, Minting, HasNext
  <2>4. PostsEnd' /\ SecondIsNewer'
    BY <1>0, <2>1, <2>2 DEF TokenInv, PostsEnd, SecondIsNewer
  <2>5. QED BY <2>3, <2>4 DEF TokenInv
<1>3. ASSUME NEW r \in TokenRequests, Auth!Mint(r) PROVE TokenInv'
  <2>1. tokenReq[r].step = "mint" /\ UNCHANGED <<tokenCache, rotated, effects>>
        /\ \A q \in TokenRequests \ {r} : ~Minting(q)
    BY <1>3 DEF Auth!Mint, TokenInv, OneMints, Minting
  <2>2. CASE /\ tokenIssued' = tokenIssued + 1
             /\ endpoint' = endpoint \/ endpoint' = [endpoint EXCEPT !.refresh = @ + 1]
             /\ \/ Auth!TokenGoto(r, "minted") /\ UNCHANGED lost
                \/ lost' = TRUE /\ Auth!TokenEnd(r, "error")
    <3>1. endpoint' \in [refresh : Nat, reused : BOOLEAN] /\ endpoint'.reused = endpoint.reused
      BY <1>0, <2>2
    <3>2. /\ tokenReq' \in [TokenRequests -> TokenReq]
          /\ tokenReq'[r].second = tokenReq[r].second
          /\ tokenReq'[r].since = tokenReq[r].since
          /\ \A q \in TokenRequests \ {r} : tokenReq'[q] = tokenReq[q]
          /\ \/ tokenReq'[r].step = "minted" /\ lost' = lost /\ tokenReq'[r].status = tokenReq[r].status
             \/ tokenReq'[r].step = "done" /\ lost' = TRUE /\ tokenReq'[r].status = "error"
      BY <1>0, <2>2, Goes DEF TokenStages
    <3>3. TokensTyped'
      <4>1. tokenIssued' \in Nat
        BY <1>0, <2>2
      <4>2. lost' \in BOOLEAN
        <5>1. lost' = lost \/ lost' = TRUE
          BY <3>2
        <5>2. QED BY <1>0, <5>1, Zenon
      <4>3. QED BY <1>0, <2>1, <3>1, <3>2, <4>1, <4>2 DEF TokensTyped
    <3>4. OneMints' /\ HasNext'
      BY <1>0, <2>1, <2>2, <3>1, <3>2 DEF TokenInv, OneMints, Minting, HasNext
    <3>5. PostsEnd' /\ SecondIsNewer'
      <4>1. \A q \in TokenRequests : tokenReq[q].since \in Nat /\ tokenReq[q].token \in Nat
        BY <1>0 DEF TokenReq
      <4>2. PostsEnd'
        BY <1>0, <2>1, <3>2 DEF TokenInv, PostsEnd
      <4>3. ASSUME NEW q \in TokenRequests, q # r
            PROVE  /\ tokenReq'[q].since <= tokenIssued + 1
                   /\ tokenReq'[q] = tokenReq[q] /\ tokenReq'[q].step # "minted"
        BY <1>0, <2>1, <3>2, <4>1, <4>3 DEF TokenInv, SecondIsNewer, Minting
      <4>4. tokenReq'[r].since < tokenIssued + 1
        BY <1>0, <3>2, <4>1 DEF TokenInv, SecondIsNewer
      <4>5. SecondIsNewer'
        BY <1>0, <2>1, <2>2, <3>2, <4>1, <4>3, <4>4 DEF TokenInv, SecondIsNewer
      <4>6. QED BY <4>2, <4>5
    <3>6. QED BY <3>3, <3>4, <3>5 DEF TokenInv
  <2>3. CASE /\ Auth!TokenEnd(r, "error") /\ UNCHANGED <<tokenIssued, lost>>
             /\ \/ UNCHANGED endpoint
                \/ /\ rotated # endpoint.refresh \/ endpoint.reused
                   /\ endpoint' = [endpoint EXCEPT !.reused = TRUE]
    <3>1. /\ endpoint' \in [refresh : Nat, reused : BOOLEAN] /\ endpoint'.refresh = endpoint.refresh
          /\ endpoint'.reused => endpoint.reused \/ rotated # endpoint.refresh
      BY <1>0, <2>3
    <3>2. /\ tokenReq' \in [TokenRequests -> TokenReq]
          /\ tokenReq'[r].second = tokenReq[r].second
          /\ tokenReq'[r].since = tokenReq[r].since
          /\ \A q \in TokenRequests \ {r} : tokenReq'[q] = tokenReq[q]
          /\ tokenReq'[r].step = "done" /\ tokenReq'[r].status = "error"
      BY <1>0, <2>3, Goes DEF TokenStages
    <3>3. \A q \in TokenRequests : tokenReq[q].step # "minted"
      BY <2>1 DEF Minting
    <3>4. ~lost => rotated = endpoint.refresh /\ ~endpoint.reused
      BY <3>3 DEF TokenInv, HasNext
    <3>5. TokensTyped' /\ OneMints' /\ HasNext'
      BY <1>0, <2>1, <2>3, <3>1, <3>2, <3>4 DEF TokenInv, TokensTyped, OneMints, Minting, HasNext
    <3>6. PostsEnd' /\ SecondIsNewer'
      BY <1>0, <2>1, <2>3, <3>2 DEF TokenInv, PostsEnd, SecondIsNewer
    <3>7. QED BY <3>5, <3>6 DEF TokenInv
  <2>4. QED BY <1>3, <2>2, <2>3 DEF Auth!Mint
<1>4. ASSUME NEW r \in TokenRequests, Auth!Minted(r) PROVE TokenInv'
  <2>1. /\ tokenReq[r].step = "minted" /\ UNCHANGED <<endpoint, tokenIssued, effects, lost>>
        /\ \A q \in TokenRequests \ {r} : ~Minting(q)
        /\ rotated' = endpoint.refresh /\ tokenCache' = [token |-> tokenIssued, fresh |-> TRUE]
    BY <1>4 DEF Auth!Minted, Auth!TokenRotate, TokenInv, OneMints, Minting
  <2>2. /\ tokenReq' \in [TokenRequests -> TokenReq] /\ tokenReq'[r].step = "send"
        /\ tokenReq'[r].second = tokenReq[r].second /\ tokenReq'[r].token = tokenIssued
        /\ tokenReq'[r].since = tokenReq[r].since /\ tokenReq'[r].status = tokenReq[r].status
        /\ \A q \in TokenRequests \ {r} : tokenReq'[q] = tokenReq[q]
    BY <1>0, <1>4, ZenonT(60) DEF Auth!Minted, TokenReq, TokenStages
  <2>3. TokensTyped' /\ OneMints' /\ HasNext'
    BY <1>0, <2>1, <2>2 DEF TokenInv, TokensTyped, OneMints, Minting, HasNext
  <2>4. PostsEnd' /\ SecondIsNewer'
    BY <1>0, <2>1, <2>2 DEF TokenInv, PostsEnd, SecondIsNewer
  <2>5. QED BY <2>3, <2>4 DEF TokenInv
<1>5. ASSUME NEW r \in TokenRequests, Auth!TokenSend(r) PROVE TokenInv'
  <2>1. /\ tokenReq[r].step = "send"
        /\ UNCHANGED <<endpoint, tokenIssued, tokenCache, rotated, lost>>
    BY <1>5 DEF Auth!TokenSend
  <2>2. PICK outcome \in {"ok", "401", "busy", "paused", "broken", "unsent", "tls"} :
          /\ Auth!Outcome(r, outcome)
          /\ \/ effects' = effects
             \/ /\ outcome \notin {"401", "unsent"}
                /\ effects' = [effects EXCEPT ![r] = @ + 1]
    BY <1>5 DEF Auth!TokenSend, Auth!Acts
  <2>3. Follows(r, outcome)
    BY <1>0, <2>2, OutcomeFollows
  <2>4. TokensTyped' /\ OneMints' /\ HasNext'
    BY <1>0, <2>1, <2>2, <2>3 DEF TokenInv, TokensTyped, OneMints, Minting, HasNext, Follows
  <2>5. PostsEnd'
    <3>1. ASSUME NEW q \in Posts, q # r
          PROVE  effects'[q] <= 1 /\ (tokenReq'[q].step # "done" => effects'[q] = 0)
      BY <1>0, <2>2, <2>3, <3>1 DEF TokenInv, PostsEnd, Follows
    <3>2. ASSUME r \in Posts
          PROVE  effects'[r] <= 1 /\ (tokenReq'[r].step # "done" => effects'[r] = 0)
      <4>1. effects[r] = 0
        BY <2>1, <3>2 DEF TokenInv, PostsEnd
      <4>2. CASE effects' = effects
        BY <4>1, <4>2
      <4>3. CASE outcome \notin {"401", "unsent"} /\ effects' = [effects EXCEPT ![r] = @ + 1]
        <5>1. tokenReq'[r].step = "done"
          BY <2>3, <3>2, <4>3 DEF Follows, Auth!Retried
        <5>2. QED BY <1>0, <4>1, <4>3, <5>1
      <4>4. QED BY <2>2, <4>2, <4>3
    <3>3. QED BY <3>1, <3>2 DEF PostsEnd
  <2>6. SecondIsNewer'
    BY <1>0, <2>1, <2>3 DEF TokenInv, SecondIsNewer, Follows, Auth!Status
  <2>7. QED BY <2>4, <2>5, <2>6 DEF TokenInv
<1>6. ASSUME NEW r \in TokenRequests, Auth!Resume(r) PROVE TokenInv'
  <2>1. /\ tokenReq[r].step = "pause"
        /\ UNCHANGED <<endpoint, tokenIssued, tokenCache, rotated, effects, lost>>
    BY <1>6 DEF Auth!Resume
  <2>2. /\ tokenReq' \in [TokenRequests -> TokenReq] /\ tokenReq'[r].step = "send"
        /\ tokenReq'[r].token = tokenReq[r].token /\ tokenReq'[r].second = tokenReq[r].second
        /\ tokenReq'[r].since = tokenReq[r].since /\ tokenReq'[r].status = tokenReq[r].status
        /\ \A q \in TokenRequests \ {r} : tokenReq'[q] = tokenReq[q]
    BY <1>0, <1>6 DEF Auth!Resume, TokenReq, TokenStages
  <2>3. TokensTyped' /\ OneMints' /\ HasNext'
    BY <1>0, <2>1, <2>2 DEF TokenInv, TokensTyped, OneMints, Minting, HasNext
  <2>4. PostsEnd' /\ SecondIsNewer'
    BY <1>0, <2>1, <2>2 DEF TokenInv, PostsEnd, SecondIsNewer
  <2>5. QED BY <2>3, <2>4 DEF TokenInv
<1>7. CASE Auth!Revoke
  <2>1. UNCHANGED <<endpoint, tokenIssued, tokenCache, rotated, tokenReq, effects, lost>>
    BY <1>7 DEF Auth!Revoke
  <2>2. QED BY <2>1 DEF TokenInv, TokensTyped, OneMints, Minting, HasNext, PostsEnd, SecondIsNewer
<1>8. CASE Auth!TokenAge
  <2>1. /\ UNCHANGED <<endpoint, tokenIssued, rotated, tokenReq, effects, lost>>
        /\ tokenCache' \in [token : Nat, fresh : BOOLEAN]
    BY <1>0, <1>8 DEF Auth!TokenAge, TokensTyped
  <2>2. QED BY <2>1 DEF TokenInv, TokensTyped, OneMints, Minting, HasNext, PostsEnd, SecondIsNewer
<1>9. CASE UNCHANGED Auth!tokenVars
  BY <1>9 DEF Auth!tokenVars, TokenInv, TokensTyped, OneMints, Minting, HasNext, PostsEnd,
              SecondIsNewer
<1>10. QED BY <1>1, <1>2, <1>3, <1>4, <1>5, <1>6, <1>7, <1>8, <1>9
           DEF Auth!TokenNext, Auth!TokenStep

LEMMA TokensHold ==
  ASSUME TokenConstants PROVE Auth!TokenSpec => []TokenInv
BY TokensStart, TokenKept, PTL DEF Auth!TokenSpec

\* The token endpoint never sees a refresh token twice, and between mints the provider has
\* the one that it takes next, unless one of the endpoint's answers was lost: however many
\* requests share the provider, fail and try again.
THEOREM RefreshTokensAreCurrent ==
  ASSUME TokenConstants
  PROVE  Auth!TokenSpec => [](Auth!RefreshPresentedOnce /\ Auth!RefreshInStep)
<1>1. TokenInv => Auth!RefreshPresentedOnce /\ Auth!RefreshInStep
  BY DEF TokenInv, HasNext, Auth!RefreshPresentedOnce, Auth!RefreshInStep, Auth!LockFree
<1>2. QED BY <1>1, TokensHold, PTL

\* A request that is not idempotent takes effect at most once, through the retries of the
\* transport, the second try after a 401 and answers that were lost.
THEOREM PostsActOnce ==
  ASSUME TokenConstants PROVE Auth!TokenSpec => []Auth!PostOnce
<1>1. TokenInv => Auth!PostOnce
  BY DEF TokenInv, PostsEnd, Auth!PostOnce
<1>2. QED BY <1>1, TokensHold, PTL

\* A request ends with 401 only on a token that was issued after its first 401.
THEOREM SecondTryIsFresh ==
  ASSUME TokenConstants PROVE Auth!TokenSpec => []Auth!RefusedTwice
<1>1. TokenInv => Auth!RefusedTwice
  BY DEF TokenInv, SecondIsNewer, Auth!RefusedTwice
<1>2. QED BY <1>1, TokensHold, PTL

--------------------------------------------------------------------------------
(* Rotating secrets and login sessions: a request that is refused fetches what it attached
   anew, while others fetch, store and attach, and whoever rotates is half done.  *)

SecretStages == {"idle", "attach", "send", "fetch", "store", "done"}
SecretReq == [step : SecretStages, used : Nat, fresh : Nat, second : BOOLEAN,
              status : {"none", "ok", "refused", "error"}]
SecretsTyped ==
    /\ kind \in {"rotating", "session"} /\ store \in Nat /\ secretIssued \in Nat /\ held \in Nat
    /\ secretReq \in [SecretRequests -> SecretReq]

At(r) == secretReq[r].step
Busy(r) == At(r) \notin {"idle", "done"}
Plain(r) == Busy(r) /\ r \notin excused

\* A refused request is excused; one under way has no verdict yet.
RefusedAreExcused ==
    \A r \in SecretRequests :
        /\ secretReq[r].status = "refused" => r \in excused
        /\ At(r) # "done" => secretReq[r].status = "none"
        /\ At(r) = "idle" => ~secretReq[r].second

\* A secret that is held, read or used is not newer than the one that is handed out.
SecretsAreRead ==
    kind = "rotating" =>
        /\ held <= store /\ store <= secretIssued
        /\ \A r \in SecretRequests :
             /\ secretReq[r].used <= store /\ secretReq[r].fresh <= store
             /\ At(r) \in {"fetch", "store"} => secretReq[r].second

\* What a request that met nothing relies on: the secret handed out is accepted, the one
\* it was refused with is not, and what it fetched since is.
PlainAreServed ==
    \A r \in SecretRequests : Plain(r) =>
        /\ kind = "rotating" =>
             /\ store \in secretLive
             /\ At(r) \in {"fetch", "store"} => secretReq[r].used \notin secretLive
             /\ At(r) = "store" \/ (secretReq[r].second /\ At(r) = "attach") =>
                  secretReq[r].fresh \in secretLive
        /\ kind = "session" /\ secretReq[r].second =>
             /\ At(r) = "store" => secretReq[r].fresh \in secretLive
             /\ At(r) = "attach" => held \in secretLive
        /\ secretReq[r].second /\ At(r) = "send" => secretReq[r].used \in secretLive

SecretInv == SecretsTyped /\ RefusedAreExcused /\ SecretsAreRead /\ PlainAreServed

LEMMA SecretsStart == ASSUME Auth!SecretInit PROVE SecretInv
<1>1. SecretsTyped
  BY DEF Auth!SecretInit, SecretsTyped, SecretReq, SecretStages
<1>2. RefusedAreExcused /\ SecretsAreRead /\ PlainAreServed
  BY DEF Auth!SecretInit, RefusedAreExcused, SecretsAreRead, PlainAreServed, Plain, Busy, At
<1>3. QED BY <1>1, <1>2 DEF SecretInv

\* A request moves to a stage; the others keep theirs.
Passes(r) ==
    /\ secretReq' \in [SecretRequests -> SecretReq]
    /\ \A q \in SecretRequests \ {r} : secretReq'[q] = secretReq[q]

LEMMA SecretKept ==
  ASSUME SecretInv, [Auth!SecretNext]_Auth!secretVars
  PROVE  SecretInv'
<1>0. /\ SecretsTyped /\ secretReq \in [SecretRequests -> SecretReq] /\ kind \in {"rotating", "session"}
      /\ store \in Nat /\ secretIssued \in Nat /\ held \in Nat
      /\ \A r \in SecretRequests : secretReq[r].used \in Nat /\ secretReq[r].fresh \in Nat
  BY DEF SecretInv, SecretsTyped, SecretReq
<1>1. ASSUME NEW r \in SecretRequests, Auth!SecretBegin(r) PROVE SecretInv'
  <2>1. /\ At(r) = "idle" /\ UNCHANGED <<kind, store, secretLive, secretIssued, held>>
        /\ excused \subseteq excused'
        /\ r \in excused' \/ (kind = "rotating" => store \in secretLive)
    BY <1>1 DEF Auth!SecretBegin, Auth!SecretAt, At, Auth!Settled
  <2>2. /\ Passes(r) /\ secretReq'[r].used = secretReq[r].used
        /\ secretReq'[r].fresh = secretReq[r].fresh /\ secretReq'[r].second = secretReq[r].second
        /\ secretReq'[r].status = secretReq[r].status
        /\ \/ secretReq'[r].step = "attach"
           \/ secretReq'[r].step = "fetch" /\ kind = "session"
    BY <1>0, <1>1
       DEF Auth!SecretBegin, Auth!SecretGoto, Passes, SecretReq, SecretStages
  <2>3. SecretsTyped' /\ SecretsAreRead'
    BY <1>0, <2>1, <2>2 DEF SecretsTyped, Passes, SecretInv, SecretsAreRead, At
  <2>4. RefusedAreExcused'
    <3>1. secretReq[r].status = "none"
      BY <2>1 DEF SecretInv, RefusedAreExcused
    <3>2. QED BY <1>0, <2>1, <2>2, <3>1 DEF Passes, SecretInv, RefusedAreExcused, Busy, At
  <2>5. PlainAreServed'
    <3>1. ~secretReq'[r].second
      BY <2>1, <2>2 DEF SecretInv, RefusedAreExcused
    <3>2. QED BY <1>0, <2>1, <2>2, <3>1 DEF Passes, SecretInv, PlainAreServed, Plain, Busy, At
  <2>6. QED BY <2>3, <2>4, <2>5 DEF SecretInv
<1>2. ASSUME NEW r \in SecretRequests, Auth!Attach(r) PROVE SecretInv'
  <2>1. /\ At(r) = "attach" /\ UNCHANGED <<kind, store, secretLive, secretIssued, held, excused>>
    BY <1>2 DEF Auth!Attach, Auth!SecretAt, At
  <2>2. /\ Passes(r) /\ secretReq'[r].step = "send" /\ secretReq'[r].used = Auth!ToAttach(r)
        /\ secretReq'[r].fresh = secretReq[r].fresh /\ secretReq'[r].second = secretReq[r].second
        /\ secretReq'[r].status = secretReq[r].status
    <3>1. Auth!ToAttach(r) \in Nat
      BY <1>0 DEF Auth!ToAttach
    <3>2. QED BY <1>0, <1>2, <3>1 DEF Auth!Attach, Passes, SecretReq, SecretStages
  <2>3. SecretsTyped' /\ SecretsAreRead'
    BY <1>0, <2>1, <2>2 DEF SecretsTyped, Passes, SecretInv, SecretsAreRead, At, Auth!ToAttach
  <2>4. RefusedAreExcused'
    BY <1>0, <2>1, <2>2 DEF Passes, SecretInv, RefusedAreExcused, Busy, At
  <2>5. PlainAreServed'
    BY <1>0, <2>1, <2>2 DEF Passes, SecretInv, PlainAreServed, Plain, Busy, At, Auth!ToAttach
  <2>6. QED BY <2>3, <2>4, <2>5 DEF SecretInv
<1>3. ASSUME NEW r \in SecretRequests, Auth!SecretSend(r) PROVE SecretInv'
  <2>1. At(r) = "send" /\ UNCHANGED <<kind, store, secretLive, secretIssued>>
    BY <1>3 DEF Auth!SecretSend, Auth!SecretAt, At
  <2>2. CASE /\ secretReq[r].used \in secretLive /\ Auth!SecretEnd(r, "ok")
             /\ UNCHANGED <<held, excused>>
    <3>1. /\ Passes(r) /\ secretReq'[r].step = "done" /\ secretReq'[r].used = secretReq[r].used
          /\ secretReq'[r].fresh = secretReq[r].fresh /\ secretReq'[r].status = "ok"
      BY <1>0, <2>2 DEF Auth!SecretEnd, Passes, SecretReq, SecretStages
    <3>2. SecretsTyped' /\ SecretsAreRead'
      BY <1>0, <2>1, <2>2, <3>1 DEF SecretsTyped, Passes, SecretInv, SecretsAreRead, At
    <3>3. RefusedAreExcused' /\ PlainAreServed'
      BY <1>0, <2>1, <2>2, <3>1
         DEF Passes, SecretInv, RefusedAreExcused, PlainAreServed, Plain, Busy, At
    <3>4. QED BY <3>2, <3>3 DEF SecretInv
  <2>3. CASE /\ secretReq[r].used \notin secretLive /\ secretReq[r].second
             /\ Auth!SecretEnd(r, "refused") /\ UNCHANGED <<held, excused>>
    <3>1. /\ Passes(r) /\ secretReq'[r].step = "done" /\ secretReq'[r].used = secretReq[r].used
          /\ secretReq'[r].fresh = secretReq[r].fresh /\ secretReq'[r].status = "refused"
      BY <1>0, <2>3 DEF Auth!SecretEnd, Passes, SecretReq, SecretStages
    <3>2. r \in excused
      BY <2>1, <2>3 DEF SecretInv, PlainAreServed, Plain, Busy
    <3>3. SecretsTyped' /\ SecretsAreRead'
      BY <1>0, <2>1, <2>3, <3>1 DEF SecretsTyped, Passes, SecretInv, SecretsAreRead, At
    <3>4. RefusedAreExcused' /\ PlainAreServed'
      BY <1>0, <2>1, <2>3, <3>1, <3>2
         DEF Passes, SecretInv, RefusedAreExcused, PlainAreServed, Plain, Busy, At
    <3>5. QED BY <3>3, <3>4 DEF SecretInv
  <2>4. CASE /\ secretReq[r].used \notin secretLive /\ ~secretReq[r].second
             /\ secretReq' = [secretReq EXCEPT ![r].step = "fetch", ![r].second = TRUE]
             /\ Auth!EmptyJar
    <3>1. /\ Passes(r) /\ secretReq'[r].step = "fetch" /\ secretReq'[r].used = secretReq[r].used
          /\ secretReq'[r].fresh = secretReq[r].fresh /\ secretReq'[r].second
          /\ secretReq'[r].status = secretReq[r].status
      BY <1>0, <2>4 DEF Passes, SecretReq, SecretStages
    <3>2. /\ excused \subseteq excused' /\ held' \in Nat
          /\ kind = "rotating" => held' = held
          /\ held' = held \/ \A q \in SecretRequests : At(q) = "attach" => q \in excused'
      BY <1>0, <2>4 DEF Auth!EmptyJar, Auth!Attaching, Auth!SecretAt, At
    <3>3. SecretsTyped' /\ SecretsAreRead'
      BY <1>0, <2>1, <3>1, <3>2 DEF SecretsTyped, Passes, SecretInv, SecretsAreRead, At
    <3>4. RefusedAreExcused'
      BY <1>0, <2>1, <3>1, <3>2 DEF Passes, SecretInv, RefusedAreExcused, Busy, At
    <3>5. PlainAreServed'
      BY <1>0, <2>1, <2>4, <3>1, <3>2 DEF Passes, SecretInv, PlainAreServed, Plain, Busy, At
    <3>6. QED BY <3>3, <3>4, <3>5 DEF SecretInv
  <2>5. QED BY <1>3, <2>2, <2>3, <2>4 DEF Auth!SecretSend
<1>4. ASSUME NEW r \in SecretRequests, Auth!Fetch(r) PROVE SecretInv'
  <2>1. At(r) = "fetch" /\ UNCHANGED <<kind, store, held, excused>>
    BY <1>4 DEF Auth!Fetch, Auth!SecretAt, At
  <2>2. PICK n \in Nat :
          /\ secretReq' = [secretReq EXCEPT ![r].step = "store", ![r].fresh = n]
          /\ \/ kind = "rotating" /\ n = store /\ UNCHANGED <<secretIssued, secretLive>>
             \/ kind = "session" /\ secretIssued' = secretIssued + 1 /\ n = secretIssued'
                /\ secretLive' = secretLive \cup {n}
    BY <1>0, <1>4 DEF Auth!Fetch
  <2>3. /\ Passes(r) /\ secretReq'[r].step = "store" /\ secretReq'[r].used = secretReq[r].used
        /\ secretReq'[r].fresh = n /\ secretReq'[r].second = secretReq[r].second
        /\ secretReq'[r].status = secretReq[r].status
    BY <1>0, <2>2 DEF Passes, SecretReq, SecretStages
  <2>4. SecretsTyped' /\ SecretsAreRead'
    BY <1>0, <2>1, <2>2, <2>3 DEF SecretsTyped, Passes, SecretInv, SecretsAreRead, At
  <2>5. RefusedAreExcused'
    BY <1>0, <2>1, <2>3 DEF Passes, SecretInv, RefusedAreExcused, Busy, At
  <2>6. PlainAreServed'
    BY <1>0, <2>1, <2>2, <2>3 DEF Passes, SecretInv, PlainAreServed, Plain, Busy, At
  <2>7. QED BY <2>4, <2>5, <2>6 DEF SecretInv
<1>5. ASSUME NEW r \in SecretRequests, Auth!Rejected(r) PROVE SecretInv'
  <2>1. At(r) = "fetch" /\ UNCHANGED <<kind, store, secretLive, secretIssued, held, excused>>
    BY <1>5 DEF Auth!Rejected, Auth!SecretAt, At
  <2>2. /\ Passes(r) /\ secretReq'[r].step = "done" /\ secretReq'[r].used = secretReq[r].used
        /\ secretReq'[r].fresh = secretReq[r].fresh /\ secretReq'[r].status = "error"
    BY <1>0, <1>5 DEF Auth!Rejected, Auth!SecretEnd, Passes, SecretReq, SecretStages
  <2>3. SecretsTyped' /\ SecretsAreRead'
    BY <1>0, <2>1, <2>2 DEF SecretsTyped, Passes, SecretInv, SecretsAreRead, At
  <2>4. RefusedAreExcused' /\ PlainAreServed'
    BY <1>0, <2>1, <2>2
       DEF Passes, SecretInv, RefusedAreExcused, PlainAreServed, Plain, Busy, At
  <2>5. QED BY <2>3, <2>4 DEF SecretInv
<1>6. ASSUME NEW r \in SecretRequests, Auth!Store(r) PROVE SecretInv'
  <2>1. /\ At(r) = "store" /\ UNCHANGED <<kind, store, secretLive, secretIssued>>
        /\ held' = secretReq[r].fresh /\ excused \subseteq excused'
        /\ kind = "session" => held' \in secretLive
             \/ \A q \in SecretRequests : At(q) = "attach" => q \in excused'
    BY <1>6 DEF Auth!Store, Auth!SecretAt, Auth!Attaching, At
  <2>2. CASE /\ kind = "rotating" /\ secretReq[r].fresh = secretReq[r].used
             /\ secretReq' = [secretReq EXCEPT ![r].step = "done", ![r].status = "refused"]
    <3>1. /\ Passes(r) /\ secretReq'[r].step = "done" /\ secretReq'[r].used = secretReq[r].used
          /\ secretReq'[r].fresh = secretReq[r].fresh /\ secretReq'[r].status = "refused"
      BY <1>0, <2>2 DEF Passes, SecretReq, SecretStages
    <3>2. r \in excused'
      BY <2>1, <2>2 DEF SecretInv, PlainAreServed, Plain, Busy
    <3>3. SecretsTyped' /\ SecretsAreRead'
      BY <1>0, <2>1, <2>2, <3>1 DEF SecretsTyped, Passes, SecretInv, SecretsAreRead, At
    <3>4. RefusedAreExcused' /\ PlainAreServed'
      BY <1>0, <2>1, <2>2, <3>1, <3>2
         DEF Passes, SecretInv, RefusedAreExcused, PlainAreServed, Plain, Busy, At
    <3>5. QED BY <3>3, <3>4 DEF SecretInv
  <2>3. CASE secretReq' = [secretReq EXCEPT ![r].step = "attach"]
    <3>1. /\ Passes(r) /\ secretReq'[r].step = "attach" /\ secretReq'[r].used = secretReq[r].used
          /\ secretReq'[r].fresh = secretReq[r].fresh /\ secretReq'[r].second = secretReq[r].second
          /\ secretReq'[r].status = secretReq[r].status
      BY <1>0, <2>3 DEF Passes, SecretReq, SecretStages
    <3>3. SecretsTyped' /\ SecretsAreRead'
      BY <1>0, <2>1, <3>1 DEF SecretsTyped, Passes, SecretInv, SecretsAreRead, At
    <3>4. RefusedAreExcused'
      BY <1>0, <2>1, <3>1 DEF Passes, SecretInv, RefusedAreExcused, Busy, At
    <3>5. PlainAreServed'
      BY <1>0, <2>1, <3>1 DEF Passes, SecretInv, PlainAreServed, Plain, Busy, At
    <3>6. QED BY <3>3, <3>4, <3>5 DEF SecretInv
  <2>4. QED BY <1>6, <2>2, <2>3 DEF Auth!Store
\* Whoever rotates excuses every request that a half-done rotation may cost.
<1>7. CASE Auth!SecretRotate
  <2>1. /\ kind = "rotating" /\ UNCHANGED <<kind, held, secretReq>> /\ excused \subseteq excused'
        /\ store' \in {store, secretIssued'} /\ secretIssued' \in {secretIssued, secretIssued + 1}
        /\ \A s \in secretLive' : s \in secretLive \/ s = secretIssued'
        /\ store' = store \/ store <= secretIssued
    BY <1>0, <1>7 DEF Auth!SecretRotate, SecretInv, SecretsAreRead
  <2>2. /\ \A r \in SecretRequests : Busy(r) /\ r \notin excused' =>
             /\ kind = "rotating" => store \in secretLive
             /\ store' \in secretLive'
             /\ secretReq[r].second => secretLive \subseteq secretLive'
    BY <1>7 DEF Auth!SecretRotate, Auth!UnderWay, Auth!Second, Auth!Settled, Busy, At
  <2>3. store <= store' /\ store' <= secretIssued' /\ store' \in Nat /\ secretIssued' \in Nat
    BY <1>0, <2>1 DEF SecretInv, SecretsAreRead
  <2>4. SecretsTyped' /\ SecretsAreRead'
    BY <1>0, <2>1, <2>3 DEF SecretsTyped, SecretInv, SecretsAreRead, At
  <2>5. RefusedAreExcused'
    BY <2>1 DEF SecretInv, RefusedAreExcused, Busy, At
  <2>6. PlainAreServed'
    <3>1. ASSUME NEW r \in SecretRequests, Busy(r), r \notin excused', At(r) \in {"fetch", "store"}
          PROVE  secretReq[r].used \notin secretLive'
      <4>1. store \in secretLive /\ secretReq[r].used \notin secretLive
        BY <2>1, <2>2, <3>1 DEF SecretInv, PlainAreServed, Plain
      <4>2. secretReq[r].used <= store /\ secretReq[r].used # store /\ store <= secretIssued
        BY <2>1, <4>1 DEF SecretInv, SecretsAreRead
      <4>3. QED BY <1>0, <2>1, <4>1, <4>2
    <3>2. \A r \in SecretRequests : At(r) \in {"fetch", "store"} => secretReq[r].second
      BY <2>1 DEF SecretInv, SecretsAreRead
    <3>3. QED BY <1>0, <2>1, <2>2, <3>1, <3>2 DEF SecretInv, PlainAreServed, Plain, Busy, At
  <2>7. QED BY <2>4, <2>5, <2>6 DEF SecretInv
<1>8. CASE Auth!Expire
  <2>1. /\ kind = "session" /\ UNCHANGED <<kind, store, secretIssued, held, secretReq>>
        /\ excused \subseteq excused'
        /\ \A r \in SecretRequests : Busy(r) /\ secretReq[r].second => r \in excused'
    BY <1>8 DEF Auth!Expire, Auth!Second, Auth!UnderWay, Busy, At
  <2>2. SecretsTyped' /\ SecretsAreRead' /\ RefusedAreExcused'
    BY <1>0, <2>1 DEF SecretsTyped, SecretInv, SecretsAreRead, RefusedAreExcused, Busy, At
  <2>3. PlainAreServed'
    BY <1>0, <2>1 DEF SecretInv, PlainAreServed, Plain, Busy, At
  <2>4. QED BY <2>2, <2>3 DEF SecretInv
<1>9. CASE UNCHANGED Auth!secretVars
  BY <1>9 DEF Auth!secretVars, SecretInv, SecretsTyped, RefusedAreExcused, SecretsAreRead,
              PlainAreServed, Plain, Busy, At
<1>10. QED BY <1>1, <1>2, <1>3, <1>4, <1>5, <1>6, <1>7, <1>8, <1>9
           DEF Auth!SecretNext, Auth!SecretStep

\* A request is refused in the end only if it met a rotation that was half done, a secret
\* or session that the API gave up after its first refusal, or a jar that another request
\* changed before its second try.
THEOREM RefusalsAreExcused == Auth!SecretSpec => []Auth!RefusalIsExcused
<1>1. SecretInv => Auth!RefusalIsExcused
  BY DEF SecretInv, RefusedAreExcused, Auth!RefusalIsExcused
<1>2. QED BY <1>1, SecretsStart, SecretKept, PTL DEF Auth!SecretSpec

--------------------------------------------------------------------------------
(* The browser login: whose code arrives where, and which tokens the file has.  *)

LoginPorts ==
    [state : Nat, code : Nat \cup {None}, listening : BOOLEAN, held : BOOLEAN, by : LoginCallers]
LoginConstants == MaxLogins \in Nat /\ None \notin Nat /\ None \notin LoginPorts

TokenSet == [login : Auth!Logins, access : Nat, refresh : Nat]
LoginCall == [step : Auth!LoginSteps, auto : BOOLEAN, login : Nat \cup {None},
              code : Nat \cup {None}, tokens : TokenSet \cup {None}]
Grant == [used : BOOLEAN, access : Nat, refresh : Nat, reused : BOOLEAN]

Does(c) == loginCaller[c].step
Own(c) == loginCaller[c].login
WithTokens == {"check", "refresh", "save", "write"}

LoginsTyped ==
    /\ logins \in Nat /\ logins <= MaxLogins /\ loginFaults \in Nat /\ shared \in BOOLEAN
    /\ port = None \/ port \in LoginPorts
    /\ loginCaller \in [LoginCallers -> LoginCall]
    /\ grants \in [Auth!Logins -> Grant]
    /\ file = <<>> \/ \E t \in TokenSet : file = <<t>>
    /\ \A c \in LoginCallers : Does(c) \in WithTokens => loginCaller[c].tokens \in TokenSet

\* A login has its number to itself; while it waits the port is its own, and what arrives
\* there is its code.
LoginsAreApart ==
    /\ \A c \in LoginCallers : Own(c) # None => Own(c) \in Nat /\ 1 <= Own(c) /\ Own(c) <= logins
    /\ \A c, d \in LoginCallers : Own(c) # None /\ Own(c) = Own(d) => c = d
    /\ port # None /\ port.code # None => port.code = port.state
    /\ \A c \in LoginCallers :
         /\ Does(c) = "wait" => port # None /\ port.held /\ port.by = c /\ port.state = Own(c)
         /\ Does(c) \in {"wait", "manual", "exchange"} => Own(c) # None
         /\ Does(c) = "exchange" => loginCaller[c].code = Own(c)

PortInv == LoginsTyped /\ LoginsAreApart

LEMMA PortsStart == ASSUME LoginConstants, Auth!LoginInit PROVE PortInv
<1>1. Auth!Idle \in LoginCall
  BY DEF Auth!Idle, LoginCall, Auth!LoginSteps
<1>2. LoginsTyped
  <2>1. grants \in [Auth!Logins -> Grant]
    BY DEF Auth!LoginInit, Grant
  <2>2. \A c \in LoginCallers : loginCaller[c] = Auth!Idle /\ Auth!Idle.step = "idle"
    BY DEF Auth!LoginInit, Auth!Idle
  <2>3. loginCaller \in [LoginCallers -> LoginCall]
    BY <1>1 DEF Auth!LoginInit
  <2>4. /\ logins = 0 /\ loginFaults = 0 /\ shared \in BOOLEAN /\ port = None /\ file = <<>>
        /\ MaxLogins \in Nat
    BY Zenon DEF LoginConstants, Auth!LoginInit
  <2>5. \A c \in LoginCallers : Does(c) \notin WithTokens
    BY <2>2 DEF Does, WithTokens
  <2>6. QED BY <2>1, <2>3, <2>4, <2>5 DEF LoginsTyped
<1>3. LoginsAreApart
  BY DEF Auth!LoginInit, LoginsAreApart, Own, Does, Auth!Idle
<1>4. QED BY <1>2, <1>3 DEF PortInv

\* A caller takes a new place; the others keep theirs.
Others(c) ==
    /\ loginCaller' \in [LoginCallers -> LoginCall]
    /\ \A d \in LoginCallers \ {c} : loginCaller'[d] = loginCaller[d]

LEMMA Sets ==
  \A c \in LoginCallers, new \in LoginCall :
     LoginsTyped /\ Auth!Set(c, new) => Others(c) /\ loginCaller'[c] = new
BY DEF LoginsTyped, Auth!Set, Others

LEMMA GoesOn ==
  \A c \in LoginCallers, s \in Auth!LoginSteps :
     LoginsTyped /\ Auth!LoginGoto(c, s) =>
       /\ Others(c) /\ loginCaller'[c].step = s /\ loginCaller'[c].login = loginCaller[c].login
       /\ loginCaller'[c].code = loginCaller[c].code
       /\ loginCaller'[c].tokens = loginCaller[c].tokens
BY DEF LoginsTyped, Auth!LoginGoto, Others, LoginCall

LEMMA Returns ==
  \A c \in LoginCallers : LoginsTyped /\ Auth!Return(c) =>
     Others(c) /\ loginCaller'[c] = Auth!Idle /\ Auth!Idle.login = None /\ Auth!Idle.step = "idle"
<1>1. Auth!Idle \in LoginCall /\ Auth!Idle.login = None /\ Auth!Idle.step = "idle"
  BY DEF Auth!Idle, LoginCall, Auth!LoginSteps
<1>2. QED BY <1>1, Sets DEF Auth!Return

\* What a caller may do to the port: leave its own.
Leaves(c) ==
    \/ port' = port
    \/ port # None /\ Own(c) = port.state
         /\ (port' = None \/ port' = [port EXCEPT !.held = FALSE])
    \/ port # None /\ port.by = c /\ port' = None

LEMMA LeavesPort == \A c : Auth!LeavePort(c) => Leaves(c)
BY DEF Auth!LeavePort, Auth!Owns, Leaves, Own

\* A step of a caller that begins no login.
Steps1(c) ==
    /\ Others(c) /\ Leaves(c) /\ UNCHANGED logins
    /\ loginCaller'[c].login \in {loginCaller[c].login, None}
    /\ loginCaller'[c].step # "wait"
    /\ loginCaller'[c].step \in {"manual", "exchange"} => loginCaller'[c].login # None
    /\ loginCaller'[c].step = "exchange" => loginCaller'[c].code = loginCaller'[c].login

LEMMA PortsStep ==
  ASSUME LoginConstants, PortInv, NEW c \in LoginCallers, Steps1(c)
  PROVE  LoginsAreApart' /\ (port' = None \/ port' \in LoginPorts)
<1>0. /\ LoginsTyped /\ LoginsAreApart /\ (port = None \/ port \in LoginPorts)
      /\ None \notin Nat /\ None \notin LoginPorts
  BY DEF PortInv, LoginsTyped, LoginConstants
<1>1. /\ port' = None \/ port' \in LoginPorts
      /\ port' # None => port # None /\ port'.code = port.code /\ port'.state = port.state
           /\ port'.by = port.by
  BY <1>0 DEF Steps1, Leaves, LoginPorts
<1>2. /\ \A d \in LoginCallers : Own(d)' # None => Own(d)' = Own(d)
      /\ \A d \in LoginCallers \ {c} : Does(d)' = Does(d) /\ loginCaller'[d] = loginCaller[d]
                                       /\ Own(d)' = Own(d)
  BY DEF Steps1, Others, Own, Does
<1>3. ASSUME NEW d \in LoginCallers, Does(d)' = "wait"
      PROVE  port' # None /\ port'.held /\ port'.by = d /\ port'.state = Own(d)'
  <2>1. d # c /\ Does(d) = "wait"
    BY <1>2, <1>3 DEF Steps1, Does
  <2>2. port # None /\ port.held /\ port.by = d /\ port.state = Own(d) /\ Own(d) # None
    BY <1>0, <2>1 DEF LoginsAreApart
  <2>3. Own(c) # port.state
    BY <1>0, <2>1, <2>2 DEF LoginsAreApart
  <2>4. port' = port
    BY <2>1, <2>2, <2>3 DEF Steps1, Leaves
  <2>5. QED BY <1>2, <2>1, <2>2, <2>4
<1>4. ASSUME NEW d \in LoginCallers
      PROVE  /\ Own(d)' # None => Own(d)' \in Nat /\ 1 <= Own(d)' /\ Own(d)' <= logins'
             /\ Does(d)' \in {"wait", "manual", "exchange"} => Own(d)' # None
             /\ Does(d)' = "exchange" => loginCaller'[d].code = Own(d)'
  <2>1. logins' = logins /\ (Own(d)' # None => Own(d)' = Own(d))
    BY <1>2 DEF Steps1
  <2>2. Own(d)' # None => Own(d)' \in Nat /\ 1 <= Own(d)' /\ Own(d)' <= logins'
    BY <1>0, <2>1 DEF LoginsAreApart
  <2>3. CASE d = c
    BY <2>2, <2>3 DEF Steps1, Own, Does
  <2>4. CASE d # c
    BY <1>0, <1>2, <2>2, <2>4 DEF LoginsAreApart
  <2>5. QED BY <2>3, <2>4
<1>5. \A d, e \in LoginCallers : Own(d)' # None /\ Own(d)' = Own(e)' => d = e
  BY <1>0, <1>2 DEF LoginsAreApart
<1>6. port' # None /\ port'.code # None => port'.code = port'.state
  BY <1>0, <1>1 DEF LoginsAreApart
<1>7. LoginsAreApart'
  BY <1>3, <1>4, <1>5, <1>6 DEF LoginsAreApart
<1>8. QED BY <1>1, <1>7

\* A state of the token file matches what the endpoint knows.
Matches(t, g) == t.refresh = g[t.login].refresh /\ t.access = g[t.login].access
FileMatches(f, g) == \A t \in TokenSet : f = <<t>> => Matches(t, g)

\* What a caller that is alone relies on: a login begins and is answered with no file, and
\* the tokens that it checks, renews or saves are the newest of their login.
Fits(cl, f, g) ==
    /\ cl.step # "save" => FileMatches(f, g)
    /\ cl.step \in {"bind", "wait", "manual", "exchange", "write"} => f = <<>>
    /\ cl.step \in WithTokens => Matches(cl.tokens, g)

CurrentInv ==
    ~shared /\ loginFaults = 0 =>
        /\ \A c, d \in LoginCallers : Does(c) # "idle" /\ Does(d) # "idle" => c = d
        /\ \A l \in Auth!Logins : ~grants[l].reused
        /\ (\A c \in LoginCallers : Does(c) = "idle") => FileMatches(file, grants)
        /\ \A c \in LoginCallers : Does(c) # "idle" => Fits(loginCaller[c], file, grants)

LoginInv == PortInv /\ CurrentInv

LEMMA LoginsStart == ASSUME LoginConstants, Auth!LoginInit PROVE LoginInv
<1>1. \A c \in LoginCallers : Does(c) = "idle"
  BY DEF Auth!LoginInit, Does, Auth!Idle
<1>2. \A l \in Auth!Logins : ~grants[l].reused
  BY DEF Auth!LoginInit
<1>3. FileMatches(file, grants)
  BY DEF Auth!LoginInit, FileMatches
<1>4. CurrentInv
  BY <1>1, <1>2, <1>3 DEF CurrentInv
<1>5. QED BY <1>4, PortsStart DEF LoginInv

\* A step of a caller, with what it finds when it is alone.
LEMMA CurrentKept ==
  ASSUME CurrentInv, NEW c \in LoginCallers, Others(c), Does(c) # "idle",
         ~shared' /\ loginFaults' = 0 => ~shared /\ loginFaults = 0,
         ~shared' /\ loginFaults' = 0 /\ Fits(loginCaller[c], file, grants)
             /\ (\A l \in Auth!Logins : ~grants[l].reused) =>
           /\ \A l \in Auth!Logins : ~grants'[l].reused
           /\ Fits(loginCaller'[c], file', grants')
  PROVE  CurrentInv'
<1> SUFFICES ASSUME ~shared', loginFaults' = 0
             PROVE  /\ \A d, e \in LoginCallers : Does(d)' # "idle" /\ Does(e)' # "idle" => d = e
                    /\ \A l \in Auth!Logins : ~grants'[l].reused
                    /\ (\A d \in LoginCallers : Does(d)' = "idle") => FileMatches(file', grants')
                    /\ \A d \in LoginCallers : Does(d)' # "idle" =>
                         Fits(loginCaller'[d], file', grants')
  BY DEF CurrentInv
<1>1. /\ \A d \in LoginCallers : d # c => Does(d) = "idle"
      /\ \A l \in Auth!Logins : ~grants[l].reused /\ Fits(loginCaller[c], file, grants)
      /\ Fits(loginCaller[c], file, grants)
  BY DEF CurrentInv
<1>2. \A d \in LoginCallers : d # c => Does(d)' = "idle"
  BY <1>1 DEF Others, Does
<1>3. (\A l \in Auth!Logins : ~grants'[l].reused) /\ Fits(loginCaller'[c], file', grants')
  BY <1>1
<1>4. (\A d \in LoginCallers : Does(d)' = "idle") => FileMatches(file', grants')
  BY <1>3 DEF Fits, Does
<1>5. QED BY <1>2, <1>3, <1>4

\* A step in which a caller takes up new tokens, or none, and the file and the endpoint stay.
LEMMA CurrentFiled ==
  ASSUME CurrentInv, NEW c \in LoginCallers, Others(c), Does(c) \notin {"idle", "save"},
         UNCHANGED <<file, grants, shared>>, loginFaults' = loginFaults \/ loginFaults' # 0,
         loginCaller'[c].step \notin {"save", "write"},
         loginCaller'[c].step \in {"bind", "wait", "manual", "exchange"} =>
             Does(c) \in {"bind", "wait", "manual", "exchange", "write"} \/ file = <<>>,
         loginCaller'[c].step \in WithTokens =>
             \/ Does(c) \in WithTokens /\ loginCaller'[c].tokens = loginCaller[c].tokens
             \/ loginCaller'[c].tokens \in TokenSet /\ file = <<loginCaller'[c].tokens>>
  PROVE  CurrentInv'
<1>1. Fits(loginCaller[c], file, grants) => Fits(loginCaller'[c], file', grants')
  BY DEF Fits, FileMatches, Does
<1>2. QED BY <1>1, CurrentKept

LEMMA LoginKept ==
  ASSUME LoginConstants, LoginInv, [Auth!LoginNext]_Auth!loginVars
  PROVE  LoginInv'
<1>0. /\ LoginsTyped /\ PortInv /\ CurrentInv /\ loginCaller \in [LoginCallers -> LoginCall]
      /\ grants \in [Auth!Logins -> Grant] /\ loginFaults \in Nat /\ shared \in BOOLEAN
      /\ logins \in Nat /\ logins <= MaxLogins /\ MaxLogins \in Nat
      /\ None \notin Nat /\ None \notin LoginPorts
      /\ (port = None \/ port \in LoginPorts)
      /\ (file = <<>> \/ \E t \in TokenSet : file = <<t>>)
      /\ \A c \in LoginCallers : Does(c) \in WithTokens => loginCaller[c].tokens \in TokenSet
  BY DEF LoginInv, PortInv, LoginsTyped, LoginConstants
<1>i. /\ Auth!Idle \in LoginCall /\ Auth!Idle.step = "idle" /\ Auth!Idle.login = None
      /\ Auth!Idle.code = None
  BY DEF Auth!Idle, LoginCall, Auth!LoginSteps
\* What is left to show of a step of a caller that begins no login.
<1>a. ASSUME NEW c \in LoginCallers, Steps1(c), CurrentInv', UNCHANGED shared \/ shared' = TRUE,
             loginFaults' \in Nat, grants' \in [Auth!Logins -> Grant],
             file' = <<>> \/ \E t \in TokenSet : file' = <<t>>,
             loginCaller'[c].step \in WithTokens => loginCaller'[c].tokens \in TokenSet
      PROVE  LoginInv'
  <2>1. LoginsAreApart' /\ (port' = None \/ port' \in LoginPorts)
    BY <1>0, <1>a, PortsStep
  <2>2. \A d \in LoginCallers : Does(d)' \in WithTokens => loginCaller'[d].tokens \in TokenSet
    BY <1>0, <1>a DEF Steps1, Others, Does
  <2>3. shared' \in BOOLEAN
    BY <1>0, <1>a, Zenon
  <2>4. loginCaller' \in [LoginCallers -> LoginCall] /\ logins' = logins
    BY <1>a DEF Steps1, Others
  <2>5. LoginsTyped'
    BY <1>0, <1>a, <2>1, <2>2, <2>3, <2>4 DEF LoginsTyped
  <2>6. QED BY <1>a, <2>1, <2>5 DEF LoginInv, PortInv
\* A caller that returns, with the file and the grants as they were, or after a fault.
<1>b. ASSUME NEW c \in LoginCallers, Does(c) # "idle", Auth!Return(c), Leaves(c),
             UNCHANGED <<file, logins, shared>>, grants' \in [Auth!Logins -> Grant],
             \/ loginFaults' = loginFaults /\ grants' = grants /\ Does(c) # "save"
             \/ loginFaults' = loginFaults + 1
      PROVE  LoginInv'
  <2>1. Others(c) /\ loginCaller'[c] = Auth!Idle
    BY <1>0, <1>b, Returns
  <2>2. Steps1(c)
    BY <1>b, <1>i, <2>1 DEF Steps1
  <2>3. CurrentInv'
    <3>1. CASE loginFaults' = loginFaults /\ grants' = grants /\ Does(c) # "save"
      <4>1. Fits(loginCaller[c], file, grants) => Fits(loginCaller'[c], file', grants')
        BY <1>b, <1>i, <2>1, <3>1 DEF Fits, Does, WithTokens
      <4>2. QED BY <1>0, <1>b, <2>1, <3>1, <4>1, CurrentKept
    <3>2. CASE loginFaults' = loginFaults + 1
      <4>1. loginFaults' # 0
        BY <1>0, <3>2
      <4>2. QED BY <4>1 DEF CurrentInv
    <3>3. QED BY <1>b, <3>1, <3>2
  <2>4. loginFaults' \in Nat
    BY <1>0, <1>b
  <2>5. QED BY <1>0, <1>a, <1>b, <1>i, <2>1, <2>2, <2>3, <2>4 DEF WithTokens
<1>1. ASSUME NEW c \in LoginCallers, NEW auto \in BOOLEAN, Auth!Resolve(c, auto) PROVE LoginInv'
  <2> DEFINE new == [Auth!Idle EXCEPT !.step = "load", !.auto = auto]
  <2>1. new \in LoginCall /\ new.step = "load" /\ new.login = None
    BY <1>i DEF LoginCall, Auth!LoginSteps
  <2>2. /\ Does(c) = "idle" /\ Auth!Set(c, new) /\ UNCHANGED <<file, port, logins, grants, loginFaults>>
        /\ shared' = (shared \/ \E d \in LoginCallers : Does(d) # "idle")
    BY <1>1 DEF Auth!Resolve, Auth!LoginAt, Does
  <2> HIDE DEF new
  <2>3. Others(c) /\ loginCaller'[c] = new
    BY <1>0, <2>1, <2>2, Sets
  <2>4. Steps1(c)
    BY <2>1, <2>2, <2>3 DEF Steps1, Leaves
  <2>5. CurrentInv'
    <3>1. SUFFICES ASSUME ~shared', loginFaults' = 0
                   PROVE  /\ \A d, e \in LoginCallers : Does(d)' # "idle" /\ Does(e)' # "idle" => d = e
                          /\ \A l \in Auth!Logins : ~grants'[l].reused
                          /\ (\A d \in LoginCallers : Does(d)' = "idle") => FileMatches(file', grants')
                          /\ \A d \in LoginCallers : Does(d)' # "idle" =>
                               Fits(loginCaller'[d], file', grants')
      BY DEF CurrentInv
    <3>2. ~shared /\ \A d \in LoginCallers : Does(d) = "idle"
      BY <2>2, <3>1
    <3>3. /\ \A l \in Auth!Logins : ~grants[l].reused
          /\ FileMatches(file, grants)
      BY <1>0, <2>2, <3>1, <3>2 DEF CurrentInv
    <3>4. \A d \in LoginCallers : d # c => Does(d)' = "idle"
      BY <2>3, <3>2 DEF Others, Does
    <3>5. Fits(loginCaller'[c], file', grants')
      BY <2>1, <2>2, <2>3, <3>3 DEF Fits, WithTokens
    <3>6. UNCHANGED <<file, grants>>
      BY <2>2
    <3>7. QED BY <3>3, <3>4, <3>5, <3>6
  <2>6. UNCHANGED shared \/ shared' = TRUE
    BY <1>0, <2>2, Zenon
  <2>7. QED BY <1>0, <1>a, <2>1, <2>2, <2>3, <2>4, <2>5, <2>6 DEF WithTokens
<1>2. ASSUME NEW c \in LoginCallers, Auth!Load(c) PROVE LoginInv'
  <2>1. Does(c) = "load" /\ UNCHANGED <<file, port, logins, grants, shared, loginFaults>>
    BY <1>2 DEF Auth!Load, Auth!LoginAt, Does
  <2>2. CASE Auth!Return(c)
    BY <1>0, <1>b, <2>1, <2>2 DEF Leaves
  <2>3. CASE file = <<>> /\ Auth!LoginGoto(c, "bind")
    <3>1. Others(c) /\ loginCaller'[c].step = "bind" /\ loginCaller'[c].login = loginCaller[c].login
      BY <1>0, <2>3, GoesOn DEF Auth!LoginSteps
    <3>2. Steps1(c)
      BY <2>1, <3>1 DEF Steps1, Leaves
    <3>3. CurrentInv'
      BY <1>0, <2>1, <2>3, <3>1, CurrentFiled DEF WithTokens
    <3>4. QED BY <1>0, <1>a, <2>1, <3>1, <3>2, <3>3 DEF WithTokens
  <2>4. CASE file # <<>> /\ Auth!Set(c, [Auth!Idle EXCEPT !.step = "check", !.tokens = file[1]])
    <3>1. PICK t \in TokenSet : file = <<t>>
      BY <1>0, <2>4
    <3> DEFINE new == [Auth!Idle EXCEPT !.step = "check", !.tokens = t]
    <3>2. new \in LoginCall /\ new.step = "check" /\ new.login = None /\ new.tokens = t
      BY <1>i DEF LoginCall, Auth!LoginSteps
    <3>3. Auth!Set(c, new)
      BY <2>4, <3>1
    <3> HIDE DEF new
    <3>4. Others(c) /\ loginCaller'[c] = new
      BY <1>0, <3>2, <3>3, Sets
    <3>5. Steps1(c)
      BY <2>1, <3>2, <3>4 DEF Steps1, Leaves
    <3>6. CurrentInv'
      BY <1>0, <2>1, <3>1, <3>2, <3>4, CurrentFiled
    <3>7. QED BY <1>0, <1>a, <2>1, <3>2, <3>4, <3>5, <3>6
  <2>5. QED BY <1>2, <2>2, <2>3, <2>4 DEF Auth!Load
<1>3. ASSUME NEW c \in LoginCallers, Auth!Check(c) PROVE LoginInv'
  <2>1. Does(c) = "check" /\ UNCHANGED <<file, port, logins, grants, shared, loginFaults>>
    BY <1>3 DEF Auth!Check, Auth!LoginAt, Does
  <2>2. CASE Auth!Return(c)
    BY <1>0, <1>b, <2>1, <2>2 DEF Leaves
  <2>3. CASE Auth!LoginGoto(c, "refresh")
    <3>1. /\ Others(c) /\ loginCaller'[c].step = "refresh"
          /\ loginCaller'[c].login = loginCaller[c].login
          /\ loginCaller'[c].tokens = loginCaller[c].tokens
      BY <1>0, <2>3, GoesOn DEF Auth!LoginSteps
    <3>2. Steps1(c)
      BY <2>1, <3>1 DEF Steps1, Leaves
    <3>3. CurrentInv'
      BY <1>0, <2>1, <3>1, CurrentFiled DEF WithTokens
    <3>4. QED BY <1>0, <1>a, <2>1, <3>1, <3>2, <3>3 DEF WithTokens
  <2>4. QED BY <1>3, <2>2, <2>3 DEF Auth!Check
<1>4. ASSUME NEW c \in LoginCallers, Auth!Bind(c) PROVE LoginInv'
  <2> DEFINE s == IF port = None THEN "wait" ELSE "manual"
             new == [Auth!Idle EXCEPT !.login = logins + 1, !.step = s]
             p == [state |-> logins + 1, code |-> None, listening |-> TRUE, held |-> TRUE, by |-> c]
  <2>a. s \in {"wait", "manual"} /\ logins + 1 \in Nat
    BY <1>0
  <2>b. s = "wait" <=> port = None
    OBVIOUS
  <2> HIDE DEF s
  <2>1. /\ new \in LoginCall /\ new.step = s /\ new.login = logins + 1 /\ s \in {"wait", "manual"}
        /\ new.step \notin WithTokens
    BY <2>a, <1>i DEF LoginCall, Auth!LoginSteps, WithTokens
  <2>2. /\ Does(c) = "bind" /\ Auth!Set(c, new) /\ UNCHANGED <<file, grants, shared, loginFaults>>
        /\ logins' = logins + 1 /\ logins < MaxLogins
        /\ port' = IF port = None THEN p ELSE port
    BY <1>4 DEF Auth!Bind, Auth!LoginAt, Does, s
  <2>c. p \in LoginPorts
    BY <2>a DEF LoginPorts
  <2>3. p \in LoginPorts /\ p # None /\ p.state = logins + 1 /\ p.code = None /\ p.held /\ p.by = c
    BY <1>0, <2>c
  <2> HIDE DEF new, p
  <2>4. Others(c) /\ loginCaller'[c] = new
    BY <1>0, <2>1, <2>2, Sets
  <2>5. CurrentInv'
    BY <1>0, <2>1, <2>2, <2>4, CurrentFiled
  <2>6. LoginsTyped'
    <3>1. \A d \in LoginCallers : Does(d)' \in WithTokens => loginCaller'[d].tokens \in TokenSet
      BY <1>0, <2>1, <2>4 DEF Others, Does
    <3>2. /\ logins' \in Nat /\ logins' <= MaxLogins
          /\ (port' = None \/ port' \in LoginPorts)
      BY <1>0, <2>2, <2>3
    <3>3. loginCaller' \in [LoginCallers -> LoginCall]
      BY <2>4 DEF Others
    <3>4. QED BY <1>0, <2>2, <3>1, <3>2, <3>3 DEF LoginsTyped
  <2>7. LoginsAreApart'
    <3>1. /\ Own(c)' = logins + 1 /\ Does(c)' = s /\ logins + 1 \in Nat /\ logins + 1 # None
          /\ \A d \in LoginCallers \ {c} :
               /\ Own(d)' = Own(d) /\ Does(d)' = Does(d) /\ loginCaller'[d] = loginCaller[d]
               /\ Own(d) # None => Own(d) \in Nat /\ 1 <= Own(d) /\ Own(d) <= logins
      BY <1>0, <2>1, <2>4 DEF Others, Own, Does, PortInv, LoginsAreApart
    <3>2. \A d \in LoginCallers : Own(d)' # None => Own(d)' \in Nat /\ 1 <= Own(d)' /\ Own(d)' <= logins'
      BY <1>0, <2>2, <3>1
    <3>3. \A d, e \in LoginCallers : Own(d)' # None /\ Own(d)' = Own(e)' => d = e
      BY <1>0, <3>1 DEF PortInv, LoginsAreApart
    <3>4. port' # None /\ port'.code # None => port'.code = port'.state
      BY <1>0, <2>2, <2>3 DEF PortInv, LoginsAreApart
    <3>5. ASSUME NEW d \in LoginCallers, Does(d)' = "wait"
          PROVE  port' # None /\ port'.held /\ port'.by = d /\ port'.state = Own(d)'
      <4>1. CASE d = c
        BY <2>b, <2>1, <2>2, <2>3, <3>1, <3>5, <4>1
      <4>2. CASE d # c
        BY <1>0, <2>2, <3>1, <3>5, <4>2 DEF PortInv, LoginsAreApart
      <4>3. QED BY <4>1, <4>2
    <3>6. ASSUME NEW d \in LoginCallers
          PROVE  /\ Does(d)' \in {"wait", "manual", "exchange"} => Own(d)' # None
                 /\ Does(d)' = "exchange" => loginCaller'[d].code = Own(d)'
      BY <1>0, <2>1, <3>1 DEF PortInv, LoginsAreApart
    <3>7. QED BY <3>2, <3>3, <3>4, <3>5, <3>6 DEF LoginsAreApart
  <2>8. QED BY <2>5, <2>6, <2>7 DEF LoginInv, PortInv
<1>5. ASSUME NEW c \in LoginCallers, Auth!Arrived(c) PROVE LoginInv'
  <2> DEFINE new == [loginCaller[c] EXCEPT !.step = "exchange", !.code = port.code]
  <2>1. /\ Does(c) = "wait" /\ port.code # None /\ Auth!Set(c, new)
        /\ UNCHANGED <<file, port, logins, grants, shared, loginFaults>>
    BY <1>5 DEF Auth!Arrived, Auth!LoginAt, Does
  <2>2. port # None /\ port.code = Own(c) /\ Own(c) # None /\ Own(c) \in Nat
    BY <1>0, <2>1 DEF PortInv, LoginsAreApart
  <2>3. /\ new \in LoginCall /\ new.step = "exchange" /\ new.login = Own(c) /\ new.code = Own(c)
        /\ new.step \notin WithTokens
    BY <1>0, <2>2 DEF LoginCall, Auth!LoginSteps, Own, WithTokens
  <2> HIDE DEF new
  <2>4. Others(c) /\ loginCaller'[c] = new
    BY <1>0, <2>1, <2>3, Sets
  <2>5. Steps1(c)
    BY <2>1, <2>2, <2>3, <2>4 DEF Steps1, Leaves, Own
  <2>6. CurrentInv'
    BY <1>0, <2>1, <2>3, <2>4, CurrentFiled
  <2>7. QED BY <1>0, <1>a, <2>1, <2>3, <2>4, <2>5, <2>6
<1>6. ASSUME NEW c \in LoginCallers, Auth!TimesOut(c) PROVE LoginInv'
  <2>1. /\ Does(c) = "wait" /\ Auth!LoginGoto(c, "manual")
        /\ UNCHANGED <<file, port, logins, grants, shared, loginFaults>>
    BY <1>6 DEF Auth!TimesOut, Auth!LoginAt, Does
  <2>2. Others(c) /\ loginCaller'[c].step = "manual" /\ loginCaller'[c].login = Own(c) /\ Own(c) # None
    BY <1>0, <2>1, GoesOn DEF Auth!LoginSteps, Own, PortInv, LoginsAreApart
  <2>3. Steps1(c)
    BY <2>1, <2>2 DEF Steps1, Leaves, Own
  <2>4. CurrentInv'
    BY <1>0, <2>1, <2>2, CurrentFiled DEF WithTokens
  <2>5. QED BY <1>0, <1>a, <2>1, <2>2, <2>3, <2>4 DEF WithTokens
\* A redirect that is handed over: the login's own, or the call is over.
<1>c. ASSUME NEW c \in LoginCallers, NEW r, Does(c) = "manual", Auth!Accept(c, r),
             UNCHANGED <<file, logins, grants, shared, loginFaults>>
      PROVE  LoginInv'
  <2>1. CASE Auth!Return(c) /\ Auth!LeavePort(c)
    BY <1>0, <1>b, <1>c, <2>1, LeavesPort
  <2>2. CASE /\ r = loginCaller[c].login /\ UNCHANGED port
             /\ Auth!Set(c, [loginCaller[c] EXCEPT !.step = "exchange", !.code = r])
    <3> DEFINE new == [loginCaller[c] EXCEPT !.step = "exchange", !.code = r]
    <3>1. r = Own(c) /\ Own(c) # None /\ Own(c) \in Nat
      BY <1>0, <1>c, <2>2 DEF PortInv, LoginsAreApart, Own
    <3>2. /\ new \in LoginCall /\ new.step = "exchange" /\ new.login = Own(c) /\ new.code = Own(c)
          /\ new.step \notin WithTokens
      BY <1>0, <3>1 DEF LoginCall, Auth!LoginSteps, Own, WithTokens
    <3>3. Auth!Set(c, new)
      BY <2>2
    <3> HIDE DEF new
    <3>4. Others(c) /\ loginCaller'[c] = new
      BY <1>0, <3>2, <3>3, Sets
    <3>5. Steps1(c)
      BY <1>c, <2>2, <3>1, <3>2, <3>4 DEF Steps1, Leaves, Own
    <3>6. CurrentInv'
      BY <1>0, <1>c, <3>2, <3>4, CurrentFiled
    <3>7. QED BY <1>0, <1>a, <1>c, <3>2, <3>4, <3>5, <3>6
  <2>3. QED BY <1>c, <2>1, <2>2 DEF Auth!Accept, Auth!OwnRedirect
<1>7. ASSUME NEW c \in LoginCallers, NEW r \in Auth!Redirects, Auth!Paste(c, r) PROVE LoginInv'
  BY <1>7, <1>c DEF Auth!Paste, Auth!LoginAt, Does
<1>8. ASSUME NEW c \in LoginCallers, Auth!Consume(c) PROVE LoginInv'
  BY <1>8, <1>c DEF Auth!Consume, Auth!LoginAt, Does
<1>9. ASSUME NEW c \in LoginCallers, Auth!GiveUp(c) PROVE LoginInv'
  <2>1. /\ Does(c) = "manual" /\ Auth!Return(c) /\ Leaves(c)
        /\ UNCHANGED <<file, logins, grants, shared, loginFaults>>
    BY <1>9, LeavesPort DEF Auth!GiveUp, Auth!LoginAt, Does
  <2>2. QED BY <1>0, <1>b, <2>1
<1>10. ASSUME NEW c \in LoginCallers, Auth!LoginExchange(c) PROVE LoginInv'
  <2> DEFINE l == loginCaller[c].code
  <2>1. /\ Does(c) = "exchange" /\ UNCHANGED <<file, logins, shared>>
        /\ l = Own(c) /\ Own(c) # None /\ Own(c) \in Nat /\ 1 <= Own(c) /\ Own(c) <= logins
    BY <1>0, <1>10 DEF Auth!LoginExchange, Auth!LoginAt, Does, PortInv, LoginsAreApart
  <2>2. l \in Auth!Logins
    BY <1>0, <2>1 DEF Auth!Logins
  <2>3. CASE Auth!Return(c) /\ Auth!LeavePort(c) /\ UNCHANGED <<grants, loginFaults>>
    BY <1>0, <1>b, <2>1, <2>3, LeavesPort
  <2>4. ASSUME NEW refresh \in 0..1,
               grants' = [grants EXCEPT ![l] = [used |-> TRUE, access |-> 1, refresh |-> refresh,
                                                reused |-> FALSE]],
               \/ /\ Auth!Set(c, [loginCaller[c] EXCEPT !.step = "save", !.code = None,
                                     !.tokens = [login |-> l, access |-> 1, refresh |-> refresh]])
                  /\ UNCHANGED <<port, loginFaults>>
               \/ Auth!LoginFault /\ Auth!Return(c) /\ Auth!LeavePort(c)
        PROVE  LoginInv'
    <3> DEFINE g == [used |-> TRUE, access |-> 1, refresh |-> refresh, reused |-> FALSE]
    <3>1. refresh \in Nat /\ g \in Grant /\ g.refresh = refresh /\ g.access = 1 /\ ~g.reused
      BY DEF Grant
    <3>2. grants' = [grants EXCEPT ![l] = g]
      BY <2>4
    <3> HIDE DEF g
    <3>3. /\ grants' \in [Auth!Logins -> Grant] /\ grants'[l] = g
          /\ \A k \in Auth!Logins : k # l => grants'[k] = grants[k]
      BY <1>0, <2>2, <3>1, <3>2
    <3>4. CASE Auth!LoginFault /\ Auth!Return(c) /\ Auth!LeavePort(c)
      BY <1>0, <1>b, <2>1, <3>3, <3>4, LeavesPort DEF Auth!LoginFault
    <3>5. CASE /\ Auth!Set(c, [loginCaller[c] EXCEPT !.step = "save", !.code = None,
                                  !.tokens = [login |-> l, access |-> 1, refresh |-> refresh]])
               /\ UNCHANGED <<port, loginFaults>>
      <4> DEFINE t == [login |-> l, access |-> 1, refresh |-> refresh]
                 new == [loginCaller[c] EXCEPT !.step = "save", !.code = None, !.tokens = t]
      <4>1. t \in TokenSet /\ t.login = l /\ t.access = 1 /\ t.refresh = refresh
        BY <2>2, <3>1 DEF TokenSet
      <4> HIDE DEF t
      <4>2. new \in LoginCall /\ new.step = "save" /\ new.login = Own(c) /\ new.tokens = t
        BY <1>0, <4>1 DEF LoginCall, Auth!LoginSteps, Own
      <4>3. Auth!Set(c, new)
        BY <3>5 DEF t
      <4> HIDE DEF new
      <4>4. Others(c) /\ loginCaller'[c] = new
        BY <1>0, <4>2, <4>3, Sets
      <4>5. Steps1(c)
        BY <2>1, <3>5, <4>2, <4>4 DEF Steps1, Leaves, Own
      <4>6. (\A k \in Auth!Logins : ~grants[k].reused) => \A k \in Auth!Logins : ~grants'[k].reused
        BY <3>1, <3>3
      <4>7. Matches(t, grants')
        BY <3>1, <3>3, <4>1 DEF Matches
      <4>8. Fits(loginCaller'[c], file', grants')
        BY <4>2, <4>4, <4>7 DEF Fits
      <4>9. CurrentInv'
        BY <1>0, <2>1, <3>5, <4>4, <4>6, <4>8, CurrentKept
      <4>10. QED BY <1>0, <1>a, <2>1, <3>3, <3>5, <4>1, <4>2, <4>4, <4>5, <4>9
    <3>6. QED BY <2>4, <3>4, <3>5
  <2>5. QED BY <1>10, <2>3, <2>4 DEF Auth!LoginExchange
<1>11. ASSUME NEW c \in LoginCallers, Auth!Refresh(c) PROVE LoginInv'
  <2> DEFINE t == loginCaller[c].tokens
             g == grants[t.login]
  <2>1. Does(c) = "refresh" /\ UNCHANGED <<file, port, logins, shared>>
    BY <1>11 DEF Auth!Refresh, Auth!LoginAt, Does
  <2>2. /\ t \in TokenSet /\ t.login \in Auth!Logins /\ g \in Grant /\ g.access \in Nat
        /\ g.refresh \in Nat
    BY <1>0, <2>1 DEF WithTokens, TokenSet, Grant
  <2>3. CASE /\ ~(t.refresh = g.refresh /\ ~g.reused)
             /\ grants' = [grants EXCEPT ![t.login].reused = TRUE]
             /\ Auth!Return(c) /\ UNCHANGED loginFaults
    <3>1. grants' \in [Auth!Logins -> Grant]
      BY <1>0, <2>3 DEF Grant
    <3>2. Others(c) /\ loginCaller'[c] = Auth!Idle
      BY <1>0, <2>3, Returns
    <3>3. Steps1(c)
      BY <1>i, <2>1, <3>2 DEF Steps1, Leaves
    <3>4. ~(Fits(loginCaller[c], file, grants) /\ \A k \in Auth!Logins : ~grants[k].reused)
      BY <2>1, <2>2, <2>3 DEF Fits, WithTokens, Matches, Does
    <3>5. CurrentInv'
      BY <1>0, <2>1, <2>3, <3>2, <3>4, CurrentKept
    <3>6. QED BY <1>0, <1>a, <1>i, <2>1, <2>3, <3>1, <3>2, <3>3, <3>5 DEF WithTokens
  <2>4. ASSUME NEW refresh \in {g.refresh, g.refresh + 1},
               grants' = [grants EXCEPT ![t.login].access = @ + 1, ![t.login].refresh = refresh],
               \/ /\ Auth!Set(c, [loginCaller[c] EXCEPT !.step = "save",
                                     !.tokens = Auth!Refreshed(t, [g EXCEPT !.refresh = refresh])])
                  /\ UNCHANGED loginFaults
               \/ Auth!LoginFault /\ Auth!Return(c)
        PROVE  LoginInv'
    <3> DEFINE h == [g EXCEPT !.access = g.access + 1, !.refresh = refresh]
    <3>1. /\ refresh \in Nat /\ h \in Grant /\ h.refresh = refresh /\ h.access = g.access + 1
          /\ h.reused = g.reused
      <4>1. refresh \in Nat /\ g.access + 1 \in Nat
        BY <2>2
      <4>2. QED BY <2>2, <4>1 DEF Grant
    <3>2. grants' = [grants EXCEPT ![t.login] = h]
      BY <1>0, <2>2, <2>4 DEF Grant
    <3> HIDE DEF h
    <3>3. /\ grants' \in [Auth!Logins -> Grant] /\ grants'[t.login] = h
          /\ \A k \in Auth!Logins : k # t.login => grants'[k] = grants[k]
      BY <1>0, <2>2, <3>1, <3>2
    <3>4. CASE Auth!LoginFault /\ Auth!Return(c)
      BY <1>0, <1>b, <2>1, <3>3, <3>4 DEF Auth!LoginFault, Leaves
    <3>5. CASE /\ Auth!Set(c, [loginCaller[c] EXCEPT !.step = "save",
                                  !.tokens = Auth!Refreshed(t, [g EXCEPT !.refresh = refresh])])
               /\ UNCHANGED loginFaults
      <4> DEFINE u == Auth!Refreshed(t, [g EXCEPT !.refresh = refresh])
                 new == [loginCaller[c] EXCEPT !.step = "save", !.tokens = u]
      <4>1. u \in TokenSet /\ u.login = t.login /\ u.access = g.access + 1 /\ u.refresh = refresh
        BY <2>2, <3>1 DEF TokenSet, Auth!Refreshed, Grant
      <4> HIDE DEF u
      <4>2. new \in LoginCall /\ new.step = "save" /\ new.login = Own(c) /\ new.tokens = u
        BY <1>0, <4>1 DEF LoginCall, Auth!LoginSteps, Own
      <4>3. Auth!Set(c, new)
        BY <3>5 DEF u
      <4> HIDE DEF new
      <4>4. Others(c) /\ loginCaller'[c] = new
        BY <1>0, <4>2, <4>3, Sets
      <4>5. Steps1(c)
        BY <2>1, <4>2, <4>4 DEF Steps1, Leaves, Own
      <4>6. (\A k \in Auth!Logins : ~grants[k].reused) => \A k \in Auth!Logins : ~grants'[k].reused
        BY <2>2, <3>1, <3>3
      <4>7. Matches(u, grants')
        BY <3>1, <3>3, <4>1 DEF Matches
      <4>8. Fits(loginCaller'[c], file', grants')
        BY <4>2, <4>4, <4>7 DEF Fits
      <4>9. CurrentInv'
        BY <1>0, <2>1, <3>5, <4>4, <4>6, <4>8, CurrentKept
      <4>10. QED BY <1>0, <1>a, <2>1, <3>3, <3>5, <4>1, <4>2, <4>4, <4>5, <4>9
    <3>6. QED BY <2>4, <3>4, <3>5
  <2>5. QED BY <1>11, <2>3, <2>4 DEF Auth!Refresh
<1>12. ASSUME NEW c \in LoginCallers, Auth!Unreached(c) PROVE LoginInv'
  <2>1. /\ Does(c) \in {"exchange", "refresh"} /\ Auth!Return(c) /\ Leaves(c)
        /\ UNCHANGED <<file, logins, grants, shared, loginFaults>>
    BY <1>12, LeavesPort DEF Auth!Unreached, Does
  <2>2. QED BY <1>0, <1>b, <2>1
<1>13. ASSUME NEW c \in LoginCallers, Auth!Cut(c) PROVE LoginInv'
  <2>1. /\ Does(c) = "save" /\ file' = <<>> /\ Auth!LoginGoto(c, "write")
        /\ UNCHANGED <<port, logins, grants, shared, loginFaults>>
    BY <1>13 DEF Auth!Cut, Auth!LoginAt, Does
  <2>2. /\ Others(c) /\ loginCaller'[c].step = "write" /\ loginCaller'[c].login = Own(c)
        /\ loginCaller'[c].tokens = loginCaller[c].tokens
    BY <1>0, <2>1, GoesOn DEF Auth!LoginSteps, Own
  <2>3. Steps1(c)
    BY <2>1, <2>2 DEF Steps1, Leaves, Own
  <2>4. Fits(loginCaller[c], file, grants) => Fits(loginCaller'[c], file', grants')
    BY <2>1, <2>2 DEF Fits, FileMatches, Does, WithTokens
  <2>5. CurrentInv'
    BY <1>0, <2>1, <2>2, <2>4, CurrentKept
  <2>6. QED BY <1>0, <1>a, <2>1, <2>2, <2>3, <2>5 DEF WithTokens
<1>14. ASSUME NEW c \in LoginCallers, Auth!Write(c) PROVE LoginInv'
  <2> DEFINE t == loginCaller[c].tokens
             new == [Auth!Idle EXCEPT !.step = "check", !.tokens = t]
  <2>1. Does(c) = "write" /\ file' = <<t>> /\ UNCHANGED <<logins, grants, shared, loginFaults>>
    BY <1>14 DEF Auth!Write, Auth!LoginAt, Does
  <2>2. t \in TokenSet
    BY <1>0, <2>1 DEF WithTokens
  <2>3. new \in LoginCall /\ new.step = "check" /\ new.login = None /\ new.tokens = t
    BY <1>i, <2>2 DEF LoginCall, Auth!LoginSteps
  <2>4. \/ Auth!Set(c, new) /\ Leaves(c)
        \/ Auth!Return(c) /\ UNCHANGED port
    BY <1>14, LeavesPort DEF Auth!Write
  <2> HIDE DEF new
  <2>5. Others(c) /\ (loginCaller'[c] = new \/ loginCaller'[c] = Auth!Idle)
    BY <1>0, <2>3, <2>4, Sets, Returns
  <2>6. Steps1(c)
    BY <1>i, <2>1, <2>3, <2>4, <2>5 DEF Steps1, Leaves
  <2>7. Fits(loginCaller[c], file, grants) => Fits(loginCaller'[c], file', grants')
    <3>1. SUFFICES ASSUME Matches(t, grants) PROVE Fits(loginCaller'[c], file', grants')
      BY <2>1 DEF Fits, WithTokens, Does
    <3>2. FileMatches(file', grants')
      BY <2>1, <3>1 DEF FileMatches
    <3>3. QED BY <1>i, <2>1, <2>3, <2>5, <3>1, <3>2 DEF Fits, WithTokens
  <2>8. CurrentInv'
    BY <1>0, <2>1, <2>5, <2>7, CurrentKept
  <2>9. QED BY <1>0, <1>a, <1>i, <2>1, <2>2, <2>3, <2>5, <2>6, <2>8 DEF WithTokens
<1>15. ASSUME NEW c \in LoginCallers, Auth!Crash(c) PROVE LoginInv'
  <2>1. /\ Does(c) # "idle" /\ Auth!Return(c) /\ loginFaults' = loginFaults + 1
        /\ UNCHANGED <<file, logins, grants, shared>> /\ Leaves(c)
    BY <1>15 DEF Auth!Crash, Auth!LoginFault, Auth!LoginAt, Does, Leaves
  <2>2. QED BY <1>0, <1>b, <2>1
\* The port, the file of redirects and the clock.
<1>16. ASSUME NEW r \in Auth!Redirects, Auth!Request(r) PROVE LoginInv'
  <2>1. /\ port # None /\ UNCHANGED <<file, loginCaller, logins, grants, shared, loginFaults>>
        /\ \/ ~port.held /\ port' = None
           \/ /\ port.held
              /\ port' = [port EXCEPT !.listening = FALSE,
                                      !.code = IF r = port.state THEN r ELSE port.code]
    BY <1>0, <1>16 DEF Auth!Request, Auth!OwnState, LoginPorts
  <2>2. r \in Nat
    BY <1>0 DEF Auth!Redirects
  <2>3. \/ port' = None /\ ~port.held
        \/ /\ port' \in LoginPorts /\ port' # None /\ port'.held = port.held /\ port'.by = port.by
           /\ port'.state = port.state /\ port'.code \in {port.code, port.state}
    BY <1>0, <2>1, <2>2, ZenonT(60) DEF LoginPorts
  <2>4. LoginsTyped'
    BY <1>0, <2>1, <2>3 DEF LoginsTyped, Does
  <2>5. LoginsAreApart'
    BY <1>0, <2>1, <2>3 DEF PortInv, LoginsAreApart, Own, Does
  <2>6. CurrentInv'
    BY <1>0, <2>1 DEF CurrentInv, Does
  <2>7. QED BY <2>4, <2>5, <2>6 DEF LoginInv, PortInv
<1>17. ASSUME UNCHANGED <<file, port, loginCaller, logins, grants, shared, loginFaults>>
       PROVE  LoginInv'
  BY <1>0, <1>17
     DEF LoginInv, PortInv, LoginsTyped, LoginsAreApart, CurrentInv, Own, Does
<1>18. (\E r \in Auth!Redirects : Auth!WriteRedirect(r)) \/ Auth!LoginAge
         \/ UNCHANGED Auth!loginVars => LoginInv'
  BY <1>17 DEF Auth!WriteRedirect, Auth!LoginAge, Auth!loginVars
<1>19. QED BY <1>1, <1>2, <1>3, <1>4, <1>5, <1>6, <1>7, <1>8, <1>9, <1>10, <1>11, <1>12, <1>13,
              <1>14, <1>15, <1>16, <1>18
           DEF Auth!LoginNext, Auth!LoginStep

LEMMA LoginsHold ==
  ASSUME LoginConstants PROVE Auth!LoginSpec => []LoginInv
BY LoginsStart, LoginKept, PTL DEF Auth!LoginSpec

\* A code is only presented by the login it was issued for, whatever arrives late, at the
\* port of another login or through the file.
THEOREM LoginsUseTheirCodes ==
  ASSUME LoginConstants PROVE Auth!LoginSpec => []Auth!CodesAreOwn
<1>1. LoginInv => Auth!CodesAreOwn
  BY DEF LoginInv, PortInv, LoginsAreApart, Auth!CodesAreOwn, Auth!LoginAt, Does, Own
<1>2. QED BY <1>1, LoginsHold, PTL

\* Unless calls overlapped or an answer or a process was lost, no replaced refresh token is
\* presented, and the file has the newest tokens of its login between calls.
THEOREM LoginFileIsCurrent ==
  ASSUME LoginConstants
  PROVE  Auth!LoginSpec => [](Auth!RefreshIsCurrent /\ Auth!FileIsCurrent)
<1>1. LoginInv => Auth!RefreshIsCurrent
  <2>1. ASSUME LoginInv, NEW l \in Auth!Logins, grants[l].reused, ~shared, ~(loginFaults > 0)
        PROVE  FALSE
    <3>1. loginFaults = 0
      BY <2>1 DEF LoginInv, PortInv, LoginsTyped
    <3>2. QED BY <2>1, <3>1 DEF LoginInv, CurrentInv
  <2>2. QED BY <2>1 DEF Auth!RefreshIsCurrent
<1>2. LoginInv => Auth!FileIsCurrent
  <2>1. ASSUME LoginInv, \A c \in LoginCallers : Auth!LoginAt(c, "idle"), ~shared, loginFaults = 0,
               NEW k \in DOMAIN file
        PROVE  /\ file[k].refresh = grants[file[k].login].refresh
               /\ file[k].access = grants[file[k].login].access
    <3>1. FileMatches(file, grants)
      BY <2>1 DEF LoginInv, CurrentInv, Auth!LoginAt, Does
    <3>2. PICK t \in TokenSet : file = <<t>>
      BY <2>1 DEF LoginInv, PortInv, LoginsTyped
    <3>3. file[k] = t
      BY <3>2
    <3>4. QED BY <3>1, <3>2, <3>3 DEF FileMatches, Matches
  <2>2. QED BY <2>1 DEF Auth!FileIsCurrent
<1>3. QED BY <1>1, <1>2, LoginsHold, PTL

--------------------------------------------------------------------------------
(* Delegated tokens: exchanged for a caller, cached by caller, the longest unused dropped
   first.  *)

CallerConstants ==
    /\ CacheSize \in Nat /\ Skew \in Nat /\ Lifetimes \subseteq Nat
    /\ None \notin Nat /\ None \notin TokenHolders /\ None \notin CallerRequests

CacheEntry == [caller : TokenHolders, token : Nat]
Exchanged == [caller : TokenHolders, expires : Nat]
CallerReq == [step : Auth!CallerSteps, caller : TokenHolders \cup {None}, token : Nat \cup {None},
              at : Nat]
CallersTyped ==
    /\ callerCache \in Seq(CacheEntry) /\ callerIssued \in Seq(Exchanged) /\ now \in Nat
    /\ callerReq \in [CallerRequests -> CallerReq]
    /\ \A r \in CallerRequests :
         callerReq[r].step \in {"waiting", "exchanging"} => callerReq[r].caller \in TokenHolders

\* The lock is held through an exchange.
HolderExchanges == holder # None => holder \in CallerRequests /\ callerReq[holder].step = "exchanging"

\* What the cache has of a caller: one token, its newest.
NewestIn(cache, issued) ==
    /\ \A m, n \in 1..Len(cache) : cache[m].caller = cache[n].caller => m = n
    /\ \A n \in 1..Len(cache) :
         /\ cache[n].token \in 1..Len(issued) /\ issued[cache[n].token].caller = cache[n].caller
         /\ \A t \in 1..Len(issued) : issued[t].caller = cache[n].caller => t <= cache[n].token

\* What a request was given: a token of its own caller, just exchanged or with time left.
TokensGiven ==
    \A r \in CallerRequests :
        /\ callerReq[r].token # None =>
             callerReq[r].token \in 1..Len(callerIssued) /\ callerReq[r].at <= now
        /\ callerReq[r].step = "sent" =>
             /\ callerReq[r].token # None
             /\ callerIssued[callerReq[r].token].caller = callerReq[r].caller
             /\ \/ callerIssued[callerReq[r].token].expires > callerReq[r].at + Skew
                \/ \A q \in CallerRequests : callerReq[q].token = callerReq[r].token =>
                     callerReq[r].at <= callerReq[q].at

CallerInv ==
    /\ CallersTyped /\ HolderExchanges /\ NewestIn(callerCache, callerIssued) /\ TokensGiven
    /\ Len(callerCache) <= CacheSize

LEMMA CallersStart == ASSUME CallerConstants, Auth!CallerInit PROVE CallerInv
<1>1. CallersTyped
  BY DEF CallerConstants, Auth!CallerInit, CallersTyped, CallerReq, Auth!CallerSteps
<1>2. HolderExchanges /\ NewestIn(callerCache, callerIssued) /\ TokensGiven /\ Len(callerCache) <= CacheSize
  BY DEF CallerConstants, Auth!CallerInit, HolderExchanges, NewestIn, TokensGiven
<1>3. QED BY <1>1, <1>2 DEF CallerInv

\* A sequence without its n-th entry, and its last k.
LEMMA Joined ==
  \A S, a, b : a \in Seq(S) /\ b \in Seq(S) =>
     /\ a \o b \in Seq(S) /\ Len(a \o b) = Len(a) + Len(b)
     /\ \A i \in 1..Len(a) : (a \o b)[i] = a[i]
     /\ \A i \in 1..Len(b) : (a \o b)[Len(a) + i] = b[i]
OBVIOUS

LEMMA Cut ==
  \A S, s : \A m \in 1..Len(s) + 1, n \in 0..Len(s) : s \in Seq(S) /\ m <= n + 1 =>
     /\ SubSeq(s, m, n) \in Seq(S) /\ Len(SubSeq(s, m, n)) = n + 1 - m
     /\ \A i \in 1..n + 1 - m : SubSeq(s, m, n)[i] = s[m - 1 + i]
OBVIOUS

Halves(s, n, a, b) ==
    /\ Len(a) = n - 1 /\ \A i \in 1..n - 1 : a[i] = s[i]
    /\ Len(b) = Len(s) - n /\ \A i \in 1..Len(s) - n : b[i] = s[n + i]
Lacks(S, s, n, w) ==
    /\ w \in Seq(S) /\ Len(w) = Len(s) - 1
    /\ \A i \in 1..Len(w) : w[i] = s[IF i < n THEN i ELSE i + 1]

LEMMA TwoParts ==
  ASSUME NEW S, NEW s \in Seq(S), NEW a \in Seq(S), NEW b \in Seq(S), NEW n \in 1..Len(s),
         Halves(s, n, a, b)
  PROVE  Lacks(S, s, n, a \o b)
<1>0. /\ Len(a) = n - 1 /\ \A i \in 1..n - 1 : a[i] = s[i]
      /\ Len(b) = Len(s) - n /\ \A i \in 1..Len(s) - n : b[i] = s[n + i]
  BY DEF Halves
<1>1. /\ a \o b \in Seq(S) /\ Len(a \o b) = Len(a) + Len(b)
      /\ \A i \in 1..Len(a) : (a \o b)[i] = a[i]
      /\ \A i \in 1..Len(b) : (a \o b)[Len(a) + i] = b[i]
  BY ONLY a \in Seq(S), b \in Seq(S), Joined
<1>2. Len(a \o b) = Len(s) - 1
  BY <1>0, <1>1
<1>3. ASSUME NEW i \in 1..Len(s) - 1
      PROVE  (a \o b)[i] = s[IF i < n THEN i ELSE i + 1]
  <2>1. CASE i < n
    <3>1. i \in 1..n - 1
      BY <2>1
    <3>2. QED BY <1>0, <1>1, <2>1, <3>1
  <2>2. CASE ~(i < n)
    <3>1. i - (n - 1) \in 1..Len(s) - n /\ n + (i - (n - 1)) = i + 1 /\ (n - 1) + (i - (n - 1)) = i
      BY <2>2
    <3>2. (a \o b)[(n - 1) + (i - (n - 1))] = s[n + (i - (n - 1))]
      BY <1>0, <1>1, <3>1
    <3>3. QED BY <2>2, <3>1, <3>2
  <2>3. QED BY <2>1, <2>2
<1>4. QED BY <1>1, <1>2, <1>3 DEF Lacks

Less(s, n) == SubSeq(s, 1, n - 1) \o SubSeq(s, n + 1, Len(s))

LEMMA LeftOut ==
  ASSUME NEW S, NEW s \in Seq(S), NEW n \in 1..Len(s)
  PROVE  Lacks(S, s, n, Less(s, n))
<1> DEFINE a == SubSeq(s, 1, n - 1)
           b == SubSeq(s, n + 1, Len(s))
<1>0. Len(s) \in Nat /\ n \in Nat
  OBVIOUS
<1>1. a \in Seq(S) /\ Len(a) = n - 1 /\ \A i \in 1..n - 1 : a[i] = s[i]
  BY <1>0, Cut
<1>2. b \in Seq(S) /\ Len(b) = Len(s) - n /\ \A i \in 1..Len(s) - n : b[i] = s[n + i]
  BY <1>0, Cut
<1>3. Less(s, n) = a \o b
  BY DEF Less
<1> HIDE DEF a, b
<1>4. Halves(s, n, a, b)
  BY <1>1, <1>2 DEF Halves
<1>5. Lacks(S, s, n, a \o b)
  BY <1>1, <1>2, <1>4, TwoParts
<1>6. QED BY <1>3, <1>5

LEMMA LastOnes ==
  \A S, s, k : s \in Seq(S) /\ k \in Nat /\ Len(s) > k =>
     /\ SubSeq(s, Len(s) - k + 1, Len(s)) \in Seq(S)
     /\ Len(SubSeq(s, Len(s) - k + 1, Len(s))) = k
     /\ \A i \in 1..k : SubSeq(s, Len(s) - k + 1, Len(s))[i] = s[Len(s) - k + i]
OBVIOUS

LEMMA Appended ==
  \A S, s, e : s \in Seq(S) /\ e \in S =>
     /\ Append(s, e) \in Seq(S) /\ Len(Append(s, e)) = Len(s) + 1
     /\ Append(s, e)[Len(s) + 1] = e /\ \A i \in 1..Len(s) : Append(s, e)[i] = s[i]
OBVIOUS

\* An entry moved to the end of the cache, and what is then dropped: the others stay what
\* they were, none of them of its caller.
LEMMA UsedCache ==
  ASSUME CallersTyped, CacheSize \in Nat, NEW issued, NewestIn(callerCache, callerIssued),
         issued \in Seq(Exchanged), Len(callerIssued) <= Len(issued),
         \A t \in 1..Len(callerIssued) : issued[t] = callerIssued[t],
         NEW owner \in TokenHolders, NEW token \in 1..Len(issued),
         issued[token].caller = owner,
         \A t \in 1..Len(issued) : issued[t].caller = owner => t <= token,
         \A t \in 1..Len(issued) : t > Len(callerIssued) => issued[t].caller = owner
  PROVE  /\ Auth!Used(owner, token) \in Seq(CacheEntry)
         /\ NewestIn(Auth!Used(owner, token), issued)
         /\ Len(Auth!Used(owner, token)) <= CacheSize
<1> DEFINE w == Auth!Without(owner)
           e == [caller |-> owner, token |-> token]
           a == Append(w, e)
           u == Auth!Used(owner, token)
<1>0. callerCache \in Seq(CacheEntry) /\ e \in CacheEntry /\ callerIssued \in Seq(Exchanged)
  BY DEF CallersTyped, CacheEntry
<1>1. /\ w \in Seq(CacheEntry)
      /\ \A i \in 1..Len(w) : \E p \in 1..Len(callerCache) : w[i] = callerCache[p] /\ w[i].caller # owner
      /\ \A i, j \in 1..Len(w) : w[i].caller = w[j].caller => i = j
  <2>1. CASE Auth!Cached(owner) = {}
    <3>1. w = callerCache
      BY <2>1 DEF Auth!Without
    <3>2. \A i \in 1..Len(callerCache) : callerCache[i].caller # owner
      BY <1>0, <2>1 DEF Auth!Cached
    <3>3. QED BY <1>0, <3>1, <3>2 DEF NewestIn
  <2>2. CASE Auth!Cached(owner) # {}
    <3> DEFINE n == CHOOSE n \in Auth!Cached(owner) : TRUE
    <3>0. Len(callerCache) \in Nat /\ n \in Auth!Cached(owner)
      BY <1>0, <2>2
    <3>1. n \in 1..Len(callerCache) /\ callerCache[n].caller = owner
      BY <1>0, <3>0 DEF Auth!Cached
    <3>2. w = Less(callerCache, n)
      BY <2>2 DEF Auth!Without, Less
    <3> HIDE DEF n, w
    <3>3. /\ w \in Seq(CacheEntry) /\ Len(w) = Len(callerCache) - 1
          /\ \A i \in 1..Len(w) : w[i] = callerCache[IF i < n THEN i ELSE i + 1]
      BY <1>0, <3>1, <3>2, LeftOut DEF Lacks
    <3>4. ASSUME NEW i \in 1..Len(w)
          PROVE  /\ (IF i < n THEN i ELSE i + 1) \in 1..Len(callerCache)
                 /\ (IF i < n THEN i ELSE i + 1) # n
      BY <3>0, <3>1, <3>3
    <3>5. ASSUME NEW i \in 1..Len(w)
          PROVE  \E p \in 1..Len(callerCache) : w[i] = callerCache[p] /\ w[i].caller # owner
      BY <3>1, <3>3, <3>4 DEF NewestIn
    <3>6. ASSUME NEW i \in 1..Len(w), NEW j \in 1..Len(w), w[i].caller = w[j].caller
          PROVE  i = j
      <4> DEFINE x == IF i < n THEN i ELSE i + 1
                 y == IF j < n THEN j ELSE j + 1
      <4>1. /\ x \in 1..Len(callerCache) /\ w[i] = callerCache[x]
            /\ y \in 1..Len(callerCache) /\ w[j] = callerCache[y]
        BY <3>3, <3>4
      <4> HIDE DEF x, y
      <4>2. x = y
        BY <3>6, <4>1 DEF NewestIn
      <4>3. i \in Int /\ j \in Int /\ n \in Int
        BY <3>0, <3>1
      <4>4. QED BY <4>2, <4>3 DEF x, y
    <3>7. QED BY <3>3, <3>5, <3>6
  <2>3. QED BY <2>1, <2>2
<1> HIDE DEF w
<1>3. /\ a \in Seq(CacheEntry) /\ Len(a) = Len(w) + 1 /\ a[Len(w) + 1] = e
      /\ \A i \in 1..Len(w) : a[i] = w[i]
  BY <1>0, <1>1, Appended
<1> HIDE DEF a
<1>4. ASSUME NEW i \in 1..Len(w)
      PROVE  /\ a[i].token \in 1..Len(issued) /\ issued[a[i].token].caller = a[i].caller
             /\ \A t \in 1..Len(issued) : issued[t].caller = a[i].caller => t <= a[i].token
             /\ a[i].caller # owner
  <2>1. PICK p \in 1..Len(callerCache) : a[i] = callerCache[p] /\ a[i].caller # owner
    BY <1>1, <1>3, SMTT(30)
  <2>2. /\ a[i].token \in 1..Len(callerIssued) /\ callerIssued[a[i].token].caller = a[i].caller
        /\ \A t \in 1..Len(callerIssued) : callerIssued[t].caller = a[i].caller => t <= a[i].token
    BY <2>1 DEF NewestIn
  <2>3. a[i].token \in 1..Len(issued)
    BY <1>0, <2>2
  <2>4. \A t \in 1..Len(issued) : issued[t].caller = a[i].caller => t <= a[i].token
    BY <1>0, <2>1, <2>2, SMTT(30)
  <2>5. QED BY <2>1, <2>2, <2>3, <2>4
<1>5. NewestIn(a, issued)
  <2>1. \A m, n \in 1..Len(w) : a[m].caller = a[n].caller => m = n
    BY <1>1, <1>3
  <2>2. /\ \A n \in 1..Len(a) : n \in 1..Len(w) \/ n = Len(w) + 1
        /\ e.caller = owner /\ e.token = token
    BY <1>1, <1>3
  <2>3. \A m, n \in 1..Len(a) : a[m].caller = a[n].caller => m = n
    BY <1>3, <1>4, <2>1, <2>2
  <2>4. \A n \in 1..Len(a) :
          /\ a[n].token \in 1..Len(issued) /\ issued[a[n].token].caller = a[n].caller
          /\ \A t \in 1..Len(issued) : issued[t].caller = a[n].caller => t <= a[n].token
    BY <1>3, <1>4, <2>2
  <2>5. QED BY <2>3, <2>4 DEF NewestIn
<1>6. u = IF Len(a) > CacheSize THEN SubSeq(a, Len(a) - CacheSize + 1, Len(a)) ELSE a
  BY DEF Auth!Used, Auth!Trim, a, w
<1>7. CASE ~(Len(a) > CacheSize)
  <2>1. u = a /\ Len(a) <= CacheSize
    BY <1>3, <1>6, <1>7
  <2>2. QED BY <1>3, <1>5, <2>1
<1>8. CASE Len(a) > CacheSize
  <2> HIDE DEF u
  <2>1. /\ u \in Seq(CacheEntry) /\ Len(u) = CacheSize
        /\ \A i \in 1..CacheSize : u[i] = a[Len(a) - CacheSize + i]
    BY <1>3, <1>6, <1>8, LastOnes, SMTT(30)
  <2> DEFINE k == Len(a) - CacheSize
  <2>2. k \in Nat /\ \A i \in 1..Len(u) : u[i] = a[k + i] /\ k + i \in 1..Len(a)
    BY <1>3, <1>8, <2>1
  <2> HIDE DEF k
  <2>3. ASSUME NEW m \in 1..Len(u), NEW n \in 1..Len(u), u[m].caller = u[n].caller
        PROVE  m = n
    <3>1. a[k + m].caller = a[k + n].caller /\ k + m \in 1..Len(a) /\ k + n \in 1..Len(a)
      BY <2>2, <2>3
    <3>2. k + m = k + n
      BY <1>5, <3>1 DEF NewestIn
    <3>3. m \in Int /\ n \in Int
      OBVIOUS
    <3>4. QED BY <2>2, <3>2, <3>3
  <2>4. NewestIn(u, issued)
    BY <1>5, <2>2, <2>3, SMTT(30) DEF NewestIn
  <2>5. QED BY <2>1, <2>4 DEF u
<1>9. QED BY <1>7, <1>8

\* What the steps of a request have in common: the others keep what they were given.
CallerMoves(r) ==
    /\ r \in CallerRequests /\ callerReq' \in [CallerRequests -> CallerReq]
    /\ \A q \in CallerRequests \ {r} : callerReq'[q] = callerReq[q]
    /\ callerReq'[r].step \in {"waiting", "exchanging"} => callerReq'[r].caller \in TokenHolders
    /\ now' = now

\* A request that is not given a token: what it has of one is what it had.
LEMMA NoTokenGiven ==
  ASSUME CallerConstants, CallerInv, NEW r, CallerMoves(r),
         UNCHANGED <<callerCache, callerIssued>>,
         callerReq'[r].step # "sent", callerReq'[r].token = callerReq[r].token,
         callerReq'[r].at = callerReq[r].at,
         holder' # None => holder' \in CallerRequests /\ callerReq'[holder'].step = "exchanging"
  PROVE  CallerInv'
<1>1. CallersTyped'
  BY DEF CallerInv, CallersTyped, CallerMoves
<1>2. \A q \in CallerRequests : callerReq'[q].token = callerReq[q].token /\ callerReq'[q].at = callerReq[q].at
  BY DEF CallerMoves
<1>3. \A q \in CallerRequests : callerReq'[q].step = "sent" => callerReq'[q] = callerReq[q]
  BY DEF CallerMoves
<1>4. TokensGiven'
  BY <1>2, <1>3 DEF CallerInv, TokensGiven, CallerMoves
<1>5. HolderExchanges' /\ NewestIn(callerCache', callerIssued') /\ Len(callerCache') <= CacheSize
  BY DEF CallerInv, HolderExchanges
<1>6. QED BY <1>1, <1>4, <1>5 DEF CallerInv

\* A request that is given a token of its caller, its newest: one with time left, or a new one.
LEMMA TokenGiven ==
  ASSUME CallerConstants, CallerInv, NEW r, CallerMoves(r), NEW token \in 1..Len(callerIssued'),
         callerReq[r].caller \in TokenHolders, callerReq'[r].caller = callerReq[r].caller,
         Auth!Give(r, token),
         callerIssued' \in Seq(Exchanged), Len(callerIssued) <= Len(callerIssued'),
         \A t \in 1..Len(callerIssued) : callerIssued'[t] = callerIssued[t],
         \A t \in 1..Len(callerIssued') : t > Len(callerIssued) =>
            callerIssued'[t].caller = callerReq[r].caller,
         callerIssued'[token].caller = callerReq[r].caller,
         \A t \in 1..Len(callerIssued') : callerIssued'[t].caller = callerReq[r].caller => t <= token,
         callerIssued'[token].expires > now + Skew \/ token > Len(callerIssued)
  PROVE  CallerInv'
<1>1. callerReq'[r].step = "sent" /\ callerReq'[r].token = token /\ callerReq'[r].at = now
  BY DEF CallerInv, CallersTyped, CallerReq, Auth!Give, CallerMoves
<1>2. /\ callerCache' \in Seq(CacheEntry) /\ NewestIn(callerCache', callerIssued')
      /\ Len(callerCache') <= CacheSize
  BY UsedCache DEF CallerConstants, CallerInv, Auth!Give
<1>3. CallersTyped'
  BY <1>1, <1>2 DEF CallerInv, CallersTyped, CallerMoves
<1>4. HolderExchanges'
  BY DEF HolderExchanges, Auth!Give
<1>5. \A q \in CallerRequests : callerReq'[q].token # None =>
        callerReq'[q].token \in 1..Len(callerIssued') /\ callerReq'[q].at <= now'
  <2>1. now \in Nat /\ Len(callerIssued) \in Nat /\ Len(callerIssued') \in Nat
    BY DEF CallerInv, CallersTyped
  <2>2. QED BY <1>1, <2>1 DEF CallerInv, TokensGiven, CallerMoves
<1>6. ASSUME NEW q \in CallerRequests, callerReq'[q].step = "sent"
      PROVE  /\ callerReq'[q].token # None
             /\ callerIssued'[callerReq'[q].token].caller = callerReq'[q].caller
             /\ \/ callerIssued'[callerReq'[q].token].expires > callerReq'[q].at + Skew
                \/ \A p \in CallerRequests : callerReq'[p].token = callerReq'[q].token =>
                     callerReq'[q].at <= callerReq'[p].at
  <2>0. now \in Nat /\ Len(callerIssued) \in Nat /\ None \notin Nat
    BY DEF CallerConstants, CallerInv, CallersTyped
  <2>1. CASE q = r
    <3>1. token # None
      BY <2>0
    <3>2. CASE token > Len(callerIssued)
      <4>1. \A p \in CallerRequests \ {r} : callerReq'[p].token # token
        BY <2>0, <3>1, <3>2 DEF CallerInv, TokensGiven, CallerMoves
      <4>2. \A p \in CallerRequests : callerReq'[p].token = callerReq'[q].token => p = r
        BY <1>1, <2>1, <4>1
      <4>3. QED BY <1>1, <2>0, <2>1, <3>1, <4>2
    <3>3. QED BY <1>1, <2>1, <3>1, <3>2
  <2>2. CASE q # r
    <3>1. callerReq'[q] = callerReq[q] /\ callerReq[q].step = "sent"
      BY <1>6, <2>2 DEF CallerMoves
    <3>2. /\ callerReq[q].token \in 1..Len(callerIssued)
          /\ callerIssued'[callerReq[q].token] = callerIssued[callerReq[q].token]
          /\ callerReq[q].at <= now
      BY <3>1 DEF CallerInv, TokensGiven
    <3>3. callerReq'[q].token # None /\ callerIssued'[callerReq'[q].token].caller = callerReq'[q].caller
      BY <3>1, <3>2 DEF CallerInv, TokensGiven
    <3>4. CASE callerIssued[callerReq[q].token].expires > callerReq[q].at + Skew
      BY <3>1, <3>2, <3>3, <3>4
    <3>5. CASE \A p \in CallerRequests : callerReq[p].token = callerReq[q].token =>
                 callerReq[q].at <= callerReq[p].at
      <4>1. \A p \in CallerRequests : callerReq'[p].token = callerReq'[q].token =>
              callerReq'[q].at <= callerReq'[p].at
        BY <1>1, <3>1, <3>2, <3>5 DEF CallerMoves
      <4>2. QED BY <3>3, <4>1
    <3>6. QED BY <3>1, <3>4, <3>5 DEF CallerInv, TokensGiven
  <2>3. QED BY <2>1, <2>2
<1>7. TokensGiven'
  BY <1>5, <1>6 DEF TokensGiven
<1>8. QED BY <1>2, <1>3, <1>4, <1>7 DEF CallerInv

LEMMA CallerKept ==
  ASSUME CallerConstants, CallerInv, [Auth!CallerNext]_Auth!callerVars PROVE CallerInv'
<1>0. /\ callerReq \in [CallerRequests -> CallerReq] /\ callerIssued \in Seq(Exchanged)
      /\ callerCache \in Seq(CacheEntry) /\ now \in Nat
  BY DEF CallerInv, CallersTyped
<1>1. ASSUME NEW r \in CallerRequests, NEW owner \in TokenHolders \cup {None}, Auth!Start(r, owner)
      PROVE  CallerInv'
  <2>1. CallerMoves(r)
    BY <1>0, <1>1, ZenonT(60) DEF Auth!Start, CallerMoves, CallerReq, Auth!CallerSteps
  <2>2. /\ callerReq'[r].step # "sent" /\ callerReq'[r].token = callerReq[r].token
        /\ callerReq'[r].at = callerReq[r].at
    BY <1>0, <1>1 DEF Auth!Start, CallerReq
  <2>3. holder' # None => holder' \in CallerRequests /\ callerReq'[holder'].step = "exchanging"
    BY <1>1, <2>1 DEF Auth!Start, CallerMoves, CallerInv, HolderExchanges
  <2>4. QED BY <1>1, <2>1, <2>2, <2>3, NoTokenGiven DEF Auth!Start
<1>2. ASSUME NEW r \in CallerRequests, Auth!Take(r)
      PROVE  CallerInv'
  <2>0. callerReq[r].caller \in TokenHolders /\ now' = now /\ callerIssued' = callerIssued
    BY <1>2 DEF Auth!Take, CallerInv, CallersTyped
  <2>1. CASE \E n \in Auth!Cached(callerReq[r].caller) : Auth!Fresh(callerCache[n].token)
    <3>1. PICK n \in Auth!Cached(callerReq[r].caller) :
            Auth!Fresh(callerCache[n].token) /\ Auth!Give(r, callerCache[n].token)
      BY <1>2, <2>1 DEF Auth!Take
    <3>2. n \in 1..Len(callerCache) /\ callerCache[n].caller = callerReq[r].caller
      BY <1>0 DEF Auth!Cached
    <3>3. /\ callerCache[n].token \in 1..Len(callerIssued)
          /\ callerIssued[callerCache[n].token].caller = callerReq[r].caller
          /\ \A t \in 1..Len(callerIssued) :
               callerIssued[t].caller = callerReq[r].caller => t <= callerCache[n].token
      BY <3>2 DEF CallerInv, NewestIn
    <3> DEFINE token == callerCache[n].token
    <3> HIDE DEF token
    <3>4. CallerMoves(r) /\ callerReq'[r].caller = callerReq[r].caller
      <4>1. token \in Nat
        BY <1>0, <3>3 DEF token
      <4>2. callerReq' = [callerReq EXCEPT ![r].step = "sent", ![r].token = token, ![r].at = now]
        BY <3>1 DEF Auth!Give, token
      <4>3. QED BY <1>0, <2>0, <4>1, <4>2, ZenonT(60) DEF CallerMoves, CallerReq, Auth!CallerSteps
    <3>5. /\ token \in 1..Len(callerIssued) /\ callerIssued[token].caller = callerReq[r].caller
          /\ \A t \in 1..Len(callerIssued) : callerIssued[t].caller = callerReq[r].caller => t <= token
          /\ Auth!Give(r, token) /\ callerIssued[token].expires > now + Skew
      BY <3>1, <3>3 DEF token, Auth!Fresh
    <3>6. QED BY <1>0, <2>0, <3>4, <3>5, TokenGiven
  <2>2. CASE ~\E n \in Auth!Cached(callerReq[r].caller) : Auth!Fresh(callerCache[n].token)
    <3>1. /\ holder' = r /\ callerReq' = [callerReq EXCEPT ![r].step = "exchanging"]
          /\ UNCHANGED callerCache
      BY <1>2, <2>2 DEF Auth!Take
    <3>2. CallerMoves(r)
      BY <1>0, <2>0, <3>1 DEF CallerMoves, CallerReq, Auth!CallerSteps
    <3>3. /\ callerReq'[r].step = "exchanging" /\ callerReq'[r].token = callerReq[r].token
          /\ callerReq'[r].at = callerReq[r].at
      BY <1>0, <3>1 DEF CallerReq
    <3>4. QED BY <2>0, <3>1, <3>2, <3>3, NoTokenGiven
  <2>3. QED BY <2>1, <2>2
<1>3. ASSUME NEW r \in CallerRequests, NEW lifetime \in Lifetimes, Auth!CallerExchange(r, lifetime)
      PROVE  CallerInv'
  <2> DEFINE e == [caller |-> callerReq[r].caller, expires |-> now + lifetime]
             token == Len(callerIssued) + 1
  <2>1. callerReq[r].step = "exchanging" /\ callerReq[r].caller \in TokenHolders
    BY <1>3 DEF Auth!CallerExchange, CallerConstants, CallerInv, CallersTyped, HolderExchanges
  <2>2. e \in Exchanged /\ e.caller = callerReq[r].caller
    BY <1>0, <2>1 DEF Exchanged, CallerConstants
  <2>3. callerIssued' = Append(callerIssued, e) /\ Auth!Give(r, token) /\ now' = now
    BY <1>3 DEF Auth!CallerExchange
  <2> HIDE DEF e
  <2>4. /\ callerIssued' \in Seq(Exchanged) /\ Len(callerIssued') = Len(callerIssued) + 1
        /\ callerIssued'[Len(callerIssued) + 1] = e
        /\ \A i \in 1..Len(callerIssued) : callerIssued'[i] = callerIssued[i]
    BY <1>0, <2>2, <2>3, Appended
  <2>5. Len(callerIssued) \in Nat /\ token \in 1..Len(callerIssued') /\ token > Len(callerIssued)
    BY <1>0, <2>4
  <2>6. /\ \A t \in 1..Len(callerIssued') : t > Len(callerIssued) => t = token
        /\ \A t \in 1..Len(callerIssued') : t <= token
        /\ Len(callerIssued) <= Len(callerIssued')
    BY <2>4, <2>5
  <2>7. callerIssued'[token].caller = callerReq[r].caller
    BY <2>2, <2>4
  <2> HIDE DEF token
  <2>8. CallerMoves(r) /\ callerReq'[r].caller = callerReq[r].caller
    <3>1. token \in Nat
      BY <2>4, <2>5
    <3>2. callerReq' = [callerReq EXCEPT ![r].step = "sent", ![r].token = token, ![r].at = now]
      BY <2>3 DEF Auth!Give
    <3>3. QED BY <1>0, <2>3, <3>1, <3>2, ZenonT(60) DEF CallerMoves, CallerReq, Auth!CallerSteps
  <2>9. QED BY <2>1, <2>3, <2>4, <2>5, <2>6, <2>7, <2>8, TokenGiven
<1>4. ASSUME NEW r \in CallerRequests, Auth!Fail(r)
      PROVE  CallerInv'
  <2>1. CallerMoves(r)
    BY <1>0, <1>4 DEF Auth!Fail, CallerMoves, CallerReq, Auth!CallerSteps
  <2>2. /\ callerReq'[r].step # "sent" /\ callerReq'[r].token = callerReq[r].token
        /\ callerReq'[r].at = callerReq[r].at
    BY <1>0, <1>4 DEF Auth!Fail, CallerReq
  <2>3. QED BY <1>4, <2>1, <2>2, NoTokenGiven DEF Auth!Fail
<1>5. CASE Auth!Tick
  <2>1. now' = now + 1 /\ UNCHANGED <<callerReq, holder, callerCache, callerIssued>>
    BY <1>5 DEF Auth!Tick
  <2>2. CallersTyped' /\ HolderExchanges' /\ NewestIn(callerCache', callerIssued')
    BY <2>1 DEF CallerInv, CallersTyped, HolderExchanges
  <2>3. TokensGiven'
    BY <1>0, <2>1 DEF CallerInv, TokensGiven, CallerReq
  <2>4. QED BY <2>1, <2>2, <2>3 DEF CallerInv
<1>6. CASE UNCHANGED Auth!callerVars
  BY <1>6 DEF Auth!callerVars, CallerInv, CallersTyped, HolderExchanges, TokensGiven
<1>7. QED BY <1>1, <1>2, <1>3, <1>4, <1>5, <1>6 DEF Auth!CallerNext

LEMMA CallersKeep == ASSUME CallerConstants PROVE Auth!CallerSpec => []CallerInv
<1>1. Auth!CallerInit => CallerInv
  BY CallersStart
<1>2. CallerInv /\ [Auth!CallerNext]_Auth!callerVars => CallerInv'
  BY CallerKept
<1>3. QED BY <1>1, <1>2, PTL DEF Auth!CallerSpec

(* DelegatedTokenAuth: a request is sent only with a token exchanged for its own caller,
   and one that another request was given before has more than the skew left.  *)
THEOREM TokensAreOwn == ASSUME CallerConstants PROVE Auth!CallerSpec => []Auth!TokenIsOwn
<1>1. CallerInv => Auth!TokenIsOwn
  <2> SUFFICES ASSUME CallerInv, NEW r \in CallerRequests, callerReq[r].step = "sent"
               PROVE  /\ callerIssued[callerReq[r].token].caller = callerReq[r].caller
                      /\ (\E q \in CallerRequests \ {r} : callerReq[q].token = callerReq[r].token
                            /\ callerReq[q].at < callerReq[r].at) =>
                           callerIssued[callerReq[r].token].expires > callerReq[r].at + Skew
    BY DEF Auth!TokenIsOwn
  <2>1. \A q \in CallerRequests : callerReq[q].at \in Nat
    BY DEF CallerInv, CallersTyped, CallerReq
  <2>2. QED BY <2>1 DEF CallerInv, TokensGiven
<1>2. Auth!CallerSpec => []CallerInv
  BY CallersKeep
<1>3. QED BY <1>1, <1>2, PTL

(* The cache of exchanged tokens: one token of a caller, its own, and the newest.  *)
THEOREM CachesAreCurrent == ASSUME CallerConstants PROVE Auth!CallerSpec => []Auth!CacheIsCurrent
<1>1. CallerInv => Auth!CacheIsCurrent
  <2> SUFFICES ASSUME CallerInv PROVE Auth!CacheIsCurrent
    OBVIOUS
  <2>1. DOMAIN callerCache = 1..Len(callerCache) /\ DOMAIN callerIssued = 1..Len(callerIssued)
    BY DEF CallerInv, CallersTyped
  <2>2. QED BY <2>1 DEF CallerInv, NewestIn, Auth!CacheIsCurrent
<1>2. Auth!CallerSpec => []CallerInv
  BY CallersKeep
<1>3. QED BY <1>1, <1>2, PTL

--------------------------------------------------------------------------------
(* The governed HTTP client.  *)

ClientFields == {"pin", "scheme", "host", "plaintext", "private", "loopback", "proxy", "credentials",
                 "attempts", "renews", "state"}
RequestFields == {"at", "scheme", "host", "name", "method", "address", "attempt", "checked", "again", "end"}
HttpConstants ==
    /\ \A s \in Settings : DOMAIN s = ClientFields /\ s.attempts \in Nat \ {0}
    /\ Answers \subseteq Seq(Addresses)

\* The policy allows the address for the name; an air gap that was seen allows the name.
Suits(scheme, name, address) ==
    /\ name \in client.private => Http!PrivateSpace(address)
    /\ name \notin client.private => ~Http!Blocked(address)
    /\ scheme = "http" => ClassOf[address] = "loopback" \/ name \in client.private
MayLeave(checked, name) == checked => Http!Local(name) /\ ~client.proxy
BoundTo(o, scheme, address, name) ==
    <<scheme, address>> \in DOMAIN o /\ o[<<scheme, address>>] = name

\* What was decided of a request at each of its places.
RequestIsGoverned(c, o) ==
    /\ ~client.pin => c.name = c.host /\ c.at \notin {"resolve", "bind"}
    /\ c.at = "resolve" => MayLeave(c.checked, c.host)
    /\ c.at \in {"bind", "send"} => MayLeave(c.checked, c.name)
    /\ c.at \in {"bind", "send"} /\ client.pin => Suits(c.scheme, c.name, c.address)
    /\ c.at = "send" /\ client.pin => BoundTo(o, c.scheme, c.address, c.name)
\* How often the server may have acted on it by then.
Turns(c) == IF c.again THEN client.attempts ELSE 0
RequestIsCounted(c, n) ==
    /\ c.at \in {"idle", "airgap", "resolve", "bind", "send", "refused", "ended"}
    /\ n \in Nat /\ c.attempt \in Nat
    /\ c.at = "idle" => ~c.again
    /\ c.at \in {"idle", "airgap", "resolve", "bind"} => n <= Turns(c)
    /\ c.at \in {"resolve", "bind"} => c.attempt = 1
    /\ c.at \in {"send", "refused"} =>
         c.attempt \in 1..client.attempts /\ n <= Turns(c) + c.attempt - 1
    /\ c.at = "ended" => n <= Turns(c) + client.attempts
    /\ c.method \notin Http!Idempotent => n <= 1 /\ (c.at # "ended" => n = 0)
Dial(d, o) ==
    /\ MayLeave(d.checked, d.name)
    /\ client.pin => Suits(d.scheme, d.name, d.address) /\ BoundTo(o, d.scheme, d.address, d.name)

ClientInv ==
    /\ DOMAIN client = ClientFields /\ client.attempts \in Nat \ {0} /\ dns \in Seq(Addresses)
    /\ DOMAIN req = ClientRequests /\ got \in [ClientRequests -> Nat]
    /\ \A r \in ClientRequests : DOMAIN req[r] = RequestFields
    /\ \A r \in ClientRequests : RequestIsGoverned(req[r], origins)
    /\ \A r \in ClientRequests : RequestIsCounted(req[r], got[r])
    /\ \A d \in dialled : Dial(d, origins)

LEMMA ClientStarts == ASSUME HttpConstants, Http!ClientInit PROVE ClientInv
<1>1. \A r \in ClientRequests : req[r] = Http!ClientIdle /\ got[r] = 0
  BY DEF Http!ClientInit
<1>2. DOMAIN Http!ClientIdle = RequestFields
  BY DEF Http!ClientIdle, RequestFields
<1>3. RequestIsGoverned(Http!ClientIdle, origins)
  BY DEF Http!ClientIdle, RequestIsGoverned
<1>4. client \in Settings /\ dns \in Answers
  BY DEF Http!ClientInit
<1>5. RequestIsCounted(Http!ClientIdle, 0)
  BY DEF Http!ClientIdle, RequestIsCounted, Turns
<1>6. DOMAIN client = ClientFields /\ client.attempts \in Nat \ {0} /\ dns \in Seq(Addresses)
  BY <1>4 DEF HttpConstants
<1>7. DOMAIN req = ClientRequests /\ got \in [ClientRequests -> Nat] /\ dialled = {}
  BY DEF Http!ClientInit
<1>8. \A r \in ClientRequests : DOMAIN req[r] = RequestFields
  BY <1>1, <1>2
<1>9. \A r \in ClientRequests : RequestIsGoverned(req[r], origins) /\ RequestIsCounted(req[r], got[r])
  BY <1>1, <1>3, <1>5
<1>10. QED BY <1>6, <1>7, <1>8, <1>9 DEF ClientInv

\* A request moves on, and the others stay where they are.
Turn(r, c, n) ==
    /\ req' = [req EXCEPT ![r] = c] /\ got' = [got EXCEPT ![r] = n]
    /\ DOMAIN c = RequestFields /\ RequestIsGoverned(c, origins') /\ RequestIsCounted(c, n)
Surrounded ==
    /\ client' = client /\ dns' \in Seq(Addresses)
    /\ \A scheme, address, name :
         BoundTo(origins, scheme, address, name) => BoundTo(origins', scheme, address, name)
    /\ \A d \in dialled' : Dial(d, origins')
LEMMA ClientTurns ==
  ASSUME ClientInv, Surrounded
  PROVE  \A r \in ClientRequests : \A c, n : Turn(r, c, n) => ClientInv'
<1> SUFFICES ASSUME NEW r \in ClientRequests, NEW c, NEW n, Turn(r, c, n) PROVE ClientInv'
  OBVIOUS
<1>0. client' = client
  BY DEF Surrounded
<1>1. req'[r] = c /\ got'[r] = n /\ DOMAIN req' = ClientRequests /\ got' \in [ClientRequests -> Nat]
  BY DEF ClientInv, Turn, RequestIsCounted
<1>2. \A q \in ClientRequests \ {r} : req'[q] = req[q] /\ got'[q] = got[q]
  BY DEF ClientInv, Turn
<1>3. \A q \in ClientRequests : DOMAIN req'[q] = RequestFields
  BY <1>1, <1>2 DEF ClientInv, Turn
<1>4. \A q \in ClientRequests : RequestIsGoverned(req'[q], origins')
  <2>1. \A q \in ClientRequests \ {r} : RequestIsGoverned(req[q], origins')
    BY DEF ClientInv, RequestIsGoverned, Surrounded
  <2>2. QED BY <1>1, <1>2, <2>1 DEF Turn
<1>5. \A q \in ClientRequests : RequestIsCounted(req'[q], got'[q])
  BY <1>1, <1>2 DEF ClientInv, Turn
<1>6. \A q \in ClientRequests : RequestIsGoverned(req[q], origins)'
  BY <1>0, <1>4 DEF RequestIsGoverned, Suits, MayLeave, BoundTo, Http!PrivateSpace, Http!Blocked, Http!Local, Http!Literal
<1>7. \A q \in ClientRequests : RequestIsCounted(req[q], got[q])'
  BY <1>0, <1>5 DEF RequestIsCounted, Turns, Http!Idempotent
<1>8. \A d \in dialled' : Dial(d, origins')
  BY DEF Surrounded
<1>9. (\A d \in dialled : Dial(d, origins))'
  BY <1>0, <1>8 DEF Dial, Suits, MayLeave, BoundTo, Http!PrivateSpace, Http!Blocked, Http!Local, Http!Literal
<1>10. (DOMAIN client = ClientFields /\ client.attempts \in Nat \ {0} /\ dns \in Seq(Addresses))'
  BY <1>0 DEF ClientInv, Surrounded, ClientFields
<1>11. QED BY <1>1, <1>3, <1>6, <1>7, <1>9, <1>10 DEF ClientInv

LEMMA FirstOfNames == \A S, s : s \in Seq(S) /\ s # <<>> => 1 \in DOMAIN s /\ s[1] \in S
OBVIOUS
LEMMA OneName == \A S, e : e \in S => <<e>> \in Seq(S) /\ <<e>> # <<>>
OBVIOUS

\* An address that a request is pinned to is one that was approved.
LEMMA ApprovedSuits ==
  ASSUME ClientInv, NEW host, Http!Resolved(host) # <<>>, Http!Approved(host, Http!Resolved(host)),
         NEW scheme,
         scheme = "http" => ClassOf[Http!Resolved(host)[1]] = "loopback" \/ host \in client.private
  PROVE  Suits(scheme, host, Http!Resolved(host)[1])
<1>1. Http!Resolved(host) \in Seq(Addresses)
  <2>1. CASE Http!Literal(host)
    BY <2>1, OneName DEF Http!Resolved, Http!Literal
  <2>2. CASE ~Http!Literal(host)
    BY <2>2 DEF Http!Resolved, ClientInv
  <2>3. QED BY <2>1, <2>2
<1> DEFINE ips == Http!Resolved(host)
<1>2. ips \in Seq(Addresses) /\ ips # <<>>
  BY <1>1
<1>3. 1 \in DOMAIN ips
  <2> HIDE DEF ips
  <2>1. QED BY <1>2, FirstOfNames
<1>4. IF host \in client.private THEN Http!PrivateSpace(ips[1]) ELSE ~Http!Blocked(ips[1])
  BY <1>3 DEF Http!Approved
<1>5. QED BY <1>4 DEF Suits

\* A step of one request that leaves the client, the connections and the names alone.
LEMMA QuietTurns ==
  ASSUME ClientInv, UNCHANGED <<client, airgap, dns, origins, dialled, changes>>
  PROVE  Surrounded
BY DEF ClientInv, Surrounded, BoundTo

LEMMA BuildKeeps == ASSUME ClientInv, Http!Build PROVE ClientInv'
<1>1. \E s : client' = [client EXCEPT !.state = s]
  BY DEF Http!Build
<1>2. PICK s : client' = [client EXCEPT !.state = s]
  BY <1>1
<1>3. /\ DOMAIN client' = ClientFields /\ client'.attempts = client.attempts /\ client'.pin = client.pin
      /\ client'.private = client.private /\ client'.loopback = client.loopback /\ client'.proxy = client.proxy
  BY <1>2 DEF ClientInv, ClientFields
<1>4. UNCHANGED <<airgap, dns, origins, req, dialled, got, changes>>
  BY DEF Http!Build
<1>5. \A r \in ClientRequests : RequestIsGoverned(req[r], origins)'
  BY <1>3, <1>4 DEF ClientInv, RequestIsGoverned, Suits, MayLeave, BoundTo, Http!PrivateSpace, Http!Blocked,
     Http!Local, Http!Literal
<1>6. \A r \in ClientRequests : RequestIsCounted(req[r], got[r])'
  BY <1>3, <1>4 DEF ClientInv, RequestIsCounted, Turns, Http!Idempotent
<1>7. (\A d \in dialled : Dial(d, origins))'
  BY <1>3, <1>4 DEF ClientInv, Dial, Suits, MayLeave, BoundTo, Http!PrivateSpace, Http!Blocked,
     Http!Local, Http!Literal
<1>8. QED BY <1>3, <1>4, <1>5, <1>6, <1>7 DEF ClientInv

LEMMA ClientBeginKeeps ==
  ASSUME ClientInv, NEW r \in ClientRequests, NEW target \in Targets, Http!ClientBegin(r, target)
  PROVE  ClientInv'
<1> DEFINE c == [Http!ClientIdle EXCEPT !.at = "airgap", !.scheme = target.scheme,
                  !.host = target.host, !.name = target.host, !.method = target.method]
<1>1. req' = [req EXCEPT ![r] = c] /\ got' = [got EXCEPT ![r] = got[r]]
      /\ UNCHANGED <<client, airgap, dns, origins, dialled, changes>> /\ req[r].at = "idle"
  BY DEF Http!ClientBegin, ClientInv
<1>2. DOMAIN c = RequestFields /\ RequestIsGoverned(c, origins)
  BY DEF Http!ClientIdle, RequestFields, RequestIsGoverned
<1>3. got[r] = 0
  BY <1>1 DEF ClientInv, RequestIsCounted, Turns
<1>4. RequestIsCounted(c, got[r])
  BY <1>3 DEF ClientInv, RequestIsCounted, Turns, Http!ClientIdle
<1> HIDE DEF c
<1>5. Turn(r, c, got[r])
  BY <1>1, <1>2, <1>4 DEF Turn
<1>6. QED BY <1>1, <1>5, QuietTurns, ClientTurns

LEMMA AirgapKeeps ==
  ASSUME ClientInv, NEW r \in ClientRequests, Http!CheckAirgap(r)
  PROVE  ClientInv'
<1> DEFINE q == req[r]
<1>0. /\ DOMAIN q = RequestFields /\ RequestIsGoverned(q, origins) /\ RequestIsCounted(q, got[r])
      /\ q.at = "airgap" /\ DOMAIN req = ClientRequests /\ client.attempts \in Nat \ {0}
      /\ UNCHANGED <<client, airgap, dns, origins, dialled, changes>> /\ got' = [got EXCEPT ![r] = got[r]]
  BY DEF Http!CheckAirgap, ClientInv
<1>1. CASE airgap /\ (client.proxy \/ ~Http!Local(req[r].host))
  <2> DEFINE c == [q EXCEPT !.at = "ended", !.end = "airgap"]
  <2>1. req' = [req EXCEPT ![r] = c]
    BY <1>0, <1>1 DEF Http!CheckAirgap, Http!End
  <2> HIDE DEF q
  <2>2. /\ DOMAIN c = RequestFields /\ c.at = "ended" /\ c.again = q.again /\ c.attempt = q.attempt
        /\ c.method = q.method /\ c.name = q.name /\ c.host = q.host
    BY <1>0 DEF RequestFields
  <2> HIDE DEF c
  <2>3. RequestIsGoverned(c, origins) /\ RequestIsCounted(c, got[r])
    BY <1>0, <2>2 DEF RequestIsGoverned, RequestIsCounted, Turns
  <2>4. Turn(r, c, got[r])
    BY <1>0, <2>1, <2>2, <2>3 DEF Turn
  <2>5. QED BY <1>0, <2>4, QuietTurns, ClientTurns
<1>2. CASE ~(airgap /\ (client.proxy \/ ~Http!Local(req[r].host)))
  <2> DEFINE place == IF client.pin THEN "resolve" ELSE "send"
             c == [q EXCEPT !.at = place, !.attempt = 1, !.checked = airgap]
  <2>1. req' = [req EXCEPT ![r] = c]
    BY <1>0, <1>2 DEF Http!CheckAirgap
  <2>2. airgap => Http!Local(q.host) /\ ~client.proxy
    BY <1>2
  <2> HIDE DEF q
  <2>3. /\ DOMAIN c = RequestFields /\ c.at = place /\ c.again = q.again /\ c.attempt = 1
        /\ c.method = q.method /\ c.name = q.name /\ c.host = q.host /\ c.checked = airgap
    BY <1>0 DEF RequestFields
  <2> HIDE DEF c
  <2>4. RequestIsGoverned(c, origins)
    BY <1>0, <2>2, <2>3 DEF RequestIsGoverned, MayLeave
  <2>5. RequestIsCounted(c, got[r])
    BY <1>0, <2>3 DEF RequestIsCounted, Turns
  <2>6. Turn(r, c, got[r])
    BY <1>0, <2>1, <2>3, <2>4, <2>5 DEF Turn
  <2>7. QED BY <1>0, <2>6, QuietTurns, ClientTurns
<1>3. QED BY <1>1, <1>2

LEMMA ResolveKeeps ==
  ASSUME ClientInv, NEW r \in ClientRequests, Http!Resolve(r)
  PROVE  ClientInv'
<1> DEFINE q == req[r]
           ips == Http!Resolved(q.host)
           chosen == /\ ips # <<>> /\ Http!Approved(q.host, ips)
                     /\ q.scheme = "http" => ClassOf[ips[1]] = "loopback" \/ q.host \in client.private
<1>0. /\ DOMAIN q = RequestFields /\ RequestIsGoverned(q, origins) /\ RequestIsCounted(q, got[r])
      /\ q.at = "resolve" /\ DOMAIN req = ClientRequests /\ client.attempts \in Nat \ {0}
      /\ UNCHANGED <<client, airgap, dns, origins, dialled, changes>> /\ got' = [got EXCEPT ![r] = got[r]]
  BY DEF Http!Resolve, ClientInv
<1>1. CASE chosen
  <2> DEFINE a == ips[1]
             c == [q EXCEPT !.at = "bind", !.address = a, !.name = q.host]
  <2>1. req' = [req EXCEPT ![r] = c]
    BY <1>0, <1>1 DEF Http!Resolve
  <2>2. Suits(q.scheme, q.host, a)
    BY <1>1, ApprovedSuits
  <2> HIDE DEF q, a, ips, chosen
  <2>3. /\ DOMAIN c = RequestFields /\ c.at = "bind" /\ c.again = q.again /\ c.attempt = q.attempt
        /\ c.method = q.method /\ c.name = q.host /\ c.host = q.host /\ c.checked = q.checked
        /\ c.scheme = q.scheme /\ c.address = a
    BY <1>0 DEF RequestFields
  <2> HIDE DEF c
  <2>4. RequestIsGoverned(c, origins)
    BY <1>0, <2>2, <2>3 DEF RequestIsGoverned
  <2>5. RequestIsCounted(c, got[r])
    BY <1>0, <2>3 DEF RequestIsCounted, Turns
  <2>6. Turn(r, c, got[r])
    BY <1>0, <2>1, <2>3, <2>4, <2>5 DEF Turn
  <2>7. QED BY <1>0, <2>6, QuietTurns, ClientTurns
<1>2. CASE ~chosen
  <2> DEFINE c == [q EXCEPT !.at = "ended", !.end = "violation"]
  <2>1. req' = [req EXCEPT ![r] = c]
    BY <1>0, <1>2 DEF Http!Resolve, Http!End
  <2> HIDE DEF q, ips, chosen
  <2>2. /\ DOMAIN c = RequestFields /\ c.at = "ended" /\ c.again = q.again /\ c.attempt = q.attempt
        /\ c.method = q.method /\ c.name = q.name /\ c.host = q.host
    BY <1>0 DEF RequestFields
  <2> HIDE DEF c
  <2>3. RequestIsGoverned(c, origins) /\ RequestIsCounted(c, got[r])
    BY <1>0, <2>2 DEF RequestIsGoverned, RequestIsCounted, Turns
  <2>4. Turn(r, c, got[r])
    BY <1>0, <2>1, <2>2, <2>3 DEF Turn
  <2>5. QED BY <1>0, <2>4, QuietTurns, ClientTurns
<1>3. QED BY <1>1, <1>2

LEMMA BindKeeps ==
  ASSUME ClientInv, NEW r \in ClientRequests, Http!Bind(r)
  PROVE  ClientInv'
<1> DEFINE q == req[r]
           key == <<q.scheme, q.address>>
           prior == IF key \in DOMAIN origins THEN origins[key] ELSE q.name
<1>0. /\ DOMAIN q = RequestFields /\ RequestIsGoverned(q, origins) /\ RequestIsCounted(q, got[r])
      /\ q.at = "bind" /\ DOMAIN req = ClientRequests /\ client.attempts \in Nat \ {0}
      /\ UNCHANGED <<client, airgap, dns, dialled>> /\ got' = [got EXCEPT ![r] = got[r]]
      /\ dns \in Seq(Addresses) /\ \A d \in dialled : Dial(d, origins)
  BY DEF Http!Bind, ClientInv
<1>1. origins' = [k \in DOMAIN origins \cup {key} |-> IF k = key THEN prior ELSE origins[k]]
  BY DEF Http!Bind
<1>2. \A scheme, address, name :
         BoundTo(origins, scheme, address, name) => BoundTo(origins', scheme, address, name)
  <2> SUFFICES ASSUME NEW scheme, NEW address, NEW name, BoundTo(origins, scheme, address, name)
               PROVE  BoundTo(origins', scheme, address, name)
    OBVIOUS
  <2> DEFINE k == <<scheme, address>>
  <2>1. k \in DOMAIN origins /\ origins[k] = name
    BY DEF BoundTo
  <2> HIDE DEF q, k
  <2>2. k \in DOMAIN origins' /\ origins'[k] = origins[k]
    BY <1>1, <2>1
  <2>3. QED BY <2>1, <2>2 DEF BoundTo, k
<1>3. Surrounded
  BY <1>0, <1>2 DEF Surrounded, Dial
<1>4. CASE prior = q.name
  <2> DEFINE c == [q EXCEPT !.at = "send", !.host = q.address]
  <2>1. req' = [req EXCEPT ![r] = c]
    BY <1>0, <1>4 DEF Http!Bind, Http!OwnAddress
  <2>2. BoundTo(origins', q.scheme, q.address, q.name)
    <3> HIDE DEF q
    <3>1. key \in DOMAIN origins' /\ origins'[key] = prior
      BY <1>1
    <3>2. QED BY <1>4, <3>1 DEF BoundTo
  <2>3. q.attempt = 1 /\ got[r] <= Turns(q) /\ (client.pin => Suits(q.scheme, q.name, q.address))
        /\ MayLeave(q.checked, q.name) /\ client.pin
    BY <1>0 DEF RequestIsGoverned, RequestIsCounted
  <2> HIDE DEF q, prior
  <2>4. /\ DOMAIN c = RequestFields /\ c.at = "send" /\ c.again = q.again /\ c.attempt = q.attempt
        /\ c.method = q.method /\ c.name = q.name /\ c.checked = q.checked
        /\ c.scheme = q.scheme /\ c.address = q.address
    BY <1>0 DEF RequestFields
  <2> HIDE DEF c
  <2>5. RequestIsGoverned(c, origins')
    BY <1>0, <2>2, <2>3, <2>4 DEF RequestIsGoverned
  <2>6. RequestIsCounted(c, got[r])
    BY <1>0, <2>3, <2>4 DEF RequestIsCounted, Turns
  <2>7. Turn(r, c, got[r])
    BY <1>0, <2>1, <2>4, <2>5, <2>6 DEF Turn
  <2>8. QED BY <1>3, <2>7, ClientTurns
<1>5. CASE prior # q.name
  <2> DEFINE c == [q EXCEPT !.at = "ended", !.end = "crossed"]
  <2>1. req' = [req EXCEPT ![r] = c]
    BY <1>0, <1>5 DEF Http!Bind, Http!OwnAddress
  <2> HIDE DEF q, prior
  <2>2. /\ DOMAIN c = RequestFields /\ c.at = "ended" /\ c.again = q.again /\ c.attempt = q.attempt
        /\ c.method = q.method /\ c.name = q.name /\ c.host = q.host
    BY <1>0 DEF RequestFields
  <2> HIDE DEF c
  <2>3. RequestIsGoverned(c, origins') /\ RequestIsCounted(c, got[r])
    BY <1>0, <2>2 DEF RequestIsGoverned, RequestIsCounted, Turns
  <2>4. Turn(r, c, got[r])
    BY <1>0, <2>1, <2>2, <2>3 DEF Turn
  <2>5. QED BY <1>3, <2>4, ClientTurns
<1>6. QED BY <1>4, <1>5

LEMMA RenewKeeps ==
  ASSUME ClientInv, NEW r \in ClientRequests, Http!Renew(r)
  PROVE  ClientInv'
<1> DEFINE q == req[r]
<1>0. /\ DOMAIN q = RequestFields /\ RequestIsGoverned(q, origins) /\ RequestIsCounted(q, got[r])
      /\ q.at = "refused" /\ DOMAIN req = ClientRequests /\ client.attempts \in Nat \ {0}
      /\ UNCHANGED <<client, airgap, dns, origins, dialled, changes>> /\ got' = [got EXCEPT ![r] = got[r]]
  BY DEF Http!Renew, ClientInv
<1>1. CASE client.renews /\ ~req[r].again
  <2> DEFINE c == [q EXCEPT !.at = "airgap", !.again = TRUE]
  <2>1. req' = [req EXCEPT ![r] = c]
    BY <1>0, <1>1 DEF Http!Renew
  <2>2. ~q.again
    BY <1>1
  <2> HIDE DEF q
  <2>3. /\ DOMAIN c = RequestFields /\ c.at = "airgap" /\ c.again /\ c.attempt = q.attempt
        /\ c.method = q.method /\ c.name = q.name /\ c.host = q.host
    BY <1>0 DEF RequestFields
  <2> HIDE DEF c
  <2>4. RequestIsGoverned(c, origins)
    BY <1>0, <2>3 DEF RequestIsGoverned
  <2>5. RequestIsCounted(c, got[r])
    BY <1>0, <2>2, <2>3 DEF RequestIsCounted, Turns
  <2>6. Turn(r, c, got[r])
    BY <1>0, <2>1, <2>3, <2>4, <2>5 DEF Turn
  <2>7. QED BY <1>0, <2>6, QuietTurns, ClientTurns
<1>2. CASE ~(client.renews /\ ~req[r].again)
  <2> DEFINE c == [q EXCEPT !.at = "ended", !.end = "answer"]
  <2>1. req' = [req EXCEPT ![r] = c]
    BY <1>0, <1>2 DEF Http!Renew, Http!End
  <2> HIDE DEF q
  <2>2. /\ DOMAIN c = RequestFields /\ c.at = "ended" /\ c.again = q.again /\ c.attempt = q.attempt
        /\ c.method = q.method /\ c.name = q.name /\ c.host = q.host
    BY <1>0 DEF RequestFields
  <2> HIDE DEF c
  <2>3. RequestIsGoverned(c, origins) /\ RequestIsCounted(c, got[r])
    BY <1>0, <2>2 DEF RequestIsGoverned, RequestIsCounted, Turns
  <2>4. Turn(r, c, got[r])
    BY <1>0, <2>1, <2>2, <2>3 DEF Turn
  <2>5. QED BY <1>0, <2>4, QuietTurns, ClientTurns
<1>3. QED BY <1>1, <1>2

LEMMA SendKeeps ==
  ASSUME ClientInv, NEW r \in ClientRequests, NEW outcome \in Http!Outcomes, Http!ClientSend(r, outcome)
  PROVE  ClientInv'
<1> DEFINE q == req[r]
           n == IF outcome.kind \in {"lost", "answer"} THEN got[r] + 1 ELSE got[r]
           goesOn == q.attempt < client.attempts /\ Http!Retryable(r, outcome)
<1>0. /\ DOMAIN q = RequestFields /\ RequestIsGoverned(q, origins) /\ RequestIsCounted(q, got[r])
      /\ q.at = "send" /\ DOMAIN req = ClientRequests /\ client.attempts \in Nat \ {0}
      /\ UNCHANGED <<client, airgap, dns, origins, changes>> /\ got' = [got EXCEPT ![r] = n]
      /\ dns \in Seq(Addresses) /\ \A d \in dialled : Dial(d, origins)
  BY DEF Http!ClientSend, ClientInv
<1>1. /\ MayLeave(q.checked, q.name)
      /\ client.pin => Suits(q.scheme, q.name, q.address) /\ BoundTo(origins, q.scheme, q.address, q.name)
  BY <1>0 DEF RequestIsGoverned
<1>2. \A d \in dialled' : Dial(d, origins)
  <2>1. PICK m \in DOMAIN Http!Resolved(req[r].host) :
               LET address == IF client.pin THEN req[r].address ELSE Http!Resolved(req[r].host)[m]
               IN  dialled' = IF outcome.kind \in {"unsent", "tls"} THEN dialled
                              ELSE dialled \cup {[scheme |-> req[r].scheme, address |-> address,
                                                  name |-> req[r].name, checked |-> req[r].checked]}
    BY DEF Http!ClientSend
  <2> DEFINE address == IF client.pin THEN q.address ELSE Http!Resolved(q.host)[m]
             dial == [scheme |-> q.scheme, address |-> address, name |-> q.name, checked |-> q.checked]
  <2>2. dialled' \subseteq dialled \cup {dial}
    BY <2>1
  <2>3. client.pin => address = q.address
    OBVIOUS
  <2> HIDE DEF q, address
  <2>4. Dial(dial, origins)
    BY <1>1, <2>3 DEF Dial
  <2> HIDE DEF dial
  <2>5. QED BY <1>0, <2>2, <2>4
<1>3. Surrounded
  BY <1>0, <1>2 DEF Surrounded
<1>4. /\ q.attempt \in 1..client.attempts /\ got[r] \in Nat /\ got[r] <= Turns(q) + q.attempt - 1
      /\ Turns(q) \in Nat /\ (q.method \notin Http!Idempotent => got[r] = 0) /\ n \in Nat
  BY <1>0 DEF RequestIsCounted, Turns
<1>5. n <= Turns(q) + q.attempt /\ (q.method \notin Http!Idempotent => n <= 1)
  BY <1>4
<1>6. CASE goesOn
  <2> DEFINE c == [q EXCEPT !.attempt = q.attempt + 1]
  <2>1. req' = [req EXCEPT ![r] = c]
    BY <1>0, <1>6 DEF Http!ClientSend
  <2>2. q.method \notin Http!Idempotent => n = 0
    BY <1>4, <1>6 DEF Http!Retryable, Http!Outcomes
  <2>3. q.attempt < client.attempts
    BY <1>6
  <2> HIDE DEF q, n, goesOn
  <2>4. /\ DOMAIN c = RequestFields /\ c.at = q.at /\ c.again = q.again /\ c.attempt = q.attempt + 1
        /\ c.method = q.method /\ c.name = q.name /\ c.host = q.host /\ c.checked = q.checked
        /\ c.scheme = q.scheme /\ c.address = q.address
    BY <1>0 DEF RequestFields
  <2> HIDE DEF c
  <2>5. RequestIsGoverned(c, origins)
    BY <1>0, <2>4 DEF RequestIsGoverned
  <2>6. Turns(c) = Turns(q)
    BY <2>4 DEF Turns
  <2>7. RequestIsCounted(c, n)
    BY <1>0, <1>4, <1>5, <2>2, <2>3, <2>4, <2>6 DEF RequestIsCounted
  <2>8. Turn(r, c, n)
    BY <1>0, <2>1, <2>4, <2>5, <2>7 DEF Turn
  <2>9. QED BY <1>3, <2>8, ClientTurns
<1>7. CASE ~goesOn /\ outcome.kind = "unauthorized"
  <2> DEFINE c == [q EXCEPT !.at = "refused"]
  <2>1. req' = [req EXCEPT ![r] = c]
    BY <1>0, <1>7 DEF Http!ClientSend, Http!To
  <2>2. n = got[r]
    BY <1>7
  <2> HIDE DEF q, n, goesOn
  <2>3. /\ DOMAIN c = RequestFields /\ c.at = "refused" /\ c.again = q.again /\ c.attempt = q.attempt
        /\ c.method = q.method /\ c.name = q.name /\ c.host = q.host
    BY <1>0 DEF RequestFields
  <2> HIDE DEF c
  <2>4. RequestIsGoverned(c, origins)
    BY <1>0, <2>3 DEF RequestIsGoverned
  <2>5. Turns(c) = Turns(q)
    BY <2>3 DEF Turns
  <2>6. RequestIsCounted(c, n)
    BY <1>4, <2>2, <2>3, <2>5 DEF RequestIsCounted
  <2>7. Turn(r, c, n)
    BY <1>0, <2>1, <2>3, <2>4, <2>6 DEF Turn
  <2>8. QED BY <1>3, <2>7, ClientTurns
<1>8. CASE ~goesOn /\ outcome.kind # "unauthorized"
  <2> DEFINE how == IF outcome.kind \in {"answer", "busy"} THEN "answer" ELSE "error"
             c == [q EXCEPT !.at = "ended", !.end = how]
  <2>1. req' = [req EXCEPT ![r] = c]
    BY <1>0, <1>8 DEF Http!ClientSend, Http!End
  <2> HIDE DEF q, n, goesOn, how
  <2>2. /\ DOMAIN c = RequestFields /\ c.at = "ended" /\ c.again = q.again /\ c.attempt = q.attempt
        /\ c.method = q.method /\ c.name = q.name /\ c.host = q.host
    BY <1>0 DEF RequestFields
  <2> HIDE DEF c
  <2>3. RequestIsGoverned(c, origins)
    BY <1>0, <2>2 DEF RequestIsGoverned
  <2>4. Turns(c) = Turns(q)
    BY <2>2 DEF Turns
  <2>5. RequestIsCounted(c, n)
    BY <1>0, <1>4, <1>5, <2>2, <2>4 DEF RequestIsCounted
  <2>6. Turn(r, c, n)
    BY <1>0, <2>1, <2>2, <2>3, <2>5 DEF Turn
  <2>7. QED BY <1>3, <2>6, ClientTurns
<1>9. QED BY <1>6, <1>7, <1>8

LEMMA ClientKept == ASSUME HttpConstants, ClientInv, [Http!ClientNext]_Http!clientVars PROVE ClientInv'
<1>1. CASE Http!Build
  BY <1>1, BuildKeeps
<1>2. ASSUME UNCHANGED <<client, origins, req, dialled, got>>, dns' \in Seq(Addresses) PROVE ClientInv'
  <2>1. \A r \in ClientRequests : RequestIsGoverned(req[r], origins)'
    BY <1>2 DEF ClientInv, RequestIsGoverned, Suits, MayLeave, BoundTo, Http!PrivateSpace, Http!Blocked,
       Http!Local, Http!Literal
  <2>2. \A r \in ClientRequests : RequestIsCounted(req[r], got[r])'
    BY <1>2 DEF ClientInv, RequestIsCounted, Turns, Http!Idempotent
  <2>3. (\A d \in dialled : Dial(d, origins))'
    BY <1>2 DEF ClientInv, Dial, Suits, MayLeave, BoundTo, Http!PrivateSpace, Http!Blocked,
       Http!Local, Http!Literal
  <2>4. QED BY <1>2, <2>1, <2>2, <2>3 DEF ClientInv
<1>3. CASE Http!Toggle
  BY <1>2, <1>3 DEF Http!Toggle, ClientInv
<1>4. ASSUME NEW ips \in Answers, Http!Move(ips) PROVE ClientInv'
  BY <1>2, <1>4 DEF Http!Move, HttpConstants
<1>5. CASE UNCHANGED Http!clientVars
  BY <1>2, <1>5 DEF Http!clientVars, ClientInv
<1>6. ASSUME NEW r \in ClientRequests,
             \/ \E target \in Targets : Http!ClientBegin(r, target)
             \/ Http!CheckAirgap(r) \/ Http!Resolve(r) \/ Http!Bind(r) \/ Http!Renew(r)
             \/ \E outcome \in Http!Outcomes : Http!ClientSend(r, outcome)
      PROVE  ClientInv'
  BY <1>6, ClientBeginKeeps, AirgapKeeps, ResolveKeeps, BindKeeps, RenewKeeps, SendKeeps
<1>7. QED BY <1>1, <1>3, <1>4, <1>5, <1>6 DEF Http!ClientNext

(* create_http_client, _PinState and RetryPolicy: a client that pins connects to approved
   addresses only, with one name to a connection, and under an air gap that its check saw
   to local hosts; and the server acts on a request that is not idempotent at most once,
   through every retry and the renewed credential.  *)
THEOREM ClientIsGoverned ==
  ASSUME HttpConstants
  PROVE  Http!ClientSpec => [](Http!DialsAreApproved /\ Http!NamesAreApart /\ Http!ActsOnce)
<1>1. Http!ClientInit => ClientInv
  BY ClientStarts
<1>2. ClientInv /\ [Http!ClientNext]_Http!clientVars => ClientInv'
  BY ClientKept
<1>3. ClientInv => Http!DialsAreApproved /\ Http!NamesAreApart /\ Http!ActsOnce
  <2> SUFFICES ASSUME ClientInv PROVE Http!DialsAreApproved /\ Http!NamesAreApart /\ Http!ActsOnce
    OBVIOUS
  <2>1. \A d \in dialled : Dial(d, origins)
    BY DEF ClientInv
  <2>2. Http!DialsAreApproved
    BY <2>1 DEF Dial, Suits, MayLeave, Http!DialsAreApproved
  <2>3. Http!NamesAreApart
    BY <2>1 DEF Dial, BoundTo, Http!NamesAreApart
  <2>4. \A r \in ClientRequests :
           /\ req[r].method \notin Http!Idempotent => got[r] <= 1
           /\ got[r] <= Turns(req[r]) + client.attempts /\ got[r] \in Nat
    <3> SUFFICES ASSUME NEW r \in ClientRequests
                 PROVE  /\ req[r].method \notin Http!Idempotent => got[r] <= 1
                        /\ got[r] <= Turns(req[r]) + client.attempts /\ got[r] \in Nat
      OBVIOUS
    <3>0. RequestIsCounted(req[r], got[r]) /\ RequestIsGoverned(req[r], origins) /\ client.attempts \in Nat \ {0}
      BY DEF ClientInv
    <3>1. QED BY <3>0 DEF RequestIsCounted, RequestIsGoverned, Turns
  <2>5. Http!ActsOnce
    <3>1. \A r \in ClientRequests : got[r] <= client.attempts * (IF req[r].again THEN 2 ELSE 1)
      BY <2>4 DEF Turns, ClientInv
    <3>2. QED BY <2>4, <3>1 DEF Http!ActsOnce
  <2>6. QED BY <2>2, <2>3, <2>5
<1>4. QED BY <1>1, <1>2, <1>3, PTL DEF Http!ClientSpec

--------------------------------------------------------------------------------
(* BaseApiClient: the requests of threads that share one client.  *)

ApiConstants ==
    /\ MaxRetries \in Nat /\ Cap \in Nat /\ Epoch \in Int /\ None \notin Int
    /\ \A h \in Headers : h.retry \in Int \cup {None} /\ h.reset \in Int \cup {None}

ApiCalls ==
    [at : {"idle", "send", "sent", "parse", "raised", "returned"}, attempts : 0..MaxRetries,
     refreshed : BOOLEAN, sends : Nat, until : Int, own : Nat \cup {None}, with : Nat \cup {None},
     end : Int \cup {None}]

\* A request is sent once for each retry and each renewal, and once more; it was not acted
\* on while it may still be sent.  The limits it had are none newer than the client's.
ApiCalled(c, n) ==
    /\ c.sends <= c.attempts + (IF c.refreshed THEN 1 ELSE 0) + (IF c.at \in {"idle", "send"} THEN 0 ELSE 1)
    /\ n \in 0..1 /\ (c.at \in {"idle", "send", "sent"} => n = 0)
ApiTimed(c, now1, last1) ==
    /\ c.until <= now1 + Cap
    /\ c.own # None => c.own <= last1
    /\ c.at = "returned" /\ c.own # None => c.with # None /\ c.own <= c.with

ApiInv ==
    /\ apiCall \in [Threads -> ApiCalls] /\ acted \in [Threads -> 0..1]
    /\ apiNow \in Nat /\ apiLast \in Nat /\ apiLast = observed /\ credential \in Nat /\ valid \in Nat
    /\ \A t \in Threads : ApiCalled(apiCall[t], acted[t]) /\ ApiTimed(apiCall[t], apiNow, apiLast)

LEMMA ApiStarts == ASSUME ApiConstants, Http!ApiInit PROVE ApiInv
<1>1. \A t \in Threads : apiCall[t] = Http!ApiIdle /\ acted[t] = 0
  BY DEF Http!ApiInit
<1>2. Http!ApiIdle \in ApiCalls
  BY DEF ApiConstants, Http!ApiIdle, ApiCalls
<1>3. ApiCalled(Http!ApiIdle, 0)
  BY DEF ApiConstants, Http!ApiIdle, ApiCalled
<1>4. ApiTimed(Http!ApiIdle, 0, 0)
  BY DEF ApiConstants, Http!ApiIdle, ApiTimed
<1>5. QED BY <1>1, <1>2, <1>3, <1>4 DEF Http!ApiInit, ApiInv

Updates(t, c, n) ==
    /\ apiCall' = [apiCall EXCEPT ![t] = c] /\ acted' = [acted EXCEPT ![t] = n]
    /\ c \in ApiCalls /\ n \in 0..1 /\ ApiCalled(c, n) /\ ApiTimed(c, apiNow', apiLast')
Later ==
    /\ apiNow' \in Nat /\ apiLast' \in Nat /\ credential' \in Nat /\ valid' \in Nat
    /\ apiLast' = observed' /\ apiNow <= apiNow' /\ apiLast <= apiLast'

\* A request moves on: the client's time and limits only grow.
LEMMA ApiMoves ==
  ASSUME ApiConstants, ApiInv, Later
  PROVE  \A t \in Threads : \A c, n : Updates(t, c, n) => ApiInv'
<1> SUFFICES ASSUME NEW t \in Threads, NEW c, NEW n, Updates(t, c, n) PROVE ApiInv'
  OBVIOUS
<1>0. /\ c \in ApiCalls /\ n \in 0..1 /\ ApiCalled(c, n) /\ ApiTimed(c, apiNow', apiLast')
      /\ apiCall' = [apiCall EXCEPT ![t] = c] /\ acted' = [acted EXCEPT ![t] = n]
  BY DEF Updates
<1>1. apiCall'[t] = c /\ acted'[t] = n
  BY <1>0 DEF ApiInv
<1>2. \A q \in Threads \ {t} : apiCall'[q] = apiCall[q] /\ acted'[q] = acted[q]
  BY <1>0 DEF ApiInv
<1>3. \A q \in Threads : apiCall[q] \in ApiCalls
  BY DEF ApiInv
<1>4. \A q \in Threads \ {t} : ApiCalled(apiCall'[q], acted'[q])
  BY <1>2 DEF ApiInv
<1>5. \A q \in Threads \ {t} : ApiTimed(apiCall'[q], apiNow', apiLast')
  BY <1>2, <1>3 DEF ApiInv, ApiTimed, ApiConstants, ApiCalls, Later
<1>6. apiCall' \in [Threads -> ApiCalls] /\ acted' \in [Threads -> 0..1]
  BY <1>0 DEF ApiInv
<1>7. QED BY <1>0, <1>1, <1>4, <1>5, <1>6 DEF ApiInv, Later

LEMMA WaitsAreCapped ==
  ASSUME ApiConstants, apiNow \in Nat, NEW h \in Headers
  PROVE  Http!Backoff(h) \in Int /\ Http!Backoff(h) <= Cap
BY DEF ApiConstants, Http!Backoff, Http!Least, Http!Most

\* What a step assigns keeps a request's shape.
LEMMA CallsChange ==
  \A r \in ApiCalls :
     /\ \A s \in {"idle", "send", "sent", "parse", "raised", "returned"} : [r EXCEPT !.at = s] \in ApiCalls
     /\ \A k \in 0..MaxRetries : [r EXCEPT !.attempts = k] \in ApiCalls
     /\ \A u \in Int : [r EXCEPT !.until = u] \in ApiCalls
     /\ \A o \in Nat \cup {None} : [r EXCEPT !.own = o] \in ApiCalls /\ [r EXCEPT !.with = o] \in ApiCalls
     /\ \A e \in Int \cup {None} : [r EXCEPT !.end = e] \in ApiCalls
     /\ [r EXCEPT !.refreshed = TRUE] \in ApiCalls
<1> SUFFICES ASSUME NEW r \in ApiCalls
             PROVE  /\ \A s \in {"idle", "send", "sent", "parse", "raised", "returned"} : [r EXCEPT !.at = s] \in ApiCalls
                    /\ \A k \in 0..MaxRetries : [r EXCEPT !.attempts = k] \in ApiCalls
                    /\ \A u \in Int : [r EXCEPT !.until = u] \in ApiCalls
                    /\ \A o \in Nat \cup {None} : [r EXCEPT !.own = o] \in ApiCalls /\ [r EXCEPT !.with = o] \in ApiCalls
                    /\ \A e \in Int \cup {None} : [r EXCEPT !.end = e] \in ApiCalls
                    /\ [r EXCEPT !.refreshed = TRUE] \in ApiCalls
  OBVIOUS
<1>1. \A s \in {"idle", "send", "sent", "parse", "raised", "returned"} : [r EXCEPT !.at = s] \in ApiCalls
  BY DEF ApiCalls
<1>2. \A k \in 0..MaxRetries : [r EXCEPT !.attempts = k] \in ApiCalls
  BY DEF ApiCalls
<1>3. \A u \in Int : [r EXCEPT !.until = u] \in ApiCalls
  BY DEF ApiCalls
<1>4. \A o \in Nat \cup {None} : [r EXCEPT !.own = o] \in ApiCalls
  BY DEF ApiCalls
<1>5. \A o \in Nat \cup {None} : [r EXCEPT !.with = o] \in ApiCalls
  BY DEF ApiCalls
<1>6. \A e \in Int \cup {None} : [r EXCEPT !.end = e] \in ApiCalls
  BY DEF ApiCalls
<1>7. [r EXCEPT !.refreshed = TRUE] \in ApiCalls
  BY DEF ApiCalls
<1>8. QED BY <1>1, <1>2, <1>3, <1>4, <1>5, <1>6, <1>7

LEMMA ApiKept == ASSUME ApiConstants, ApiInv, [Http!ApiNext]_Http!apiVars PROVE ApiInv'
<1>0. /\ \A t \in Threads : /\ ApiCalled(apiCall[t], acted[t]) /\ ApiTimed(apiCall[t], apiNow, apiLast)
                            /\ apiCall[t] \in ApiCalls /\ acted[t] \in 0..1
      /\ apiCall \in [Threads -> ApiCalls] /\ acted \in [Threads -> 0..1]
      /\ apiNow \in Nat /\ apiLast \in Nat /\ apiLast = observed /\ credential \in Nat /\ valid \in Nat
  BY DEF ApiInv
<1>00. \A t \in Threads : apiCall[t] \in ApiCalls
  BY <1>0
<1>01. /\ \A t \in Threads : apiCall[t] \in ApiCalls
       /\ credential \in Nat /\ apiLast \in Nat
  BY <1>0
<1>1. ASSUME NEW t \in Threads, Http!ApiBegin(t) PROVE ApiInv'
  <2> DEFINE c == [apiCall[t] EXCEPT !.at = "send"]
  <2>1. c \in ApiCalls
    BY <1>00, <1>01, CallsChange
  <2>2. ApiCalled(c, acted[t]) /\ ApiTimed(c, apiNow, apiLast)
    BY <1>0, <1>1 DEF Http!ApiBegin, ApiCalled, ApiTimed, ApiCalls
  <2>3. apiCall' = [apiCall EXCEPT ![t] = c] /\ acted' = [acted EXCEPT ![t] = acted[t]]
    BY <1>0, <1>1 DEF Http!ApiBegin
  <2>4. UNCHANGED <<credential, valid, apiLast, observed, apiNow>>
    BY <1>1 DEF Http!ApiBegin
  <2> HIDE DEF c
  <2>5. Updates(t, c, acted[t])
    BY <1>0, <2>1, <2>2, <2>3, <2>4 DEF Updates
  <2>6. Later
    BY <1>0, <2>4 DEF Later
  <2>7. QED BY <2>5, <2>6, ApiMoves
<1>2. ASSUME NEW t \in Threads, Http!ApiSend(t) PROVE ApiInv'
  <2> DEFINE r == apiCall[t]
             b1 == [r EXCEPT !.at = "sent"]
             b2 == [b1 EXCEPT !.sends = r.sends + 1]
             c == [b2 EXCEPT !.with = credential]
  <2>1. c \in ApiCalls
    <3>1. r \in ApiCalls
      BY <1>00
    <3> HIDE DEF r
    <3>2. b1 \in ApiCalls /\ r.sends + 1 \in Nat
      BY <3>1 DEF ApiCalls
    <3> HIDE DEF b1
    <3>3. b2 \in ApiCalls
      BY <3>2 DEF ApiCalls
    <3> HIDE DEF b2
    <3>4. QED BY <1>01, <3>3, CallsChange
  <2>2. ApiCalled(c, acted[t]) /\ ApiTimed(c, apiNow, apiLast)
    BY <1>0, <1>2 DEF Http!ApiSend, ApiCalled, ApiTimed, ApiCalls
  <2>3. apiCall' = [apiCall EXCEPT ![t] = c] /\ acted' = [acted EXCEPT ![t] = acted[t]]
    BY <1>0, <1>2 DEF Http!ApiSend, ApiCalls
  <2>4. UNCHANGED <<credential, valid, apiLast, observed, apiNow>>
    BY <1>2 DEF Http!ApiSend
  <2> HIDE DEF c
  <2>5. Updates(t, c, acted[t])
    BY <1>0, <2>1, <2>2, <2>3, <2>4 DEF Updates
  <2>6. Later
    BY <1>0, <2>4 DEF Later
  <2>7. QED BY <2>5, <2>6, ApiMoves
<1>3. ASSUME NEW t \in Threads, Http!Return(t) PROVE ApiInv'
  <2> DEFINE a == IF apiCall[t].end >= 400 THEN "raised" ELSE "returned"
             b == [apiCall[t] EXCEPT !.at = a]
             c == [b EXCEPT !.with = apiLast]
  <2>0. a \in {"raised", "returned"}
    OBVIOUS
  <2>3. apiCall' = [apiCall EXCEPT ![t] = c] /\ acted' = [acted EXCEPT ![t] = acted[t]]
    BY <1>0, <1>3 DEF Http!Return, ApiCalls
  <2> HIDE DEF a
  <2>1a. b \in ApiCalls
    BY <1>01, <2>0, CallsChange
  <2>1. c \in ApiCalls
    <3> HIDE DEF b
    <3>1. QED BY <1>01, <2>1a, CallsChange
  <2>2. ApiCalled(c, acted[t]) /\ ApiTimed(c, apiNow, apiLast)
    BY <1>0, <1>3, <2>0 DEF Http!Return, ApiCalled, ApiTimed, ApiCalls, ApiConstants
  <2>4. UNCHANGED <<credential, valid, apiLast, observed, apiNow>>
    BY <1>3 DEF Http!Return
  <2> HIDE DEF c
  <2>5. Updates(t, c, acted[t])
    BY <1>0, <2>1, <2>2, <2>3, <2>4 DEF Updates
  <2>6. Later
    BY <1>0, <2>4 DEF Later
  <2>7. QED BY <2>5, <2>6, ApiMoves
<1>4. ASSUME NEW t \in Threads, NEW reached \in BOOLEAN, Http!Lose(t, reached) PROVE ApiInv'
  <2> DEFINE c == [apiCall[t] EXCEPT !.at = "raised"]
             n == IF reached THEN acted[t] + 1 ELSE acted[t]
  <2>1. c \in ApiCalls
    BY <1>00, <1>01, CallsChange
  <2>2. ApiCalled(c, n) /\ ApiTimed(c, apiNow, apiLast) /\ n \in 0..1
    BY <1>0, <1>4 DEF Http!Lose, ApiCalled, ApiTimed, ApiCalls
  <2>3. apiCall' = [apiCall EXCEPT ![t] = c] /\ acted' = [acted EXCEPT ![t] = n]
    BY <1>0, <1>4 DEF Http!Lose
  <2>4. UNCHANGED <<credential, valid, apiLast, observed, apiNow>>
    BY <1>4 DEF Http!Lose
  <2> HIDE DEF c, n
  <2>5. Updates(t, c, n)
    BY <1>0, <2>1, <2>2, <2>3, <2>4 DEF Updates
  <2>6. Later
    BY <1>0, <2>4 DEF Later
  <2>7. QED BY <2>5, <2>6, ApiMoves
<1>5. ASSUME NEW t \in Threads, NEW status \in {200, 401, 429, 500}, NEW headers \in Headers,
             Http!Receive(t, status, headers)
      PROVE  ApiInv'
  <2> DEFINE own == IF observed' = observed THEN apiCall[t].own ELSE observed'
             n == IF status \in {200, 500} THEN acted[t] + 1 ELSE acted[t]
  <2>1. apiCall[t].at = "sent" /\ apiNow' = apiNow /\ valid' = valid
    BY <1>5 DEF Http!Receive
  <2>2. apiLast' \in Nat /\ apiLast' = observed' /\ apiLast <= apiLast' /\ observed' \in Nat
    BY <1>0, <1>5 DEF Http!Receive, Http!Observe
  <2>3. own \in Nat \cup {None} /\ (own # None => own <= apiLast')
    BY <1>0, <2>2 DEF ApiTimed, ApiCalls, ApiConstants
  <2>4. acted' = [acted EXCEPT ![t] = n]
    BY <1>0, <1>5 DEF Http!Receive
  <2>5. n \in 0..1 /\ (status \in {401, 429} => n = 0)
    BY <1>0, <2>1 DEF ApiCalled
  <2>6. credential' \in Nat
    BY <1>0, <1>5 DEF Http!Receive
  <2>10. Later
    BY <1>0, <2>1, <2>2, <2>6 DEF Later
  <2> HIDE DEF n
  <2>7. CASE status = 429 /\ apiCall[t].attempts < MaxRetries
    <3> DEFINE u == apiNow + Http!Backoff(headers)
               r == apiCall[t]
               b1 == [r EXCEPT !.attempts = r.attempts + 1]
               b2 == [b1 EXCEPT !.at = "send"]
               b3 == [b2 EXCEPT !.until = u]
               c == [b3 EXCEPT !.own = own]
    <3>1. apiCall' = [apiCall EXCEPT ![t] = c]
      BY <1>0, <1>5, <2>7 DEF Http!Receive, Http!Limited, ApiCalls
    <3>2. u \in Int /\ u <= apiNow + Cap
      BY <1>0, WaitsAreCapped DEF ApiConstants
    <3> HIDE DEF own, u
    <3>3. c \in ApiCalls
      <4>1. r \in ApiCalls /\ r.attempts + 1 \in 0..MaxRetries
        BY <1>01, <2>7 DEF ApiCalls, ApiConstants
      <4> HIDE DEF r
      <4>2. b1 \in ApiCalls
        BY <4>1 DEF ApiCalls
      <4> HIDE DEF b1
      <4>3. b2 \in ApiCalls
        BY <4>2, CallsChange
      <4> HIDE DEF b2
      <4>4. b3 \in ApiCalls
        BY <3>2, <4>3, CallsChange
      <4> HIDE DEF b3
      <4>5. QED BY <2>3, <4>4, CallsChange
    <3>4. ApiCalled(c, n)
      BY <1>0, <2>1, <2>5, <2>7 DEF ApiCalled, ApiCalls, ApiConstants
    <3>5. ApiTimed(c, apiNow, apiLast')
      BY <1>0, <2>1, <2>3, <3>2 DEF ApiTimed, ApiCalls, ApiConstants
    <3> HIDE DEF c
    <3>6. Updates(t, c, n)
      BY <2>1, <2>4, <2>5, <3>1, <3>3, <3>4, <3>5 DEF Updates
    <3>7. QED BY <2>10, <3>6, ApiMoves
  <2>8. CASE ~(status = 429 /\ apiCall[t].attempts < MaxRetries) /\ Http!Renews(t, status)
    <3> DEFINE r == apiCall[t]
               b1 == [r EXCEPT !.refreshed = TRUE]
               b2 == [b1 EXCEPT !.at = "send"]
               c == [b2 EXCEPT !.own = own]
    <3>1. apiCall' = [apiCall EXCEPT ![t] = c]
      BY <1>0, <1>5, <2>8 DEF Http!Receive, Http!Limited, ApiCalls
    <3> HIDE DEF own
    <3>3. c \in ApiCalls
      <4>0. r \in ApiCalls
        BY <1>00
      <4> HIDE DEF r
      <4>1. b1 \in ApiCalls
        BY <4>0, ZenonT(60) DEF ApiCalls
      <4> HIDE DEF b1
      <4>2. b2 \in ApiCalls
        <5>1. status \in Int \cup {None}
          OBVIOUS
        <5>2. QED BY <4>1, <5>1, CallsChange, Zenon
      <4> HIDE DEF b2
      <4>3. QED BY <2>3, <4>2, CallsChange
    <3>4. ApiCalled(c, n)
      BY <1>0, <2>1, <2>5, <2>8 DEF ApiCalled, ApiCalls, Http!Renews
    <3>5. ApiTimed(c, apiNow, apiLast')
      BY <1>0, <2>1, <2>3 DEF ApiTimed, ApiCalls, ApiConstants
    <3> HIDE DEF c
    <3>6. Updates(t, c, n)
      BY <2>1, <2>4, <2>5, <3>1, <3>3, <3>4, <3>5 DEF Updates
    <3>7. QED BY <2>10, <3>6, ApiMoves
  <2>9. CASE ~(status = 429 /\ apiCall[t].attempts < MaxRetries) /\ ~Http!Renews(t, status)
    <3> DEFINE r == apiCall[t]
               b1 == [r EXCEPT !.at = "parse"]
               b2 == [b1 EXCEPT !.end = status]
               c == [b2 EXCEPT !.own = own]
    <3>1. apiCall' = [apiCall EXCEPT ![t] = c]
      <4>1. apiCall' = [apiCall EXCEPT ![t].at = "parse", ![t].end = status, ![t].own = own]
        BY <1>5, <2>9 DEF Http!Receive, Http!Limited
      <4>2. DOMAIN apiCall = Threads
        BY <1>0
      <4>3. QED BY <4>1, <4>2
    <3> HIDE DEF own
    <3>3. c \in ApiCalls
      <4>0. r \in ApiCalls
        BY <1>00
      <4> HIDE DEF r
      <4>1. b1 \in ApiCalls
        BY <4>0 DEF ApiCalls
      <4> HIDE DEF b1
      <4>2. b2 \in ApiCalls
        <5>1. status \in Int \cup {None}
          OBVIOUS
        <5>2. QED BY <4>1, <5>1, CallsChange, ZenonT(30)
      <4> HIDE DEF b2
      <4>3. QED BY <2>3, <4>2, CallsChange
    <3>4. ApiCalled(c, n)
      BY <1>0, <2>1, <2>5 DEF ApiCalled, ApiCalls
    <3>5. ApiTimed(c, apiNow, apiLast')
      BY <1>0, <2>1, <2>3 DEF ApiTimed, ApiCalls, ApiConstants
    <3> HIDE DEF c
    <3>6. Updates(t, c, n)
      BY <2>1, <2>4, <2>5, <3>1, <3>3, <3>4, <3>5 DEF Updates
    <3>7. QED BY <2>10, <3>6, ApiMoves
  <2>11. QED BY <2>7, <2>8, <2>9
<1>6. CASE Http!Rotate
  BY <1>6 DEF Http!Rotate, ApiInv
<1>7. CASE Http!ApiTick
  <2>1. apiNow' = apiNow + 1 /\ UNCHANGED <<apiCall, acted, apiLast, observed, credential, valid>>
    BY <1>7 DEF Http!ApiTick
  <2>2. \A t \in Threads : ApiTimed(apiCall[t], apiNow', apiLast)
    BY <1>0, <2>1 DEF ApiTimed, ApiConstants, ApiCalls
  <2>3. QED BY <1>0, <2>1, <2>2 DEF ApiInv
<1>8. CASE UNCHANGED Http!apiVars
  BY <1>8 DEF Http!apiVars, ApiInv
<1>9. QED BY <1>1, <1>2, <1>3, <1>4, <1>5, <1>6, <1>7, <1>8 DEF Http!ApiNext

(* BaseApiClient.request: whatever a server answers, it acts on a request at most once; a
   request is sent for its retries, one renewal and itself, and never waits longer than
   the cap; and a call is told limits no older than those of its own last response.  *)
THEOREM ApiRequestsAreBounded ==
  ASSUME ApiConstants
  PROVE  Http!ApiSpec => [](Http!SentWithinReason /\ Http!LimitsAreCurrent)
<1>1. Http!ApiInit => ApiInv
  BY ApiStarts
<1>2. ApiInv /\ [Http!ApiNext]_Http!apiVars => ApiInv'
  BY ApiKept
<1>3. ApiInv => Http!SentWithinReason /\ Http!LimitsAreCurrent
  <2> SUFFICES ASSUME ApiInv PROVE Http!SentWithinReason /\ Http!LimitsAreCurrent
    OBVIOUS
  <2>1. \A t \in Threads : /\ ApiCalled(apiCall[t], acted[t]) /\ ApiTimed(apiCall[t], apiNow, apiLast)
                           /\ apiCall[t] \in ApiCalls
    BY DEF ApiInv
  <2>2. Http!SentWithinReason
    BY <2>1 DEF ApiCalled, ApiTimed, ApiCalls, ApiConstants, Http!SentWithinReason
  <2>3. Http!LimitsAreCurrent
    BY <2>1 DEF ApiTimed, Http!LimitsAreCurrent
  <2>4. QED BY <2>2, <2>3
<1>4. QED BY <1>1, <1>2, <1>3, PTL DEF Http!ApiSpec

--------------------------------------------------------------------------------
(* RateLimiter: the requests of one session.  *)

PaceConstants == MinInterval \in Nat /\ None \notin Nat /\ \A r, n : None # [request |-> r, until |-> n]

Leaving == [request : PaceRequests, at : Nat]

\* The limiter remembers when the last request left; who sleeps, sleeps until the interval
\* after that.
PaceInv ==
    /\ paceNow \in Nat /\ left \in Seq(Leaving) /\ queue \in Seq(PaceRequests)
    /\ IF left = <<>> THEN paceLast = None ELSE paceLast = left[Len(left)].at
    /\ left # <<>> => paceLast \in Nat /\ paceLast <= paceNow
    /\ holder # None =>
         /\ left # <<>> /\ holder.until = paceLast + MinInterval /\ holder.request \in PaceRequests
    /\ \A i \in 1..(Len(left) - 1) : left[i + 1].at - left[i].at >= MinInterval

\* A request leaves when the interval is over.
LEMMA Departs ==
  ASSUME PaceConstants, PaceInv, NEW r \in PaceRequests, Http!Leave(r), holder' = None,
         queue' \in Seq(PaceRequests), UNCHANGED paceNow,
         paceLast # None => paceLast + MinInterval <= paceNow
  PROVE  PaceInv'
<1> DEFINE e == [request |-> r, at |-> paceNow]
<1>1. e \in Leaving /\ left' = Append(left, e) /\ paceLast' = paceNow /\ e.at = paceNow
  BY DEF Http!Leave, Leaving, PaceInv
<1> HIDE DEF e
<1>2. /\ left' \in Seq(Leaving) /\ Len(left') = Len(left) + 1 /\ left'[Len(left) + 1] = e
      /\ \A i \in 1..Len(left) : left'[i] = left[i]
  BY <1>1, Appended DEF PaceInv
<1>3. Len(left) \in Nat /\ left' # <<>> /\ (Len(left) # 0 => left # <<>>)
  BY <1>2 DEF PaceInv
<1>4. ASSUME NEW i \in 1..(Len(left') - 1) PROVE left'[i + 1].at - left'[i].at >= MinInterval
  <2>1. CASE i = Len(left)
    <3>1. left # <<>> /\ left'[i].at = paceLast /\ left'[i + 1].at = paceNow /\ paceLast \in Nat
      BY <1>1, <1>2, <1>3, <2>1 DEF PaceInv
    <3>2. paceLast + MinInterval <= paceNow /\ paceNow \in Nat
      BY <3>1 DEF PaceConstants, PaceInv
    <3>3. QED BY <3>1, <3>2 DEF PaceConstants
  <2>2. CASE i # Len(left)
    <3>1. i \in 1..(Len(left) - 1) /\ i \in 1..Len(left) /\ i + 1 \in 1..Len(left)
      BY <1>2, <1>3, <2>2
    <3>2. QED BY <1>2, <3>1 DEF PaceInv
  <2>3. QED BY <2>1, <2>2
<1>5. QED BY <1>1, <1>2, <1>3, <1>4 DEF PaceInv

LEMMA PaceKept == ASSUME PaceConstants, PaceInv, [Http!PaceNext]_Http!paceVars PROVE PaceInv'
<1>1. ASSUME NEW r \in PaceRequests, Http!Request(r) PROVE PaceInv'
  BY <1>1, Appended DEF Http!Request, PaceInv
<1>2. CASE Http!Acquire
  <2>1. Head(queue) \in PaceRequests /\ queue' \in Seq(PaceRequests) /\ UNCHANGED paceNow /\ holder = None
    BY <1>2 DEF Http!Acquire, PaceInv
  <2>2. CASE Http!Delay > 0
    <3>1. paceLast # None /\ paceLast + MinInterval > paceNow /\ Http!Delay = paceLast + MinInterval - paceNow
      BY <2>2 DEF Http!Delay
    <3>2. left # <<>> /\ paceLast \in Nat /\ paceNow \in Nat
      BY <3>1 DEF PaceInv
    <3>3. /\ holder' = [request |-> Head(queue), until |-> paceNow + Http!Delay]
          /\ UNCHANGED <<paceLast, left>>
      BY <1>2, <2>2 DEF Http!Acquire
    <3>4. holder'.until = paceLast + MinInterval /\ holder'.request = Head(queue)
      BY <3>1, <3>2, <3>3 DEF PaceConstants
    <3>5. QED BY <2>1, <3>2, <3>3, <3>4 DEF PaceInv
  <2>3. CASE ~(Http!Delay > 0)
    <3>1. Http!Leave(Head(queue)) /\ holder' = None
      BY <1>2, <2>1, <2>3 DEF Http!Acquire
    <3>2. paceLast # None => paceLast + MinInterval <= paceNow
      BY <2>3 DEF Http!Delay, PaceInv, PaceConstants
    <3>3. QED BY <2>1, <3>1, <3>2, Departs
  <2>4. QED BY <2>2, <2>3
<1>3. CASE Http!Wake
  <2>1. holder # None /\ paceNow >= holder.until /\ Http!Leave(holder.request) /\ holder' = None
        /\ UNCHANGED <<paceNow, queue>>
    BY <1>3 DEF Http!Wake
  <2>2. holder.request \in PaceRequests /\ paceLast + MinInterval <= paceNow /\ queue' \in Seq(PaceRequests)
    BY <2>1 DEF PaceInv
  <2>3. QED BY <2>1, <2>2, Departs
<1>4. CASE Http!Cancel
  <2>1. UNCHANGED <<paceNow, left, paceLast>> /\ (holder' = None \/ holder' = holder)
    BY <1>4 DEF Http!Cancel, Http!Uncounted
  <2>2. queue' \in Seq(PaceRequests)
    <3>1. CASE queue' = queue
      BY <3>1 DEF PaceInv
    <3>2. ASSUME NEW i \in DOMAIN queue, queue' = SubSeq(queue, 1, i - 1) \o SubSeq(queue, i + 1, Len(queue))
          PROVE  queue' \in Seq(PaceRequests)
      <4>1. queue \in Seq(PaceRequests) /\ i \in 1..Len(queue) /\ queue' = Less(queue, i)
        BY <3>2 DEF PaceInv, Less
      <4>2. QED BY <4>1, LeftOut DEF Lacks
    <3>3. QED BY <1>4, <3>1, <3>2 DEF Http!Cancel
  <2>3. QED BY <2>1, <2>2 DEF PaceInv
<1>5. CASE Http!PaceTick
  BY <1>5 DEF Http!PaceTick, PaceInv
<1>6. CASE UNCHANGED Http!paceVars
  BY <1>6 DEF Http!paceVars, PaceInv
<1>7. QED BY <1>1, <1>2, <1>3, <1>4, <1>5, <1>6 DEF Http!PaceNext

(* RateLimiter.wait: the requests of a session leave at least the interval apart, whatever
   was cancelled between them, and who sleeps does so until the interval after the last
   that left.  *)
THEOREM SessionsArePaced == ASSUME PaceConstants PROVE Http!PaceSpec => []Http!RequestsArePaced
<1>1. Http!PaceInit => PaceInv
  <2> SUFFICES ASSUME Http!PaceInit PROVE PaceInv
    OBVIOUS
  <2>1. left = <<>> /\ queue = <<>> /\ holder = None /\ paceLast = None /\ paceNow = 0
    BY DEF Http!PaceInit
  <2>2. QED BY <2>1 DEF PaceInv
<1>2. PaceInv /\ [Http!PaceNext]_Http!paceVars => PaceInv'
  BY PaceKept
<1>3. PaceInv => Http!RequestsArePaced
  BY DEF PaceInv, Http!RequestsArePaced
<1>4. QED BY <1>1, <1>2, <1>3, PTL DEF Http!PaceSpec
================================================================================
