--------------------------- MODULE IngestStreamProofs --------------------------
(***************************************************************************)
(* Proofs about IngestStream: the lock, and that the accepted cursor never *)
(* runs ahead of the data, for any number of pagers, writers, processes,   *)
(* pages, submissions per page and failures.                               *)
(***************************************************************************)
EXTENDS IngestStream, TLAPS

\* What waits for an answer: a live request belongs to a task that waits, has the
\* page and part that task is at, and is the only one.
LiveInv ==
    /\ \A q \in requests : q.live =>
         /\ task[q.by].step = "answer"
         /\ q.page = task[q.by].page /\ q.part = task[q.by].part
    /\ \A q1, q2 \in requests : q1.live /\ q2.live /\ q1.by = q2.by => q1 = q2

\* What a task knows of the data the engine has taken: it took the pages before
\* the task's cursor and before the checkpoint the task read; and while a page is
\* submitted whose continuation is the page after it, the parts before this one.
TaskCovers(x, taken) ==
    /\ x.page # 0 => x.part # 0
    /\ \A p \in 1..x.cursor : Covered(p, taken)
    /\ \A p \in 1..x.previous : Covered(p, taken)
    /\ x.step \in {"lock", "status", "send", "answer"} /\ x.page # 0 =>
         /\ x.page = x.cursor + 1 /\ x.next <= x.page
         /\ x.next = x.page => \A k \in 1..(x.part - 1) : <<x.page, k>> \in taken

\* A request's cursor is covered once the request itself is taken.
RequestCovers(q, taken) ==
    /\ q.page # 0 => q.part # 0
    /\ \A p \in 1..q.cursor : Covered(p, taken \cup {<<q.page, q.part>>})

CoverInv ==
    /\ \A t \in Tasks : TaskCovers(task[t], ever)
    /\ \A q \in requests : RequestCovers(q, ever)
    /\ CursorCovers

Inv == StreamTypeOK /\ LiveInv /\ CoverInv

--------------------------------------------------------------------------------
(* Types *)

LEMMA IdleType == Idle \in TaskStates
BY IngestAssumption DEF Idle, TaskStates, Cursors

\* Facts about the constants that every step uses.
LEMMA Constants ==
  /\ Pages \in Nat \ {0} /\ Submissions \in Nat \ {0}
  /\ 0 \in Cursors
  /\ \A c \in Cursors : c + 1 \in 1..Pages
  /\ \A c \in Cursors : c \in Nat
  /\ \A p \in 1..Pages : p # Pages => p \in Cursors
BY IngestAssumption DEF Cursors

\* An action that moves task t to new, and nothing else but the lock and counters.
LEMMA MoveType ==
  ASSUME StreamTypeOK, NEW t \in Tasks, NEW new \in TaskStates, Set(t, new),
         UNCHANGED <<engine, requests>>, lock' \in [Procs -> Tasks \cup {Nobody}],
         writes' \in Nat, faults' \in Nat
  PROVE  StreamTypeOK'
<1>1. task' \in [Tasks -> TaskStates]
  BY DEF StreamTypeOK, Set
<1>2. QED BY <1>1 DEF StreamTypeOK, engine

LEMMA StartType ==
  ASSUME StreamTypeOK, NEW t \in Tasks, NEW resume \in BOOLEAN, StartSync(t, resume)
  PROVE  StreamTypeOK'
<1> DEFINE from == IF resume THEN accepted ELSE 0
           new == [Idle EXCEPT !.step = "fetch", !.cursor = from, !.walked = {from} \ {0}]
<1>1. from \in Cursors
  BY Constants DEF StreamTypeOK
<1>2. Set(t, new)
  BY DEF StartSync, FirstCursor
<1> HIDE DEF from
<1>3. {from} \ {0} \in SUBSET Cursors
  BY <1>1
<1>4. new \in TaskStates
  BY <1>1, <1>3, IdleType DEF TaskStates
<1>5. QED BY <1>2, <1>4, MoveType DEF StartSync, FirstCursor, StreamTypeOK

\* The state of a pager that fetched its page.
LEMMA FetchedType ==
  ASSUME StreamTypeOK, NEW t \in Tasks, NEW next \in Cursors, Fetched(t, next)
  PROVE  \E new \in TaskStates : Set(t, new)
<1> DEFINE page == task[t].cursor + 1
           part == IF page = Pages /\ LastEmpty THEN Submissions ELSE 1
           walked == task[t].walked \cup ({next} \ {0})
           new == [task[t] EXCEPT !.step = "lock", !.page = page, !.part = part,
                     !.next = next, !.read = task[t].read + 1, !.walked = walked]
<1>0. task[t] \in TaskStates
  BY DEF StreamTypeOK
<1>1. page \in 0..Pages /\ part \in 0..Submissions /\ task[t].read + 1 \in Nat
  BY <1>0, Constants DEF TaskStates
<1>2. walked \in SUBSET Cursors
  BY <1>0 DEF TaskStates
<1>3. Set(t, Idle) \/ Set(t, new)
  BY Zenon DEF Fetched, WalkOver
<1> HIDE DEF page, part, walked
<1>4. ASSUME NEW n \in Nat, NEW p \in 0..Pages, NEW k \in 0..Submissions
      PROVE  [task[t] EXCEPT !.step = "lock", !.page = p, !.part = k,
                !.next = next, !.read = n, !.walked = walked] \in TaskStates
  BY <1>0, <1>2 DEF TaskStates
<1>5. new \in TaskStates
  BY <1>1, <1>4, Zenon
<1>6. QED BY <1>3, <1>5, IdleType, Zenon

LEMMA FetchType ==
  ASSUME StreamTypeOK, NEW t \in Tasks, Fetch(t) \/ FetchLoops(t) \/ FetchFails(t)
  PROVE  StreamTypeOK'
<1>1. task[t].cursor \in Cursors
  BY DEF StreamTypeOK, TaskStates
<1>2. \E new \in TaskStates : Set(t, new)
  <2>1. CASE Fetch(t)
    <3> DEFINE page == task[t].cursor + 1
               next == IF page = Pages THEN 0 ELSE page
    <3>1. next \in Cursors
      BY <1>1, Constants
    <3>2. Set(t, Idle) \/ Fetched(t, next)
      BY <2>1, Zenon DEF Fetch, WalkOver
    <3> HIDE DEF next
    <3>3. QED BY <3>1, <3>2, IdleType, FetchedType, Zenon
  <2>2. CASE FetchLoops(t)
    <3>1. PICK next \in 1..task[t].cursor : Set(t, Idle) \/ Fetched(t, next)
      BY <2>2, Zenon DEF FetchLoops
    <3>2. next \in Cursors
      BY <1>1, Constants DEF Cursors
    <3>3. QED BY <3>1, <3>2, IdleType, FetchedType, Zenon
  <2>3. CASE FetchFails(t)
    BY <2>3, IdleType, Zenon DEF FetchFails
  <2>4. QED BY <2>1, <2>2, <2>3
<1>3. faults' \in Nat
  BY DEF Fetch, FetchLoops, FetchFails, Fault, StreamTypeOK
<1>4. UNCHANGED <<engine, requests, lock, writes>>
  BY Zenon DEF Fetch, FetchLoops, FetchFails
<1>5. QED BY <1>2, <1>3, <1>4, MoveType DEF StreamTypeOK

LEMMA WaitType ==
  ASSUME StreamTypeOK, NEW t \in Tasks, StartWrite(t) \/ Acquire(t) \/ ReadStatus(t)
  PROVE  StreamTypeOK'
<1>0. task[t] \in TaskStates /\ accepted \in Cursors /\ ProcOf[t] \in Procs
  BY IngestAssumption DEF StreamTypeOK
<1>1. CASE StartWrite(t)
  <2>1. [Idle EXCEPT !.step = "lock"] \in TaskStates
    BY IdleType DEF TaskStates
  <2>2. QED BY <1>1, <2>1, MoveType DEF StartWrite, StreamTypeOK
<1>2. CASE Acquire(t)
  <2>1. ASSUME NEW n \in Nat PROVE [task[t] EXCEPT !.step = "status", !.tries = n] \in TaskStates
    BY <1>0 DEF TaskStates
  <2>2. [task[t] EXCEPT !.step = "status", !.tries = 0] \in TaskStates
    BY <2>1, Constants, Zenon DEF Cursors
  <2>3. lock' \in [Procs -> Tasks \cup {Nobody}]
    BY <1>0, <1>2 DEF Acquire, StreamTypeOK
  <2>4. QED BY <1>2, <2>2, <2>3, MoveType DEF Acquire, StreamTypeOK
<1>3. CASE ReadStatus(t)
  <2>1. [task[t] EXCEPT !.step = "send", !.previous = accepted, !.fresh = TRUE] \in TaskStates
    BY <1>0 DEF TaskStates
  <2>2. QED BY <1>3, <2>1, MoveType DEF ReadStatus, StreamTypeOK
<1>4. QED BY <1>1, <1>2, <1>3

LEMMA RequestType ==
  ASSUME StreamTypeOK, NEW t \in Tasks
  PROVE  RequestOf(t) \in Requests
<1>0. task[t] \in TaskStates
  BY DEF StreamTypeOK
<1>1. RequestCursor(t) \in Cursors
  BY <1>0 DEF RequestCursor, TaskStates
<1>2. QED BY <1>0, <1>1 DEF RequestOf, Requests, TaskStates

LEMMA SendType ==
  ASSUME StreamTypeOK, NEW t \in Tasks, Send(t)
  PROVE  StreamTypeOK'
<1>0. task[t] \in TaskStates
  BY DEF StreamTypeOK
<1>1. [task[t] EXCEPT !.step = "answer"] \in TaskStates
  BY <1>0 DEF TaskStates
<1>2. task' \in [Tasks -> TaskStates]
  BY <1>1 DEF Send, Set, StreamTypeOK
<1>3. requests' \in SUBSET Requests
  BY RequestType DEF Send, StreamTypeOK
<1>4. QED BY <1>2, <1>3 DEF Send, StreamTypeOK, engine

\* Releasing the lock keeps its type.
LEMMA ReleaseType ==
  ASSUME StreamTypeOK, NEW t \in Tasks, ReleaseLock(t)
  PROVE  lock' \in [Procs -> Tasks \cup {Nobody}]
BY IngestAssumption DEF ReleaseLock, StreamTypeOK

\* What a pager state becomes after an accepted part.
LEMMA AdvanceType ==
  ASSUME NEW x \in TaskStates
  PROVE  Advance(x) \in TaskStates
<1>1. CASE x.part < Submissions
  <2>1. x.part + 1 \in 0..Submissions
    BY <1>1, Constants DEF TaskStates
  <2>2. ASSUME NEW k \in 0..Submissions
        PROVE  [x EXCEPT !.step = "lock", !.part = k] \in TaskStates
    BY DEF TaskStates
  <2>3. Advance(x) = [x EXCEPT !.step = "lock", !.part = x.part + 1]
    BY <1>1, Zenon DEF Advance
  <2>4. QED BY <2>1, <2>2, <2>3, Zenon
<1>2. CASE ~(x.part < Submissions) /\ x.next # 0
  <2>1. [x EXCEPT !.step = "fetch", !.cursor = x.next] \in TaskStates
    BY DEF TaskStates
  <2>2. QED BY <1>2, <2>1, Zenon DEF Advance
<1>3. CASE ~(x.part < Submissions) /\ x.next = 0
  BY <1>3, IdleType, Zenon DEF Advance
<1>4. QED BY <1>1, <1>2, <1>3

\* A commit makes tasks and requests stale, and nothing else of them changes.
LEMMA StaleTask ==
  ASSUME NEW x \in TaskStates
  PROVE  /\ Stale(x) \in TaskStates /\ Stale(x).fresh = FALSE
         /\ Stale(x).step = x.step /\ Stale(x).cursor = x.cursor
         /\ Stale(x).next = x.next /\ Stale(x).page = x.page
         /\ Stale(x).part = x.part /\ Stale(x).previous = x.previous
BY DEF Stale, TaskStates

LEMMA StaleRequest ==
  ASSUME NEW x \in Requests
  PROVE  /\ Stale(x) \in Requests /\ Stale(x).fresh = FALSE
         /\ Stale(x).by = x.by /\ Stale(x).live = x.live
         /\ Stale(x).cursor = x.cursor /\ Stale(x).page = x.page
         /\ Stale(x).part = x.part
BY DEF Stale, Requests

\* Tasks and requests after a commit.
LEMMA StaleAll ==
  ASSUME StreamTypeOK
  PROVE  /\ [t \in Tasks |-> Stale(task[t])] \in [Tasks -> TaskStates]
         /\ \A q \in requests : {Stale(x) : x \in requests \ {q}} \in SUBSET Requests
<1>1. \A t \in Tasks : Stale(task[t]) \in TaskStates
  BY StaleTask DEF StreamTypeOK
<1>2. \A q \in requests : Stale(q) \in Requests
  BY StaleRequest DEF StreamTypeOK
<1>3. QED BY <1>1, <1>2

LEMMA AcceptType ==
  ASSUME StreamTypeOK, CoverInv, NEW q \in requests, Accept(q)
  PROVE  StreamTypeOK'
<1> DEFINE tasks == [t \in Tasks |-> Stale(task[t])]
<1>0. q \in Requests /\ q.by \in Tasks /\ q.cursor \in Cursors
  BY DEF StreamTypeOK, Requests
<1>1. tasks \in [Tasks -> TaskStates]
  BY StaleAll
<1>2. requests' \in SUBSET Requests
  BY StaleAll DEF Accept
<1>3. Answered(q, tasks)
  BY Zenon DEF Accept
<1> HIDE DEF tasks
<1>4. task' \in [Tasks -> TaskStates]
  <2>1. tasks[q.by] \in TaskStates /\ Advance(tasks[q.by]) \in TaskStates
    BY <1>0, <1>1, AdvanceType
  <2>2. (IF q.page = 0 THEN Idle ELSE Advance(tasks[q.by])) \in TaskStates
    BY <2>1, IdleType
  <2>3. task' = tasks \/ task' = [tasks EXCEPT ![q.by] =
                       IF q.page = 0 THEN Idle ELSE Advance(tasks[q.by])]
    BY <1>3, Zenon DEF Answered
  <2>4. QED BY <1>0, <1>1, <2>2, <2>3
<1>5. lock' \in [Procs -> Tasks \cup {Nobody}]
  <2>1. lock' = lock \/ ReleaseLock(q.by)
    BY <1>3, Zenon DEF Answered
  <2>2. QED BY <1>0, <2>1, ReleaseType DEF StreamTypeOK
<1>6. /\ ever' \in SUBSET ((1..Pages) \X (1..Submissions))
      /\ pass' \in SUBSET ((1..Pages) \X (1..Submissions))
  <2>1. q.page # 0 => q.part # 0
    BY DEF CoverInv, RequestCovers
  <2>2. q.page # 0 => <<q.page, q.part>> \in (1..Pages) \X (1..Submissions)
    BY <1>0, <2>1, Constants DEF Requests
  <2>3. QED BY <2>2 DEF Accept, StreamTypeOK
<1>7. accepted' \in Cursors /\ writes' \in Nat /\ faults' \in Nat
  BY <1>0 DEF Accept, StreamTypeOK
<1>8. QED BY <1>2, <1>4, <1>5, <1>6, <1>7 DEF StreamTypeOK

LEMMA RejectType ==
  ASSUME StreamTypeOK, NEW q \in requests, Reject(q)
  PROVE  StreamTypeOK'
<1>0. q \in Requests /\ q.by \in Tasks /\ task[q.by] \in TaskStates
  BY DEF StreamTypeOK, Requests
<1>1. requests' \in SUBSET Requests /\ UNCHANGED <<engine, writes, faults>>
  BY Zenon DEF Reject, StreamTypeOK
<1> DEFINE again == [task[q.by] EXCEPT !.step = "status", !.tries = task[q.by].tries + 1]
<1>2. again \in TaskStates
  <2>1. ASSUME NEW n \in Nat
        PROVE  [task[q.by] EXCEPT !.step = "status", !.tries = n] \in TaskStates
    BY <1>0 DEF TaskStates
  <2>2. task[q.by].tries + 1 \in Nat
    BY <1>0 DEF TaskStates
  <2>3. QED BY <2>1, <2>2, Zenon
<1>3. \/ task' = task /\ lock' = lock
      \/ Set(q.by, again) /\ lock' = lock
      \/ Set(q.by, Idle) /\ ReleaseLock(q.by)
  BY Zenon DEF Reject
<1> HIDE DEF again
<1>4. task' \in [Tasks -> TaskStates]
  BY <1>0, <1>2, <1>3, IdleType DEF Set, StreamTypeOK
<1>5. lock' \in [Procs -> Tasks \cup {Nobody}]
  BY <1>0, <1>3, ReleaseType DEF StreamTypeOK
<1>6. QED BY <1>1, <1>4, <1>5 DEF StreamTypeOK, engine

LEMMA AbandonType ==
  ASSUME NEW q \in Requests
  PROVE  LET a == [q EXCEPT !.live = FALSE]
         IN  /\ a \in Requests /\ a.by = q.by /\ ~a.live /\ a.cursor = q.cursor
             /\ a.page = q.page /\ a.part = q.part
BY DEF Requests

LEMMA GiveUpType ==
  ASSUME StreamTypeOK, NEW t \in Tasks, GiveUp(t)
  PROVE  StreamTypeOK'
<1>1. task' \in [Tasks -> TaskStates] /\ faults' \in Nat
  BY IdleType DEF GiveUp, Set, Fault, StreamTypeOK
<1>2. lock' \in [Procs -> Tasks \cup {Nobody}]
  BY ReleaseType DEF GiveUp
<1>3. \A q \in requests : (IF q.by = t THEN [q EXCEPT !.live = FALSE] ELSE q) \in Requests
  BY AbandonType DEF StreamTypeOK
<1>4. requests' \in SUBSET Requests
  BY <1>3 DEF GiveUp, Abandon
<1>5. QED BY <1>1, <1>2, <1>4 DEF GiveUp, StreamTypeOK, engine

LEMMA LoseType ==
  ASSUME StreamTypeOK, NEW q \in requests, Lose(q)
  PROVE  StreamTypeOK'
BY DEF Lose, StreamTypeOK, engine

--------------------------------------------------------------------------------
(* Live requests *)

\* A task that waits for no answer moves.
LEMMA MoveLive ==
  ASSUME StreamTypeOK, LiveInv, NEW t \in Tasks, NEW new, Set(t, new),
         task[t].step # "answer", UNCHANGED requests
  PROVE  LiveInv'
<1>1. \A u \in Tasks : u # t => task'[u] = task[u]
  BY DEF Set, StreamTypeOK
<1>2. \A q \in requests : q.live => q.by # t /\ q.by \in Tasks
  BY DEF LiveInv, StreamTypeOK, Requests
<1>3. QED BY <1>1, <1>2 DEF LiveInv

LEMMA SendLive ==
  ASSUME StreamTypeOK, LiveInv, NEW t \in Tasks, Send(t)
  PROVE  LiveInv'
<1>1. \A u \in Tasks : u # t => task'[u] = task[u]
  BY DEF Send, Set, StreamTypeOK
<1>2. \A q \in requests : q.live => q.by # t /\ q.by \in Tasks
  BY DEF LiveInv, StreamTypeOK, Requests, Send
<1>3. /\ task'[t].step = "answer"
      /\ task'[t].page = task[t].page /\ task'[t].part = task[t].part
  BY DEF Send, Set, StreamTypeOK, TaskStates
<1>4. /\ RequestOf(t).by = t
      /\ RequestOf(t).page = task[t].page /\ RequestOf(t).part = task[t].part
  BY DEF RequestOf
<1>5. requests' = requests \cup {RequestOf(t)}
  BY DEF Send
<1>6. QED BY <1>1, <1>2, <1>3, <1>4, <1>5 DEF LiveInv

\* Tasks other than the one a request belongs to only become stale when it is
\* taken; that task no longer waits if the request was live.
LEMMA AcceptTasks ==
  ASSUME StreamTypeOK, NEW q \in requests, Accept(q)
  PROVE  /\ q.by \in Tasks
         /\ \A u \in Tasks : u # q.by \/ ~q.live => task'[u] = Stale(task[u])
         /\ q.live => task'[q.by] = IF q.page = 0 THEN Idle
                                    ELSE Advance(Stale(task[q.by]))
<1> DEFINE tasks == [t \in Tasks |-> Stale(task[t])]
<1>0. q.by \in Tasks
  BY DEF StreamTypeOK, Requests
<1>1. Answered(q, tasks)
  BY Zenon DEF Accept
<1>2. \A u \in Tasks : tasks[u] = Stale(task[u])
  OBVIOUS
<1>2a. tasks = [t \in Tasks |-> tasks[t]]
  OBVIOUS
<1> HIDE DEF tasks
<1>3. CASE ~q.live
  BY <1>0, <1>1, <1>2, <1>3, Zenon DEF Answered
<1>4. CASE q.live
  <2>1. task' = [tasks EXCEPT ![q.by] = IF q.page = 0 THEN Idle ELSE Advance(tasks[q.by])]
    BY <1>1, <1>4, Zenon DEF Answered
  <2>2. QED BY <1>0, <1>2, <1>2a, <1>4, <2>1
<1>5. QED BY <1>3, <1>4

LEMMA AcceptLive ==
  ASSUME StreamTypeOK, LiveInv, NEW q \in requests, Accept(q)
  PROVE  LiveInv'
<1>1. \A x \in requests : /\ x \in Requests /\ x.by \in Tasks
                          /\ Stale(x).live = x.live /\ Stale(x).by = x.by
                          /\ Stale(x).page = x.page /\ Stale(x).part = x.part
  BY StaleRequest DEF StreamTypeOK, Requests
<1>2. requests' = {Stale(x) : x \in requests \ {q}}
  BY DEF Accept
<1>3. \A x \in requests \ {q} : x.live => x.by # q.by \/ ~q.live
  BY DEF LiveInv
<1>4. \A u \in Tasks : u # q.by \/ ~q.live =>
         /\ task'[u].step = task[u].step /\ task'[u].page = task[u].page
         /\ task'[u].part = task[u].part
  <2>1. \A u \in Tasks : task[u] \in TaskStates
    BY DEF StreamTypeOK
  <2>2. \A u \in Tasks : u # q.by \/ ~q.live => task'[u] = Stale(task[u])
    BY AcceptTasks
  <2>3. QED BY <2>1, <2>2, StaleTask, ZenonT(60)
<1>5. \A x \in requests \ {q} : x.live =>
         /\ task'[x.by].step = "answer"
         /\ x.page = task'[x.by].page /\ x.part = task'[x.by].part
  BY <1>1, <1>3, <1>4 DEF LiveInv
<1>6. \A y \in requests' : \E x \in requests \ {q} : y = Stale(x)
  BY <1>2
<1>7. \A y \in requests' : y.live =>
         /\ task'[y.by].step = "answer"
         /\ y.page = task'[y.by].page /\ y.part = task'[y.by].part
  BY <1>1, <1>5, <1>6
<1>8. \A y1, y2 \in requests' : y1.live /\ y2.live /\ y1.by = y2.by => y1 = y2
  <2> SUFFICES ASSUME NEW y1 \in requests', NEW y2 \in requests',
                      y1.live, y2.live, y1.by = y2.by
               PROVE  y1 = y2
    OBVIOUS
  <2>1. PICK x1 \in requests \ {q} : y1 = Stale(x1)
    BY <1>6
  <2>2. PICK x2 \in requests \ {q} : y2 = Stale(x2)
    BY <1>6
  <2>3. x1.live /\ x2.live /\ x1.by = x2.by
    BY <1>1, <2>1, <2>2
  <2>4. QED BY <2>1, <2>2, <2>3 DEF LiveInv
<1>9. QED BY <1>7, <1>8 DEF LiveInv

LEMMA RejectLive ==
  ASSUME StreamTypeOK, LiveInv, NEW q \in requests, Reject(q) \/ Lose(q)
  PROVE  LiveInv'
<1>0. q.by \in Tasks
  BY DEF StreamTypeOK, Requests
<1>1. requests' = requests \ {q}
  BY Zenon DEF Reject, Lose
<1>2. \/ task' = task
      \/ q.live /\ \E new : Set(q.by, new)
  BY Zenon DEF Reject, Lose
<1>3. \A u \in Tasks : u # q.by \/ ~q.live => task'[u] = task[u]
  BY <1>0, <1>2 DEF Set, StreamTypeOK
<1>4. \A x \in requests' : x \in requests /\ x.by \in Tasks
                           /\ (x.live => x.by # q.by \/ ~q.live)
  BY <1>1 DEF LiveInv, StreamTypeOK, Requests
<1>5. QED BY <1>3, <1>4 DEF LiveInv

LEMMA GiveUpLive ==
  ASSUME StreamTypeOK, LiveInv, NEW t \in Tasks, GiveUp(t)
  PROVE  LiveInv'
<1>1. \A u \in Tasks : u # t => task'[u] = task[u]
  BY DEF GiveUp, Set, StreamTypeOK
<1>2. \A y \in requests' : y.live => y \in requests /\ y.by # t /\ y.by \in Tasks
  <2> SUFFICES ASSUME NEW y \in requests', y.live
               PROVE  y \in requests /\ y.by # t /\ y.by \in Tasks
    OBVIOUS
  <2>1. PICK q \in requests : y = IF q.by = t THEN [q EXCEPT !.live = FALSE] ELSE q
    BY DEF GiveUp, Abandon
  <2>2. q \in Requests /\ q.by \in Tasks
    BY DEF StreamTypeOK, Requests
  <2>3. q.by # t
    BY <2>1, <2>2, AbandonType
  <2>4. QED BY <2>1, <2>2, <2>3
<1>3. QED BY <1>1, <1>2 DEF LiveInv

--------------------------------------------------------------------------------
(* The data behind the cursors *)

\* What was taken stays taken.
LEMMA CoversMore ==
  ASSUME NEW A, NEW B, A \subseteq B
  PROVE  /\ \A x \in TaskStates : TaskCovers(x, A) => TaskCovers(x, B)
         /\ \A q \in Requests : RequestCovers(q, A) => RequestCovers(q, B)
<1>1. \A p : Covered(p, A) => Covered(p, B)
  BY DEF Covered
<1>2. \A p, r : Covered(p, A \cup {r}) => Covered(p, B \cup {r})
  BY DEF Covered
<1>3. QED BY <1>1, <1>2 DEF TaskCovers, RequestCovers

\* An idle task claims nothing.
LEMMA IdleCovers ==
  ASSUME NEW taken PROVE TaskCovers(Idle, taken)
BY DEF TaskCovers, Idle

\* A task moves to new; the engine and the requests stay as they are.
LEMMA MoveCover ==
  ASSUME StreamTypeOK, CoverInv, NEW t \in Tasks, NEW new, Set(t, new),
         TaskCovers(new, ever), UNCHANGED <<engine, requests>>
  PROVE  CoverInv'
<1>1. \A u \in Tasks : task'[u] = IF u = t THEN new ELSE task[u]
  BY DEF Set, StreamTypeOK
<1>2. ever' = ever /\ accepted' = accepted /\ requests' = requests
  BY DEF engine
<1>3. \A u \in Tasks : TaskCovers(task'[u], ever')
  BY <1>1, <1>2 DEF CoverInv
<1>4. QED BY <1>2, <1>3 DEF CoverInv, CursorCovers

LEMMA StartCover ==
  ASSUME StreamTypeOK, CoverInv, NEW t \in Tasks, NEW resume \in BOOLEAN, StartSync(t, resume)
  PROVE  CoverInv'
<1> DEFINE from == IF resume THEN accepted ELSE 0
           new == [Idle EXCEPT !.step = "fetch", !.cursor = from, !.walked = {from} \ {0}]
<1>1. from \in Cursors
  BY Constants DEF StreamTypeOK
<1>2. Set(t, new) /\ UNCHANGED <<engine, requests>>
  BY DEF StartSync, FirstCursor
<1>3. \A p \in 1..from : Covered(p, ever)
  BY DEF CoverInv, CursorCovers
<1> HIDE DEF from
<1>4. /\ new.step = "fetch" /\ new.cursor = from /\ new.page = 0 /\ new.previous = 0
  BY DEF Idle
<1> HIDE DEF new
<1>5. TaskCovers(new, ever)
  BY <1>1, <1>3, <1>4 DEF TaskCovers
<1>6. QED BY <1>2, <1>5, MoveCover

\* The state of a pager that fetched its page.
LEMMA FetchedCover ==
  ASSUME StreamTypeOK, CoverInv, NEW t \in Tasks, NEW next \in Cursors, Fetched(t, next),
         next <= task[t].cursor + 1
  PROVE  \E new : Set(t, new) /\ TaskCovers(new, ever)
<1> DEFINE page == task[t].cursor + 1
           part == IF page = Pages /\ LastEmpty THEN Submissions ELSE 1
           walked == task[t].walked \cup ({next} \ {0})
           n == task[t].read + 1
           new == [task[t] EXCEPT !.step = "lock", !.page = page, !.part = part,
                     !.next = next, !.read = n, !.walked = walked]
<1>0. task[t] \in TaskStates /\ TaskCovers(task[t], ever)
  BY DEF StreamTypeOK, CoverInv
<1>1. page \in 1..Pages /\ part \in 1..Submissions /\ (next = page => part = 1)
  BY <1>0, Constants DEF TaskStates, Cursors
<1>2. page = task[t].cursor + 1 /\ next <= page
  OBVIOUS
<1>3. Set(t, Idle) \/ Set(t, new)
  BY Zenon DEF Fetched, WalkOver
<1> HIDE DEF page, part, walked, n
<1>4. /\ new.page = page /\ new.part = part /\ new.next = next
      /\ new.cursor = task[t].cursor /\ new.previous = task[t].previous
  BY <1>0 DEF TaskStates
<1> HIDE DEF new
<1>5. TaskCovers(new, ever)
  BY <1>0, <1>1, <1>2, <1>4 DEF TaskCovers
<1>6. QED BY <1>3, <1>5, IdleCovers, Zenon

LEMMA FetchCover ==
  ASSUME StreamTypeOK, CoverInv, NEW t \in Tasks, Fetch(t) \/ FetchLoops(t) \/ FetchFails(t)
  PROVE  CoverInv'
<1>1. task[t].cursor \in Cursors
  BY DEF StreamTypeOK, TaskStates
<1>2. \E new : Set(t, new) /\ TaskCovers(new, ever)
  <2>1. CASE Fetch(t)
    <3> DEFINE page == task[t].cursor + 1
               next == IF page = Pages THEN 0 ELSE page
    <3>1. next \in Cursors /\ next <= task[t].cursor + 1
      BY <1>1, Constants
    <3>2. Set(t, Idle) \/ Fetched(t, next)
      BY <2>1, Zenon DEF Fetch, WalkOver
    <3> HIDE DEF next
    <3>3. QED BY <3>1, <3>2, IdleCovers, FetchedCover, Zenon
  <2>2. CASE FetchLoops(t)
    <3>1. PICK next \in 1..task[t].cursor : Set(t, Idle) \/ Fetched(t, next)
      BY <2>2, Zenon DEF FetchLoops
    <3>2. next \in Cursors /\ next <= task[t].cursor + 1
      BY <1>1, Constants DEF Cursors
    <3>3. QED BY <3>1, <3>2, IdleCovers, FetchedCover, Zenon
  <2>3. CASE FetchFails(t)
    BY <2>3, IdleCovers, Zenon DEF FetchFails
  <2>4. QED BY <2>1, <2>2, <2>3
<1>3. UNCHANGED <<engine, requests>>
  BY Zenon DEF Fetch, FetchLoops, FetchFails
<1>4. QED BY <1>2, <1>3, MoveCover

LEMMA WaitCover ==
  ASSUME StreamTypeOK, CoverInv, NEW t \in Tasks, StartWrite(t) \/ Acquire(t) \/ ReadStatus(t)
  PROVE  CoverInv'
<1>0. task[t] \in TaskStates /\ TaskCovers(task[t], ever)
  BY DEF StreamTypeOK, CoverInv
<1>1. CASE StartWrite(t)
  <2> DEFINE new == [Idle EXCEPT !.step = "lock"]
  <2>1. new.page = 0 /\ new.cursor = 0 /\ new.previous = 0
    BY DEF Idle
  <2>2. Set(t, new) /\ UNCHANGED <<engine, requests>>
    BY <1>1 DEF StartWrite
  <2> HIDE DEF new
  <2>3. TaskCovers(new, ever)
    BY <2>1 DEF TaskCovers
  <2>4. QED BY <2>2, <2>3, MoveCover
<1>2. CASE Acquire(t)
  <2>1. ASSUME NEW n
        PROVE  TaskCovers([task[t] EXCEPT !.step = "status", !.tries = n], ever)
    <3> DEFINE new == [task[t] EXCEPT !.step = "status", !.tries = n]
    <3>1. /\ new.page = task[t].page /\ new.part = task[t].part
          /\ new.next = task[t].next /\ new.cursor = task[t].cursor
          /\ new.previous = task[t].previous /\ task[t].step = "lock"
      BY <1>0, <1>2 DEF TaskStates, Acquire
    <3> HIDE DEF new
    <3>2. TaskCovers(new, ever)
      BY <1>0, <3>1 DEF TaskCovers
    <3>3. QED BY <3>2 DEF new
  <2>2. TaskCovers([task[t] EXCEPT !.step = "status", !.tries = 0], ever)
    BY <2>1, Zenon
  <2>3. QED BY <1>2, <2>2, MoveCover DEF Acquire
<1>3. CASE ReadStatus(t)
  <2> DEFINE new == [task[t] EXCEPT !.step = "send", !.previous = accepted, !.fresh = TRUE]
  <2>1. /\ new.page = task[t].page /\ new.part = task[t].part
        /\ new.next = task[t].next /\ new.cursor = task[t].cursor
        /\ new.previous = accepted /\ task[t].step = "status"
    BY <1>0, <1>3 DEF TaskStates, ReadStatus
  <2>2. Set(t, new) /\ UNCHANGED <<engine, requests>>
    BY <1>3 DEF ReadStatus
  <2> HIDE DEF new
  <2>3. TaskCovers(new, ever)
    BY <1>0, <2>1 DEF TaskCovers, CoverInv, CursorCovers
  <2>4. QED BY <2>2, <2>3, MoveCover
<1>4. QED BY <1>1, <1>2, <1>3

LEMMA SendCover ==
  ASSUME StreamTypeOK, CoverInv, NEW t \in Tasks, Send(t)
  PROVE  CoverInv'
<1>0. task[t] \in TaskStates /\ TaskCovers(task[t], ever) /\ task[t].step = "send"
  BY DEF StreamTypeOK, CoverInv, Send
<1> DEFINE new == [task[t] EXCEPT !.step = "answer"]
<1>1. /\ new.page = task[t].page /\ new.part = task[t].part
      /\ new.next = task[t].next /\ new.cursor = task[t].cursor
      /\ new.previous = task[t].previous
  BY <1>0 DEF TaskStates
<1>2. Set(t, new) /\ requests' = requests \cup {RequestOf(t)} /\ UNCHANGED engine
  BY DEF Send
<1> HIDE DEF new
<1>3. TaskCovers(new, ever)
  BY <1>0, <1>1 DEF TaskCovers
<1>4. RequestCovers(RequestOf(t), ever)
  <2>1. /\ RequestOf(t).page = task[t].page /\ RequestOf(t).part = task[t].part
        /\ RequestOf(t).cursor = RequestCursor(t)
    BY DEF RequestOf
  <2>2. ASSUME NEW p \in 1..RequestCursor(t)
        PROVE  Covered(p, ever \cup {<<task[t].page, task[t].part>>})
    <3>1. Covered(p, ever) => Covered(p, ever \cup {<<task[t].page, task[t].part>>})
      BY DEF Covered
    <3>2. CASE ~(task[t].page # 0 /\ task[t].part = Submissions)
      BY <1>0, <2>2, <3>1, <3>2 DEF RequestCursor, TaskCovers
    <3>3. CASE task[t].page # 0 /\ task[t].part = Submissions
      <4>1. p \in 1..task[t].next
        BY <2>2, <3>3 DEF RequestCursor
      <4>2. /\ task[t].next \in Nat /\ task[t].cursor \in Nat
            /\ task[t].page = task[t].cursor + 1 /\ task[t].next <= task[t].page
        BY <1>0, <3>3, Constants DEF TaskCovers, TaskStates
      <4>3. CASE p <= task[t].cursor
        BY <1>0, <3>1, <4>1, <4>2, <4>3 DEF TaskCovers
      <4>4. CASE p > task[t].cursor
        <5>1. p = task[t].page /\ task[t].next = task[t].page
          BY <4>1, <4>2, <4>4
        <5>2. \A k \in 1..(Submissions - 1) : <<p, k>> \in ever
          BY <1>0, <3>3, <5>1 DEF TaskCovers
        <5>3. \A k \in 1..Submissions : k \in 1..(Submissions - 1) \/ k = Submissions
          BY Constants
        <5>4. QED BY <3>3, <5>1, <5>2, <5>3 DEF Covered
      <4>5. QED BY <4>1, <4>2, <4>3, <4>4
    <3>4. QED BY <3>2, <3>3
  <2>3. QED BY <1>0, <2>1, <2>2 DEF RequestCovers, TaskCovers
<1>5. \A u \in Tasks : task'[u] = IF u = t THEN new ELSE task[u]
  BY <1>2 DEF Set, StreamTypeOK
<1>6. ever' = ever /\ accepted' = accepted
  BY <1>2 DEF engine
<1>7. \A u \in Tasks : TaskCovers(task'[u], ever')
  BY <1>3, <1>5, <1>6 DEF CoverInv
<1>8. \A q \in requests' : RequestCovers(q, ever')
  BY <1>2, <1>4, <1>6 DEF CoverInv
<1>9. QED BY <1>6, <1>7, <1>8 DEF CoverInv, CursorCovers

LEMMA AcceptCover ==
  ASSUME StreamTypeOK, LiveInv, CoverInv, NEW q \in requests, Accept(q)
  PROVE  CoverInv'
<1>0. q \in Requests /\ q.by \in Tasks /\ RequestCovers(q, ever)
  BY DEF StreamTypeOK, Requests, CoverInv
<1>1. /\ accepted' = q.cursor /\ requests' = {Stale(x) : x \in requests \ {q}}
      /\ ever' = ever \cup (IF q.page = 0 THEN {} ELSE {<<q.page, q.part>>})
  BY DEF Accept
<1>2. ever \subseteq ever' /\ (q.page # 0 => <<q.page, q.part>> \in ever')
  BY <1>1
<1>3. CursorCovers'
  <2> SUFFICES ASSUME NEW p \in 1..q.cursor PROVE Covered(p, ever')
    BY <1>1 DEF CursorCovers, Covered
  <2>1. Covered(p, ever \cup {<<q.page, q.part>>}) /\ p # 0
    BY <1>0, Constants DEF RequestCovers, Requests
  <2>2. \A k \in 1..Submissions : <<p, k>> = <<q.page, q.part>> => q.page # 0
    BY <2>1
  <2>3. QED BY <1>1, <2>1, <2>2 DEF Covered
<1>4. \A x \in requests' : RequestCovers(x, ever')
  <2>1. \A x \in requests : RequestCovers(x, ever') /\ x \in Requests
    BY <1>2, CoversMore DEF CoverInv, StreamTypeOK
  <2>2. \A x \in requests : RequestCovers(Stale(x), ever')
    BY <2>1, StaleRequest, ZenonT(60) DEF RequestCovers
  <2>3. QED BY <1>1, <2>2
<1>5. \A u \in Tasks : /\ task[u] \in TaskStates /\ Stale(task[u]) \in TaskStates
                       /\ TaskCovers(Stale(task[u]), ever')
  <2>1. \A u \in Tasks : task[u] \in TaskStates /\ TaskCovers(task[u], ever')
    BY <1>2, CoversMore DEF CoverInv, StreamTypeOK
  <2>2. ASSUME NEW x \in TaskStates, TaskCovers(x, ever')
        PROVE  TaskCovers(Stale(x), ever')
    <3> DEFINE y == Stale(x)
    <3>1. /\ y.step = x.step /\ y.cursor = x.cursor /\ y.next = x.next
          /\ y.page = x.page /\ y.part = x.part /\ y.previous = x.previous
      BY StaleTask
    <3> HIDE DEF y
    <3>2. TaskCovers(y, ever')
      BY <2>2, <3>1 DEF TaskCovers
    <3>3. QED BY <3>2 DEF y
  <2>3. QED BY <2>1, <2>2, StaleTask
<1>6. ASSUME q.live, q.page # 0
      PROVE  TaskCovers(Advance(Stale(task[q.by])), ever')
  <2> DEFINE x == Stale(task[q.by])
  <2>1. /\ x \in TaskStates /\ TaskCovers(x, ever') /\ x.step = "answer"
        /\ x.page = q.page /\ x.part = q.part
    <3>1. task[q.by] \in TaskStates /\ x \in TaskStates /\ TaskCovers(x, ever')
      BY <1>0, <1>5
    <3>2. /\ task[q.by].step = "answer"
          /\ q.page = task[q.by].page /\ q.part = task[q.by].part
      BY <1>6 DEF LiveInv
    <3>3. x.step = task[q.by].step /\ x.page = task[q.by].page /\ x.part = task[q.by].part
      BY <3>1, StaleTask
    <3>4. QED BY <3>1, <3>2, <3>3
  <2> HIDE DEF x
  <2>2. /\ x.page = x.cursor + 1 /\ x.next <= x.page /\ x.cursor \in Nat
        /\ x.next \in Nat /\ x.part \in 1..Submissions /\ x.part # 0
        /\ <<x.page, x.part>> \in ever'
        /\ x.next = x.page => \A k \in 1..(x.part - 1) : <<x.page, k>> \in ever'
    BY <1>2, <1>6, <2>1, Constants DEF TaskCovers, TaskStates
  <2>3. x.next = x.page => \A k \in 1..x.part : <<x.page, k>> \in ever'
    <3>1. \A k \in 1..x.part : k \in 1..(x.part - 1) \/ k = x.part
      BY <2>2
    <3>2. QED BY <2>2, <3>1
  <2>4. CASE x.part < Submissions
    <3>1. ASSUME NEW n \in 0..Submissions, n = x.part + 1
          PROVE  TaskCovers([x EXCEPT !.step = "lock", !.part = n], ever')
      <4> DEFINE y == [x EXCEPT !.step = "lock", !.part = n]
      <4>1. /\ y.page = x.page /\ y.part = n /\ y.next = x.next
            /\ y.cursor = x.cursor /\ y.previous = x.previous
        BY <2>1 DEF TaskStates
      <4> HIDE DEF y
      <4>2. n # 0 /\ n - 1 = x.part
        BY <2>2, <3>1
      <4>3. TaskCovers(y, ever')
        BY <2>1, <2>2, <2>3, <4>1, <4>2 DEF TaskCovers
      <4>4. QED BY <4>3 DEF y
    <3>2. x.part + 1 \in 0..Submissions
      BY <2>2, <2>4, Constants
    <3>3. Advance(x) = [x EXCEPT !.step = "lock", !.part = x.part + 1]
      BY <2>4, Zenon DEF Advance
    <3>4. QED BY <3>1, <3>2, <3>3, Zenon DEF x
  <2>5. CASE ~(x.part < Submissions) /\ x.next # 0
    <3> DEFINE y == [x EXCEPT !.step = "fetch", !.cursor = x.next]
    <3>1. /\ y.page = x.page /\ y.part = x.part /\ y.step = "fetch"
          /\ y.cursor = x.next /\ y.previous = x.previous
      BY <2>1 DEF TaskStates
    <3>2. Advance(x) = y
      BY <2>5, Zenon DEF Advance
    <3> HIDE DEF y
    <3>3. ASSUME NEW p \in 1..x.next PROVE Covered(p, ever')
      <4>1. CASE p <= x.cursor
        BY <2>1, <2>2, <3>3, <4>1 DEF TaskCovers
      <4>2. CASE p > x.cursor
        <5>1. p = x.page /\ x.next = x.page
          BY <2>2, <3>3, <4>2
        <5>2. x.part = Submissions
          BY <2>2, <2>5, Constants
        <5>3. QED BY <2>3, <5>1, <5>2 DEF Covered
      <4>3. QED BY <2>2, <4>1, <4>2
    <3>4. TaskCovers(y, ever')
      BY <2>1, <3>1, <3>3 DEF TaskCovers
    <3>5. QED BY <3>2, <3>4 DEF x
  <2>6. CASE ~(x.part < Submissions) /\ x.next = 0
    BY <2>6, IdleCovers, Zenon DEF Advance, x
  <2>7. QED BY <2>4, <2>5, <2>6
<1>7. \A u \in Tasks : TaskCovers(task'[u], ever')
  BY <1>0, <1>5, <1>6, AcceptTasks, IdleCovers, Zenon
<1>8. QED BY <1>3, <1>4, <1>7 DEF CoverInv

LEMMA RejectCover ==
  ASSUME StreamTypeOK, LiveInv, CoverInv, NEW q \in requests, Reject(q) \/ Lose(q)
  PROVE  CoverInv'
<1>0. /\ q.by \in Tasks /\ task[q.by] \in TaskStates /\ TaskCovers(task[q.by], ever)
      /\ q.live => task[q.by].step = "answer"
  BY DEF StreamTypeOK, Requests, CoverInv, LiveInv
<1>1. requests' = requests \ {q} /\ UNCHANGED engine
  BY Zenon DEF Reject, Lose
<1> DEFINE again(n) == [task[q.by] EXCEPT !.step = "status", !.tries = n]
<1>2. ASSUME NEW n, q.live PROVE TaskCovers(again(n), ever)
  <2> DEFINE new == again(n)
  <2>1. /\ new.page = task[q.by].page /\ new.part = task[q.by].part
        /\ new.next = task[q.by].next /\ new.cursor = task[q.by].cursor
        /\ new.previous = task[q.by].previous
    BY <1>0 DEF TaskStates
  <2> HIDE DEF new
  <2>2. TaskCovers(new, ever)
    BY <1>0, <1>2, <2>1 DEF TaskCovers
  <2>3. QED BY <2>2 DEF new
<1>3. \/ task' = task
      \/ q.live /\ Set(q.by, again(task[q.by].tries + 1))
      \/ Set(q.by, Idle)
  BY Zenon DEF Reject, Lose
<1> HIDE DEF again
<1>4. task' = task \/ \E new : Set(q.by, new) /\ TaskCovers(new, ever)
  BY <1>2, <1>3, IdleCovers, Zenon
<1>5. \A u \in Tasks : TaskCovers(task'[u], ever)
  BY <1>0, <1>4 DEF Set, StreamTypeOK, CoverInv
<1>6. QED BY <1>1, <1>5 DEF CoverInv, CursorCovers, engine

LEMMA GiveUpCover ==
  ASSUME StreamTypeOK, CoverInv, NEW t \in Tasks, GiveUp(t)
  PROVE  CoverInv'
<1>1. \A u \in Tasks : task'[u] = task[u] \/ task'[u] = Idle
  BY DEF GiveUp, Set, StreamTypeOK
<1>2. ever' = ever /\ accepted' = accepted
  BY DEF GiveUp, engine
<1>3. \A u \in Tasks : TaskCovers(task'[u], ever')
  BY <1>1, <1>2, IdleCovers DEF CoverInv
<1>4. \A q \in requests : /\ RequestCovers(q, ever)
                          /\ RequestCovers([q EXCEPT !.live = FALSE], ever)
  BY AbandonType DEF CoverInv, RequestCovers, StreamTypeOK
<1>5. \A q \in requests' : RequestCovers(q, ever')
  BY <1>2, <1>4 DEF GiveUp, Abandon
<1>6. QED BY <1>2, <1>3, <1>5 DEF CoverInv, CursorCovers

--------------------------------------------------------------------------------
(* The steps together *)

LEMMA Initially == StreamInit => Inv
<1> SUFFICES ASSUME StreamInit PROVE Inv
  OBVIOUS
<1>1. StreamTypeOK
  BY IdleType, IngestAssumption, Constants DEF StreamInit, StreamTypeOK
<1>2. LiveInv
  BY DEF StreamInit, LiveInv
<1>3. CoverInv
  BY IdleCovers DEF StreamInit, CoverInv, CursorCovers
<1>4. QED BY <1>1, <1>2, <1>3 DEF Inv

\* Every step, as the action it takes.
LEMMA Steps ==
  ASSUME StreamTypeOK, StreamNext
  PROVE  \/ \E t \in Tasks : \/ Acquire(t) \/ ReadStatus(t) \/ StartWrite(t)
                            \/ Fetch(t) \/ FetchLoops(t) \/ FetchFails(t)
                            \/ Send(t) \/ GiveUp(t)
                            \/ \E resume \in BOOLEAN : StartSync(t, resume)
         \/ \E q \in requests : Accept(q) \/ Reject(q) \/ (~q.live /\ Lose(q))
<1>1. \A t \in Pagers \cup Writers : t \in Tasks
  BY DEF Tasks
<1>2. \A r \in Resume : r \in BOOLEAN
  BY IngestAssumption
<1>3. QED BY <1>1, <1>2, Zenon DEF StreamNext, TaskStep, Engine, EngineLate

LEMMA Step == Inv /\ [StreamNext]_streamVars => Inv'
<1> SUFFICES ASSUME StreamTypeOK, LiveInv, CoverInv, [StreamNext]_streamVars
             PROVE  StreamTypeOK' /\ LiveInv' /\ CoverInv'
  BY DEF Inv
<1>1. ASSUME NEW t \in Tasks, Acquire(t) \/ ReadStatus(t) \/ StartWrite(t)
      PROVE  StreamTypeOK' /\ LiveInv' /\ CoverInv'
  <2>1. \E new : Set(t, new)
    BY <1>1, Zenon DEF Acquire, ReadStatus, StartWrite
  <2>2. task[t].step # "answer" /\ UNCHANGED requests
    BY <1>1 DEF Acquire, ReadStatus, StartWrite
  <2>3. QED BY <1>1, <2>1, <2>2, WaitType, MoveLive, WaitCover
<1>2. ASSUME NEW t \in Tasks, Fetch(t) \/ FetchLoops(t) \/ FetchFails(t)
      PROVE  StreamTypeOK' /\ LiveInv' /\ CoverInv'
  <2>1. \E new : Set(t, new)
    BY <1>2, Zenon DEF Fetch, FetchLoops, FetchFails, Fetched, WalkOver
  <2>2. task[t].step # "answer" /\ UNCHANGED requests
    <3>1. task[t].step = "fetch" /\ UNCHANGED requests
      BY <1>2, Zenon DEF Fetch, FetchLoops, FetchFails
    <3>2. QED BY <3>1
  <2>3. QED BY <1>2, <2>1, <2>2, FetchType, MoveLive, FetchCover
<1>3. ASSUME NEW t \in Tasks, NEW resume \in BOOLEAN, StartSync(t, resume)
      PROVE  StreamTypeOK' /\ LiveInv' /\ CoverInv'
  <2>1. \E new : Set(t, new)
    BY <1>3, Zenon DEF StartSync
  <2>2. task[t].step # "answer" /\ UNCHANGED requests
    <3>1. task[t].step = "idle" /\ UNCHANGED requests
      BY <1>3, Zenon DEF StartSync
    <3>2. QED BY <3>1
  <2>3. QED BY <1>3, <2>1, <2>2, StartType, MoveLive, StartCover
<1>4. ASSUME NEW t \in Tasks, Send(t)
      PROVE  StreamTypeOK' /\ LiveInv' /\ CoverInv'
  BY <1>4, SendType, SendLive, SendCover
<1>5. ASSUME NEW t \in Tasks, GiveUp(t)
      PROVE  StreamTypeOK' /\ LiveInv' /\ CoverInv'
  BY <1>5, GiveUpType, GiveUpLive, GiveUpCover
<1>6. ASSUME NEW q \in requests, Accept(q)
      PROVE  StreamTypeOK' /\ LiveInv' /\ CoverInv'
  BY <1>6, AcceptType, AcceptLive, AcceptCover
<1>7. ASSUME NEW q \in requests, Reject(q) \/ Lose(q)
      PROVE  StreamTypeOK' /\ LiveInv' /\ CoverInv'
  BY <1>7, RejectType, LoseType, RejectLive, RejectCover
<1>8. CASE UNCHANGED streamVars
  BY <1>8 DEF streamVars, StreamTypeOK, LiveInv, CoverInv, CursorCovers
<1>9. CASE StreamNext
  BY <1>1, <1>2, <1>3, <1>4, <1>5, <1>6, <1>7, <1>9, Steps, Zenon
<1>10. QED BY <1>8, <1>9

LEMMA Invariance == StreamSpec => []Inv
<1>1. QED BY Initially, Step, PTL DEF StreamSpec

\* The type invariant, for any tasks, processes, pages and failures.
THEOREM TypeCorrect == StreamSpec => []StreamTypeOK
<1>1. Inv => StreamTypeOK
  BY DEF Inv
<1>2. QED BY <1>1, Invariance, PTL

\* The accepted cursor never runs ahead of the data, whatever pagers and writers
\* of KnowledgeIngest overlap, however many of their submissions fail, and however
\* late their requests land.
THEOREM CursorNeverAhead == StreamSpec => []CursorCovers
<1>1. Inv => CursorCovers
  BY DEF Inv, CoverInv
<1>2. QED BY <1>1, Invariance, PTL

--------------------------------------------------------------------------------
(* The lock *)

Inside == {"status", "send", "answer"}

\* LockServes, task by task: the tasks inside are the holders.
Holders ==
    /\ \A t \in Tasks : task[t].step \in Inside => lock[ProcOf[t]] = t
    /\ \A p \in Procs : lock[p] # Nobody =>
         ProcOf[lock[p]] = p /\ task[lock[p]].step \in Inside

LEMMA HoldersServe ==
  ASSUME StreamTypeOK, Holders
  PROVE  LockServes
<1>1. \A t \in Tasks : t # Nobody
  BY IngestAssumption
<1>2. \A p \in Procs : lock[p] \in Tasks \/ lock[p] = Nobody
  BY DEF StreamTypeOK
<1>3. QED BY <1>1, <1>2 DEF Holders, LockServes, Inside

\* A step within or outside the lock.
LEMMA SameLock ==
  ASSUME StreamTypeOK, Holders, UNCHANGED lock,
         \A u \in Tasks : task'[u].step \in Inside <=> task[u].step \in Inside
  PROVE  Holders'
<1>1. \A p \in Procs : lock[p] # Nobody => lock[p] \in Tasks
  BY DEF StreamTypeOK
<1>2. QED BY <1>1 DEF Holders

\* The holder t leaves and releases its lock.
LEMMA Released ==
  ASSUME StreamTypeOK, Holders, NEW t \in Tasks, ReleaseLock(t), task[t].step \in Inside,
         task'[t].step \notin Inside,
         \A u \in Tasks : u # t => (task'[u].step \in Inside <=> task[u].step \in Inside)
  PROVE  Holders'
<1>1. ProcOf[t] \in Procs /\ lock[ProcOf[t]] = t
  BY IngestAssumption DEF Holders
<1>2. \A p \in Procs : lock'[p] = IF p = ProcOf[t] THEN Nobody ELSE lock[p]
  BY <1>1 DEF ReleaseLock, StreamTypeOK
<1>3. \A p \in Procs : lock[p] # Nobody => lock[p] \in Tasks
  BY DEF StreamTypeOK
<1>4. \A u \in Tasks : ProcOf[u] \in Procs
  BY IngestAssumption
<1>5. \A u \in Tasks : task'[u].step \in Inside => lock'[ProcOf[u]] = u
  BY <1>1, <1>2, <1>4 DEF Holders
<1>6. ASSUME NEW p \in Procs, lock'[p] # Nobody
      PROVE  ProcOf[lock'[p]] = p /\ task'[lock'[p]].step \in Inside
  <2>1. p # ProcOf[t] /\ lock'[p] = lock[p] /\ lock[p] \in Tasks
    BY <1>2, <1>3, <1>6
  <2>2. lock[p] # t
    BY <1>6, <2>1 DEF Holders
  <2>3. QED BY <1>6, <2>1, <2>2 DEF Holders
<1>7. QED BY <1>5, <1>6 DEF Holders

LEMMA AcquireHolders ==
  ASSUME StreamTypeOK, Holders, NEW t \in Tasks, Acquire(t)
  PROVE  Holders'
<1>1. ProcOf[t] \in Procs /\ lock[ProcOf[t]] = Nobody /\ t # Nobody
  BY IngestAssumption DEF Acquire
<1>2. \A p \in Procs : lock'[p] = IF p = ProcOf[t] THEN t ELSE lock[p]
  BY <1>1 DEF Acquire, StreamTypeOK
<1>3. \A u \in Tasks : ProcOf[u] \in Procs /\ u # Nobody
  BY IngestAssumption
<1>4. task'[t].step = "status" /\ \A u \in Tasks : u # t => task'[u] = task[u]
  <2>1. ASSUME NEW n PROVE [task[t] EXCEPT !.step = "status", !.tries = n].step = "status"
    BY DEF StreamTypeOK, TaskStates
  <2>2. [task[t] EXCEPT !.step = "status", !.tries = 0].step = "status"
    BY <2>1, Zenon
  <2>3. \A new : Set(t, new) => task'[t] = new /\ \A u \in Tasks : u # t => task'[u] = task[u]
    BY DEF Set, StreamTypeOK
  <2>4. QED BY <2>2, <2>3, Zenon DEF Acquire
<1>5. \A u \in Tasks : task'[u].step \in Inside => lock'[ProcOf[u]] = u
  BY <1>1, <1>2, <1>3, <1>4 DEF Holders
<1>6. \A p \in Procs : lock[p] # Nobody => lock[p] \in Tasks
  BY DEF StreamTypeOK
<1>7. ASSUME NEW p \in Procs, lock'[p] # Nobody
      PROVE  ProcOf[lock'[p]] = p /\ task'[lock'[p]].step \in Inside
  <2>1. CASE p = ProcOf[t]
    BY <1>2, <1>4, <2>1 DEF Inside
  <2>2. CASE p # ProcOf[t]
    <3>1. lock'[p] = lock[p] /\ lock[p] \in Tasks /\ ProcOf[lock[p]] = p
      BY <1>2, <1>6, <1>7, <2>2 DEF Holders
    <3>2. lock[p] # t
      BY <2>2, <3>1
    <3>3. QED BY <1>4, <1>7, <3>1, <3>2 DEF Holders
  <2>3. QED BY <2>1, <2>2
<1>8. QED BY <1>5, <1>7 DEF Holders

\* A task moves, and is inside after it if and only if it was before.
LEMMA MoveHolders ==
  ASSUME StreamTypeOK, Holders, NEW t \in Tasks, NEW new, Set(t, new), UNCHANGED lock,
         new.step \in Inside <=> task[t].step \in Inside
  PROVE  Holders'
<1>1. \A u \in Tasks : task'[u] = IF u = t THEN new ELSE task[u]
  BY DEF Set, StreamTypeOK
<1>2. QED BY <1>1, SameLock

\* Where a pager is after its page was accepted.
LEMMA AdvanceOutside ==
  ASSUME NEW x \in TaskStates
  PROVE  Advance(x).step \notin Inside /\ Idle.step \notin Inside
<1>1. Idle.step = "idle"
  BY DEF Idle
<1>2. \A n : [x EXCEPT !.step = "lock", !.part = n].step = "lock"
  BY DEF TaskStates
<1>3. [x EXCEPT !.step = "fetch", !.cursor = x.next].step = "fetch"
  BY DEF TaskStates
<1>4. Advance(x).step \in {"idle", "lock", "fetch"}
  BY <1>1, <1>2, <1>3, Zenon DEF Advance
<1>5. QED BY <1>1, <1>4 DEF Inside

LEMMA FetchHolders ==
  ASSUME StreamTypeOK, Holders, NEW t \in Tasks, Fetch(t) \/ FetchLoops(t) \/ FetchFails(t)
  PROVE  Holders'
<1>0. task[t].step \notin Inside /\ UNCHANGED lock
  <2>1. task[t].step = "fetch" /\ UNCHANGED lock
    BY Zenon DEF Fetch, FetchLoops, FetchFails
  <2>2. QED BY <2>1 DEF Inside
<1>1. Idle.step \notin Inside
  BY DEF Idle, Inside
<1>2. \A next : Fetched(t, next) =>
        Set(t, Idle) \/ \E new : Set(t, new) /\ new.step = "lock"
  <2> SUFFICES ASSUME NEW next, Fetched(t, next)
               PROVE  Set(t, Idle) \/ \E new : Set(t, new) /\ new.step = "lock"
    OBVIOUS
  <2> DEFINE page == task[t].cursor + 1
             part == IF page = Pages /\ LastEmpty THEN Submissions ELSE 1
             walked == task[t].walked \cup ({next} \ {0})
             n == task[t].read + 1
             new == [task[t] EXCEPT !.step = "lock", !.page = page, !.part = part,
                       !.next = next, !.read = n, !.walked = walked]
  <2>1. Set(t, Idle) \/ Set(t, new)
    BY Zenon DEF Fetched, WalkOver
  <2> HIDE DEF page, part, walked, n
  <2>2. new.step = "lock"
    BY DEF StreamTypeOK, TaskStates
  <2>3. QED BY <2>1, <2>2, Zenon
<1>3. \E new : Set(t, new) /\ (new.step = "lock" \/ new = Idle)
  <2>1. Set(t, Idle) \/ \E next : Fetched(t, next)
    BY Zenon DEF Fetch, FetchLoops, FetchFails, WalkOver
  <2>2. QED BY <1>2, <2>1, Zenon
<1>4. \E new : Set(t, new) /\ new.step \notin Inside
  BY <1>1, <1>3 DEF Inside
<1>5. QED BY <1>0, <1>4, MoveHolders

LEMMA AcceptHolders ==
  ASSUME StreamTypeOK, LiveInv, Holders, NEW q \in requests, Accept(q)
  PROVE  Holders'
<1>0. q.by \in Tasks
  BY DEF StreamTypeOK, Requests
<1>1. \A u \in Tasks : u # q.by \/ ~q.live => task'[u].step = task[u].step
  BY AcceptTasks, StaleTask, ZenonT(60) DEF StreamTypeOK
<1>2. CASE ~q.live
  <2>1. UNCHANGED lock
    BY <1>2, Zenon DEF Accept, Answered
  <2>2. QED BY <1>1, <1>2, <2>1, SameLock
<1>3. CASE q.live
  <2>1. ReleaseLock(q.by)
    BY <1>3, Zenon DEF Accept, Answered
  <2>2. Stale(task[q.by]) \in TaskStates
    BY <1>0, StaleTask DEF StreamTypeOK
  <2>3. task'[q.by].step \notin Inside
    BY <1>0, <1>3, <2>2, AcceptTasks, AdvanceOutside, Zenon
  <2>4. task[q.by].step \in Inside
    BY <1>3 DEF LiveInv, Inside
  <2>5. QED BY <1>0, <1>1, <2>1, <2>3, <2>4, Released
<1>4. QED BY <1>2, <1>3

LEMMA RejectHolders ==
  ASSUME StreamTypeOK, LiveInv, Holders, NEW q \in requests, Reject(q)
  PROVE  Holders'
<1>0. q.by \in Tasks /\ task[q.by] \in TaskStates
  BY DEF StreamTypeOK, Requests
<1>1. q.live => task[q.by].step \in Inside
  BY DEF LiveInv, Inside
<1>2. \A n : [task[q.by] EXCEPT !.step = "status", !.tries = n].step \in Inside
  BY <1>0 DEF TaskStates, Inside
<1>3. \/ task' = task /\ lock' = lock
      \/ q.live /\ lock' = lock /\ \E new : Set(q.by, new) /\ new.step \in Inside
      \/ q.live /\ ReleaseLock(q.by) /\ Set(q.by, Idle)
  BY <1>2, Zenon DEF Reject
<1>4. CASE task' = task /\ lock' = lock
  BY <1>4, SameLock
<1>5. CASE q.live /\ lock' = lock /\ \E new : Set(q.by, new) /\ new.step \in Inside
  BY <1>0, <1>1, <1>5, MoveHolders
<1>6. CASE q.live /\ ReleaseLock(q.by) /\ Set(q.by, Idle)
  <2>1. /\ task'[q.by].step \notin Inside
        /\ \A u \in Tasks : u # q.by => task'[u] = task[u]
    BY <1>0, <1>6 DEF Set, StreamTypeOK, Idle, Inside
  <2>2. QED BY <1>0, <1>1, <1>6, <2>1, Released
<1>7. QED BY <1>3, <1>4, <1>5, <1>6

LEMMA HoldersStep == Inv /\ Holders /\ [StreamNext]_streamVars => Holders'
<1> SUFFICES ASSUME StreamTypeOK, LiveInv, Holders, [StreamNext]_streamVars PROVE Holders'
  BY DEF Inv
<1>0. Idle.step \notin Inside /\ [Idle EXCEPT !.step = "lock"].step \notin Inside
  BY DEF Idle, Inside
<1>1. ASSUME NEW t \in Tasks, StartWrite(t) PROVE Holders'
  BY <1>0, <1>1, MoveHolders DEF StartWrite, Inside
<1>2. ASSUME NEW t \in Tasks, NEW resume \in BOOLEAN, StartSync(t, resume) PROVE Holders'
  <2>1. \A c, w : [Idle EXCEPT !.step = "fetch", !.cursor = c, !.walked = w].step = "fetch"
    BY DEF Idle
  <2>2. \E new : Set(t, new) /\ new.step = "fetch"
    BY <1>2, <2>1, Zenon DEF StartSync
  <2>3. task[t].step = "idle" /\ UNCHANGED lock
    BY <1>2, Zenon DEF StartSync
  <2>4. QED BY <2>2, <2>3, MoveHolders DEF Inside
<1>3. ASSUME NEW t \in Tasks, ReadStatus(t) \/ Send(t) PROVE Holders'
  <2>1. /\ [task[t] EXCEPT !.step = "send", !.previous = accepted, !.fresh = TRUE].step = "send"
        /\ [task[t] EXCEPT !.step = "answer"].step = "answer"
    BY DEF StreamTypeOK, TaskStates
  <2>2. \E new : Set(t, new) /\ new.step \in {"send", "answer"}
    BY <1>3, <2>1, Zenon DEF ReadStatus, Send
  <2>3. task[t].step \in {"status", "send"} /\ UNCHANGED lock
    BY <1>3, Zenon DEF ReadStatus, Send
  <2>4. QED BY <2>2, <2>3, MoveHolders DEF Inside
<1>4. ASSUME NEW t \in Tasks, GiveUp(t) PROVE Holders'
  <2>1. /\ task'[t].step \notin Inside /\ task[t].step \in Inside /\ ReleaseLock(t)
        /\ \A u \in Tasks : u # t => task'[u] = task[u]
    BY <1>0, <1>4 DEF GiveUp, Set, StreamTypeOK, Inside
  <2>2. QED BY <2>1, Released
<1>5. ASSUME NEW q \in requests, Lose(q) PROVE Holders'
  BY <1>5, SameLock DEF Lose
<1>6. CASE UNCHANGED streamVars
  BY <1>6, SameLock DEF streamVars
<1>7. CASE StreamNext
  BY <1>1, <1>2, <1>3, <1>4, <1>5, <1>7, Steps, FetchHolders, AcquireHolders,
     AcceptHolders, RejectHolders, Zenon
<1>8. QED BY <1>6, <1>7

\* Submissions of one process exclude each other and the lock is never leaked,
\* whatever is cancelled, rejected or lost.
THEOREM LockIsSafe == StreamSpec => []LockServes
<1>1. StreamInit => Holders
  BY IngestAssumption DEF StreamInit, Holders, Idle, Inside
<1>2. Inv /\ Holders => LockServes
  BY HoldersServe DEF Inv
<1>3. QED BY <1>1, <1>2, HoldersStep, Invariance, PTL DEF StreamSpec

--------------------------------------------------------------------------------
(* Who moves the cursor *)

Final(q) == q.page # 0 /\ q.part = Submissions

\* A checkpoint that is still current has the accepted cursor, and a request that
\* expects it preserves that cursor unless it ends a page.
FreshInv ==
    /\ \A t \in Tasks : task[t].fresh => task[t].previous = accepted
    /\ \A q \in requests : q.fresh /\ ~Final(q) => q.cursor = accepted

\* Every task state that a step other than a commit leads to.
LEMMA MoveFresh ==
  ASSUME StreamTypeOK, FreshInv, NEW t \in Tasks, NEW new, Set(t, new),
         new.fresh => new.previous = accepted, UNCHANGED <<accepted, requests>>
  PROVE  FreshInv'
<1>1. \A u \in Tasks : task'[u] = IF u = t THEN new ELSE task[u]
  BY DEF Set, StreamTypeOK
<1>2. QED BY <1>1 DEF FreshInv, Final

LEMMA TaskFresh ==
  ASSUME StreamTypeOK, FreshInv, NEW t \in Tasks,
         \/ Acquire(t) \/ ReadStatus(t) \/ StartWrite(t) \/ Fetch(t) \/ FetchLoops(t)
         \/ FetchFails(t) \/ \E resume \in BOOLEAN : StartSync(t, resume)
  PROVE  FreshInv'
<1>0. /\ task[t] \in TaskStates /\ Idle.fresh = FALSE
      /\ task[t].fresh => task[t].previous = accepted
  BY DEF StreamTypeOK, Idle, FreshInv
<1>1. UNCHANGED <<accepted, requests>>
  BY Zenon DEF Acquire, ReadStatus, StartWrite, Fetch, FetchLoops, FetchFails, StartSync, engine
<1>2. \A next : Fetched(t, next) =>
        \E new : Set(t, new) /\ (new.fresh => new.previous = accepted)
  <2> SUFFICES ASSUME NEW next, Fetched(t, next)
               PROVE  \E new : Set(t, new) /\ (new.fresh => new.previous = accepted)
    OBVIOUS
  <2> DEFINE page == task[t].cursor + 1
             part == IF page = Pages /\ LastEmpty THEN Submissions ELSE 1
             walked == task[t].walked \cup ({next} \ {0})
             n == task[t].read + 1
             new == [task[t] EXCEPT !.step = "lock", !.page = page, !.part = part,
                       !.next = next, !.read = n, !.walked = walked]
  <2>1. Set(t, Idle) \/ Set(t, new)
    BY Zenon DEF Fetched, WalkOver
  <2> HIDE DEF page, part, walked, n
  <2>2. new.fresh = task[t].fresh /\ new.previous = task[t].previous
    BY <1>0 DEF TaskStates
  <2>3. QED BY <1>0, <2>1, <2>2, Zenon
<1>3. \A n : LET new == [task[t] EXCEPT !.step = "status", !.tries = n]
             IN  new.fresh = task[t].fresh /\ new.previous = task[t].previous
  BY <1>0 DEF TaskStates
<1>4. [task[t] EXCEPT !.step = "send", !.previous = accepted, !.fresh = TRUE].previous = accepted
  BY <1>0 DEF TaskStates
<1>5. \A c, w : [Idle EXCEPT !.step = "fetch", !.cursor = c, !.walked = w].fresh = FALSE
  BY DEF Idle
<1>6. [Idle EXCEPT !.step = "lock"].fresh = FALSE
  BY DEF Idle
<1>7. \E new : Set(t, new) /\ (new.fresh => new.previous = accepted)
  <2>1. CASE Acquire(t)
    BY <1>0, <1>3, <2>1, Zenon DEF Acquire
  <2>2. CASE ReadStatus(t)
    BY <1>4, <2>2, Zenon DEF ReadStatus
  <2>3. CASE StartWrite(t)
    BY <1>6, <2>3, Zenon DEF StartWrite
  <2>4. CASE Fetch(t) \/ FetchLoops(t) \/ FetchFails(t)
    <3>1. Set(t, Idle) \/ \E next : Fetched(t, next)
      BY <2>4, Zenon DEF Fetch, FetchLoops, FetchFails, WalkOver
    <3>2. QED BY <1>0, <1>2, <3>1, Zenon
  <2>5. CASE \E resume \in BOOLEAN : StartSync(t, resume)
    BY <1>5, <2>5, Zenon DEF StartSync
  <2>6. QED BY <2>1, <2>2, <2>3, <2>4, <2>5
<1>8. QED BY <1>1, <1>7, MoveFresh

LEMMA SendFresh ==
  ASSUME StreamTypeOK, FreshInv, NEW t \in Tasks, Send(t)
  PROVE  FreshInv'
<1>1. \A u \in Tasks : task'[u].fresh = task[u].fresh /\ task'[u].previous = task[u].previous
  BY DEF Send, Set, StreamTypeOK, TaskStates
<1>2. RequestOf(t).fresh /\ ~Final(RequestOf(t)) => RequestOf(t).cursor = accepted
  BY DEF RequestOf, RequestCursor, Final, FreshInv
<1>3. requests' = requests \cup {RequestOf(t)} /\ accepted' = accepted
  BY DEF Send, engine
<1>4. QED BY <1>1, <1>2, <1>3 DEF FreshInv, Final

\* After a commit nothing is fresh.
LEMMA AcceptFresh ==
  ASSUME StreamTypeOK, NEW q \in requests, Accept(q)
  PROVE  /\ \A t \in Tasks : ~task'[t].fresh
         /\ \A x \in requests' : ~x.fresh
<1>0. \A t \in Tasks : Stale(task[t]) \in TaskStates /\ Stale(task[t]).fresh = FALSE
  BY StaleTask DEF StreamTypeOK
<1>1. \A x \in TaskStates : x.fresh = FALSE => Advance(x).fresh = FALSE
  <2> SUFFICES ASSUME NEW x \in TaskStates, x.fresh = FALSE PROVE Advance(x).fresh = FALSE
    OBVIOUS
  <2>1. \A n : [x EXCEPT !.step = "lock", !.part = n].fresh = FALSE
    BY DEF TaskStates
  <2>2. [x EXCEPT !.step = "fetch", !.cursor = x.next].fresh = FALSE
    BY DEF TaskStates
  <2>3. Idle.fresh = FALSE
    BY DEF Idle
  <2>4. QED BY <2>1, <2>2, <2>3, Zenon DEF Advance
<1>2. Idle.fresh = FALSE
  BY DEF Idle
<1>3. \A t \in Tasks : task'[t].fresh = FALSE
  BY <1>0, <1>1, <1>2, AcceptTasks, Zenon
<1>4. \A x \in requests : Stale(x).fresh = FALSE
  BY StaleRequest DEF StreamTypeOK
<1>5. \A x \in requests' : x.fresh = FALSE
  BY <1>4 DEF Accept
<1>6. QED BY <1>3, <1>5

LEMMA RejectFresh ==
  ASSUME StreamTypeOK, FreshInv, NEW q \in requests, Reject(q) \/ Lose(q)
  PROVE  FreshInv'
<1>0. q.by \in Tasks /\ task[q.by] \in TaskStates
  BY DEF StreamTypeOK, Requests
<1>1. requests' = requests \ {q} /\ accepted' = accepted
  BY Zenon DEF Reject, Lose, engine
<1>2. \A n : LET new == [task[q.by] EXCEPT !.step = "status", !.tries = n]
             IN  new.fresh = task[q.by].fresh /\ new.previous = task[q.by].previous
  BY <1>0 DEF TaskStates
<1>3. Idle.fresh = FALSE
  BY DEF Idle
<1>4. \/ task' = task
      \/ \E new : /\ Set(q.by, new)
                 /\ \/ new.fresh = FALSE
                    \/ new.fresh = task[q.by].fresh /\ new.previous = task[q.by].previous
  BY <1>2, <1>3, Zenon DEF Reject, Lose
<1>5. \A t \in Tasks : task'[t].fresh => task'[t].previous = accepted
  BY <1>0, <1>4 DEF Set, StreamTypeOK, FreshInv
<1>6. QED BY <1>1, <1>5 DEF FreshInv, Final

LEMMA GiveUpFresh ==
  ASSUME StreamTypeOK, FreshInv, NEW t \in Tasks, GiveUp(t)
  PROVE  FreshInv'
<1>1. \A u \in Tasks : task'[u] = task[u] \/ task'[u].fresh = FALSE
  BY DEF GiveUp, Set, StreamTypeOK, Idle
<1>2. \A q \in Requests : LET a == [q EXCEPT !.live = FALSE]
                          IN  /\ a.fresh = q.fresh /\ a.cursor = q.cursor
                              /\ a.page = q.page /\ a.part = q.part
  BY DEF Requests
<1>3. \A y \in requests' : \E q \in requests :
         y.fresh = q.fresh /\ y.cursor = q.cursor /\ y.page = q.page /\ y.part = q.part
  <2> SUFFICES ASSUME NEW y \in requests'
               PROVE  \E q \in requests : /\ y.fresh = q.fresh /\ y.cursor = q.cursor
                                          /\ y.page = q.page /\ y.part = q.part
    OBVIOUS
  <2>1. PICK q \in requests : y = IF q.by = t THEN [q EXCEPT !.live = FALSE] ELSE q
    BY DEF GiveUp, Abandon
  <2>2. q \in Requests
    BY DEF StreamTypeOK
  <2>3. /\ y.fresh = q.fresh /\ y.cursor = q.cursor
        /\ y.page = q.page /\ y.part = q.part
    BY <1>2, <2>1, <2>2
  <2>4. QED BY <2>3
<1>4. accepted' = accepted
  BY DEF GiveUp, engine
<1>5. QED BY <1>1, <1>3, <1>4 DEF FreshInv, Final

LEMMA FreshStep == Inv /\ FreshInv /\ [StreamNext]_streamVars => FreshInv'
<1> SUFFICES ASSUME StreamTypeOK, FreshInv, [StreamNext]_streamVars PROVE FreshInv'
  BY DEF Inv
<1>1. ASSUME NEW q \in requests, Accept(q) PROVE FreshInv'
  BY <1>1, AcceptFresh DEF FreshInv
<1>2. CASE UNCHANGED streamVars
  BY <1>2 DEF streamVars, FreshInv, Final
<1>3. CASE StreamNext
  BY <1>1, <1>3, Steps, TaskFresh, SendFresh, RejectFresh, GiveUpFresh, Zenon
<1>4. QED BY <1>2, <1>3

\* No writer, partial page or failed submission moves the cursor of the stream,
\* in whatever process it runs: only the last submission of a page does.
THEOREM PagesMoveCursor == StreamSpec => OnlyPagesMoveCursor
<1> DEFINE Moves == accepted' # accepted => \E q \in requests \ requests' : Final(q)
<1>1. StreamInit => FreshInv
  BY DEF StreamInit, FreshInv, Idle
<1>2. Inv /\ FreshInv /\ [StreamNext]_streamVars => Moves
  <2> SUFFICES ASSUME StreamTypeOK, FreshInv, StreamNext, accepted' # accepted
               PROVE  \E q \in requests \ requests' : Final(q)
    BY DEF Inv, streamVars
  <2>1. \E q \in requests : Accept(q)
    BY Steps, Zenon DEF Acquire, ReadStatus, StartWrite, Fetch, FetchLoops, FetchFails,
                        StartSync, Send, GiveUp, Reject, Lose, engine
  <2>2. PICK q \in requests : Accept(q)
    BY <2>1
  <2>3. q.fresh /\ accepted' = q.cursor
    BY <2>2 DEF Accept, IsCurrent
  <2>4. q \notin requests' /\ Final(q)
    BY <2>2, <2>3, AcceptFresh DEF FreshInv
  <2>5. QED BY <2>2, <2>4
<1>3. StreamSpec => [][Moves]_streamVars
  BY <1>1, <1>2, FreshStep, Invariance, PTL DEF StreamSpec
<1>4. QED BY <1>3 DEF OnlyPagesMoveCursor, Final
================================================================================
