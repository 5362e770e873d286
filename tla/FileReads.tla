------------------------------- MODULE FileReads -------------------------------
(* Files: the workspace read, the pages of an export, and the download of a paper.

   The sections share no state: each has its own Init, Next and Spec. *)
EXTENDS Naturals, Sequences, FiniteSets, TLC

--------------------------------------------------------------------------------
(* WorkspaceReader.read: the files of a manifest are read and parsed by worker
   processes, a few at a time, under one deadline; every file gets an outcome, in the
   order of the manifest.  Others may change the files meanwhile.                  *)

CONSTANTS
    Files,       \* the manifest: a sequence of names
    MaxTasks,    \* request.max_tasks
    MaxWorkspaceEdits, \* changes of files
    MaxWorkspaceFaults, \* broken workers, unexpected errors, cancelled calls
    None

VARIABLES
    content,    \* file -> its version; the manifest has the digest of version 1
    task,       \* place in the manifest -> the state of its task
    process,    \* places whose worker process is alive
    wait,       \* asyncio.wait: "on", "over" (all done) or "late" (the deadline)
    workspaceCall, \* "running", "closing", "returned" or "raised"
    outcome,    \* what was returned, one per place
    workspaceEdits, workspaceFaults

workspaceVars == <<content, task, process, wait, workspaceCall, outcome, workspaceEdits,
                   workspaceFaults>>

Places == DOMAIN Files
Over == workspaceCall \in {"returned", "raised"}
WorkspaceAt(i, step) == task[i].step = step
WorkspaceFault == workspaceFaults < MaxWorkspaceFaults /\ workspaceFaults' = workspaceFaults + 1
Done == {i \in Places : WorkspaceAt(i, "done")}

WorkspaceTypeOK ==
    /\ \A i \in Places : task[i].step \in {"queued", "reading", "parsing", "done", "cancelling",
                                           "cancelled"}
    /\ process \subseteq Places /\ Cardinality(process) <= MaxTasks
    /\ wait \in {"on", "over", "late"}
    /\ workspaceCall \in {"running", "closing", "returned", "raised"}

WorkspaceInit ==
    /\ content = [f \in {Files[i] : i \in Places} |-> 1]
    /\ task = [i \in Places |-> [step |-> "queued", read |-> 0, result |-> None]]
    /\ process = {} /\ wait = "on" /\ workspaceCall = "running" /\ outcome = <<>>
    /\ workspaceEdits = 0 /\ workspaceFaults = 0

--------------------------------------------------------------------------------
(* A task: one, _run_process, _read_one *)

\* Fault: the semaphore is not taken.
AnyTask == TRUE
SlotFree == Cardinality(process) < MaxTasks

Take(i) ==
    /\ WorkspaceAt(i, "queued") /\ SlotFree
    /\ task' = [task EXCEPT ![i].step = "reading"]
    /\ process' = process \cup {i}
    /\ UNCHANGED <<content, wait, workspaceCall, outcome, workspaceEdits, workspaceFaults>>

\* _read_file: a file that changes while it is read is refused.
WorkspaceRead(i) ==
             /\ WorkspaceAt(i, "reading")
             /\ task' = [task EXCEPT ![i].step = "parsing", ![i].read = content[Files[i]]]
             /\ UNCHANGED <<content, process, wait, workspaceCall, outcome, workspaceEdits,
                            workspaceFaults>>

\* Fault: the digest is not compared.
AnyBytes(i) == TRUE
AsDeclared(i) == task[i].read = 1

WorkspaceEnd(i, result) ==
             /\ task' = [task EXCEPT ![i].step = "done", ![i].result = result]
             /\ process' = process \ {i}

Parse(i) ==
    /\ WorkspaceAt(i, "parsing")
    /\ \/ AsDeclared(i) /\ WorkspaceEnd(i, "ok") /\ UNCHANGED workspaceFaults
       \/ ~AsDeclared(i) /\ WorkspaceEnd(i, "invalid_content") /\ UNCHANGED workspaceFaults
       \/ WorkspaceFault /\ WorkspaceEnd(i, "limit_exceeded")
    /\ UNCHANGED <<content, wait, workspaceCall, outcome, workspaceEdits>>

\* The worker process ends: an outcome like the others.  Any other error is the task's.
Break(i) ==
    /\ task[i].step \in {"reading", "parsing"} /\ WorkspaceFault
    /\ \E result \in {"parser_unavailable", "error"} : WorkspaceEnd(i, result)
    /\ UNCHANGED <<content, wait, workspaceCall, outcome, workspaceEdits>>

\* A cancelled task ends its process before it is over.
WorkspaceStop(i) ==
             /\ WorkspaceAt(i, "cancelling")
             /\ task' = [task EXCEPT ![i].step = "cancelled"]
             /\ process' = process \ {i}
             /\ UNCHANGED <<content, wait, workspaceCall, outcome, workspaceEdits,
                            workspaceFaults>>

--------------------------------------------------------------------------------
(* read, _collect *)

Cancelled(s) ==
    [i \in Places |->
       IF i \in s
       THEN [task[i] EXCEPT !.step = IF i \in process THEN "cancelling" ELSE "cancelled"]
       ELSE task[i]]

AllDone ==
    /\ workspaceCall = "running" /\ wait = "on" /\ Done = Places
    /\ wait' = "over"
    /\ UNCHANGED <<content, task, process, workspaceCall, outcome, workspaceEdits,
                   workspaceFaults>>

WorkspaceDeadline ==
    /\ workspaceCall = "running" /\ wait = "on" /\ wait' = "late"
    /\ task' = Cancelled(Places \ Done)
    /\ UNCHANGED <<content, process, workspaceCall, outcome, workspaceEdits, workspaceFaults>>

\* Fault: the tasks that were cancelled are not awaited.
NoGather == TRUE
Gathered == \A i \in Places : task[i].step \in {"done", "cancelled"}

\* task.result() raises what a task raised.
Return ==
    /\ workspaceCall = "running" /\ wait # "on" /\ Gathered
    /\ IF \E i \in Places : task[i].result = "error"
       THEN workspaceCall' = "closing" /\ UNCHANGED outcome
       ELSE /\ workspaceCall' = "returned"
            /\ outcome' = [i \in Places |-> 
                 [file |-> Files[i],
                  result |-> IF WorkspaceAt(i, "done") THEN task[i].result ELSE "cancelled"]]
    /\ UNCHANGED <<content, task, process, wait, workspaceEdits, workspaceFaults>>

\* The caller cancels the call.
Abort ==
    /\ workspaceCall = "running" /\ WorkspaceFault /\ workspaceCall' = "closing"
    /\ task' = Cancelled({i \in Places : task[i].step \in {"queued", "reading", "parsing"}})
    /\ UNCHANGED <<content, process, wait, outcome, workspaceEdits>>

\* except BaseException: every task is cancelled and awaited.
Raise ==
    /\ workspaceCall = "closing" /\ Gathered
    /\ workspaceCall' = "raised"
    /\ UNCHANGED <<content, task, process, wait, outcome, workspaceEdits, workspaceFaults>>

WorkspaceEdit ==
    /\ workspaceEdits < MaxWorkspaceEdits /\ workspaceEdits' = workspaceEdits + 1
    /\ \E f \in DOMAIN content : content' = [content EXCEPT ![f] = @ + 1]
    /\ UNCHANGED <<task, process, wait, workspaceCall, outcome, workspaceFaults>>

WorkspaceNext ==
    \/ \E i \in Places : Take(i) \/ WorkspaceRead(i) \/ Parse(i) \/ Break(i) \/ WorkspaceStop(i)
    \/ AllDone \/ WorkspaceDeadline \/ Return \/ Abort \/ Raise \/ WorkspaceEdit

WorkspaceSpec == WorkspaceInit /\ [][WorkspaceNext]_workspaceVars

--------------------------------------------------------------------------------
(* Properties *)

\* No process outlives the call, and no more than max_tasks run at once.
ProcessesEnd == Cardinality(process) <= MaxTasks /\ (Over => process = {})

\* Every file has its outcome in its place; it is ok only for the bytes that the
\* manifest declares, and cancelled only after the deadline.
OutcomesAreTrue ==
    workspaceCall = "returned" =>
        /\ Len(outcome) = Len(Files)
        /\ \A i \in Places :
             /\ outcome[i].file = Files[i]
             /\ outcome[i].result = "ok" => task[i].read = 1
             /\ outcome[i].result = "cancelled" => wait = "late"
             /\ outcome[i].result \notin {None, "error"}

--------------------------------------------------------------------------------
(* BookmarkReader: a social export is read a page at a time.  A request reads and
   parses the whole file anew; a continuation names the digests of the file and of the
   vocabulary that the first page gave.  Others may change both between requests.  *)

CONSTANTS
    Exports,     \* files there may be: sequences of rows [id, text]
    Sizes,       \* page sizes a request may ask for
    MaxExportEdits, \* changes of the file and of the vocabulary
    MaxWalks     \* walks begun

VARIABLES
    file,        \* the export, which stands for its own digest
    vocabulary,  \* the reader's vocabulary, which stands for its own digest
    walk,        \* a caller's pages so far
    walks, exportEdits

exportVars == <<file, vocabulary, walk, walks, exportEdits>>

\* A row that _validated_record refuses.
Bad == "bad"

ExportIdle == [offset |-> None, file |-> None, vocabulary |-> None, got |-> <<>>,
               state |-> "idle"]

ExportTypeOK ==
    /\ file \in Exports /\ vocabulary \in Nat
    /\ walk.state \in {"idle", "open", "ended", "refused"}
    /\ walk.offset \in Nat \cup {None}

ExportInit ==
    /\ file \in Exports /\ vocabulary = 1
    /\ walk = ExportIdle /\ walks = 0 /\ exportEdits = 0

--------------------------------------------------------------------------------
(* _result: rows, an offset and a page size; places count from 1, offsets from 0 *)

\* Fault: a row repeats another only if that is on the same page.
FirstOnPage(rows, offset) ==
    {i \in DOMAIN rows : \A j \in (offset + 1)..(i - 1) : rows[j].id # rows[i].id}
Firsts(rows, offset) ==
    {i \in DOMAIN rows : \A j \in 1..(i - 1) : rows[j].id # rows[i].id}

\* The places of the page, and the place where the next one starts.
Due(rows, offset) == {i \in Firsts(rows, offset) : i > offset}
Before(rows, offset, i) == Cardinality({j \in Due(rows, offset) : j < i})
Page(rows, offset, size) == {i \in Due(rows, offset) : Before(rows, offset, i) < size}
ExportStop(rows, offset, size) == {i \in Due(rows, offset) : Before(rows, offset, i) = size}

\* The rows that are looked at: all of them on the last page.
Scanned(rows, offset, size) ==
    {i \in DOMAIN rows : \A s \in ExportStop(rows, offset, size) : i <= s}

\* Fault: two rows of one id are never compared.
NoConflict(rows, places) == TRUE
Consistent(rows, places) ==
    \A i, j \in places : rows[i].id = rows[j].id => rows[i].text = rows[j].text

Sound(rows, places) ==
    /\ \A i \in places : rows[i].text # Bad
    /\ Consistent(rows, places)

InOrder(rows, places) ==
    LET at(n) == CHOOSE i \in places : Cardinality({j \in places : j <= i}) = n
    IN  [n \in 1..Cardinality(places) |-> rows[at(n)].id]

--------------------------------------------------------------------------------
(* read *)

\* Fault: a continuation takes the file as it is.
ExportAnyFile == TRUE
AsPinned == walk.state = "open" => walk.file = file /\ walk.vocabulary = vocabulary

Offset == IF walk.state = "open" THEN walk.offset ELSE 0

ExportRead(size) ==
          /\ walk.state \in {"idle", "open"}
          /\ IF AsPinned /\ Offset <= Len(file) /\ Sound(file, Scanned(file, Offset, size))
             THEN LET stop == ExportStop(file, Offset, size)
                      got == walk.got \o InOrder(file, Page(file, Offset, size))
                      first == walk.state = "idle"
                  IN  walk' = [file |-> IF first THEN file ELSE walk.file,
                               vocabulary |-> IF first THEN vocabulary ELSE walk.vocabulary,
                               got |-> got,
                               offset |-> IF stop = {} THEN None ELSE (CHOOSE i \in stop : TRUE) - 1,
                               state |-> IF stop = {} THEN "ended" ELSE "open"]
             ELSE walk' = [walk EXCEPT !.state = "refused"]
          /\ UNCHANGED <<file, vocabulary, walks, exportEdits>>

\* The caller starts over.
Begin ==
    /\ walks < MaxWalks /\ walks' = walks + 1 /\ walk' = ExportIdle
    /\ UNCHANGED <<file, vocabulary, exportEdits>>

ExportEdit ==
    /\ exportEdits < MaxExportEdits /\ exportEdits' = exportEdits + 1
    /\ \/ file' \in Exports \ {file} /\ UNCHANGED vocabulary
       \/ vocabulary' = vocabulary + 1 /\ UNCHANGED file
    /\ UNCHANGED <<walk, walks>>

ExportNext == (\E size \in Sizes : ExportRead(size)) \/ Begin \/ ExportEdit

ExportSpec == ExportInit /\ [][ExportNext]_exportVars

--------------------------------------------------------------------------------
(* Properties *)

\* The pages of a walk are of one export: no id comes twice, and a walk that ended has
\* every id of it once, in the order of the file, from an export without a bad row or
\* two different rows of one id; whatever page sizes were asked for.
ExportIsExact ==
    /\ \A m, n \in DOMAIN walk.got : walk.got[m] = walk.got[n] => m = n
    /\ walk.state = "ended" =>
         /\ {walk.got[n] : n \in DOMAIN walk.got} = {walk.file[i].id : i \in DOMAIN walk.file}
         /\ \A i, j \in DOMAIN walk.file :
              walk.file[i].id = walk.file[j].id => walk.file[i] = walk.file[j]
         /\ \A i \in DOMAIN walk.file : walk.file[i].text # Bad
         /\ \A m, n \in DOMAIN walk.got : m < n =>
              \E i \in DOMAIN walk.file :
                /\ walk.file[i].id = walk.got[m]
                /\ \A j \in 1..i : walk.file[j].id # walk.got[n]

--------------------------------------------------------------------------------
(* PaperDocumentService: the bytes of a paper are streamed to a temporary file by
   worker threads, checked, and linked to a name made of their digest.  Downloads of
   several providers share the directory; a deadline may end each of them while a
   worker still writes.  The quota slot is PaperQuota's.

   A body is the sequence of its chunks and stands for its own digest.            *)

CONSTANTS
    Downloads,    \* calls of download
    Bodies,       \* what a provider may send: sequences of chunks
    Readable,     \* the bodies _validate accepts
    MaxBytes,     \* admission.max_bytes, a chunk counts one
    Attempts,     \* _retry_download: range(3)
    MaxPaperFaults  \* refusals, deadlines, crashes and damage

VARIABLES
    paperCall, \* download -> its state
    inode,     \* <<download, attempt>> -> what the temporary file holds
    temps,     \* the temporary files that have a name
    linked,    \* digest -> the inode its name is linked to
    worker,    \* <<download, attempt>> -> the chunk a thread has still to write
    damaged,   \* inodes that others wrote to
    crashed,   \* the process ended, and temporary files stayed
    paperFaults

paperVars == <<paperCall, inode, temps, linked, worker, damaged, crashed, paperFaults>>

PaperIdle == [step |-> "idle", attempt |-> 1, body |-> <<>>, declared |-> None, at |-> 0,
              refusal |-> None]
Inodes == Downloads \X (1..Attempts)
File(d) == <<d, paperCall[d].attempt>>

PaperTypeOK ==
    /\ \A d \in Downloads :
         /\ paperCall[d].step \in {"idle", "open", "ask", "copy", "write", "check", "validate",
                                   "install", "verify", "wait", "done"}
         /\ paperCall[d].attempt \in 1..Attempts
         /\ paperCall[d].at \in 0..MaxBytes
    /\ \A f \in temps \cup DOMAIN worker : f \in DOMAIN inode
    /\ \A b \in DOMAIN linked : linked[b] \in DOMAIN inode
    /\ damaged \subseteq Inodes /\ crashed \in BOOLEAN

PaperInit ==
    /\ paperCall = [d \in Downloads |-> PaperIdle]
    /\ inode = <<>> /\ temps = {} /\ linked = <<>> /\ worker = <<>>
    /\ damaged = {} /\ crashed = FALSE /\ paperFaults = 0

PaperFault == paperFaults < MaxPaperFaults /\ paperFaults' = paperFaults + 1
PaperAt(d, step) == paperCall[d].step = step
Goto(d, step) == paperCall' = [paperCall EXCEPT ![d].step = step]
Without(f, x) == [y \in DOMAIN f \ {x} |-> f[y]]

\* _temporary closes and unlinks its file however the block is left.
PaperEnd(d, refusal) ==
         /\ paperCall' = [paperCall EXCEPT ![d].step = "done", ![d].refusal = refusal]
         /\ temps' = temps \ {File(d)}

--------------------------------------------------------------------------------
(* download, _bounded_download *)

\* Authorized, and the slot granted.
Start(d) ==
    /\ PaperAt(d, "idle") /\ Goto(d, "open")
    /\ UNCHANGED <<inode, temps, linked, worker, damaged, crashed, paperFaults>>

\* Not authorized, another origin, no slot, or no temporary file to be had.
Refuse(d) ==
    /\ paperCall[d].step \in {"idle", "open"} /\ PaperFault
    /\ \E why \in {"unauthorized", "egress_denied", "rate_limited", "storage_denied",
                    "deadline_exceeded"} :
         PaperEnd(d, why)
    /\ UNCHANGED <<inode, linked, worker, damaged, crashed>>

Open(d) ==
    /\ PaperAt(d, "open") /\ Goto(d, "ask")
    /\ inode' = File(d) :> <<>> @@ inode
    /\ temps' = temps \cup {File(d)}
    /\ UNCHANGED <<linked, worker, damaged, crashed, paperFaults>>

\* _check_response: 200 with the offered media type, a length within the bound or none.
Answer(d) ==
    /\ PaperAt(d, "ask")
    /\ \E b \in Bodies, n \in {None} \cup (0..MaxBytes) :
         paperCall' = [paperCall EXCEPT ![d].step = "copy", ![d].body = b,
                       ![d].declared = n, ![d].at = 0]
    /\ UNCHANGED <<inode, temps, linked, worker, damaged, crashed, paperFaults>>

\* Another status, media type, encoding or a length above the bound.
Unfit(d) ==
    /\ PaperAt(d, "ask") /\ PaperFault
    /\ \E why \in {"unauthorized", "document_unavailable", "unsupported_media",
                   "size_exceeded"} :
         PaperEnd(d, why)
    /\ UNCHANGED <<inode, linked, worker, damaged, crashed>>

\* 429: the temporary file goes; without a Retry-After within the deadline the download
\* is refused.  What the slot does then is PaperQuota's.
Limited(d) ==
    /\ PaperAt(d, "ask") /\ PaperFault
    /\ \/ PaperEnd(d, "rate_limited")
       \/ Goto(d, "wait") /\ temps' = temps \ {File(d)}
    /\ UNCHANGED <<inode, linked, worker, damaged, crashed>>

\* The delay has passed; three attempts at most.
Retry(d) ==
    /\ PaperAt(d, "wait")
    /\ IF paperCall[d].attempt = Attempts
       THEN PaperEnd(d, "rate_limited")
       ELSE /\ paperCall' = [paperCall EXCEPT ![d].step = "open", ![d].attempt = @ + 1]
            /\ UNCHANGED temps
    /\ UNCHANGED <<inode, linked, worker, damaged, crashed, paperFaults>>

--------------------------------------------------------------------------------
(* _copy_chunks: the loop awaits a thread per chunk *)

Chunk(d) ==
    /\ PaperAt(d, "copy") /\ paperCall[d].at < Len(paperCall[d].body)
    /\ IF paperCall[d].at = MaxBytes
       THEN PaperEnd(d, "size_exceeded") /\ UNCHANGED worker
       ELSE /\ paperCall' = [paperCall EXCEPT ![d].step = "write", ![d].at = @ + 1]
            /\ worker' = File(d) :> paperCall[d].body[paperCall[d].at + 1] @@ worker
            /\ UNCHANGED temps
    /\ UNCHANGED <<inode, linked, damaged, crashed, paperFaults>>

\* _write_chunk has its own descriptor: the thread of an abandoned download writes too.
Write(f) ==
    /\ f \in DOMAIN worker
    /\ inode' = [inode EXCEPT ![f] = Append(@, worker[f])]
    /\ worker' = Without(worker, f)
    /\ UNCHANGED <<paperCall, temps, linked, damaged, crashed, paperFaults>>

\* Fault: the loop does not await the thread.
NotAwaited(d) == TRUE
Awaited(d) == File(d) \notin DOMAIN worker

Written(d) ==
    /\ PaperAt(d, "write") /\ Awaited(d) /\ Goto(d, "copy")
    /\ UNCHANGED <<inode, temps, linked, worker, damaged, crashed, paperFaults>>

\* The connection may end early: unless a length was declared that looks like the end.
EndOfBody(d) ==
    /\ PaperAt(d, "copy")
    /\ \/ paperCall[d].at = Len(paperCall[d].body) /\ UNCHANGED paperFaults
       \/ PaperFault /\ paperCall[d].at < Len(paperCall[d].body)
    /\ paperCall' = [paperCall EXCEPT ![d].step = "check",
                     ![d].body = SubSeq(@, 1, paperCall[d].at)]
    /\ UNCHANGED <<inode, temps, linked, worker, damaged, crashed>>

\* Fault: the length is not compared.
AnyLength(d) == paperCall[d].at # 0
WholeLength(d) == paperCall[d].at # 0 /\ paperCall[d].declared \in {None, paperCall[d].at}

\* The digest header, if there is one, may differ as well.
Check(d) ==
    /\ PaperAt(d, "check")
    /\ \/ WholeLength(d) /\ Goto(d, "validate") /\ UNCHANGED <<temps, paperFaults>>
       \/ ~WholeLength(d) /\ PaperEnd(d, "integrity_failed") /\ UNCHANGED paperFaults
       \/ PaperFault /\ PaperEnd(d, "integrity_failed")
    /\ UNCHANGED <<inode, linked, worker, damaged, crashed>>

--------------------------------------------------------------------------------
(* _save *)

\* Fault: what was saved is not read again.
PaperAnyFile(d) == TRUE
Valid(d) == inode[File(d)] \in Readable

Validate(d) ==
    /\ PaperAt(d, "validate")
    /\ IF Valid(d) THEN Goto(d, "install") /\ UNCHANGED temps ELSE PaperEnd(d, "parse_failed")
    /\ UNCHANGED <<inode, linked, worker, damaged, crashed, paperFaults>>

\* _install: link, which never replaces a name.
Install(d) ==
    /\ PaperAt(d, "install")
    /\ IF paperCall[d].body \in DOMAIN linked
       THEN Goto(d, "verify") /\ UNCHANGED <<temps, linked>>
       ELSE linked' = paperCall[d].body :> File(d) @@ linked /\ PaperEnd(d, None)
    /\ UNCHANGED <<inode, worker, damaged, crashed, paperFaults>>

\* Fault: a name that exists is taken as it is.
AnyExisting(d) == TRUE
Existing(d) == inode[linked[paperCall[d].body]] = paperCall[d].body

\* _verify_existing
Verify(d) ==
    /\ PaperAt(d, "verify")
    /\ PaperEnd(d, IF Existing(d) THEN None ELSE "integrity_failed")
    /\ UNCHANGED <<inode, linked, worker, damaged, crashed, paperFaults>>

\* fail_after: every await may be the last; a thread is abandoned.
PaperDeadline(d) ==
    /\ paperCall[d].step \in {"ask", "copy", "write", "validate", "verify", "wait"}
    /\ PaperFault
    /\ PaperEnd(d, "deadline_exceeded")
    /\ UNCHANGED <<inode, linked, worker, damaged, crashed>>

--------------------------------------------------------------------------------
(* Others *)

\* The process ends: temporary files stay, and nothing removes them.
Crash ==
    /\ PaperFault /\ crashed' = TRUE
    /\ paperCall' = [d \in Downloads |->
                        IF paperCall[d].step \in {"idle", "done"} THEN paperCall[d]
                        ELSE [paperCall[d] EXCEPT !.step = "done", !.refusal = "crash"]]
    /\ worker' = <<>>
    /\ UNCHANGED <<inode, temps, linked, damaged>>

\* Someone writes to an artifact.
Damage ==
    /\ PaperFault
    /\ \E b \in DOMAIN linked :
         /\ inode' = [inode EXCEPT ![linked[b]] = Append(@, "?")]
         /\ damaged' = damaged \cup {linked[b]}
    /\ UNCHANGED <<paperCall, temps, linked, worker, crashed>>

Step(d) ==
    \/ Start(d) \/ Refuse(d) \/ Open(d) \/ Answer(d) \/ Unfit(d) \/ Limited(d) \/ Retry(d)
    \/ Chunk(d) \/ Written(d) \/ EndOfBody(d) \/ Check(d)
    \/ Validate(d) \/ Install(d) \/ Verify(d) \/ PaperDeadline(d)

PaperNext == (\E d \in Downloads : Step(d)) \/ (\E f \in Inodes : Write(f)) \/ Crash \/ Damage

PaperSpec == PaperInit /\ [][PaperNext]_paperVars

--------------------------------------------------------------------------------
(* Properties *)

\* The name of a digest leads to the bytes with that digest, readable to the end, at
\* every moment: nothing is linked before it is whole, and the threads of abandoned
\* downloads never write behind a name.
ArtifactIsWhole ==
    \A b \in DOMAIN linked :
        linked[b] \in damaged \/ (inode[linked[b]] = b /\ b \in Readable)

\* A receipt is given only for an artifact that is there, of the length declared; it
\* may be damaged only if that happened later.
ReceiptStep ==
    \A d \in Downloads :
        (paperCall[d].step # "done" /\ paperCall'[d].step = "done"
         /\ paperCall'[d].refusal = None)
            => /\ paperCall[d].body \in DOMAIN linked'
               /\ inode'[linked'[paperCall[d].body]] = paperCall[d].body
               /\ paperCall[d].declared \in {None, Len(paperCall[d].body)}

\* A download leaves no temporary file, whichever way it ends, unless the process did.
LeavesNothing ==
    ~crashed => temps \subseteq {File(d) : d \in {e \in Downloads : ~PaperAt(e, "done")}}
================================================================================
