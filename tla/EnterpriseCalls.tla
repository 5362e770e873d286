---------------------------- MODULE EnterpriseCalls ----------------------------
(* Calls of enterprise systems: the dispatch of an admitted operation, and the
   certification of the backend that serves it.

   The sections share no state: each has its own Init, Next and Spec. *)
EXTENDS Integers, Sequences, FiniteSets

--------------------------------------------------------------------------------
(* EnterpriseDispatcher: a request for an enterprise system is admitted, then read, or
   written through a governed connector whose ledger must have the receipt.  The
   authority, the admission, the reader and the writer are awaited, requests overlap,
   and what they hold, the patch of a change set, may be altered meanwhile by who is
   asked about it. *)

CONSTANTS
    Requests,
    Offers,      \* what a request may be: see Fits
    PageSize,    \* receipts of a page of the ledger
    MaxPages,    \* pages that are looked through: 100
    MaxReceipts,
    None

VARIABLES
    req,       \* each request
    ledger,    \* receipts: of which change set, with which content, applied or not
    effects    \* writes that the system made: request and content

enterpriseVars == <<req, ledger, effects>>

Fresh == [at |-> "new", offer |-> None, content |-> 1, digest |-> None, said |-> None,
          let |-> None, attempt |-> None, cursor |-> 0, pages |-> 0, end |-> None,
          receipt |-> None]

EnterpriseTypeOK ==
    /\ Len(ledger) <= MaxReceipts
    /\ \A r \in Requests : req[r].pages \in 0..MaxPages /\ req[r].cursor \in 0..Len(ledger)

EnterpriseInit == req = [r \in Requests |-> Fresh] /\ ledger = <<>> /\ effects = {}

EnterpriseEnd(r, outcome, reason, receipt) ==
              req' = [req EXCEPT ![r].at = "ended", ![r].end = <<outcome, reason>>,
                      ![r].receipt = receipt]
Refuse(r, reason) == EnterpriseEnd(r, "refused", reason, None)
Failed(r) == EnterpriseEnd(r, "failed", "backend_failed", None)

--------------------------------------------------------------------------------
(* Admission *)

\* execute works on a copy of the request.  A change set of another tenant is no request.
Execute(r, offer) ==
    /\ req[r].at = "new"
    /\ req' = [req EXCEPT ![r].at = "admission", ![r].offer = offer]
    /\ UNCHANGED <<ledger, effects>>

\* _admission_reason up to its await: the size, and the actor.
ActorMatches(offer) == offer.authenticated /\ offer.tenantOwn /\ offer.actorOwn
Admit(r) ==
    /\ req[r].at = "admission"
    /\ IF ~req[r].offer.small THEN Refuse(r, "invalid_request")
       ELSE IF ~ActorMatches(req[r].offer) THEN Refuse(r, "unauthorized")
       ELSE req' = [req EXCEPT ![r].at = "authority", ![r].digest = req[r].content]
    /\ UNCHANGED <<ledger, effects>>

\* Fault: the request is taken to be the one that was asked about.
Trusts(r) == TRUE
\* The digest again, after an await.
Unaltered(r) == req[r].digest = req[r].content

SchemaReason(offer) ==
    IF ~offer.declared THEN "unsupported_operation"
    ELSE IF ~offer.revision \/ ~offer.bound THEN "schema_mismatch" ELSE None

\* The authority answers, or fails, which is a no.
Authorize(r, answer) ==
    /\ req[r].at = "authority"
    /\ LET offer == req[r].offer
       IN  IF ~answer THEN Refuse(r, "unauthorized")
           ELSE IF ~Unaltered(r) THEN Refuse(r, "invalid_request")
           ELSE IF ~offer.company THEN Refuse(r, "unauthorized")
           ELSE IF SchemaReason(offer) # None THEN Refuse(r, SchemaReason(offer))
           ELSE req' = [req EXCEPT ![r].at = IF offer.write THEN "write" ELSE "read",
                                   ![r].said = req[r].digest]
    /\ UNCHANGED <<ledger, effects>>

--------------------------------------------------------------------------------
(* Reads *)

\* _checked_result: the result is coherent, of this request, and complete; its own
\* failure is passed on.
Read(r, answer) ==
    /\ req[r].at = "read"
    /\ CASE answer = "denied" -> Refuse(r, "unauthorized")
         [] answer = "error" -> Failed(r)
         [] answer = "other" -> Refuse(r, "schema_mismatch")
         [] answer = "failure" -> EnterpriseEnd(r, "failed", "backend_failed", None)
         [] OTHER -> EnterpriseEnd(r, "ok", None, None)
    /\ UNCHANGED <<ledger, effects>>

--------------------------------------------------------------------------------
(* Writes *)

\* _write_refusal: the change set is the actor's, for this connector and company.
WriteRefusal(offer) ==
    IF ~offer.ownChange THEN "invalid_request"
    ELSE IF ~offer.admission THEN "unsupported_operation" ELSE None
BeginWrite(r) ==
    /\ req[r].at = "write"
    /\ IF WriteRefusal(req[r].offer) # None THEN Refuse(r, WriteRefusal(req[r].offer))
       ELSE req' = [req EXCEPT ![r].at = "target", ![r].digest = req[r].content]
    /\ UNCHANGED <<ledger, effects>>

Target(r, answer) ==
    /\ req[r].at = "target"
    /\ CASE answer = "denied" -> Refuse(r, "unauthorized")
         [] answer = "error" -> Failed(r)
         [] answer = "none" -> Refuse(r, "unauthorized")
         [] OTHER -> IF ~Unaltered(r) THEN Refuse(r, "invalid_request")
                     ELSE req' = [req EXCEPT ![r].at = "apply", ![r].let = req[r].digest]
    /\ UNCHANGED <<ledger, effects>>

\* The governed writer: a change set that has been applied is not applied again; an
\* attempt is in the ledger before it is returned.  A receipt that the writer's own
\* records hold may name another actor or policy.
Matching(r, applied) ==
    {n \in DOMAIN ledger : ledger[n].change = req[r].offer.change
     /\ ledger[n].applied = applied}
Apply(r, answer) ==
    /\ req[r].at = "apply"
    /\ CASE answer = "denied" -> Refuse(r, "unauthorized") /\ UNCHANGED <<ledger, effects>>
         [] answer = "error" -> Failed(r) /\ UNCHANGED <<ledger, effects>>
         [] answer = "again" ->
              /\ Matching(r, TRUE) # {}
              /\ req' = [req EXCEPT ![r].at = "receipt",
                            ![r].attempt = [change |-> req[r].offer.change, applied |-> TRUE]]
              /\ UNCHANGED <<ledger, effects>>
         [] OTHER ->
              /\ Matching(r, TRUE) = {} /\ Len(ledger) < MaxReceipts
              /\ LET applied == answer # "rejected"
                 IN  /\ ledger' = Append(ledger, [change |-> req[r].offer.change, by |-> r,
                            actor |-> req[r].offer.who, applied |-> applied])
                     /\ effects' = IF applied THEN effects \cup {[by |-> r,
                            change |-> req[r].offer.change, content |-> req[r].content]}
                                   ELSE effects
                     /\ IF answer = "crash" THEN Failed(r)
                        ELSE req' = [req EXCEPT ![r].at = "receipt",
                                ![r].attempt = [change |-> req[r].offer.change,
                                                applied |-> applied]]

\* Fault: the newest receipt of the change set, whatever the attempt.
AnyReceipt(r, n) == ledger[n].change = req[r].offer.change
\* _receipt_matches
ReceiptMatches(r, n) ==
    /\ ledger[n].change = req[r].attempt.change /\ ledger[n].applied = req[r].attempt.applied
    /\ ledger[n].actor = req[r].offer.who

\* _find_receipt: one page of the change set's receipts, from the newest of it back.
\* The cursor is the number of the last receipt of the page.
FindReceipt(r) ==
    /\ req[r].at = "receipt"
    /\ LET own == {n \in DOMAIN ledger : n > req[r].cursor
                                          /\ ledger[n].change = req[r].offer.change}
           page == {n \in own : Cardinality({m \in own : m < n}) < PageSize}
           found == {n \in page : ReceiptMatches(r, n)}
           last == CHOOSE n \in page : \A m \in page : m <= n
       IN  IF found # {}
           THEN LET n == CHOOSE n \in found : \A m \in found : m <= n
                IN  IF ledger[n].applied THEN EnterpriseEnd(r, "ok", None, n)
                    ELSE EnterpriseEnd(r, "failed", "backend_failed", n)
           ELSE IF page = own \/ req[r].pages + 1 >= MaxPages THEN Failed(r)
           ELSE req' = [req EXCEPT ![r].cursor = last, ![r].pages = @ + 1]
    /\ UNCHANGED <<ledger, effects>>

\* Whoever is awaited may alter the patch of the request that it was given.
Alter(r) ==
    /\ req[r].at \in {"authority", "target"} /\ req[r].content = 1
    /\ req' = [req EXCEPT ![r].content = 2]
    /\ UNCHANGED <<ledger, effects>>

EnterpriseNext ==
    \E r \in Requests :
        \/ \E offer \in Offers : Execute(r, offer)
        \/ Admit(r) \/ BeginWrite(r) \/ FindReceipt(r) \/ Alter(r)
        \/ \E answer \in BOOLEAN : Authorize(r, answer)
        \/ \E answer \in {"denied", "error", "other", "failure", "own"} : Read(r, answer)
        \/ \E answer \in {"denied", "error", "none", "given"} : Target(r, answer)
        \/ \E answer \in {"denied", "error", "again", "rejected", "applied",
                          "crash"} : Apply(r, answer)

EnterpriseSpec == EnterpriseInit /\ [][EnterpriseNext]_enterpriseVars

--------------------------------------------------------------------------------
(* Properties *)

\* The system is written only with what the authority and the admission were asked
\* about, for an actor, a company and an operation in order, once per change set.
WritesAreAdmitted ==
    /\ \A e \in effects :
         LET offer == req[e.by].offer
         IN  /\ req[e.by].said = e.content /\ req[e.by].let = e.content
             /\ ActorMatches(offer) /\ offer.company /\ SchemaReason(offer) = None
             /\ offer.write /\ WriteRefusal(offer) = None
    /\ \A d, e \in effects : d.change = e.change => d = e

\* A refused request made no write; one that is answered ok has the receipt of its own
\* change set, which was applied; one that failed with a receipt was not applied by
\* that attempt.
ResultsAreTrue ==
    \A r \in Requests : req[r].at = "ended" =>
        /\ req[r].end[1] = "refused" => \A e \in effects : e.by # r
        /\ req[r].end[1] = "ok" /\ req[r].offer.write =>
             /\ req[r].receipt # None
             /\ ledger[req[r].receipt].change = req[r].offer.change
             /\ ledger[req[r].receipt].actor = req[r].offer.who
             /\ \E e \in effects : e.change = req[r].offer.change
        /\ req[r].end[1] = "failed" /\ req[r].receipt # None =>
             ~ledger[req[r].receipt].applied

--------------------------------------------------------------------------------
(***************************************************************************)
(* run_certification_job: an authorized sample goes through an optional    *)
(* provider's adapter, and what it observed comes back as a result that a  *)
(* signer has signed.  The provider and the signer are outside: each may   *)
(* fail, and answer what does not make sense.  Jobs run one after another; *)
(* the clock moves between the steps.                                      *)
(***************************************************************************)

CONSTANTS
    Jobs,           \* [ref, backend, policy, expires]
    Backends,       \* backends of the adapters there are; None: an adapter without one
    Signers,        \* [id, algorithm], or None: no signer
    Observations,   \* [status, total, passed, failed, codes, report]
    MaxTime, MaxRuns     \* bounds

VARIABLES
    now,
    run,         \* [job, adapter, signer, at, seen, result], or None
    signed,      \* ghost: the summaries signed, with the run each was signed in
    ran,         \* ghost: the adapter was called in this run
    runs

certifyVars == <<now, run, signed, ran, runs>>

Result(state, code) ==
    [state |-> state, code |-> code, report |-> None, summary |-> None]

CertifyTypeOK ==
    /\ now \in 0..MaxTime /\ runs \in 0..MaxRuns /\ ran \in BOOLEAN
    /\ run # None => /\ run.job \in Jobs
                     /\ run.at \in {"start", "bound", "observe", "sign", "end"}
                     /\ run.result # None => run.result.state \in
                          {"not_requested", "unavailable", "denied", "failed", "passed"}

CertifyInit == now = 0 /\ run = None /\ signed = {} /\ ran = FALSE /\ runs = 0

Tick ==
    /\ now < MaxTime /\ now' = now + 1
    /\ UNCHANGED <<run, signed, ran, runs>>

Begin ==
    /\ run = None \/ (run # None /\ run.at = "end")
    /\ runs < MaxRuns /\ runs' = runs + 1
    /\ \E job \in Jobs : \E adapter \in Backends : \E signer \in Signers :
         run' = [job |-> job, adapter |-> adapter, signer |-> signer, at |-> "start",
                 seen |-> None, result |-> None]
    /\ ran' = FALSE
    /\ UNCHANGED <<now, signed>>

Step(at) == run # None /\ run.at = at
CertifyEnd(result) == run' = [run EXCEPT !.at = "end", !.result = result]

\* mark_not_requested
Skip ==
    /\ Step("start") /\ CertifyEnd(Result("not_requested", None))
    /\ UNCHANGED <<now, signed, ran, runs>>

--------------------------------------------------------------------------------
(* _run_stages *)

Authorized == now < run.job.expires

Check ==
    /\ Step("start")
    /\ IF ~Authorized THEN CertifyEnd(Result("denied", "authorization_expired"))
       ELSE IF run.adapter # run.job.backend
       THEN CertifyEnd(Result("denied", "adapter_mismatch"))
       ELSE run' = [run EXCEPT !.at = "bound"]
    /\ UNCHANGED <<now, signed, ran, runs>>

\* _bounded_table: the sample is an Arrow table within the limits of its authorization.
Bound ==
    /\ Step("bound")
    /\ \/ CertifyEnd(Result("unavailable", "arrow_dependency_unavailable"))
       \/ CertifyEnd(Result("denied", "sample_limit_exceeded"))
       \/ CertifyEnd(Result("denied", "invalid_sample"))
       \/ run' = [run EXCEPT !.at = "observe"]
    /\ UNCHANGED <<now, signed, ran, runs>>

--------------------------------------------------------------------------------
(* Signing *)

\* AdapterObservation's validators; SignedResultSummary has the same.
Coherent(o) ==
    /\ o.total = o.passed + o.failed
    /\ o.status = "passed" => o.total > 0 /\ o.failed = 0 /\ o.codes = {}
    /\ o.status = "failed" => o.failed > 0 \/ o.codes # {}

Failure(code) ==
    [status |-> "failed", total |-> 0, passed |-> 0, failed |-> 0, codes |-> {code},
     report |-> None]

\* Fault: a signer of any algorithm will do.
AnySigner(signer) == TRUE
\* _signer_identity
Identified(signer) == signer.id # None /\ signer.algorithm = "ed25519"

\* _unsigned_summary
Summary(o) ==
    [job |-> run.job.ref, policy |-> run.job.policy, status |-> o.status, total |-> o.total,
     passed |-> o.passed, failed |-> o.failed, codes |-> o.codes,
     report |-> IF o.report = None THEN None ELSE o.report.ref, signer |-> run.signer]

\* _signed_result: what may come of signing an observation: a result, and the summaries
\* signed on the way.  The signer may raise, and return what is no signature.
Signings(o) ==
    IF ~Identified(run.signer)
    THEN {[result |-> Result("failed", "signer_invalid"), signed |-> {}]}
    ELSE {[result |-> Result("failed", "signer_unavailable"), signed |-> {}],
          [result |-> Result("failed", "signer_invalid"), signed |-> {}],
          [result |-> [state |-> o.status, report |-> o.report, summary |-> Summary(o),
                       code |-> IF o.codes = {} THEN None ELSE CHOOSE c \in o.codes : TRUE],
           signed |-> {Summary(o)}]}
\* _signed_failure
FailureSignings(code) ==
    IF run.signer = None
    THEN {[result |-> Result("failed", "signer_unavailable"), signed |-> {}]}
    ELSE Signings(Failure(code))

Signed(s) == {[run |-> runs, summary |-> x] : x \in s}

--------------------------------------------------------------------------------

\* _observation: what an adapter's run returns is validated, there and here.
Observed == {o \in Observations : Coherent(o)}

\* _observe.  The failure "invalid_adapter_result" is signed before the observation is
\* looked at, whatever it turns out to be.
Observe ==
    /\ Step("observe")
    /\ ran' = TRUE
    /\ \/ \* the provider is not installed
          CertifyEnd(Result("unavailable",
                            "provider_dependency_unavailable")) /\ UNCHANGED signed
       \/ \* the adapter raises
          \E s \in FailureSignings("adapter_error") :
             CertifyEnd(s.result) /\ signed' = signed \cup Signed(s.signed)
       \/ \E s \in FailureSignings("invalid_adapter_result") :
             /\ signed' = signed \cup Signed(s.signed)
             /\ \/ CertifyEnd(s.result)
                \/ \E o \in Observed :
                     run' = [run EXCEPT !.at = "sign", !.seen = o]
    /\ UNCHANGED <<now, runs>>

\* Fault: a report under another policy is passed on.
AnyPolicy == TRUE
\* A report carries the policy of the sample.
PolicyKept == run.seen.report # None => run.seen.report.policy = run.job.policy

Sign ==
    /\ Step("sign")
    /\ \E s \in IF ~PolicyKept THEN FailureSignings("policy_mismatch")
                ELSE IF run.signer = None THEN FailureSignings("signer_unavailable")
                ELSE Signings(run.seen) :
         CertifyEnd(s.result) /\ signed' = signed \cup Signed(s.signed)
    /\ UNCHANGED <<now, ran, runs>>

CertifyNext == Tick \/ Begin \/ Skip \/ Check \/ Bound \/ Observe \/ Sign

CertifySpec == CertifyInit /\ [][CertifyNext]_certifyVars

--------------------------------------------------------------------------------

Ended == run # None /\ run.at = "end"

\* CertificationResult's validators, which no result of a run may fail.
Consistent(r) ==
    /\ r.report # None => r.summary # None
    /\ r.summary # None => /\ r.state = r.summary.status /\ r.summary.job = run.job.ref
                           /\ r.report # None => r.report.ref = r.summary.report
                           /\ Coherent(r.summary)
    /\ r.state = "passed" => r.summary # None
    /\ r.state \in {"not_requested", "unavailable", "denied"} => r.summary = None

\* What a job publishes was signed in that job, by a signer of the one algorithm, says
\* what the adapter observed, and is under the sample's policy; a pass was observed.
PublishedIsSigned ==
    Ended =>
      /\ Consistent(run.result)
      /\ run.result.summary # None =>
           /\ [run |-> runs, summary |-> run.result.summary] \in signed
           /\ run.result.summary.signer.algorithm = "ed25519"
      /\ run.result.report # None => run.result.report.policy = run.job.policy
      /\ run.result.state = "passed" => run.seen # None /\ run.seen.status = "passed"

\* A sample is shown to an adapter only of the job's backend and while its authorization
\* held, and a job that was denied has neither shown nor signed anything.
DeniedShowsNothing ==
    /\ ran => run.adapter = run.job.backend
    /\ Ended /\ run.result.state \in {"denied", "not_requested"} =>
         ~ran /\ \A s \in signed : s.run # runs

\* For one job at most one verdict that is not its own failure to run is signed, and
\* it is the one returned.
OneVerdict ==
    \A s \in signed : s.run = runs /\ s.summary.total > 0 =>
        Ended /\ run.result.summary = s.summary
================================================================================
