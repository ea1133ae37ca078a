----------------------------- MODULE Moderation -----------------------------
(***************************************************************************)
(* Reports of users and their queue: a report, its job, the workers that   *)
(* triage reports into cases, and the moderators who decide the cases.     *)
(* What a transaction writes is seen by others when it commits; the claim  *)
(* of a job and its triage are one transaction, so a job under way keeps   *)
(* its old status for everybody else and is only known by its lock.  With  *)
(* MODERATION_REPORT_ASYNC_ENABLED off, which a restart may do, requests   *)
(* triage their report themselves, without a job.                          *)
(***************************************************************************)
EXTENDS Naturals

CONSTANTS
    Report,     \* reports, each with an idempotency key of its own
    Worker,     \* moderation workers, and requests that triage at once
    MaxAttempts \* MODERATION_JOB_MAX_ATTEMPTS

ASSUME ModerationAssumption == MaxAttempts \in Nat \ {0}

VARIABLES
    reportStatus, \* moderation_reports.status, "none" without a row
    enqueueing, \* requests that have committed or found the report
    job,        \* moderation_jobs.status, "none" without a row
    attempts,   \* moderation_jobs.attempts
    due,        \* jobs whose available_at has come
    cases,      \* how many cases each report has
    worker,     \* what each worker is doing
    atOnce,     \* history: reports that a request has triaged itself
    tried       \* history: failed triages of a report, counted up to MaxAttempts

moderationVars == <<reportStatus, enqueueing, job, attempts, due, cases, worker, atOnce, tried>>

NoJob == [step |-> "idle"]
WorksOn(w, r) == worker[w] # NoJob /\ worker[w].on = r
Holds(w, r) == WorksOn(w, r) /\ worker[w].step \in {"claimed", "new", "known"}
JobLocked(r) == \E w \in Worker : Holds(w, r)

ModerationTypeOK ==
    /\ reportStatus \in [Report -> {"none", "received", "triaged", "closed"}]
    /\ enqueueing \subseteq Report /\ due \subseteq Report /\ atOnce \subseteq Report
    /\ job \in [Report -> {"none", "pending", "failed", "done"}]
    /\ attempts \in [Report -> 0..MaxAttempts]
    /\ cases \in [Report -> Nat]
    /\ \A w \in Worker : worker[w] = NoJob \/
        /\ worker[w].step \in {"claimed", "new", "known", "failing", "asking", "asked"}
        /\ worker[w].on \in Report
    /\ tried \in [Report -> 0..MaxAttempts]

ModerationInit ==
    /\ reportStatus = [r \in Report |-> "none"] /\ enqueueing = {}
    /\ job = [r \in Report |-> "none"] /\ attempts = [r \in Report |-> 0] /\ due = {}
    /\ cases = [r \in Report |-> 0]
    /\ worker = [w \in Worker |-> NoJob]
    /\ atOnce = {}
    /\ tried = [r \in Report |-> 0]

Work(w, r, step) == worker' = [worker EXCEPT ![w] = [step |-> step, on |-> r]]
Rest(w) == worker' = [worker EXCEPT ![w] = NoJob]

(* The end of _triage_report: a report above the threshold is closed with a *)
(* sanction.                                                                *)
OpenCase(r) ==
    /\ cases' = [cases EXCEPT ![r] = @ + 1]
    /\ \E s \in {"triaged", "closed"} : reportStatus' = [reportStatus EXCEPT ![r] = s]

-----------------------------------------------------------------------------
(* create_report_only: a repeated request finds the report, and one that    *)
(* runs at the same time is refused by the unique index.                    *)
SubmitReport(r) == reportStatus' = [reportStatus EXCEPT ![r] = IF @ = "none" THEN "received" ELSE @]

(* create_report_and_enqueue: the report is committed first. *)
CreateReport(r) ==
    /\ r \notin enqueueing
    /\ SubmitReport(r)
    /\ enqueueing' = enqueueing \cup {r}
    /\ UNCHANGED <<job, attempts, due, cases, worker, atOnce, tried>>

EnqueueReport(r) ==
    /\ r \in enqueueing
    /\ enqueueing' = enqueueing \ {r}
    /\ IF job[r] = "none"
       THEN job' = [job EXCEPT ![r] = "pending"] /\ due' = due \cup {r}
       ELSE UNCHANGED <<job, due>>
    /\ UNCHANGED <<reportStatus, attempts, cases, worker, atOnce, tried>>

(* The process of the request dies, or the insert fails. *)
EnqueueFails(r) ==
    /\ r \in enqueueing
    /\ enqueueing' = enqueueing \ {r}
    /\ UNCHANGED <<reportStatus, job, attempts, due, cases, worker, atOnce, tried>>

(* create_report_and_case: the report is committed first here too, then the *)
(* request reads its case and opens one, and no lock keeps another request  *)
(* or a worker away meanwhile.                                              *)
SubmitAtOnce(w, r) ==
    /\ worker[w] = NoJob
    /\ SubmitReport(r)
    /\ Work(w, r, "asking")
    /\ atOnce' = atOnce \cup {r}
    /\ UNCHANGED <<enqueueing, job, attempts, due, cases, tried>>

ReadAtOnce(w, r) ==
    /\ WorksOn(w, r) /\ worker[w].step = "asking"
    /\ IF cases[r] > 0 THEN Rest(w) ELSE Work(w, r, "asked")
    /\ UNCHANGED <<reportStatus, enqueueing, job, attempts, due, cases, atOnce, tried>>

CommitAtOnce(w, r) ==
    /\ WorksOn(w, r) /\ worker[w].step = "asked"
    /\ OpenCase(r)
    /\ Rest(w)
    /\ UNCHANGED <<enqueueing, job, attempts, due, atOnce, tried>>

-----------------------------------------------------------------------------
(* process_next_report_job: FOR UPDATE SKIP LOCKED passes over the jobs     *)
(* other workers hold; of the rest it takes the oldest, any one here.       *)
ClaimJob(w, r) ==
    /\ worker[w] = NoJob
    /\ job[r] \in {"pending", "failed"} /\ r \in due
    /\ attempts[r] < MaxAttempts
    /\ ~JobLocked(r)
    /\ Work(w, r, "claimed")
    /\ UNCHANGED <<reportStatus, enqueueing, job, attempts, due, cases, atOnce, tried>>

(* Broken: does not ask whether the report has a case. *)
ReadNoCase(w, r) ==
    /\ WorksOn(w, r) /\ worker[w].step = "claimed"
    /\ Work(w, r, "new")
    /\ UNCHANGED <<reportStatus, enqueueing, job, attempts, due, cases, atOnce, tried>>

(* _triage_report begins with the case an earlier triage may have opened. *)
ReadCase(w, r) ==
    /\ WorksOn(w, r) /\ worker[w].step = "claimed"
    /\ Work(w, r, IF cases[r] > 0 THEN "known" ELSE "new")
    /\ UNCHANGED <<reportStatus, enqueueing, job, attempts, due, cases, atOnce, tried>>

(* The case, the report's status and the job are committed together.        *)
CommitTriage(w, r) ==
    /\ WorksOn(w, r) /\ worker[w].step \in {"new", "known"}
    /\ job' = [job EXCEPT ![r] = "done"]
    /\ attempts' = [attempts EXCEPT ![r] = @ + 1]
    /\ IF worker[w].step = "new"
       THEN OpenCase(r)
       ELSE UNCHANGED <<cases, reportStatus>>
    /\ Rest(w)
    /\ UNCHANGED <<enqueueing, due, atOnce, tried>>

(* An exception: the rollback undoes the claim and the attempt it counted,  *)
(* and gives the lock away ...                                              *)
TriageFails(w, r) ==
    /\ Holds(w, r)
    /\ Work(w, r, "failing")
    /\ tried' = [tried EXCEPT ![r] = IF @ = MaxAttempts THEN @ ELSE @ + 1]
    /\ UNCHANGED <<reportStatus, enqueueing, job, attempts, due, cases, atOnce>>

(* ... and the job is marked in a transaction of its own. *)
MarkFailed(w, r) ==
    /\ WorksOn(w, r) /\ worker[w].step = "failing"
    /\ ~JobLocked(r)
    /\ job' = [job EXCEPT ![r] = "failed"]
    /\ due' = due \ {r}
    /\ Rest(w)
    /\ UNCHANGED <<reportStatus, enqueueing, attempts, cases, atOnce, tried>>

(* The process dies, or the triage of a request raises: it is undone. *)
WorkerStops(w) ==
    /\ worker[w] # NoJob
    /\ Rest(w)
    /\ UNCHANGED <<reportStatus, enqueueing, job, attempts, due, cases, atOnce, tried>>

RetryComes(r) ==
    /\ job[r] = "failed" /\ r \notin due
    /\ due' = due \cup {r}
    /\ UNCHANGED <<reportStatus, enqueueing, job, attempts, cases, worker, atOnce, tried>>

(* apply_case_action, which may also find the case decided already. *)
DecideCase(r) ==
    /\ cases[r] > 0
    /\ reportStatus' = [reportStatus EXCEPT ![r] = "closed"]
    /\ UNCHANGED <<enqueueing, job, attempts, due, cases, worker, atOnce, tried>>

ModerationNext ==
    \/ \E r \in Report :
        \/ CreateReport(r) \/ EnqueueReport(r) \/ EnqueueFails(r)
        \/ RetryComes(r) \/ DecideCase(r)
        \/ \E w \in Worker :
            \/ ClaimJob(w, r) \/ ReadCase(w, r) \/ CommitTriage(w, r)
            \/ TriageFails(w, r) \/ MarkFailed(w, r)
            \/ SubmitAtOnce(w, r) \/ ReadAtOnce(w, r) \/ CommitAtOnce(w, r)
    \/ \E w \in Worker : WorkerStops(w)

ModerationSpec == ModerationInit /\ [][ModerationNext]_moderationVars

-----------------------------------------------------------------------------
(* A report that only workers triage becomes one case, and the decision     *)
(* about it is final, although a worker that failed may mark a job another  *)
(* worker has finished since, so that it is triaged again.  Of the others   *)
(* it does not hold: two copies of a request that triage their report at    *)
(* once both find no case.                                                  *)
OneCase ==
    [][\A r \in Report \ atOnce' :
        /\ cases'[r] <= 1
        /\ reportStatus[r] = "closed" => reportStatus'[r] = "closed"]_moderationVars

(* The same of every report, however it was submitted: refuted by TLC.      *)
AlwaysOneCase == [][\A r \in Report : cases'[r] <= 1]_moderationVars

(* MODERATION_JOB_MAX_ATTEMPTS bounds how often a report is tried: every    *)
(* failure was counted.  Not kept by the code: the rollback of a failed     *)
(* triage undoes the increment of attempts too.                             *)
AttemptsCounted == \A r \in Report : tried[r] <= attempts[r]
=============================================================================
