---------------------------- MODULE RunLifecycle ----------------------------
(***************************************************************************)
(* The life of a `material-agent run`: many short-lived command-line       *)
(* processes compete for the work directory's run.lock, and the one that   *)
(* holds it records a session and a job in the runtime database.  SIGTERM, *)
(* exceptions and crashes can strike between any two database commits.     *)
(*                                                                         *)
(* Sources: commands/scoring.py (cmd_run), commands/io.py and              *)
(* commands/db.py (maintenance commands), utils/run_control.py,            *)
(* app/review_service.py, app/job_executor.py and the session and job      *)
(* tables of adapters/state/sqlite_runtime.py.                             *)
(***************************************************************************)
EXTENDS Integers

CONSTANTS
    Procs,      \* slots for command-line processes; a slot is reused after an exit
    MaxRuns,    \* bound: how many sessions may ever be created
    MaxFaults   \* bound: how many signals and crashes may strike

ASSUME ProcsAssumption == "web" \notin Procs /\ "nobody" \notin Procs
ASSUME BoundsAssumption == MaxRuns \in Nat /\ MaxFaults \in Nat

VARIABLES
    lock,       \* who holds the flock on run.lock
    pc,         \* pc[p]: what process p does next
    run,        \* run[p]: the run process p created last, 0 when none
    batch,      \* batch[p]: job status written in the open transaction
    verdict,    \* verdict[p]: the terminal status p's control flow carries
    exit,       \* exit[p]: how the slot's last process ended
    session,    \* session[r]: committed status of run r's session
    job,        \* job[r]: committed status of run r's job
    nextRun,    \* the next unused run
    faults      \* signals and crashes so far

procVars == <<pc, run, batch, verdict, exit>>
dbVars   == <<session, job, nextRun>>
vars     == <<lock, procVars, dbVars, faults>>

Runs == 1..MaxRuns

SessionActive   == {"open", "running"}
JobActive       == {"queued", "running"}
Terminal        == {"finished", "finished_with_errors", "failed", "cancelled"}
SessionStatus   == {"absent"} \cup SessionActive \cup Terminal
JobStatus       == {"absent"} \cup JobActive \cup Terminal

\* The statements of ReviewRunService.run that its try block covers.
TryBlock   == {"preflight", "begin", "execute", "commit", "resolve"}
Handlers   == {"handle_job", "handle_session"}
\* The extent of `with sigterm_as_cancellation()` in cmd_run.
SigtermCtx == {"create_session", "create_job", "start", "close"}
                  \cup TryBlock \cup Handlers
RunPcs     == SigtermCtx \cup {"reconcile", "result"}
PcValues   == RunPcs \cup {"idle", "maintain"}
ExitValues == {"none", "ok", "error", "refused", "sigterm", "killed"}

Init ==
    /\ lock = "nobody"
    /\ pc = [p \in Procs |-> "idle"]
    /\ run = [p \in Procs |-> 0]
    /\ batch = [p \in Procs |-> "clean"]
    /\ verdict = [p \in Procs |-> "none"]
    /\ exit = [p \in Procs |-> "none"]
    /\ session = [r \in Runs |-> "absent"]
    /\ job = [r \in Runs |-> "absent"]
    /\ nextRun = 1
    /\ faults = 0

Goto(p, from, to) == pc[p] = from /\ pc' = [pc EXCEPT ![p] = to]

\* Fault: an error exit that keeps the lock.
Leave_KeepsLockOnError(p, how) ==
    /\ pc' = [pc EXCEPT ![p] = "idle"]
    /\ exit' = [exit EXCEPT ![p] = how]
    /\ batch' = [batch EXCEPT ![p] = "clean"]
    /\ verdict' = [verdict EXCEPT ![p] = "none"]
    /\ lock' = IF how = "error" THEN lock ELSE "nobody"

\* The process ends: the runtime connection closes, which rolls an open
\* transaction back, and the flock goes with the process.
Leave(p, how) ==
    /\ pc' = [pc EXCEPT ![p] = "idle"]
    /\ exit' = [exit EXCEPT ![p] = how]
    /\ batch' = [batch EXCEPT ![p] = "clean"]
    /\ verdict' = [verdict EXCEPT ![p] = "none"]
    /\ lock' = "nobody"

-----------------------------------------------------------------------------
(* run.lock *)

LockAvailable == lock = "nobody"

Acquire(p, first) ==
    /\ pc[p] = "idle"
    /\ LockAvailable
    /\ lock' = p
    /\ pc' = [pc EXCEPT ![p] = first]
    /\ run' = [run EXCEPT ![p] = 0]
    /\ exit' = [exit EXCEPT ![p] = "none"]
    /\ UNCHANGED <<batch, verdict, dbVars, faults>>

\* LOCK_NB fails: "Another material-agent run is already active".
Refuse(p) ==
    /\ pc[p] = "idle"
    /\ ~LockAvailable
    /\ exit' = [exit EXCEPT ![p] = "refused"]
    /\ run' = [run EXCEPT ![p] = 0]
    /\ UNCHANGED <<lock, pc, batch, verdict, dbVars, faults>>

\* The Web service asks whether a run is active by taking the same flock and
\* dropping it again.
WebProbe ==
    /\ LockAvailable
    /\ lock' = "web"
    /\ UNCHANGED <<procVars, dbVars, faults>>

WebProbeDone ==
    /\ lock = "web"
    /\ lock' = "nobody"
    /\ UNCHANGED <<procVars, dbVars, faults>>

\* rewrite-xmp, rewrite-commentary, reset-ai, rescore, fix-db and remap-scene
\* hold the lock but leave sessions and jobs alone.
Maintain(p, how) ==
    /\ pc[p] = "maintain"
    /\ Leave(p, how)
    /\ UNCHANGED <<run, dbVars, faults>>

-----------------------------------------------------------------------------
(* The run, up to the review job *)

\* Fault: sessions that died before they were started are overlooked.
Abandoned_RunningOnly(r) == session[r] = "running"

\* Fault: every session but a finished one counts as abandoned.
Abandoned_Unfinished(r) == session[r] \notin {"absent", "finished"}

\* The session was left open or running by a process that is gone.
Abandoned(r) == session[r] \in SessionActive

\* reconcile_abandoned_runs: one commit closes every session left active,
\* and the active jobs that belong to one.
Reconcile(p) ==
    /\ Goto(p, "reconcile", "create_session")
    /\ job' = [r \in Runs |->
                  IF Abandoned(r) /\ job[r] \in JobActive THEN "cancelled" ELSE job[r]]
    /\ session' = [r \in Runs |-> IF Abandoned(r) THEN "cancelled" ELSE session[r]]
    /\ UNCHANGED <<lock, run, batch, verdict, exit, nextRun, faults>>

CreateSession(p) ==
    /\ nextRun \in Runs
    /\ Goto(p, "create_session", "create_job")
    /\ session' = [session EXCEPT ![nextRun] = "open"]
    /\ run' = [run EXCEPT ![p] = nextRun]
    /\ nextRun' = nextRun + 1
    /\ UNCHANGED <<lock, batch, verdict, exit, job, faults>>

CreateJob(p) ==
    /\ Goto(p, "create_job", "start")
    /\ job' = [job EXCEPT ![run[p]] = "queued"]
    /\ UNCHANGED <<lock, run, batch, verdict, exit, session, nextRun, faults>>

StartSession(p) ==
    /\ Goto(p, "start", "preflight")
    /\ session' = [session EXCEPT ![run[p]] = "running"]
    /\ UNCHANGED <<lock, run, batch, verdict, exit, job, nextRun, faults>>

Preflight(p) ==
    /\ Goto(p, "preflight", "begin")
    /\ UNCHANGED <<lock, run, batch, verdict, exit, dbVars, faults>>

-----------------------------------------------------------------------------
(* The review job, inside batched_commits *)

\* The first stage update: status running, in the open transaction.
BeginJob(p) ==
    /\ Goto(p, "begin", "execute")
    /\ batch' = [batch EXCEPT ![p] = "running"]
    /\ UNCHANGED <<lock, run, verdict, exit, dbVars, faults>>

\* flush_pending_writes before a processed-state write, or the batch filling up.
Flush(p) ==
    /\ pc[p] \in {"execute", "commit"}
    /\ batch[p] # "clean"
    /\ job' = [job EXCEPT ![run[p]] = batch[p]]
    /\ batch' = [batch EXCEPT ![p] = "clean"]
    /\ UNCHANGED <<lock, pc, run, verdict, exit, session, nextRun, faults>>

\* Fault: the summary of a job with failed files still says finished.
FinishJob_CleanSummary(p, s) ==
    /\ s \in {"finished", "finished_with_errors"}
    /\ Goto(p, "execute", "commit")
    /\ batch' = [batch EXCEPT ![p] = s]
    /\ verdict' = [verdict EXCEPT ![p] = "finished"]
    /\ UNCHANGED <<lock, run, exit, dbVars, faults>>

\* The final stage update; the job's summary carries the same status.
FinishJob(p, s) ==
    /\ s \in {"finished", "finished_with_errors"}
    /\ Goto(p, "execute", "commit")
    /\ batch' = [batch EXCEPT ![p] = s]
    /\ verdict' = [verdict EXCEPT ![p] = s]
    /\ UNCHANGED <<lock, run, exit, dbVars, faults>>

\* batched_commits ends: the rest of the transaction is committed.
CommitBatch(p) ==
    /\ Goto(p, "commit", "resolve")
    /\ job' = [job EXCEPT ![run[p]] = IF batch[p] = "clean" THEN @ ELSE batch[p]]
    /\ batch' = [batch EXCEPT ![p] = "clean"]
    /\ UNCHANGED <<lock, run, verdict, exit, session, nextRun, faults>>

\* _resolve_session_status; after it control leaves the try block.
Resolve(p) ==
    /\ Goto(p, "resolve", "close")
    /\ UNCHANGED <<lock, run, batch, verdict, exit, dbVars, faults>>

\* The session takes the status the job's summary reported.
CloseSession(p) ==
    /\ Goto(p, "close", "result")
    /\ session' = [session EXCEPT ![run[p]] = verdict[p]]
    /\ UNCHANGED <<lock, run, batch, verdict, exit, job, nextRun, faults>>

\* get_job_result decides the exit code; then the lock is released.
ExitCode(status) == IF status \in {"failed", "finished_with_errors", "cancelled"}
                    THEN "error" ELSE "ok"

Result(p) ==
    /\ pc[p] = "result"
    /\ Leave(p, ExitCode(job[run[p]]))
    /\ UNCHANGED <<run, dbVars, faults>>

-----------------------------------------------------------------------------
(* Exceptions, signals, crashes *)

\* Fault: the handler has no status to record.
Raise_NoStatus(p, status) ==
    /\ pc[p] \in TryBlock
    /\ pc' = [pc EXCEPT ![p] = "handle_job"]
    /\ batch' = [batch EXCEPT ![p] = "clean"]
    /\ UNCHANGED <<lock, run, verdict, exit, dbVars>>

\* A BaseException leaves batched_commits: roll back, enter a handler.
Raise(p, status) ==
    /\ pc[p] \in TryBlock
    /\ pc' = [pc EXCEPT ![p] = "handle_job"]
    /\ verdict' = [verdict EXCEPT ![p] = status]
    /\ batch' = [batch EXCEPT ![p] = "clean"]
    /\ UNCHANGED <<lock, run, exit, dbVars>>

\* An Exception inside the try block: preflight, grouping, the database.
Fail(p) == Raise(p, "failed") /\ pc[p] # "resolve" /\ UNCHANGED faults

\* An exception elsewhere has no handler.  So does one inside a handler.
FailUnhandled(p) ==
    /\ pc[p] \in {"create_session", "create_job", "start", "close", "result"} \cup Handlers
    /\ Leave(p, "error")
    /\ UNCHANGED <<run, dbVars, faults>>

MarkJob(p) ==
    /\ Goto(p, "handle_job", "handle_session")
    /\ job' = [job EXCEPT ![run[p]] = verdict[p]]
    /\ UNCHANGED <<lock, run, batch, verdict, exit, session, nextRun, faults>>

MarkSession(p) ==
    /\ pc[p] = "handle_session"
    /\ session' = [session EXCEPT ![run[p]] = verdict[p]]
    /\ Leave(p, IF verdict[p] = "cancelled" THEN "sigterm" ELSE "error")
    /\ UNCHANGED <<run, job, nextRun, faults>>

\* SIGTERM raises RunCancelled: handled inside the try block, and only
\* propagated from the statements before and after it and from a handler.
Sigterm(p) ==
    /\ faults < MaxFaults
    /\ faults' = faults + 1
    /\ \/ Raise(p, "cancelled")
       \/ /\ pc[p] \in SigtermCtx \ TryBlock
          /\ Leave(p, "sigterm")
          /\ UNCHANGED <<run, dbVars>>

\* SIGKILL, SIGTERM outside the context, loss of power.
Crash(p) ==
    /\ faults < MaxFaults
    /\ faults' = faults + 1
    /\ pc[p] # "idle"
    /\ Leave(p, "killed")
    /\ UNCHANGED <<run, dbVars>>

-----------------------------------------------------------------------------
RunStep(p) ==
    \/ Reconcile(p) \/ CreateSession(p) \/ CreateJob(p) \/ StartSession(p)
    \/ Preflight(p) \/ BeginJob(p) \/ Flush(p)
    \/ \E s \in {"finished", "finished_with_errors"} : FinishJob(p, s)
    \/ CommitBatch(p) \/ Resolve(p) \/ CloseSession(p) \/ Result(p)
    \/ Fail(p) \/ FailUnhandled(p) \/ MarkJob(p) \/ MarkSession(p)

MaintainStep(p) == \E how \in {"ok", "error"} : Maintain(p, how)

Next ==
    \/ \E p \in Procs :
          \/ Acquire(p, "reconcile") \/ Acquire(p, "maintain") \/ Refuse(p)
          \/ RunStep(p) \/ MaintainStep(p)
          \/ Sigterm(p) \/ Crash(p)
    \/ WebProbe \/ WebProbeDone

Spec == Init /\ [][Next]_vars

\* A process that holds the lock keeps running, and so does the Web service
\* between taking the lock and dropping it.  Nobody is obliged to start one.
ProcessFairness ==
    /\ \A p \in Procs : WF_vars(RunStep(p)) /\ WF_vars(MaintainStep(p))
    /\ WF_vars(WebProbeDone)

\* An operator who keeps starting runs until one gets the lock.
OperatorFairness == SF_vars(\E p \in Procs : Acquire(p, "reconcile"))

FairSpec    == Spec /\ ProcessFairness
RetriedSpec == FairSpec /\ OperatorFairness

-----------------------------------------------------------------------------
(* Properties *)

TypeOK ==
    /\ lock \in Procs \cup {"nobody", "web"}
    /\ pc \in [Procs -> PcValues]
    /\ run \in [Procs -> 0..MaxRuns]
    /\ batch \in [Procs -> {"clean", "running", "finished", "finished_with_errors"}]
    /\ verdict \in [Procs -> Terminal \cup {"none"}]
    /\ exit \in [Procs -> ExitValues]
    /\ session \in [Runs -> SessionStatus]
    /\ job \in [Runs -> JobStatus]
    /\ nextRun \in 1..(MaxRuns + 1)
    /\ faults \in 0..MaxFaults

\* Once the process that holds the lock has reconciled, the only session the
\* database shows as open or running is that process's own: whatever earlier
\* processes left behind, and wherever they died, is closed.
OnlyOwnRunActive ==
    \A p \in Procs : \A r \in Runs :
        pc[p] \in RunPcs \ {"reconcile"} /\ session[r] \in SessionActive => r = run[p]

\* No job is left queued or running under a closed session, in whatever order
\* handlers, reconciliation and crashes interleave: such a job would be
\* invisible to reconciliation for ever.
ClosedSessionHasClosedJob ==
    \A r \in Runs : session[r] \in Terminal => job[r] \notin JobActive

\* A session that reports an outcome of the pipeline reports the outcome of
\* its job: partial failures are never collapsed into a clean finish.
OutcomesAgree ==
    \A r \in Runs :
        session[r] \in {"finished", "finished_with_errors", "failed"} => job[r] = session[r]

\* Exit code 0 of a run is only ever given to a run whose session and job are
\* both durably finished without errors.
ExitZeroIsFinished ==
    \A p \in Procs :
        pc[p] = "idle" /\ exit[p] = "ok" /\ run[p] # 0 =>
            session[run[p]] = "finished" /\ job[run[p]] = "finished"

\* What the database says of a run is consistent, and what the exit code says
\* of it too.
RecordsAgree == ClosedSessionHasClosedJob /\ OutcomesAgree /\ ExitZeroIsFinished

\* No later run, handler or reconciliation changes the record of a run whose
\* session is closed.
ClosedRunIsFrozen ==
    [][\A r \in Runs : session[r] \in Terminal =>
          session'[r] = session[r] /\ job'[r] = job[r]]_vars

\* The lock is always given back: no path through handlers keeps it.
LockReleased == \A p \in Procs : lock = p ~> lock # p

\* When runs keep being started, a session abandoned by a dead process is
\* closed eventually.
AbandonedIsClosed ==
    \A r \in Runs : session[r] \in SessionActive ~> session[r] \notin SessionActive

\* Neither the lock nor a record is left behind for good by whatever ended.
NothingLeftBehind == LockReleased /\ AbandonedIsClosed

\* docs/ai/modules/review-pipeline.md:91-92: "SIGTERM produces durable
\* `cancelled` state with bounded shutdown".  A process that a SIGTERM ended
\* after it had created its session has recorded the session as cancelled.
SigtermIsDurablyCancelled ==
    \A p \in Procs :
        pc[p] = "idle" /\ exit[p] = "sigterm" /\ run[p] # 0 =>
            session[run[p]] = "cancelled"
=============================================================================
