------------------------- MODULE RunLifecycleProofs -------------------------
(***************************************************************************)
(* RunLifecycle keeps its safety properties for every set of processes and *)
(* every bound.  The properties are not inductive by themselves: a         *)
(* handler may only write to the run its process created while the session *)
(* of that run is still active, and that needs to be known of every        *)
(* program point.                                                          *)
(***************************************************************************)
EXTENDS RunLifecycle, TLAPS

Outcomes == {"finished", "finished_with_errors"}

\* The flock excludes: whoever is running holds the lock.
RunnerHoldsLock == \A p \in Procs : pc[p] # "idle" => lock = p

\* A process that has created a session refers to a used run.
RunIsUsed ==
    \A p \in Procs :
        /\ pc[p] \in RunPcs \ {"reconcile", "create_session"} =>
               run[p] \in Runs /\ run[p] < nextRun
        /\ pc[p] \in {"maintain", "reconcile", "create_session"} => run[p] = 0

\* Runs not created yet have no records; a session precedes its job.
RecordsInOrder ==
    \A r \in Runs :
        /\ r >= nextRun => session[r] = "absent"
        /\ session[r] = "absent" => job[r] = "absent"

\* The session of the run in progress, by program point.
SessionAt ==
    \A p \in Procs :
        /\ pc[p] \in {"create_job", "start"} => session[run[p]] = "open"
        /\ pc[p] \in TryBlock \cup Handlers \cup {"close"} => session[run[p]] = "running"
        /\ pc[p] = "result" => session[run[p]] = verdict[p]

\* Its job, and the transaction that holds the job's next status.
JobAt ==
    \A p \in Procs :
        /\ pc[p] = "create_job" => job[run[p]] = "absent"
        /\ batch[p] # "clean" => pc[p] \in {"execute", "commit"}
        /\ pc[p] = "execute" => batch[p] \in {"clean", "running"}
        /\ pc[p] = "commit" /\ batch[p] = "clean" => job[run[p]] = verdict[p]
        /\ pc[p] = "commit" /\ batch[p] # "clean" => batch[p] = verdict[p]
        /\ pc[p] \in {"resolve", "close", "result", "handle_session"} =>
               job[run[p]] = verdict[p]

\* The status control flow carries is one the code can write there.
VerdictAt ==
    \A p \in Procs :
        /\ pc[p] \in {"commit", "resolve", "close", "result"} => verdict[p] \in Outcomes
        /\ pc[p] \in Handlers => verdict[p] \in {"failed", "cancelled"}

IInv ==
    /\ TypeOK
    /\ RunnerHoldsLock
    /\ RunIsUsed
    /\ RecordsInOrder
    /\ SessionAt
    /\ JobAt
    /\ VerdictAt
    /\ OnlyOwnRunActive
    /\ ClosedSessionHasClosedJob
    /\ OutcomesAgree
    /\ ExitZeroIsFinished

\* IInv holds of the empty database.
LEMMA InitEstablishesIInv == Init => IInv
BY ProcsAssumption, BoundsAssumption
   DEF Init, IInv, TypeOK, RunnerHoldsLock, RunIsUsed, RecordsInOrder, SessionAt,
       JobAt, VerdictAt, OnlyOwnRunActive, ClosedSessionHasClosedJob, OutcomesAgree,
       ExitZeroIsFinished, Runs, RunPcs, PcValues, SigtermCtx, TryBlock, Handlers,
       ExitValues, SessionStatus, JobStatus, Terminal, SessionActive, JobActive, Outcomes

USE DEF Runs, RunPcs, PcValues, SigtermCtx, TryBlock, Handlers, ExitValues,
        SessionStatus, JobStatus, Terminal, SessionActive, JobActive, Outcomes,
        procVars, dbVars, Goto, Leave

\* A process may end anywhere without writing: what it leaves is still consistent.
LEMMA LeaveKeepsIInv ==
    ASSUME NEW p \in Procs, NEW how \in ExitValues \ {"ok"}, IInv,
           pc[p] # "idle", Leave(p, how), UNCHANGED <<run, dbVars>>,
           faults' \in 0..MaxFaults
    PROVE  IInv'
<1> USE ProcsAssumption, BoundsAssumption
        DEF IInv, TypeOK, RunnerHoldsLock, RunIsUsed, RecordsInOrder, SessionAt,
            JobAt, VerdictAt, OnlyOwnRunActive, ClosedSessionHasClosedJob,
            OutcomesAgree, ExitZeroIsFinished
<1>0. \A q \in Procs \ {p} : pc[q] = "idle"
  OBVIOUS
<1>1. TypeOK'
  BY <1>0
<1>2. (RunnerHoldsLock /\ RunIsUsed)'
  BY <1>0
<1>3. RecordsInOrder'
  BY <1>0
<1>4. SessionAt'
  BY <1>0
<1>5. JobAt'
  BY <1>0
<1>6. VerdictAt'
  BY <1>0
<1>7. OnlyOwnRunActive'
  BY <1>0
<1>8. (ClosedSessionHasClosedJob /\ OutcomesAgree)'
  BY <1>0
<1>9. ExitZeroIsFinished'
  BY <1>0
<1> QED
  BY <1>1, <1>2, <1>3, <1>4, <1>5, <1>6, <1>7, <1>8, <1>9

\* A handler may take over anywhere in the try block.
LEMMA RaiseKeepsIInv ==
    ASSUME NEW p \in Procs, NEW status \in {"failed", "cancelled"}, IInv,
           Raise(p, status), faults' \in 0..MaxFaults
    PROVE  IInv'
<1> USE ProcsAssumption, BoundsAssumption
        DEF IInv, TypeOK, RunnerHoldsLock, RunIsUsed, RecordsInOrder, SessionAt,
            JobAt, VerdictAt, OnlyOwnRunActive, ClosedSessionHasClosedJob,
            OutcomesAgree, ExitZeroIsFinished
<1>0. \A q \in Procs \ {p} : pc[q] = "idle"
  BY DEF Raise
<1>1. TypeOK'
  BY <1>0 DEF Raise
<1>2. (RunnerHoldsLock /\ RunIsUsed)'
  BY <1>0 DEF Raise
<1>3. RecordsInOrder'
  BY <1>0 DEF Raise
<1>4. SessionAt'
  BY <1>0 DEF Raise
<1>5. JobAt'
  BY <1>0 DEF Raise
<1>6. VerdictAt'
  BY <1>0 DEF Raise
<1>7. OnlyOwnRunActive'
  BY <1>0 DEF Raise
<1>8. (ClosedSessionHasClosedJob /\ OutcomesAgree)'
  BY <1>0 DEF Raise
<1>9. ExitZeroIsFinished'
  BY <1>0 DEF Raise
<1> QED
  BY <1>1, <1>2, <1>3, <1>4, <1>5, <1>6, <1>7, <1>8, <1>9

\* Every step of a run that is not struck by a fault keeps IInv.
LEMMA RunStepKeepsIInv ==
    ASSUME NEW p \in Procs, IInv, RunStep(p)
    PROVE  IInv'
<1> USE ProcsAssumption, BoundsAssumption
        DEF IInv, TypeOK, RunnerHoldsLock, RunIsUsed, RecordsInOrder, SessionAt,
            JobAt, VerdictAt, OnlyOwnRunActive, ClosedSessionHasClosedJob,
            OutcomesAgree, ExitZeroIsFinished
<1>1. CASE Reconcile(p)
  <2>0. \A q \in Procs \ {p} : pc[q] = "idle"
    BY <1>1 DEF Reconcile, Abandoned
  <2>1. TypeOK'
    BY <1>1, <2>0 DEF Reconcile, Abandoned
  <2>2. (RunnerHoldsLock /\ RunIsUsed)'
    BY <1>1, <2>0 DEF Reconcile, Abandoned
  <2>3. RecordsInOrder'
    BY <1>1, <2>0 DEF Reconcile, Abandoned
  <2>4. SessionAt'
    BY <1>1, <2>0 DEF Reconcile, Abandoned
  <2>5. JobAt'
    BY <1>1, <2>0 DEF Reconcile, Abandoned
  <2>6. VerdictAt'
    BY <1>1, <2>0 DEF Reconcile, Abandoned
  <2>7. OnlyOwnRunActive'
    BY <1>1, <2>0 DEF Reconcile, Abandoned
  <2>8. (ClosedSessionHasClosedJob /\ OutcomesAgree)'
    BY <1>1, <2>0 DEF Reconcile, Abandoned
  <2>9. ExitZeroIsFinished'
    BY <1>1, <2>0 DEF Reconcile, Abandoned
  <2> QED
    BY <2>1, <2>2, <2>3, <2>4, <2>5, <2>6, <2>7, <2>8, <2>9
<1>2. CASE CreateSession(p)
  <2>0. \A q \in Procs \ {p} : pc[q] = "idle"
    BY <1>2 DEF CreateSession
  <2>1. TypeOK'
    BY <1>2, <2>0 DEF CreateSession
  <2>2. (RunnerHoldsLock /\ RunIsUsed)'
    BY <1>2, <2>0 DEF CreateSession
  <2>3. RecordsInOrder'
    BY <1>2, <2>0 DEF CreateSession
  <2>4. SessionAt'
    BY <1>2, <2>0 DEF CreateSession
  <2>5. JobAt'
    BY <1>2, <2>0 DEF CreateSession
  <2>6. VerdictAt'
    BY <1>2, <2>0 DEF CreateSession
  <2>7. OnlyOwnRunActive'
    BY <1>2, <2>0 DEF CreateSession
  <2>8. (ClosedSessionHasClosedJob /\ OutcomesAgree)'
    BY <1>2, <2>0 DEF CreateSession
  <2>9. ExitZeroIsFinished'
    BY <1>2, <2>0 DEF CreateSession
  <2> QED
    BY <2>1, <2>2, <2>3, <2>4, <2>5, <2>6, <2>7, <2>8, <2>9
<1>3. CASE CreateJob(p)
  <2>0. \A q \in Procs \ {p} : pc[q] = "idle"
    BY <1>3 DEF CreateJob
  <2>1. TypeOK'
    BY <1>3, <2>0 DEF CreateJob
  <2>2. (RunnerHoldsLock /\ RunIsUsed)'
    BY <1>3, <2>0 DEF CreateJob
  <2>3. RecordsInOrder'
    BY <1>3, <2>0 DEF CreateJob
  <2>4. SessionAt'
    BY <1>3, <2>0 DEF CreateJob
  <2>5. JobAt'
    BY <1>3, <2>0 DEF CreateJob
  <2>6. VerdictAt'
    BY <1>3, <2>0 DEF CreateJob
  <2>7. OnlyOwnRunActive'
    BY <1>3, <2>0 DEF CreateJob
  <2>8. (ClosedSessionHasClosedJob /\ OutcomesAgree)'
    BY <1>3, <2>0 DEF CreateJob
  <2>9. ExitZeroIsFinished'
    BY <1>3, <2>0 DEF CreateJob
  <2> QED
    BY <2>1, <2>2, <2>3, <2>4, <2>5, <2>6, <2>7, <2>8, <2>9
<1>4. CASE StartSession(p)
  <2>0. \A q \in Procs \ {p} : pc[q] = "idle"
    BY <1>4 DEF StartSession
  <2>1. TypeOK'
    BY <1>4, <2>0 DEF StartSession
  <2>2. (RunnerHoldsLock /\ RunIsUsed)'
    BY <1>4, <2>0 DEF StartSession
  <2>3. RecordsInOrder'
    BY <1>4, <2>0 DEF StartSession
  <2>4. SessionAt'
    BY <1>4, <2>0 DEF StartSession
  <2>5. JobAt'
    BY <1>4, <2>0 DEF StartSession
  <2>6. VerdictAt'
    BY <1>4, <2>0 DEF StartSession
  <2>7. OnlyOwnRunActive'
    BY <1>4, <2>0 DEF StartSession
  <2>8. (ClosedSessionHasClosedJob /\ OutcomesAgree)'
    BY <1>4, <2>0 DEF StartSession
  <2>9. ExitZeroIsFinished'
    BY <1>4, <2>0 DEF StartSession
  <2> QED
    BY <2>1, <2>2, <2>3, <2>4, <2>5, <2>6, <2>7, <2>8, <2>9
<1>5. CASE Preflight(p)
  BY <1>5 DEF Preflight
<1>6. CASE BeginJob(p)
  BY <1>6 DEF BeginJob
<1>7. CASE Flush(p)
  <2>0. \A q \in Procs \ {p} : pc[q] = "idle"
    BY <1>7 DEF Flush
  <2>1. TypeOK'
    BY <1>7, <2>0 DEF Flush
  <2>2. (RunnerHoldsLock /\ RunIsUsed)'
    BY <1>7, <2>0 DEF Flush
  <2>3. RecordsInOrder'
    BY <1>7, <2>0 DEF Flush
  <2>4. SessionAt'
    BY <1>7, <2>0 DEF Flush
  <2>5. JobAt'
    BY <1>7, <2>0 DEF Flush
  <2>6. VerdictAt'
    BY <1>7, <2>0 DEF Flush
  <2>7. OnlyOwnRunActive'
    BY <1>7, <2>0 DEF Flush
  <2>8. (ClosedSessionHasClosedJob /\ OutcomesAgree)'
    BY <1>7, <2>0 DEF Flush
  <2>9. ExitZeroIsFinished'
    BY <1>7, <2>0 DEF Flush
  <2> QED
    BY <2>1, <2>2, <2>3, <2>4, <2>5, <2>6, <2>7, <2>8, <2>9
<1>8. CASE \E s \in {"finished", "finished_with_errors"} : FinishJob(p, s)
  BY <1>8 DEF FinishJob
<1>9. CASE CommitBatch(p)
  <2>0. \A q \in Procs \ {p} : pc[q] = "idle"
    BY <1>9 DEF CommitBatch
  <2>10. job' = [job EXCEPT ![run[p]] = verdict[p]]
    <3>1. CASE batch[p] = "clean"
      BY <1>9, <3>1 DEF CommitBatch
    <3>2. CASE batch[p] # "clean"
      BY <1>9, <3>2 DEF CommitBatch
    <3> QED
      BY <3>1, <3>2
  <2>1. TypeOK'
    BY <1>9, <2>10 DEF CommitBatch
  <2>2. (RunnerHoldsLock /\ RunIsUsed)'
    <3>1. pc' = [pc EXCEPT ![p] = "resolve"] /\ pc[p] = "commit" /\ UNCHANGED <<lock, run, nextRun>>
      BY <1>9 DEF CommitBatch
    <3> QED
      BY <3>1, <2>0
  <2>3. RecordsInOrder'
    BY <1>9, <2>0 DEF CommitBatch
  <2>4. SessionAt'
    BY <1>9, <2>0 DEF CommitBatch
  <2>5. JobAt'
    BY <1>9, <2>0 DEF CommitBatch
  <2>6. VerdictAt'
    BY <1>9, <2>0 DEF CommitBatch
  <2>7. OnlyOwnRunActive'
    BY <1>9, <2>0 DEF CommitBatch
  <2>8. (ClosedSessionHasClosedJob /\ OutcomesAgree)'
    BY <1>9, <2>0 DEF CommitBatch
  <2>9. ExitZeroIsFinished'
    BY <1>9, <2>0 DEF CommitBatch
  <2> QED
    BY <2>1, <2>2, <2>3, <2>4, <2>5, <2>6, <2>7, <2>8, <2>9
<1>10. CASE Resolve(p)
  BY <1>10 DEF Resolve
<1>11. CASE CloseSession(p)
  <2>0. \A q \in Procs \ {p} : pc[q] = "idle"
    BY <1>11 DEF CloseSession
  <2>1. TypeOK'
    BY <1>11, <2>0 DEF CloseSession
  <2>2. (RunnerHoldsLock /\ RunIsUsed)'
    BY <1>11, <2>0 DEF CloseSession
  <2>3. RecordsInOrder'
    BY <1>11, <2>0 DEF CloseSession
  <2>4. SessionAt'
    BY <1>11, <2>0 DEF CloseSession
  <2>5. JobAt'
    BY <1>11, <2>0 DEF CloseSession
  <2>6. VerdictAt'
    BY <1>11, <2>0 DEF CloseSession
  <2>7. OnlyOwnRunActive'
    BY <1>11, <2>0 DEF CloseSession
  <2>8. (ClosedSessionHasClosedJob /\ OutcomesAgree)'
    BY <1>11, <2>0 DEF CloseSession
  <2>9. ExitZeroIsFinished'
    BY <1>11, <2>0 DEF CloseSession
  <2> QED
    BY <2>1, <2>2, <2>3, <2>4, <2>5, <2>6, <2>7, <2>8, <2>9
<1>12. CASE Result(p)
  BY <1>12 DEF Result, ExitCode
<1>13. CASE Fail(p)
  BY <1>13, RaiseKeepsIInv DEF Fail
<1>14. CASE FailUnhandled(p)
  BY <1>14, LeaveKeepsIInv DEF FailUnhandled
<1>15. CASE MarkJob(p)
  <2>0. \A q \in Procs \ {p} : pc[q] = "idle"
    BY <1>15 DEF MarkJob
  <2>1. TypeOK'
    BY <1>15, <2>0 DEF MarkJob
  <2>2. (RunnerHoldsLock /\ RunIsUsed)'
    BY <1>15, <2>0 DEF MarkJob
  <2>3. RecordsInOrder'
    BY <1>15, <2>0 DEF MarkJob
  <2>4. SessionAt'
    BY <1>15, <2>0 DEF MarkJob
  <2>5. JobAt'
    BY <1>15, <2>0 DEF MarkJob
  <2>6. VerdictAt'
    BY <1>15, <2>0 DEF MarkJob
  <2>7. OnlyOwnRunActive'
    BY <1>15, <2>0 DEF MarkJob
  <2>8. (ClosedSessionHasClosedJob /\ OutcomesAgree)'
    BY <1>15, <2>0 DEF MarkJob
  <2>9. ExitZeroIsFinished'
    BY <1>15, <2>0 DEF MarkJob
  <2> QED
    BY <2>1, <2>2, <2>3, <2>4, <2>5, <2>6, <2>7, <2>8, <2>9
<1>16. CASE MarkSession(p)
  <2>0. \A q \in Procs \ {p} : pc[q] = "idle"
    BY <1>16 DEF MarkSession
  <2>1. TypeOK'
    BY <1>16, <2>0 DEF MarkSession
  <2>2. (RunnerHoldsLock /\ RunIsUsed)'
    BY <1>16, <2>0 DEF MarkSession
  <2>3. RecordsInOrder'
    BY <1>16, <2>0 DEF MarkSession
  <2>4. SessionAt'
    BY <1>16, <2>0 DEF MarkSession
  <2>5. JobAt'
    BY <1>16, <2>0 DEF MarkSession
  <2>6. VerdictAt'
    BY <1>16, <2>0 DEF MarkSession
  <2>7. OnlyOwnRunActive'
    BY <1>16, <2>0 DEF MarkSession
  <2>8. (ClosedSessionHasClosedJob /\ OutcomesAgree)'
    BY <1>16, <2>0 DEF MarkSession
  <2>9. ExitZeroIsFinished'
    BY <1>16, <2>0 DEF MarkSession
  <2> QED
    BY <2>1, <2>2, <2>3, <2>4, <2>5, <2>6, <2>7, <2>8, <2>9
<1> HIDE DEF IInv
<1> QED
  BY <1>1, <1>2, <1>3, <1>4, <1>5, <1>6, <1>7, <1>8, <1>9, <1>10, <1>11, <1>12,
     <1>13, <1>14, <1>15, <1>16 DEF RunStep

\* So does taking the lock, being refused it, maintenance, a probe of the Web
\* service, and a signal or a crash at any program point.
LEMMA OtherStepKeepsIInv ==
    ASSUME IInv,
           \/ \E p \in Procs :
                 \/ Acquire(p, "reconcile") \/ Acquire(p, "maintain") \/ Refuse(p)
                 \/ MaintainStep(p) \/ Sigterm(p) \/ Crash(p)
           \/ WebProbe \/ WebProbeDone
    PROVE  IInv'
<1> USE ProcsAssumption, BoundsAssumption
        DEF IInv, TypeOK, RunnerHoldsLock, RunIsUsed, RecordsInOrder, SessionAt,
            JobAt, VerdictAt, OnlyOwnRunActive, ClosedSessionHasClosedJob,
            OutcomesAgree, ExitZeroIsFinished, LockAvailable
<1>1. ASSUME NEW p \in Procs, NEW first \in {"reconcile", "maintain"}, Acquire(p, first)
      PROVE  IInv'
  <2>0. \A q \in Procs \ {p} : pc[q] = "idle"
    BY <1>1 DEF Acquire
  <2>1. TypeOK'
    BY <1>1, <2>0 DEF Acquire
  <2>2. (RunnerHoldsLock /\ RunIsUsed)'
    BY <1>1, <2>0 DEF Acquire
  <2>3. RecordsInOrder'
    BY <1>1, <2>0 DEF Acquire
  <2>4. SessionAt'
    BY <1>1, <2>0 DEF Acquire
  <2>5. JobAt'
    BY <1>1, <2>0 DEF Acquire
  <2>6. VerdictAt'
    BY <1>1, <2>0 DEF Acquire
  <2>7. OnlyOwnRunActive'
    BY <1>1, <2>0 DEF Acquire
  <2>8. (ClosedSessionHasClosedJob /\ OutcomesAgree)'
    BY <1>1, <2>0 DEF Acquire
  <2>9. ExitZeroIsFinished'
    BY <1>1, <2>0 DEF Acquire
  <2> QED
    BY <2>1, <2>2, <2>3, <2>4, <2>5, <2>6, <2>7, <2>8, <2>9
<1>2. ASSUME NEW p \in Procs, Refuse(p)
      PROVE  IInv'
  BY <1>2 DEF Refuse
<1>3. ASSUME NEW p \in Procs, MaintainStep(p)
      PROVE  IInv'
  BY <1>3 DEF MaintainStep, Maintain
<1>4. ASSUME NEW p \in Procs, Sigterm(p)
      PROVE  IInv'
  <2>1. faults' \in 0..MaxFaults
    BY <1>4 DEF Sigterm
  <2>2. CASE Raise(p, "cancelled")
    BY <2>1, <2>2, RaiseKeepsIInv
  <2>3. CASE pc[p] \in SigtermCtx \ TryBlock /\ Leave(p, "sigterm") /\ UNCHANGED <<run, dbVars>>
    BY <2>1, <2>3, LeaveKeepsIInv
  <2> QED
    BY <1>4, <2>2, <2>3 DEF Sigterm
<1>5. ASSUME NEW p \in Procs, Crash(p)
      PROVE  IInv'
  BY <1>5, LeaveKeepsIInv DEF Crash
<1>6. CASE WebProbe \/ WebProbeDone
  BY <1>6 DEF WebProbe, WebProbeDone
<1> HIDE DEF IInv
<1> QED
  BY <1>1, <1>2, <1>3, <1>4, <1>5, <1>6

LEMMA NextKeepsIInv == IInv /\ [Next]_vars => IInv'
<1> SUFFICES ASSUME IInv, [Next]_vars
             PROVE  IInv'
  OBVIOUS
<1>1. CASE Next
  BY <1>1, RunStepKeepsIInv, OtherStepKeepsIInv DEF Next
<1>2. CASE UNCHANGED vars
  BY <1>2 DEF vars, IInv, TypeOK, RunnerHoldsLock, RunIsUsed, RecordsInOrder,
              SessionAt, JobAt, VerdictAt, OnlyOwnRunActive,
              ClosedSessionHasClosedJob, OutcomesAgree, ExitZeroIsFinished
<1> QED
  BY <1>1, <1>2

\* The inductive invariant holds in every reachable state.
THEOREM Invariant == Spec => []IInv
BY InitEstablishesIInv, NextKeepsIInv, PTL DEF Spec

\* Every variable keeps its type.
THEOREM TypeCorrect == Spec => []TypeOK
<1>1. IInv => TypeOK
  BY DEF IInv
<1> QED
  BY <1>1, Invariant, PTL

\* cmd_run, reconcile_abandoned_runs: after its reconciliation, a run never
\* shares the database with another run that looks active.
THEOREM OnlyOwnRun == Spec => []OnlyOwnRunActive
<1>1. IInv => OnlyOwnRunActive
  BY DEF IInv
<1> QED
  BY <1>1, Invariant, PTL

\* ReviewRunService.run: sessions close after their jobs and with the job's
\* outcome, and exit code 0 is reserved for a durably finished run.
THEOREM SessionsAndJobsAgree == Spec => []RecordsAgree
<1>1. IInv => RecordsAgree
  BY DEF IInv, RecordsAgree
<1> QED
  BY <1>1, Invariant, PTL

\* The statuses of a run whose session is closed never change again.
THEOREM ClosedRunsStayFrozen == Spec => ClosedRunIsFrozen
<1> DEFINE Frozen(r) == session[r] \in Terminal =>
                            session'[r] = session[r] /\ job'[r] = job[r]
<1>1. ASSUME IInv, Next, NEW r \in Runs
      PROVE  Frozen(r)
  <2> USE DEF IInv, TypeOK, RunIsUsed, RecordsInOrder, SessionAt
  <2>1. ASSUME NEW p \in Procs, RunStep(p)
        PROVE  Frozen(r)
    <3>1. CASE Reconcile(p)
      BY <1>1, <3>1 DEF Reconcile, Abandoned
    <3>2. CASE CreateSession(p)
      BY <1>1, <3>2 DEF CreateSession
    <3>8. CASE CreateJob(p)
      BY <1>1, <3>8 DEF CreateJob
    <3>9. CASE StartSession(p)
      BY <1>1, <3>9 DEF StartSession
    <3>3. CASE \/ Preflight(p) \/ BeginJob(p) \/ Resolve(p) \/ Result(p)
               \/ Fail(p) \/ FailUnhandled(p)
               \/ \E s \in {"finished", "finished_with_errors"} : FinishJob(p, s)
      BY <1>1, <3>3 DEF Preflight, BeginJob, Resolve, Result, Fail, Raise,
                        FailUnhandled, FinishJob
    <3>4. CASE Flush(p)
      BY <1>1, <3>4 DEF Flush, JobAt
    <3>5. CASE CommitBatch(p)
      BY <1>1, <3>5 DEF CommitBatch
    <3>6. CASE CloseSession(p)
      BY <1>1, <3>6 DEF CloseSession
    <3>7. CASE MarkJob(p)
      BY <1>1, <3>7 DEF MarkJob
    <3>10. CASE MarkSession(p)
      BY <1>1, <3>10 DEF MarkSession
    <3> HIDE DEF Frozen
    <3> QED
      BY <2>1, <3>1, <3>2, <3>3, <3>4, <3>5, <3>6, <3>7, <3>8, <3>9, <3>10 DEF RunStep
  <2>2. ASSUME NEW p \in Procs,
               \/ Acquire(p, "reconcile") \/ Acquire(p, "maintain") \/ Refuse(p)
               \/ MaintainStep(p) \/ Sigterm(p) \/ Crash(p)
        PROVE  Frozen(r)
    BY <1>1, <2>2 DEF Acquire, Refuse, MaintainStep, Maintain, Sigterm, Raise, Crash
  <2>3. CASE WebProbe \/ WebProbeDone
    BY <2>3 DEF WebProbe, WebProbeDone
  <2> HIDE DEF Frozen
  <2> QED
    BY <1>1, <2>1, <2>2, <2>3 DEF Next
<1>2. IInv /\ [Next]_vars => [\A r \in Runs : Frozen(r)]_vars
  BY <1>1
<1> QED
  BY <1>2, Invariant, PTL DEF Spec, ClosedRunIsFrozen
=============================================================================
