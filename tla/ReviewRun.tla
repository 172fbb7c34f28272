----------------------------- MODULE ReviewRun -----------------------------
(***************************************************************************)
(* The review pipeline over one source directory, run after run: discover, *)
(* group, score, rank and write every photo of the directory, reusing the  *)
(* rows earlier runs stored, with interruptions and failures at every      *)
(* point where the code commits something.                                 *)
(*                                                                         *)
(* Sources: app/jobs/review_photos.py (the job), app/review_runtime.py     *)
(* (its collaborators), adapters/state/processed_sqlite.py (the processed  *)
(* table and its reuse rules), adapters/state/sqlite_runtime.py (batched   *)
(* commits).  RunLifecycle shows that one such process runs at a time, so  *)
(* here the process is implicit and only its control state is kept.        *)
(*                                                                         *)
(* Photos are numbered in scoring order.  A photo's pixels are a version   *)
(* number, which stands for its size+mtime fingerprint too; a score is any *)
(* member of Scores; what a sidecar says is the group, the rank and the    *)
(* score it was written for.                                               *)
(***************************************************************************)
EXTENDS Integers, FiniteSets

CONSTANTS
    N,              \* photos
    Burst,          \* Burst[f]: the burst photo f belongs to
    Scores,         \* what the scoring engine may return
    Modes,          \* the kinds of run an operator starts
    MaxVersion,     \* bound: versions of a photo
    MaxFaults,      \* bound: failures and interruptions
    Window,         \* score_prefetch_window
    Refine,         \* focus_integrity.selective_refinement.enabled
    EditsDuringRun  \* whether photos may be replaced while a run is active

Files == 1..N

ASSUME FilesAssumption == N \in Nat /\ Window \in Nat \ {0}
\* Groups are scored one after the other.
ASSUME BurstAssumption ==
    /\ Burst \in [Files -> 1..N]
    /\ \A f, g \in Files : f < g => Burst[f] <= Burst[g]
ASSUME ScoresAssumption == Scores \subseteq Int
\* A mode: the command line's --dry-run and --reprocess, and the cache key
\* build_score_cache_key derives from configuration and models.
ASSUME ModesAssumption ==
    \A m \in Modes : m.dry \in BOOLEAN /\ m.reprocess \in BOOLEAN /\ m.key \in Int
ASSUME BoundsAssumption == MaxVersion \in Nat \ {0} /\ MaxFaults \in Nat
ASSUME SwitchesAssumption == Refine \in BOOLEAN /\ EditsDuringRun \in BOOLEAN

VARIABLES
    content,    \* content[f]: the version on disk, 0 when there is no such photo
    proc,       \* proc[f]: the photo's row of the processed table
    xmp,        \* xmp[f]: what the photo's sidecar says
    pc,         \* what the run does next, "idle" between runs
    mode,       \* the mode of the current or last run
    disc,       \* the photos the run discovered
    work,       \* work[f]: what the run holds in memory for photo f
    group,      \* the burst being finished
    rank,       \* the next rank to write in it
    errors,     \* whether a photo of the run has failed
    files,      \* files[f]: the run's job_files row as its connection sees it
    filesDb,    \* the same, as committed
    tx,         \* whether the runtime connection has a transaction open
    outcome,    \* how the last run ended
    inputs,     \* history: what happened to the photos since the run started
    torn,       \* history: photos whose sidecar is newer than their row
    faults      \* failures and interruptions so far

store   == <<proc, xmp>>
jobVars == <<files, filesDb, tx>>
history == <<inputs, torn>>
runVars == <<pc, mode, disc, work, group, rank, errors, outcome>>
vars    == <<content, store, runVars, jobVars, history, faults>>

\* What group and rank metadata a row or a sidecar carries.
NoInfo == [members |-> {}, rank |-> 0, size |-> 0, score |-> 0]
Infos  == [members : SUBSET Files, rank : 0..N, size : 0..N, score : Scores \cup {0}]

NoRow == [status |-> "none", fp |-> 0, of |-> 0, key |-> 0, score |-> 0,
          refined |-> FALSE, info |-> NoInfo]

NoWork == [stage |-> "none", score |-> 0, of |-> 0, skip |-> FALSE,
           refined |-> FALSE, prev |-> NoInfo]

NoFile == [status |-> "none", rank |-> 0]

Present == {f \in Files : content[f] > 0}

Init ==
    /\ content \in [Files -> {0, 1}]
    /\ proc = [f \in Files |-> NoRow]
    /\ xmp = [f \in Files |-> NoInfo]
    /\ pc = "idle"
    /\ mode \in Modes
    /\ disc = {}
    /\ work = [f \in Files |-> NoWork]
    /\ group = 0
    /\ rank = 0
    /\ errors = FALSE
    /\ files = [f \in Files |-> NoFile]
    /\ filesDb = files
    /\ tx = FALSE
    /\ outcome = "none"
    /\ inputs = "changed"
    /\ torn = {}
    /\ faults = 0

-----------------------------------------------------------------------------
(* Groups and ranks *)

Members(b) == {f \in disc : Burst[f] = b}
Scored(b)  == {f \in Members(b) : work[f].stage = "scored"}

\* sorted(..., reverse=True) is stable: equal scores keep the group's order.
Before(sc, g, f) == sc[g] > sc[f] \/ (sc[g] = sc[f] /\ g < f)
RankIn(S, sc, f) == 1 + Cardinality({g \in S : Before(sc, g, f)})

WorkScores == [f \in Files |-> work[f].score]

\* The group id is a digest of the group's members.
InfoOf(f) ==
    [members |-> Members(Burst[f]),
     rank    |-> RankIn(Scored(Burst[f]), WorkScores, f),
     size    |-> Cardinality(Scored(Burst[f])),
     score   |-> work[f].score]

SamePlace(i, j) == i.members = j.members /\ i.rank = j.rank /\ i.size = j.size

\* Fault: the fingerprint is not looked at.
RowIsValid_KeyOnly(f, key) == proc[f].status # "none" /\ proc[f].key = key

\* _processed_cache_row_is_valid: the file's fingerprint and the cache key.
RowIsValid(f, key) ==
    /\ proc[f].status # "none"
    /\ proc[f].fp = content[f]
    /\ proc[f].key = key

\* The results of the directory are what a complete run would leave: every
\* photo done, valid, and in the place its group's scores give it.
RowScores == [f \in Files |-> proc[f].score]

Settled(key) ==
    \A f \in Present :
        LET S == {g \in Present : Burst[g] = Burst[f]} IN
        /\ proc[f].status = "done"
        /\ RowIsValid(f, key)
        /\ proc[f].info = [members |-> S, rank |-> RankIn(S, RowScores, f),
                           size |-> Cardinality(S), score |-> proc[f].score]

-----------------------------------------------------------------------------
(* The runtime connection: rows appear in an open transaction *)

Record(f, s, r) ==
    /\ files' = [files EXCEPT ![f] = [status |-> s, rank |-> r]]
    /\ tx' = TRUE
    /\ UNCHANGED filesDb

Flush == tx' = FALSE /\ filesDb' = files /\ UNCHANGED files

\* The batch reaches its limit and commits by itself.
BatchFull ==
    /\ tx
    /\ Flush
    /\ UNCHANGED <<content, store, runVars, history, faults>>

-----------------------------------------------------------------------------
(* Discovery and grouping *)

\* The directory is listed before the run; everything present is reviewed.
StartRun(m) ==
    /\ pc = "idle"
    /\ Present # {}
    /\ pc' = "grouping"
    /\ mode' = m
    /\ disc' = Present
    /\ outcome' = "running"
    /\ files' = [f \in Files |-> NoFile]
    /\ filesDb' = [f \in Files |-> NoFile]
    /\ tx' = TRUE               \* job started, stage events
    /\ inputs' = IF Settled(m.key) /\ ~m.reprocess THEN "settled" ELSE "steady"
    /\ UNCHANGED <<content, store, work, group, rank, errors, torn, faults>>

\* group_files flushes before the Grouper writes its caches.
Group ==
    /\ pc = "grouping"
    /\ pc' = "scoring"
    /\ Flush
    /\ UNCHANGED <<content, store, mode, disc, work, group, rank, errors, outcome,
                   history, faults>>

-----------------------------------------------------------------------------
(* Scoring: workers prepare a window of photos, the main thread scores them *)

Unscored == {f \in disc : work[f].stage \notin {"scored", "failed"}}
Queue(n) == {f \in Unscored : Cardinality({g \in Unscored : g < f}) < n}
\* The photo the main thread scores next, once the window is full again.
AtHead(f) == f \in Queue(1) /\ \A g \in Queue(Window) : files[g].status # "none"

\* The main thread fills the window with prepare_score calls.
Submit ==
    /\ pc = "scoring"
    /\ \E f \in Queue(Window) : files[f].status = "none"
    /\ files' = [f \in Files |->
                    IF f \in Queue(Window) /\ files[f].status = "none"
                    THEN [status |-> "pending", rank |-> 0] ELSE files[f]]
    /\ tx' = TRUE
    /\ UNCHANGED <<content, store, runVars, filesDb, history, faults>>

Submitted(f) == /\ pc \in {"scoring", "marking"}
                /\ f \in Unscored
                /\ files[f].status = "pending"
                /\ work[f].stage = "none"

\* Fault: a reused done row does not say so.
PrepareCached_AlwaysWrites(f) ==
    /\ Submitted(f)
    /\ ~mode.reprocess
    /\ RowIsValid(f, mode.key)
    /\ work' = [work EXCEPT ![f] =
                   [stage |-> "cached", score |-> proc[f].score, of |-> proc[f].of,
                    skip |-> FALSE, refined |-> proc[f].refined, prev |-> proc[f].info]]
    /\ UNCHANGED <<content, store, pc, mode, disc, group, rank, errors, outcome,
                   jobVars, history, faults>>

\* A worker finds a valid row of an earlier run ...
PrepareCached(f) ==
    /\ Submitted(f)
    /\ ~mode.reprocess
    /\ RowIsValid(f, mode.key)
    /\ work' = [work EXCEPT ![f] =
                   [stage |-> "cached", score |-> proc[f].score, of |-> proc[f].of,
                    skip |-> proc[f].status = "done", refined |-> proc[f].refined,
                    prev |-> proc[f].info]]
    /\ UNCHANGED <<content, store, pc, mode, disc, group, rank, errors, outcome,
                   jobVars, history, faults>>

\* ... or decodes the photo, or fails to.
PrepareFrame(f) ==
    /\ Submitted(f)
    /\ mode.reprocess \/ ~RowIsValid(f, mode.key)
    /\ \/ work' = [work EXCEPT ![f].stage = "frame", ![f].of = content[f]] /\ UNCHANGED faults
       \/ /\ faults < MaxFaults
          /\ faults' = faults + 1
          /\ work' = [work EXCEPT ![f].stage = "broken"]
    /\ UNCHANGED <<content, store, pc, mode, disc, group, rank, errors, outcome,
                   jobVars, history>>

ConsumeCached(f) ==
    /\ pc = "scoring" /\ AtHead(f)
    /\ work[f].stage = "cached"
    /\ work' = [work EXCEPT ![f].stage = "scored"]
    /\ Record(f, "scored", 0)
    /\ UNCHANGED <<content, store, pc, mode, disc, group, rank, errors, outcome,
                   history, faults>>

\* A dry run scores without storing.
ConsumeDry(f, s) ==
    /\ pc = "scoring" /\ AtHead(f)
    /\ mode.dry
    /\ work[f].stage = "frame"
    /\ work' = [work EXCEPT ![f].stage = "scored", ![f].score = s]
    /\ Record(f, "scored", 0)
    /\ UNCHANGED <<content, store, pc, mode, disc, group, rank, errors, outcome,
                   history, faults>>

\* Fault: the runtime batch stays open.
ConsumeFlush_NoFlush(f, s) ==
    /\ pc = "scoring" /\ AtHead(f)
    /\ ~mode.dry
    /\ work[f].stage = "frame"
    /\ work' = [work EXCEPT ![f].score = s]
    /\ pc' = "marking"
    /\ UNCHANGED <<content, store, mode, disc, group, rank, errors, outcome, jobVars,
                   history, faults>>

\* A real run flushes the runtime batch, then stores the score.
ConsumeFlush(f, s) ==
    /\ pc = "scoring" /\ AtHead(f)
    /\ ~mode.dry
    /\ work[f].stage = "frame"
    /\ work' = [work EXCEPT ![f].score = s]
    /\ pc' = "marking"
    /\ Flush
    /\ UNCHANGED <<content, store, mode, disc, group, rank, errors, outcome, history, faults>>

\* Fault: an UPDATE, which keeps the old row's group and rank.
MarkScored_KeepsInfo(f) ==
    /\ pc = "marking" /\ AtHead(f)
    /\ proc' = [proc EXCEPT ![f] =
                   [proc[f] EXCEPT !.status = "scored", !.fp = content[f], !.of = work[f].of,
                                   !.key = mode.key, !.score = work[f].score]]
    /\ work' = [work EXCEPT ![f].stage = "scored"]
    /\ pc' = "scoring"
    /\ Record(f, "scored", 0)
    /\ UNCHANGED <<content, xmp, mode, disc, group, rank, errors, outcome, history, faults>>

\* mark_scored: INSERT OR REPLACE, so nothing of the old row survives.  The
\* fingerprint is taken now.
MarkScored(f) ==
    /\ pc = "marking" /\ AtHead(f)
    /\ proc' = [proc EXCEPT ![f] =
                   [NoRow EXCEPT !.status = "scored", !.fp = content[f], !.of = work[f].of,
                                 !.key = mode.key, !.score = work[f].score]]
    /\ work' = [work EXCEPT ![f].stage = "scored"]
    /\ pc' = "scoring"
    /\ Record(f, "scored", 0)
    /\ UNCHANGED <<content, xmp, mode, disc, group, rank, errors, outcome, history, faults>>

\* Fault: the failure is recorded but not counted.
ScoreError_Uncounted(f) ==
    /\ pc \in {"scoring", "marking"} /\ AtHead(f)
    /\ work[f].stage = "broken"
    /\ work' = [work EXCEPT ![f].stage = "failed"]
    /\ pc' = "scoring"
    /\ Record(f, "error", 0)
    /\ UNCHANGED <<content, store, mode, disc, group, rank, errors, outcome, history, faults>>

\* Fault: a photo that cannot be decoded is tried again and again.
ScoreError_Retries(f) ==
    /\ pc \in {"scoring", "marking"} /\ AtHead(f)
    /\ work[f].stage = "broken"
    /\ errors' = TRUE
    /\ Record(f, "pending", 1 - files[f].rank)
    /\ UNCHANGED <<content, store, pc, mode, disc, work, group, rank, outcome, history, faults>>

\* Decoding, scoring or storing failed: the photo drops out of its group.
ScoreError(f) ==
    /\ pc \in {"scoring", "marking"} /\ AtHead(f)
    /\ \/ work[f].stage = "broken" /\ UNCHANGED faults
       \/ /\ work[f].stage = "frame"
          /\ faults < MaxFaults
          /\ faults' = faults + 1
    /\ work' = [work EXCEPT ![f].stage = "failed"]
    /\ errors' = TRUE
    /\ pc' = "scoring"
    /\ Record(f, "error", 0)
    /\ UNCHANGED <<content, store, mode, disc, group, rank, outcome, history>>

ScoringDone ==
    /\ pc = "scoring"
    /\ Unscored = {}
    /\ pc' = "groups"
    /\ group' = 1
    /\ UNCHANGED <<content, store, mode, disc, work, rank, errors, outcome, jobVars,
                   history, faults>>

-----------------------------------------------------------------------------
(* Ranking one group *)

\* Fault: a done row is trusted whatever became of its group.
Refreshed_TrustsDone == work

\* _refresh_cached_done_write_flags: a reused done row is written again unless
\* it already records this place in this group.
Refreshed ==
    [f \in Files |->
        IF f \in Scored(group)
        THEN [work[f] EXCEPT !.skip = @ /\ SamePlace(work[f].prev, InfoOf(f))]
        ELSE work[f]]

\* refine_group tries some members it has not tried before (A), within its
\* budget.  Those that gain from it (G) are rescored from a fresh decode and are
\* then to be written; the others keep their score.
RefinedBy(w, A, G, new) ==
    [f \in Files |->
        IF f \in G
        THEN [w[f] EXCEPT !.score = new[f], !.of = content[f], !.refined = TRUE, !.skip = FALSE]
        ELSE [w[f] EXCEPT !.refined = @ \/ f \in A]]

\* finalize_group is not called for a group that needs no write at all.
Refinable == IF Refine /\ \E f \in Scored(group) : ~Refreshed[f].skip
             THEN {f \in Scored(group) : ~work[f].refined}
             ELSE {}

\* Fault: the loop over the groups runs once too often.
FinalizeGroup_OneTooMany ==
    /\ pc = "groups" /\ group <= N + 1
    /\ work' = Refreshed
    /\ rank' = 1
    /\ pc' = "writing"
    /\ UNCHANGED <<content, store, mode, disc, group, errors, outcome, jobVars,
                   history, faults>>

FinalizeGroup ==
    /\ pc = "groups" /\ group <= N
    /\ \E A \in SUBSET Refinable : \E G \in SUBSET A : \E new \in [G -> Scores] :
           work' = RefinedBy(Refreshed, A, G, new)
    /\ rank' = 1
    /\ pc' = "writing"
    /\ UNCHANGED <<content, store, mode, disc, group, errors, outcome, jobVars,
                   history, faults>>

GroupDone ==
    /\ pc = "writing"
    /\ rank > Cardinality(Scored(group))
    /\ pc' = "groups"
    /\ group' = group + 1
    /\ UNCHANGED <<content, store, mode, disc, work, rank, errors, outcome, jobVars,
                   history, faults>>

-----------------------------------------------------------------------------
(* Writing the members of the group in rank order *)

Current(f) == f \in Scored(group) /\ InfoOf(f).rank = rank

Written(f, s) ==
    /\ Record(f, s, rank)
    /\ rank' = rank + 1
    /\ pc' = "writing"

\* A reused result that needs no write, in a dry run and in a real one.
WriteSkipped(f) ==
    /\ pc = "writing" /\ Current(f)
    /\ work[f].skip
    /\ Written(f, IF mode.dry THEN "skipped" ELSE "written")
    /\ UNCHANGED <<content, store, mode, disc, work, group, errors, outcome, history, faults>>

WriteSimulated(f) ==
    /\ pc = "writing" /\ Current(f)
    /\ ~work[f].skip /\ mode.dry
    /\ Written(f, "simulated")
    /\ UNCHANGED <<content, store, mode, disc, work, group, errors, outcome, history, faults>>

\* Fault: a dry run enters the terminal write path.
WriteFlush_IgnoresDryRun(f) ==
    /\ pc = "writing" /\ Current(f)
    /\ ~work[f].skip
    /\ pc' = "publishing"
    /\ Flush
    /\ UNCHANGED <<content, store, mode, disc, work, group, rank, errors, outcome,
                   history, faults>>

\* write_file flushes the runtime batch before the terminal write path.
WriteFlush(f) ==
    /\ pc = "writing" /\ Current(f)
    /\ ~work[f].skip /\ ~mode.dry
    /\ pc' = "publishing"
    /\ Flush
    /\ UNCHANGED <<content, store, mode, disc, work, group, rank, errors, outcome,
                   history, faults>>

\* Fault: a sidecar that exists already is left as it is.
PublishSidecar_KeepsExisting(f) ==
    /\ pc = "publishing" /\ Current(f)
    /\ xmp' = [xmp EXCEPT ![f] = IF @ = NoInfo THEN InfoOf(f) ELSE @]
    /\ torn' = torn \cup {f}
    /\ pc' = "recording"
    /\ UNCHANGED <<content, proc, mode, disc, work, group, rank, errors, outcome, jobVars,
                   inputs, faults>>

\* writer.write: the sidecar is replaced.
PublishSidecar(f) ==
    /\ pc = "publishing" /\ Current(f)
    /\ xmp' = [xmp EXCEPT ![f] = InfoOf(f)]
    /\ torn' = torn \cup {f}
    /\ pc' = "recording"
    /\ UNCHANGED <<content, proc, mode, disc, work, group, rank, errors, outcome, jobVars,
                   inputs, faults>>

\* record_xmp_projection: the attempt ledger, which XmpSidecar models.
RecordProjection(f) ==
    /\ pc = "recording" /\ Current(f)
    /\ pc' = "confirming"
    /\ UNCHANGED <<content, store, mode, disc, work, group, rank, errors, outcome, jobVars,
                   history, faults>>

\* Fault: the row is stored without its cache key.
MarkDone_DropsKey(f) ==
    /\ pc = "confirming" /\ Current(f)
    /\ proc' = [proc EXCEPT ![f] =
                   [status |-> "done", fp |-> content[f], of |-> work[f].of,
                    key |-> 0, score |-> work[f].score,
                    refined |-> work[f].refined, info |-> InfoOf(f)]]
    /\ torn' = torn \ {f}
    /\ Written(f, "written")
    /\ UNCHANGED <<content, xmp, mode, disc, work, group, errors, outcome, inputs, faults>>

\* mark_done: INSERT OR REPLACE again, with a fingerprint taken now.
MarkDone(f) ==
    /\ pc = "confirming" /\ Current(f)
    /\ proc' = [proc EXCEPT ![f] =
                   [status |-> "done", fp |-> content[f], of |-> work[f].of,
                    key |-> mode.key, score |-> work[f].score,
                    refined |-> work[f].refined, info |-> InfoOf(f)]]
    /\ torn' = torn \ {f}
    /\ Written(f, "written")
    /\ UNCHANGED <<content, xmp, mode, disc, work, group, errors, outcome, inputs, faults>>

\* The writer, the ledger or the row store failed: only this photo fails.
WriteError(f) ==
    /\ pc \in {"publishing", "recording", "confirming"} /\ Current(f)
    /\ faults < MaxFaults
    /\ faults' = faults + 1
    /\ errors' = TRUE
    /\ Written(f, "error")
    /\ UNCHANGED <<content, store, mode, disc, work, group, outcome, history>>

-----------------------------------------------------------------------------
(* The end of a run *)

\* What the process held in memory is gone.
Forget ==
    /\ pc' = "idle"
    /\ work' = [f \in Files |-> NoWork]
    /\ group' = 0
    /\ rank' = 0
    /\ errors' = FALSE

FinishRun ==
    /\ pc = "groups" /\ group > N
    /\ outcome' = IF errors THEN "finished_with_errors" ELSE "finished"
    /\ Flush
    /\ Forget
    /\ UNCHANGED <<content, store, mode, disc, history, faults>>

\* SIGTERM, an exception outside the per-photo handlers, or a crash: the open
\* transaction is rolled back, the processed table and the sidecars stay.
Interrupt ==
    /\ pc # "idle"
    /\ faults < MaxFaults
    /\ faults' = faults + 1
    /\ outcome' = "interrupted"
    /\ tx' = FALSE
    /\ files' = filesDb
    /\ Forget
    /\ UNCHANGED <<content, store, mode, disc, filesDb, history>>

\* Somebody adds a photo, or replaces one by another version.
ChangePhoto(f) ==
    /\ content[f] < MaxVersion
    /\ content[f] > 0 => EditsDuringRun \/ pc = "idle"
    /\ content' = [content EXCEPT ![f] = @ + 1]
    /\ inputs' = "changed"
    /\ UNCHANGED <<store, runVars, jobVars, torn, faults>>

-----------------------------------------------------------------------------
Scoring(f) ==
    \/ PrepareCached(f) \/ PrepareFrame(f) \/ ConsumeCached(f)
    \/ \E s \in Scores : ConsumeDry(f, s) \/ ConsumeFlush(f, s)
    \/ MarkScored(f) \/ ScoreError(f)

Writing(f) ==
    \/ WriteSkipped(f) \/ WriteSimulated(f) \/ WriteFlush(f) \/ PublishSidecar(f)
    \/ RecordProjection(f) \/ MarkDone(f) \/ WriteError(f)

Work ==
    \/ Group \/ Submit \/ ScoringDone \/ FinalizeGroup \/ GroupDone \/ FinishRun
    \/ \E f \in Files : Scoring(f) \/ Writing(f)

Start == \E m \in Modes : StartRun(m)

Next ==
    \/ Start \/ Work \/ BatchFull \/ Interrupt
    \/ \E f \in Files : ChangePhoto(f)

Spec == Init /\ [][Next]_vars

\* A started run keeps working: the main thread and its workers are scheduled.
FairSpec == Spec /\ WF_vars(Work)

\* And an operator, a cron job or the Web service keeps starting runs.
RetriedSpec == FairSpec /\ WF_vars(Start)

-----------------------------------------------------------------------------
(* Properties *)

Stages   == {"none", "cached", "frame", "broken", "scored", "failed"}
FileRows == [status : {"none", "pending", "scored", "error", "written", "skipped", "simulated"},
             rank : 0..N]

TypeOK ==
    /\ content \in [Files -> 0..MaxVersion]
    /\ proc \in [Files -> [status : {"none", "scored", "done"}, fp : 0..MaxVersion,
                            of : 0..MaxVersion, key : Int, score : Scores \cup {0},
                            refined : BOOLEAN, info : Infos]]
    /\ xmp \in [Files -> Infos]
    /\ pc \in {"idle", "grouping", "scoring", "marking", "groups", "writing",
               "publishing", "recording", "confirming"}
    /\ mode \in Modes
    /\ disc \subseteq Files
    /\ work \in [Files -> [stage : Stages, score : Scores \cup {0}, of : 0..MaxVersion,
                            skip : BOOLEAN, refined : BOOLEAN, prev : Infos]]
    /\ group \in 0..(N + 1) /\ rank \in 0..(N + 1)
    /\ errors \in BOOLEAN
    /\ files \in [Files -> FileRows] /\ filesDb \in [Files -> FileRows]
    /\ tx \in BOOLEAN
    /\ outcome \in {"none", "running", "finished", "finished_with_errors", "interrupted"}
    /\ inputs \in {"settled", "steady", "changed"}
    /\ torn \subseteq Files
    /\ faults \in 0..MaxFaults

\* The processed table is never written while the runtime connection of the
\* same process has a transaction open: the write would wait for a lock its
\* own process holds.
NoSelfLock == [][proc' # proc => ~tx]_vars

\* A dry run changes neither the processed table nor a sidecar, wherever it
\* stops.
DryRunPure == [][pc # "idle" /\ mode.dry => UNCHANGED store]_vars

\* A done row vouches for what the sidecar says, except for a sidecar that was
\* replaced by a write that did not get as far as the row.
DoneMatchesSidecar ==
    \A f \in Files \ torn : proc[f].status = "done" => xmp[f] = proc[f].info

\* A row is reused for a photo only while it is a score of that photo's pixels.
ReuseIsUnchanged ==
    \A f \in Files : \A m \in Modes : RowIsValid(f, m.key) => proc[f].of = content[f]

\* A real run that reports finished, over photos nobody touched meanwhile, has
\* left every one of them done, reusable, and ranked among all members of its
\* group, whatever earlier runs, failures and interruptions had stored before.
FinishedIsSettled ==
    pc = "idle" /\ outcome = "finished" /\ ~mode.dry /\ inputs # "changed"
        => Settled(mode.key)

\* A committed status finished accounts for every photo discovered, and
\* finished_with_errors for at least one that failed.
OutcomeAccountsForFiles ==
    LET statuses == {filesDb[f].status : f \in disc} IN
    /\ outcome = "finished" => statuses \subseteq {"written", "skipped", "simulated"}
    /\ outcome = "finished_with_errors" => "error" \in statuses

\* A run over settled results scores no photo again and replaces no sidecar,
\* not even by an equal one.
RerunIsNoOp ==
    inputs = "settled" => pc \notin {"marking", "publishing", "recording", "confirming"}

\* A run comes to an end.
RunEnds == pc # "idle" ~> pc = "idle"

\* When photos stop changing and failures stop, running again and again
\* leaves the directory settled, and it stays so.
Converges == <>[](\A m \in Modes : Settled(m.key))

\* The promise of PhotoLedger about every photo.
Ledger == INSTANCE PhotoLedger WITH
    Outputs   <- Infos \ {NoInfo},
    NoOutput  <- NoInfo,
    status    <- [f \in Files |-> proc[f].status],
    confirmed <- [f \in Files |-> proc[f].info],
    sidecar   <- xmp
LedgerSpec == Ledger!Spec

\* docs/ai/modules/review-pipeline.md:59: "`written` means the configured
\* terminal writer completed".  A job file becomes written only in a step
\* that completes a write.
WrittenByWriter ==
    [][\A f \in Files : files'[f].status = "written" /\ files[f].status # "written"
            => pc = "confirming"]_vars
=============================================================================
