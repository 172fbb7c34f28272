---------------------------- MODULE OMLXHarness ----------------------------
(***************************************************************************)
(* The comparison of candidate models on the shared desktop oMLX runtime.  *)
(* For each candidate the harness runs the review command, which writes    *)
(* the candidate into the runtime's two settings files and restarts it     *)
(* when they changed; at the end the original models are put back and the  *)
(* candidates ranked.  The runtime is a process of its own: it loads the   *)
(* active models when it starts and may die, hang or start late.           *)
(*                                                                         *)
(* Sources: app/omlx_harness_service.py, app/omlx_instance_service.py,     *)
(* adapters/models/omlx/instance.py and probe.py, commands/scoring.py.     *)
(***************************************************************************)
EXTENDS Integers, Sequences

CONSTANTS
    Candidates,     \* the models to compare, in order
    Original,       \* the active models of the user's own configuration
    Samples,        \* how many photos each candidate reviews
    MaxTroubles     \* bound: how often the runtime or a review fails

ASSUME HarnessAssumption ==
    /\ Samples \in Nat \ {0} /\ MaxTroubles \in Nat
    /\ Len(Candidates) > 0 /\ Original # {}

VARIABLES
    active,     \* settings.json: the active models
    pinned,     \* model_settings.json: the pinned models
    runtime,    \* the desktop runtime: whether it answers, what it loaded
    catalogued, \* it lists every installed model instead of the loaded ones
    harness,    \* where the harness is, and the report so far
    outlived,   \* the runtime has once outlived the wait for its exit
    troubles

harnessVars == <<active, pinned, runtime, catalogued, harness, outlived, troubles>>

Wanted(k) == IF k > Len(Candidates) THEN Original ELSE {Candidates[k]}
Everything == Original \union {Candidates[k]: k \in 1..Len(Candidates)}
ModelSets == {Wanted(k): k \in 1..Len(Candidates) + 1}

(* The harness is at its k-th candidate; k = Len(Candidates) + 1 restores. *)
Restoring == harness.k > Len(Candidates)
HarnessStates == {"sync", "pin", "decide", "stop", "open", "review", "collect",
                  "restored", "failed", "over"}

Results == [mismatch: BOOLEAN, drift: BOOLEAN, errors: 0..Samples, done: 0..Samples,
            by: ModelSets \union {{}}]

HarnessTypeOK ==
    /\ active \in ModelSets /\ pinned \in ModelSets
    /\ runtime \in [up: BOOLEAN, loaded: ModelSets]
    /\ catalogued \in BOOLEAN
    /\ harness.at \in HarnessStates
    /\ harness.k \in 1..Len(Candidates) + 1
    /\ harness.changed \in BOOLEAN
    /\ harness.rows \in [db: BOOLEAN, errors: 0..Samples, done: 0..Samples,
                        by: ModelSets \union {{}}]
    /\ harness.results \in Seq(Results)
    /\ outlived \in BOOLEAN /\ troubles \in 0..MaxTroubles

NoRows == [db |-> FALSE, errors |-> 0, done |-> 0, by |-> {}]

HarnessInit ==
    /\ active = Original /\ pinned = Original
    /\ runtime \in [up: BOOLEAN, loaded: {Original}]
    /\ catalogued \in BOOLEAN
    /\ harness = [at |-> "sync", k |-> 1, changed |-> FALSE, rows |-> NoRows, results |-> <<>>]
    /\ outlived = FALSE /\ troubles = 0

Trouble == troubles < MaxTroubles /\ troubles' = troubles + 1 /\ UNCHANGED outlived
Calm == UNCHANGED <<troubles, outlived>>
At(s) == harness.at = s
To(s) == harness' = [harness EXCEPT !.at = s]

(* What an exception of the command leads to: the candidate's run is over, *)
(* or the restoration has failed.                                          *)
Raised == IF Restoring THEN "failed" ELSE "collect"

(* sync_omlx_shared_runtime: first the settings, then the pins.            *)
SyncSettings ==
    /\ At("sync")
    /\ active' = Wanted(harness.k)
    /\ harness' = [harness EXCEPT !.at = "pin", !.rows = NoRows,
                                  !.changed = active # Wanted(harness.k)]
    /\ Calm /\ UNCHANGED <<pinned, runtime, catalogued>>

SyncPins ==
    /\ At("pin")
    /\ pinned' = Wanted(harness.k)
    /\ harness' = [harness EXCEPT !.at = "decide",
                                  !.changed = @ \/ pinned # Wanted(harness.k)]
    /\ Calm /\ UNCHANGED <<active, runtime, catalogued>>

(* The probe of a running server: linked models come from settings.json,   *)
(* served models from the server.                                          *)
Served == IF catalogued THEN Everything ELSE runtime.loaded
Drift(k) == active # Wanted(k)
SetMatches(k) == runtime.up /\ active = Wanted(k) /\ active \subseteq Served

(* The review command restarts the runtime after a change or when nothing  *)
(* answers.                                                                *)
Decide ==
    /\ At("decide") /\ ~Restoring
    /\ To(IF harness.changed \/ ~runtime.up THEN "stop" ELSE "review")
    /\ Calm /\ UNCHANGED <<active, pinned, runtime, catalogued>>

(* Fault: the restoration restarts a runtime that does not answer.         *)
DecideRestore_OnlyIfDown ==
    /\ At("decide") /\ Restoring
    /\ To(IF ~runtime.up THEN "stop" ELSE "restored")
    /\ Calm /\ UNCHANGED <<active, pinned, runtime, catalogued>>

(* The restoration looks for drift too.                                    *)
DecideRestore ==
    /\ At("decide") /\ Restoring
    /\ To(IF harness.changed \/ ~runtime.up \/ Drift(harness.k) THEN "stop" ELSE "restored")
    /\ Calm /\ UNCHANGED <<active, pinned, runtime, catalogued>>

(* restart_shared: SIGTERM to the app and its server, and ten seconds for  *)
(* them to exit.                                                           *)
Stop ==
    /\ At("stop")
    /\ runtime' = [runtime EXCEPT !.up = FALSE]
    /\ To("open")
    /\ Calm /\ UNCHANGED <<active, pinned, catalogued>>

StopTimesOut ==
    /\ At("stop") /\ runtime.up
    /\ troubles < MaxTroubles /\ troubles' = troubles + 1
    /\ outlived' = TRUE
    /\ To(Raised)
    /\ UNCHANGED <<active, pinned, runtime, catalogued>>

(* The app is opened and has thirty seconds to become ready.               *)
Open ==
    /\ At("open")
    /\ runtime' = [up |-> TRUE, loaded |-> active]
    /\ To(IF Restoring THEN "restored" ELSE "review")
    /\ Calm /\ UNCHANGED <<active, pinned, catalogued>>

(* It starts late, or not at all.                                          *)
OpenTimesOut ==
    /\ At("open")
    /\ Trouble
    /\ runtime' \in {[up |-> TRUE, loaded |-> active], [runtime EXCEPT !.up = FALSE]}
    /\ To(Raised)
    /\ UNCHANGED <<active, pinned, catalogued>>

(* The runtime probe and the review: nothing is scored when the probe      *)
(* fails; otherwise photos are done by whatever models are loaded, or end  *)
(* in errors, and a run may stop half-way.                                 *)
Review ==
    /\ At("review") /\ runtime.up
    /\ \E done \in 0..Samples: \E errors \in 0..Samples - done:
          /\ IF done = Samples THEN Calm ELSE Trouble
          /\ harness' = [harness EXCEPT !.at = "collect",
                !.rows = [db |-> TRUE, errors |-> errors, done |-> done, by |-> runtime.loaded]]
    /\ UNCHANGED <<active, pinned, runtime, catalogued>>

ProbeFails ==
    /\ At("review") /\ ~runtime.up
    /\ harness' = [harness EXCEPT !.at = "collect", !.rows = [NoRows EXCEPT !.db = TRUE]]
    /\ Calm /\ UNCHANGED <<active, pinned, runtime, catalogued>>

(* _collect_result: without a database everything but the error count is   *)
(* left at its default.                                                    *)
Result ==
    IF ~harness.rows.db
    THEN [mismatch |-> FALSE, drift |-> FALSE, errors |-> Samples, done |-> 0, by |-> {}]
    ELSE [mismatch |-> ~SetMatches(harness.k), drift |-> Drift(harness.k),
          errors |-> harness.rows.errors, done |-> harness.rows.done, by |-> harness.rows.by]

Collect ==
    /\ At("collect")
    /\ harness' = [harness EXCEPT !.at = "sync", !.k = @ + 1,
                                  !.results = Append(@, Result)]
    /\ Calm /\ UNCHANGED <<active, pinned, runtime, catalogued>>

(* The summary is written with the ranking and the restore summary.        *)
Report ==
    /\ At("restored")
    /\ To("over")
    /\ Calm /\ UNCHANGED <<active, pinned, runtime, catalogued>>

RuntimeDies ==
    /\ runtime.up /\ harness.at # "over"
    /\ Trouble
    /\ runtime' = [runtime EXCEPT !.up = FALSE]
    /\ UNCHANGED <<active, pinned, catalogued, harness>>

HarnessNext ==
    \/ SyncSettings \/ SyncPins \/ Decide \/ DecideRestore
    \/ Stop \/ StopTimesOut \/ Open \/ OpenTimesOut
    \/ Review \/ ProbeFails \/ Collect \/ Report
    \/ RuntimeDies

HarnessSpec == HarnessInit /\ [][HarnessNext]_harnessVars

-----------------------------------------------------------------------------
(* A restoration that is reported as done, without drift, is one: the      *)
(* runtime, when it runs, has loaded the models of the user's own          *)
(* configuration, whatever failed while the candidates were compared.  The *)
(* exception is a runtime that outlived a restart: its settings say what   *)
(* it should have loaded, and nobody asks it what it has.                  *)
RestoredIsOriginal ==
    harness.at = "over" /\ runtime.up /\ ~outlived => runtime.loaded = Original

(* A result that reports neither mismatch nor drift was measured on the    *)
(* candidate, not on the models of the user, of the candidate before or of *)
(* a runtime that missed a restart; again with the exception of a runtime  *)
(* that outlived one.                                                      *)
MeasuredOnCandidate ==
    ~outlived => \A k \in DOMAIN harness.results:
        LET result == harness.results[k] IN
        result.done > 0 /\ ~result.mismatch /\ ~result.drift => result.by = {Candidates[k]}

(* What the report of the harness says is so.                              *)
ReportIsTrue == RestoredIsOriginal /\ MeasuredOnCandidate
=============================================================================
