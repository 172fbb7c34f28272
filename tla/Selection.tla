----------------------------- MODULE Selection -----------------------------
(***************************************************************************)
(* Quality and selection of the photos of a group: the review finalizes    *)
(* groups, `rescore` judges the stored rows again under another policy,    *)
(* for every scene or for one.  The quality decision is stored beside the  *)
(* selection, which may keep one photo of a group that has no other keep.  *)
(*                                                                         *)
(* Sources: domain/layered_decision.py, app/rescore_service.py,            *)
(* app/review_runtime.py (finalize_group), processed_sqlite.py (rows).     *)
(***************************************************************************)
EXTENDS Integers, FiniteSets

CONSTANTS
    Shoot,          \* the photos, as numbers: their order is the path order
    SceneOf,        \* the scene of each photo
    Partitions,     \* the ways in which a run may group them
    Scores,         \* total scores
    Ceiling,        \* above every score
    Policies,       \* decision policies: the thresholds for keep and review
    MaxRounds       \* bound: runs, rescores and configuration changes

ASSUME SelectionAssumption ==
    /\ Shoot \subseteq Nat /\ Shoot # {} /\ IsFiniteSet(Shoot)
    /\ Scores \subseteq Nat /\ Scores # {}
    /\ Ceiling \in Nat /\ \A s \in Scores: s < Ceiling
    /\ Policies # {} /\ \A p \in Policies: p.keep \in Nat /\ p.review \in 0..p.keep
    /\ MaxRounds \in Nat
    /\ \A P \in Partitions: UNION P = Shoot

VARIABLES
    measured,   \* measured[f]: the stored signals: a score and a hard defect;
                \* whether scoring ended early, with a screening rejection
    rows,       \* rows[f]: the row of the processed state
    policy, coverage,   \* the configuration: thresholds, best_candidate_review
    rounds,
    judgedBy,   \* the policy that last judged the quality of the photo
    settled     \* how the photo's group was last selected as a whole

selectionVars == <<measured, rows, policy, coverage, rounds, judgedBy, settled>>

Decisions == {"keep", "review", "reject"}
NoGroup == {}
Row == [group: SUBSET Shoot, quality: Decisions \union {"none"}, decision: Decisions]

(* Who rejects whatever it is shown: pixel, fast and blur screening.       *)
Screening == [keep |-> Ceiling, review |-> Ceiling]

SelectionTypeOK ==
    /\ measured \in [Shoot -> [score: Scores, defect: BOOLEAN, screened: BOOLEAN]]
    /\ rows \in [Shoot -> Row]
    /\ policy \in Policies /\ coverage \in BOOLEAN
    /\ rounds \in 0..MaxRounds
    /\ judgedBy \in [Shoot -> Policies \union {Screening}]
    /\ settled \in [Shoot -> {"no", "covered", "plain"}]

(* summarize_signals: a hard defect rejects, else the thresholds decide.   *)
Quality(p, f) ==
    IF measured[f].defect \/ measured[f].score < p.review THEN "reject"
    ELSE IF measured[f].score < p.keep THEN "review"
    ELSE "keep"

(* compute_scores: a screening rejection overrides the policy, in this run *)
(* only: the row keeps the signals and the decision, not why.              *)
Judge(f) == IF measured[f].screened THEN Screening ELSE policy

(* mark_scored writes a whole row: no group, no old facts.                 *)
ScoredRow(f) == [group |-> NoGroup, quality |-> "none", decision |-> Quality(Judge(f), f)]

SelectionInit ==
    /\ measured \in [Shoot -> [score: Scores, defect: BOOLEAN, screened: BOOLEAN]]
    /\ policy \in Policies /\ coverage \in BOOLEAN
    /\ rows = [f \in Shoot |-> ScoredRow(f)]
    /\ rounds = 0
    /\ judgedBy = [f \in Shoot |-> Judge(f)]
    /\ settled = [f \in Shoot |-> "no"]

Mates(f) == IF rows[f].group = NoGroup THEN {f}
            ELSE {g \in Shoot: rows[g].group = rows[f].group}

(* Fault: it starts from the stored selection.                             *)
StoredQuality_Selection(f) == rows[f].decision

(* apply_group_best_candidate_review starts from the stored quality.       *)
StoredQuality(f) == IF rows[f].quality = "none" THEN rows[f].decision ELSE rows[f].quality
Better(f, g) ==
    \/ measured[f].score > measured[g].score
    \/ measured[f].score = measured[g].score /\ f < g
Selected(quality, group, on, f) ==
    IF on /\ (\A g \in group: quality[g] # "keep") /\ \A g \in group \ {f}: Better(f, g)
    THEN "keep" ELSE quality[f]

Round == rounds < MaxRounds /\ rounds' = rounds + 1

(* Groups that lose a member or are written in part are settled no longer. *)
Unsettled(touched) == UNION {Mates(f): f \in touched}
Settle(touched, whole, how) ==
    settled' = [f \in Shoot |-> IF f \in whole THEN how
                                ELSE IF f \in Unsettled(touched) THEN "no" ELSE settled[f]]

(* A run scores a photo anew.  One that fails leaves the row as it was.    *)
Score(f) ==
    /\ Round
    /\ rows' = [rows EXCEPT ![f] = ScoredRow(f)]
    /\ judgedBy' = [judgedBy EXCEPT ![f] = Judge(f)]
    /\ Settle({f}, {}, "no")
    /\ UNCHANGED <<measured, policy, coverage>>

(* finalize_group and write_file: a member that failed is missing and its  *)
(* row may still show the group; the run may end, or the write of a        *)
(* sidecar fail, before every row is written.                              *)
Finalize(G) ==
    /\ Round
    /\ LET quality == [f \in Shoot |-> StoredQuality(f)] IN
       \E members \in (SUBSET G) \ {{}}: \E written \in SUBSET members:
          /\ rows' = [f \in Shoot |->
                IF f \in written
                THEN [group |-> G, quality |-> quality[f],
                      decision |-> Selected(quality, members, coverage, f)]
                ELSE rows[f]]
          /\ Settle(members \union {f \in Shoot: rows[f].group = G},
                    IF {f \in Shoot: rows'[f].group = G} = members /\ written = members
                    THEN written ELSE {},
                    IF coverage THEN "covered" ELSE "plain")
    /\ UNCHANGED <<measured, policy, coverage, judgedBy>>

(* RescoreService.run: the rows of the scenes are judged anew.  With       *)
(* coverage the other members of their groups are selected again too, from *)
(* the quality that is stored.                                             *)
Rescore(scenes) ==
    /\ Round
    /\ LET chosen == {f \in Shoot: SceneOf[f] \in scenes}
           touched == IF coverage THEN Unsettled(chosen) ELSE chosen
           quality == [f \in Shoot |-> IF f \in chosen THEN Quality(policy, f)
                                       ELSE StoredQuality(f)] IN
       /\ chosen # {}
       /\ rows' = [f \in Shoot |->
             IF f \in touched
             THEN [rows[f] EXCEPT !.quality = quality[f],
                      !.decision = Selected(quality, Mates(f), coverage, f)]
             ELSE rows[f]]
       /\ judgedBy' = [f \in Shoot |-> IF f \in chosen THEN policy ELSE judgedBy[f]]
       /\ Settle(touched, touched, IF coverage THEN "covered" ELSE "plain")
    /\ UNCHANGED <<measured, policy, coverage>>

(* The user edits the configuration.                                       *)
Configure ==
    /\ Round
    /\ policy' \in Policies /\ coverage' \in BOOLEAN
    /\ UNCHANGED <<measured, rows, judgedBy, settled>>

SelectionNext ==
    \/ \E f \in Shoot: Score(f)
    \/ \E P \in Partitions: \E G \in P: Finalize(G)
    \/ Rescore({SceneOf[f]: f \in Shoot})
    \/ \E f \in Shoot: Rescore({SceneOf[f]})
    \/ Configure

SelectionSpec == SelectionInit /\ [][SelectionNext]_selectionVars

-----------------------------------------------------------------------------
(* Selection can be replayed: where a group was last selected as a whole,  *)
(* its decisions follow from the stored signals and the policies that      *)
(* judged them, with one keep by coverage at most and only where quality   *)
(* kept nobody.  No earlier fallback, regrouping, partial write, missing   *)
(* member or scene-wise rescore leaves a trace.                            *)
SelectionFollowsQuality ==
    LET quality == [f \in Shoot |-> Quality(judgedBy[f], f)] IN
    \A f \in Shoot:
        /\ settled[f] = "covered" => rows[f].decision = Selected(quality, Mates(f), TRUE, f)
        /\ settled[f] = "plain" => rows[f].decision = quality[f]
=============================================================================
