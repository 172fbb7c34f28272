---------------------------- MODULE ScorePolicy ----------------------------
(***************************************************************************)
(* How measurements become signals, signals a total score and a decision,  *)
(* and how `rescore` does it again from the stored signals alone.  Scores  *)
(* are hundredths of a point; the code rounds to two decimals wherever     *)
(* Rounded is used here.                                                     *)
(*                                                                         *)
(* Sources: domain/scoring_engine.py, layered_decision.py,                 *)
(* aesthetic_calibration.py, scorers/aggregator.py, app/rescore_service.py.*)
(***************************************************************************)
EXTENDS Integers, Sequences, FiniteSets, Functions

CONSTANTS
    Dims,           \* AESTHETIC_DIMS, as measured by the vision model
    Measurements,   \* what the scorers and models may say of a photo
    Settings        \* configurations

VARIABLES
    seen,           \* what they say of this photo
    settings,       \* the configuration in force
    scored,         \* the configuration of its last run
    judged,         \* the configuration of its last run or rescore
    verdict         \* its row and its stored signals

(* A CPU scorer is enabled, the vision scorers are all enabled or none.    *)
ASSUME PolicyAssumption ==
    /\ Measurements # {} /\ Settings # {}
    /\ \A m \in Measurements: \E d \in {"exposure", "sharpness"}: m.cpu[d] # -1

policyVars == <<seen, settings, scored, judged, verdict>>

None == -1
Full == 1000        \* ten points

Rounded(x, d) == (x + d \div 2) \div d
Clamped(low, x) == IF x < low THEN low ELSE IF x > Full THEN Full ELSE x
Total(values) == FoldFunction(+, 0, values)

(* _mean_known and _average. *)
MeanKnown(values) ==
    LET known == SelectSeq(values, LAMBDA v: v # None)
    IN IF known = <<>> THEN None ELSE Rounded(Total(known), Len(known))

(* _coalesce. *)
FirstKnown(values) ==
    LET known == SelectSeq(values, LAMBDA v: v # None)
    IN IF known = <<>> THEN 0 ELSE Head(known)

(* Aggregator.aggregate: a score below its own minimum caps the mean.      *)
Pixels(m, s) ==
    LET cpu == {d \in {"exposure", "sharpness"}: m.cpu[d] # None}
        mean == Rounded(Total([d \in cpu |-> m.cpu[d] * s.weight[d]]),
                      Total([d \in cpu |-> s.weight[d]]))
        caps == {s.floor[d]: d \in {e \in cpu: m.cpu[e] < s.floor[e]}}
    IN IF cpu = {} THEN 0
       ELSE CHOOSE x \in caps \union {mean}: \A y \in caps \union {mean}: x <= y

(* compute_scores: a photo may be rejected for a catastrophic blur, for    *)
(* its pixels or by the fast model, before the vision models see it.       *)
Stage(m, s) ==
    IF m.cpu["sharpness"] # None /\ m.cpu["sharpness"] < s.guard THEN "guard"
    ELSE IF s.screening /\ Pixels(m, s) < s.tier1 THEN "pixel"
    ELSE IF s.screening /\ s.vision /\ m.fast # None /\ m.fast < s.tier2 THEN "fast"
    ELSE "full"

Vision(m, s) == Stage(m, s) = "full" /\ s.vision
Scene(m, s) == IF Vision(m, s) THEN m.scene ELSE "other"

-----------------------------------------------------------------------------
(* calibrate_aesthetic_score: the profile of a surely detected object goes *)
(* before that of the scene and the default; one with labels enough before *)
(* the others.  `target' is "" when the detection is not at hand.          *)
Labelled(key, s) ==
    /\ key # "" /\ key \in DOMAIN s.calibration.profiles
    /\ s.calibration.profiles[key].labelled
Profile(scene, target, confidence, s) ==
    IF ~s.calibration.enabled THEN "none"
    ELSE IF confidence >= s.calibration.confidence /\ Labelled(target, s) THEN target
    ELSE IF Labelled(scene, s) THEN scene
    ELSE IF Labelled("default", s) THEN "default" ELSE "none"

(* The detection's confidence blends the profile of an object.             *)
Calibrated(raw, scene, target, confidence, s) ==
    LET value == Clamped(100, raw)
        key == Profile(scene, target, confidence, s)
        profile == s.calibration.profiles[key]
        moved == Clamped(100, Rounded(100 * s.calibration.pivot + 100 * profile.offset
                                    + profile.scale * (value - s.calibration.pivot), 100))
        blend == IF target # "" /\ key = target THEN confidence ELSE 100
    IN IF key = "none" THEN value
       ELSE Clamped(100, Rounded(100 * value + blend * (moved - value), 100))

(* _build_layered_signals. *)
Clarity(m, s) == IF Vision(m, s) THEN m.clarity ELSE None
Exposure(m, s) == IF Vision(m, s) /\ m.cpu["exposure"] # None THEN m.lit ELSE m.cpu["exposure"]
FocusIntegrity(m, s) ==
    IF Stage(m, s) = "guard" THEN m.cpu["sharpness"]
    ELSE IF Vision(m, s) /\ s.measure /\ m.focus # None THEN m.focus
    ELSE MeanKnown(<<m.cpu["sharpness"], Clarity(m, s)>>)
ClarityProxy(m, s) == IF Clarity(m, s) # None THEN Clarity(m, s) ELSE FocusIntegrity(m, s)
Technical(m, s) == MeanKnown(<<Exposure(m, s), FocusIntegrity(m, s), ClarityProxy(m, s)>>)

Signals(m, s) ==
    LET fast == s.screening /\ s.vision /\ Stage(m, s) \in {"fast", "full"} /\ m.fast # None
        learned == Vision(m, s) /\ m.learned # None IN
    [technical |-> Technical(m, s),
     subject |-> FocusIntegrity(m, s),
     prior |-> IF fast THEN m.fast ELSE Technical(m, s),
     portrait |-> IF Vision(m, s) /\ s.measure /\ s.portrait /\ m.scene = "people" THEN m.eye ELSE None,
     dims |-> [d \in Dims |-> IF Vision(m, s) THEN m.dims[d] ELSE None],
     raw |-> IF learned THEN m.learned ELSE None,
     effective |-> IF learned
                   THEN Calibrated(m.learned, m.scene, m.target, m.confidence, s) ELSE None]

-----------------------------------------------------------------------------
(* summarize_signals. *)
Weights(scene, s) == IF scene \in DOMAIN s.weights THEN s.weights[scene] ELSE s.weights["default"]

Aesthetic(sig, scene, s) ==
    LET available == {d \in Dims: sig.dims[d] # None /\ Weights(scene, s)[d] > 0}
        weighted == [d \in available |-> sig.dims[d] * Weights(scene, s)[d]]
    IN IF sig.effective # None THEN sig.effective
       ELSE IF available = {} THEN 0
       ELSE Rounded(Total(weighted), Total([d \in available |-> Weights(scene, s)[d]]))

(* _compute_weakness_penalty: the two weakest aesthetic dimensions count,  *)
(* unless a model has judged the whole.                                    *)
Short(limit, value) == IF value < limit THEN limit - value ELSE 0
Penalty(sig, scene, technical, subject, s) ==
    LET ranked == IF sig.effective # None THEN {}
                  ELSE {d \in Dims: sig.dims[d] > 0 /\ Weights(scene, s)[d] > 0}
        weakest(R) == CHOOSE d \in R: \A e \in R: sig.dims[d] <= sig.dims[e]
        first == IF ranked = {} THEN 0 ELSE Short(650, sig.dims[weakest(ranked)])
        second == IF Cardinality(ranked) < 2 THEN 0
                  ELSE Short(550, sig.dims[weakest(ranked \ {weakest(ranked)})])
    IN Rounded(18 * first + 8 * second + 12 * Short(600, technical) + 10 * Short(600, subject), 100)

Decision(total, technical, subject, portrait, s) ==
    IF technical < s.hardTechnical \/ subject < s.hardFocus \/ total < s.review THEN "reject"
    ELSE IF total < s.keep \/ (portrait # None /\ portrait < 450) THEN "review"
    ELSE "keep"

Summary(sig, scene, s) ==
    LET technical == FirstKnown(<<sig.technical, sig.portrait>>)
        subject == FirstKnown(<<sig.subject, sig.portrait, technical>>)
        prior == FirstKnown(<<sig.prior, technical>>)
        base == Rounded(25 * technical + 15 * subject + s.priorWeight * prior
                      + (60 - s.priorWeight) * Aesthetic(sig, scene, s), 100)
        reached == base - Penalty(sig, scene, technical, subject, s)
        total == Clamped(0, reached)
    IN [total |-> total, stars |-> (total + 100) \div 200,
        decision |-> Decision(total, technical, subject, sig.portrait, s)]

(* compute_scores as a whole: a screening rejection keeps the total of its *)
(* few signals and overrides their decision.                               *)
Judgement(m, s) ==
    LET summary == Summary(Signals(m, s), Scene(m, s), s)
    IN IF Stage(m, s) = "full" THEN summary ELSE [summary EXCEPT !.decision = "reject"]

-----------------------------------------------------------------------------
PolicyTypeOK ==
    /\ seen \in Measurements
    /\ settings \in Settings /\ scored \in Settings /\ judged \in Settings
    /\ verdict.summary \in [total: 0..Full, stars: 0..5, decision: {"keep", "review", "reject"}]
    /\ verdict.scene \in {m.scene: m \in Measurements} \union {"other"}
    /\ verdict.signals.dims \in [Dims -> None..Full]
    /\ \A k \in {"technical", "subject", "prior", "portrait", "raw", "effective"}:
          verdict.signals[k] \in None..Full

(* mark_scored keeps what the run found. *)
Found(m, s) == [summary |-> Judgement(m, s), signals |-> Signals(m, s), scene |-> Scene(m, s)]

PolicyInit ==
    /\ seen \in Measurements /\ settings \in Settings
    /\ scored = settings /\ judged = settings
    /\ verdict = Found(seen, settings)

ScorePhoto ==
    /\ scored' = settings /\ judged' = settings
    /\ verdict' = Found(seen, settings)
    /\ UNCHANGED <<seen, settings>>

ChangeSettings ==
    /\ settings' \in Settings
    /\ UNCHANGED <<seen, scored, judged, verdict>>

(* Fault: it calibrates the calibrated score once more.                    *)
Recalibrated_Effective(sig, scene) ==
    [sig EXCEPT !.effective = IF sig.raw = None THEN None
                              ELSE Calibrated(sig.effective, scene, "", 0, settings)]

(* calibrate_signals_for_rescore: from the raw score, without detection.   *)
Recalibrated(sig, scene) ==
    [sig EXCEPT !.effective = IF sig.raw = None THEN None
                              ELSE Calibrated(sig.raw, scene, "", 0, settings)]

(* RescoreService.run for one photo: nothing is measured again, and the    *)
(* stored signals stay as they are.                                        *)
RescorePhoto ==
    /\ LET sig == Recalibrated(verdict.signals, verdict.scene) IN
       verdict' = [verdict EXCEPT !.summary = Summary(sig, verdict.scene, settings)]
    /\ judged' = settings
    /\ UNCHANGED <<seen, settings, scored>>

PolicyNext == ScorePhoto \/ RescorePhoto \/ ChangeSettings

PolicySpec == PolicyInit /\ [][PolicyNext]_policyVars

-----------------------------------------------------------------------------
(* The settings that decide what is measured, not how it is judged.        *)
Measuring(s) == <<s.measure, s.guard, s.vision, s.portrait, s.screening, s.tier1, s.tier2,
                  s.weight, s.floor>>

(* Rescore stays consistent with the run: the total, the stars and the     *)
(* decision are those that a run would have found then, whatever changed   *)
(* in thresholds, weights and calibration before and however often it was  *)
(* rescored.  The exceptions: settings that decide what is measured have   *)
(* changed; the run rejected the photo by a screening, which the row does  *)
(* not record; a run would calibrate by the object it detects.             *)
RescoreIsARun ==
    /\ Measuring(judged) = Measuring(scored)
    /\ Stage(seen, judged) = "full"
    /\ Profile(seen.scene, seen.target, seen.confidence, judged) # seen.target
    => verdict.summary = Judgement(seen, judged)
=============================================================================
