--------------------------- MODULE LocalBenchmark ---------------------------
(***************************************************************************)
(* The benchmark of the local client: a manifest of labelled photos is     *)
(* scored several times by one client, whose result caches are emptied     *)
(* before every repetition; the scores of all repetitions are compared,    *)
(* and the metrics are those of the first.                                 *)
(*                                                                         *)
(* Source: app/local_benchmark_service.py.                                 *)
(***************************************************************************)
EXTENDS Integers, Sequences, FiniteSets
LOCAL INSTANCE SequencesExt
LOCAL INSTANCE FiniteSetsExt
LOCAL INSTANCE Functions

CONSTANTS
    Manifests,          \* manifests somebody may write
    Answers,            \* what the models may say of a photo
    Repetitions,        \* repeat_count
    RejectBelow,        \* reject_threshold
    PriorRejectBelow    \* quality_reject_threshold

ASSUME LocalBenchmarkAssumption ==
    /\ Repetitions \in Nat \ {0} /\ RejectBelow \in Int
    /\ \A m \in Manifests:
         /\ IsFiniteSet(DOMAIN m.items) /\ \A i \in DOMAIN m.items: m.items[i].id \in Int
         /\ IsFiniteSet(DOMAIN m.pairs) /\ IsFiniteSet(DOMAIN m.preferred)
    /\ \A a \in Answers: a.score \in Int

VARIABLES
    trialrun,       \* the benchmark
    recalled,       \* the client's result caches, by photo
    fresh           \* history: what the models said in each repetition

localBenchVars == <<trialrun, recalled, fresh>>

ItemIds(m) == {m.items[i].id: i \in DOMAIN m.items}
ItemOf(m, id) == m.items[CHOOSE i \in DOMAIN m.items: m.items[i].id = id]

(* Ids are unique, every image exists, preferences name two known photos,  *)
(* and the preferred photo of a group is in that group.                    *)
GoodManifest(m) ==
    /\ m.items # <<>>
    /\ \A i \in DOMAIN m.items: m.items[i].there
    /\ \A i, j \in DOMAIN m.items: i # j => m.items[i].id # m.items[j].id
    /\ \A i \in DOMAIN m.pairs: /\ m.pairs[i][1] # m.pairs[i][2]
                                /\ {m.pairs[i][1], m.pairs[i][2]} \subseteq ItemIds(m)
    /\ \A g \in DOMAIN m.preferred:
         m.preferred[g] \in ItemIds(m) /\ ItemOf(m, m.preferred[g]).group = g

-----------------------------------------------------------------------------
(* The metrics, of a manifest m and the results of one repetition.         *)

NotMeasured == [total |-> 0]
RatioOf(hits, total) == IF total = 0 THEN NotMeasured ELSE [hits |-> hits, total |-> total]
Share(of, Test(_)) == RatioOf(Cardinality({x \in of: Test(x)}), Cardinality(of))

(* The highest score of a group; of two the same, the later id.            *)
Foremost(m, results, g) ==
    CHOOSE id \in ItemIds(m):
      /\ ItemOf(m, id).group = g
      /\ \A o \in ItemIds(m): ItemOf(m, o).group = g =>
           \/ results[o].score < results[id].score
           \/ results[o].score = results[id].score /\ o <= id

GroupTopOne(m, results) ==
    Share(DOMAIN m.preferred, LAMBDA g: Foremost(m, results, g) = m.preferred[g])

(* Fault: a tie counts for the preferred photo.                            *)
Wins_Tie(value, pair) == value[pair[1]] >= value[pair[2]]
Wins(value, pair) == value[pair[1]] > value[pair[2]]
Pairwise(m, value) == Share(DOMAIN m.pairs, LAMBDA i: Wins(value, m.pairs[i]))

(* A role's metrics exist only when every photo has that role's score.     *)
RoleScores(results, role) ==
    [id \in {i \in DOMAIN results: role \in DOMAIN results[i].roles} |-> results[id].roles[role]]
EveryPhoto(results, role) == DOMAIN RoleScores(results, role) = DOMAIN results
RolePairwise(m, results, role) ==
    IF EveryPhoto(results, role) THEN Pairwise(m, RoleScores(results, role)) ELSE NotMeasured

ToReject(m) == {id \in ItemIds(m): ItemOf(m, id).reject = "yes"}
Recall(m, value, below) ==
    [recall |-> Share(ToReject(m), LAMBDA id: value[id] < below),
     missed |-> Cardinality({id \in ToReject(m): value[id] >= below})]

(* The nearest other photo by embedding, the first in the manifest's order.*)
Nearest(m, results, id) ==
    LET others == SelectSeq(m.items, LAMBDA i: i.id # id)
        near(i) == results[id].near[i.id]
        best == Max({near(others[k]): k \in DOMAIN others})
    IN others[Min({k \in DOMAIN others: near(others[k]) = best})].id
EmbeddingTopOne(m, results) ==
    LET shared == {id \in ItemIds(m): \E o \in ItemIds(m) \ {id}:
                                        ItemOf(m, o).group = ItemOf(m, id).group}
    IN IF Cardinality(ItemIds(m)) < 2 \/ \E id \in DOMAIN results: DOMAIN results[id].near = {}
       THEN NotMeasured
       ELSE Share(shared, LAMBDA id: ItemOf(m, Nearest(m, results, id)).group
                                       = ItemOf(m, id).group)

Faces(m, results) ==
    LET labelled == {id \in ItemIds(m): ItemOf(m, id).face # "unlabelled"}
    IN IF \E id \in DOMAIN results: results[id].face = "unknown"
       THEN [recall |-> NotMeasured, accuracy |-> NotMeasured]
       ELSE [recall |-> Share({id \in labelled: ItemOf(m, id).face = "yes"},
                              LAMBDA id: results[id].face = "yes"),
             accuracy |-> Share(labelled, LAMBDA id: results[id].face = ItemOf(m, id).face)]

(* The distance between the worst photo and the best screenshot.           *)
Separation(m, results) ==
    LET scores(of) == {results[id].score: id \in of}
        shots == {id \in ItemIds(m): ItemOf(m, id).nonPhoto}
        photos == ItemIds(m) \ shots
    IN IF shots = {} \/ photos = {} THEN {} ELSE {Min(scores(photos)) - Max(scores(shots))}

ScoreOf(results) == [id \in DOMAIN results |-> results[id].score]
MetricsOf(m, results) ==
    LET prior == RoleScores(results, "reject_prior")
        scenes == {id \in ItemIds(m): ItemOf(m, id).scene # ""}
    IN [groups |-> GroupTopOne(m, results),
        pairs |-> Pairwise(m, ScoreOf(results)),
        rejects |-> Recall(m, ScoreOf(results), RejectBelow),
        scenes |-> Share(scenes, LAMBDA id: results[id].scene = ItemOf(m, id).scene),
        other |-> Share(DOMAIN results, LAMBDA id: results[id].scene = "other"),
        faces |-> Faces(m, results),
        separation |-> Separation(m, results),
        prior |-> IF EveryPhoto(results, "reject_prior")
                  THEN Recall(m, prior, PriorRejectBelow)
                  ELSE [recall |-> NotMeasured, missed |-> -1],
        quality |-> RolePairwise(m, results, "quality"),
        aesthetic |-> RolePairwise(m, results, "aesthetic"),
        embedding |-> EmbeddingTopOne(m, results)]

-----------------------------------------------------------------------------
LocalBenchInit ==
    /\ trialrun = [at |-> "start"]
    /\ recalled = [id \in {} |-> TRUE]
    /\ fresh = <<>>

(* A bad manifest is refused before anything is scored.                    *)
LoadManifest ==
    /\ trialrun.at = "start"
    /\ \E m \in Manifests:
         trialrun' = IF GoodManifest(m)
                     THEN [at |-> "repeat", manifest |-> m, results |-> <<>>]
                     ELSE [at |-> "refused"]
    /\ UNCHANGED <<recalled, fresh>>

(* Fault: the caches are kept from one repetition to the next.             *)
CachesAfter_Kept == recalled
CachesAfter == [id \in {} |-> TRUE]

(* One repetition: the caches are emptied, filled by the batched calls,    *)
(* and every photo is scored from them.                                    *)
Repetition ==
    /\ trialrun.at = "repeat" /\ Len(trialrun.results) < Repetitions
    /\ \E said \in [ItemIds(trialrun.manifest) -> Answers]:
         LET known == CachesAfter
             results == [id \in DOMAIN said |-> IF id \in DOMAIN known THEN known[id] ELSE said[id]]
         IN /\ recalled' = results
            /\ trialrun' = [trialrun EXCEPT !.results = Append(@, results)]
            /\ fresh' = Append(fresh, said)

Told(results) == [id \in DOMAIN results |-> <<results[id].score, results[id].scene>>]
StableScores(repetitions) == \A r \in DOMAIN repetitions: Told(repetitions[r]) = Told(repetitions[1])

(* The report, and the exit code that says whether the scores are stable.  *)
ReportBenchmark ==
    /\ trialrun.at = "repeat" /\ Len(trialrun.results) = Repetitions
    /\ trialrun' = [at |-> "reported", manifest |-> trialrun.manifest,
                    stable |-> StableScores(trialrun.results),
                    metrics |-> MetricsOf(trialrun.manifest, trialrun.results[1])]
    /\ UNCHANGED <<recalled, fresh>>

LocalBenchNext == LoadManifest \/ Repetition \/ ReportBenchmark

LocalBenchSpec == LocalBenchInit /\ [][LocalBenchNext]_localBenchVars

-----------------------------------------------------------------------------
LocalBenchTypeOK ==
    /\ trialrun.at \in {"start", "refused", "repeat", "reported"}
    /\ trialrun.at # "start" => Len(fresh) <= Repetitions
    /\ Range(recalled) \subseteq Answers

(* Scores reported as stable are what the models said every time, not an   *)
(* answer remembered from the first repetition                             *)
(* (local_benchmark_service.py:121-133).                                   *)
StableMeansRepeated ==
    trialrun.at = "reported" /\ trialrun.stable =>
      \A r \in DOMAIN fresh: Told(fresh[r]) = Told(fresh[1])

(* The photos of its group that the preferred one was compared with, and   *)
(* those it could be compared with.                                        *)
Opponents(m, g) ==
    {m.pairs[i][2]: i \in {i \in DOMAIN m.pairs: /\ m.pairs[i][1] = m.preferred[g]
                                                 /\ ItemOf(m, m.pairs[i][2]).group = g}}
Rivals(m, g) == {id \in ItemIds(m): ItemOf(m, id).group = g} \ {m.preferred[g]}

(* The metrics agree with one another: a preferred photo that wins every   *)
(* pair of its group leads the group; whoever leads its group loses no     *)
(* pair in it; and each reject is found or missed.                         *)
MetricsAgree ==
    trialrun.at = "reported" =>
      LET m == trialrun.manifest
          told == fresh[1]
          all == Cardinality(DOMAIN m.pairs)
      IN /\ all > 0 => trialrun.metrics.pairs.hits \in 0..all
         /\ all > 0 /\ trialrun.metrics.pairs.hits = all /\ DOMAIN m.preferred # {} =>
              ((\A g \in DOMAIN m.preferred: Opponents(m, g) = Rivals(m, g)) =>
                trialrun.metrics.groups.hits = trialrun.metrics.groups.total)
         /\ \A g \in DOMAIN m.preferred: Foremost(m, told, g) = m.preferred[g] =>
              \A i \in DOMAIN m.pairs: m.pairs[i][2] = m.preferred[g]
                   /\ ItemOf(m, m.pairs[i][1]).group = g =>
                ~Wins(ScoreOf(told), m.pairs[i])
         /\ ToReject(m) # {} =>
              trialrun.metrics.rejects.recall.hits + trialrun.metrics.rejects.missed
                = Cardinality(ToReject(m))
=============================================================================
