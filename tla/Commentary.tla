------------------------------ MODULE Commentary ------------------------------
(***************************************************************************)
(* The comments on a group and on each of its photos.  The model is asked, *)
(* its answer is screened, and when it fails or is refused a text is made  *)
(* from the measured scores instead.  rewrite-commentary makes the texts   *)
(* of all finished rows anew from what the rows hold.                      *)
(*                                                                         *)
(* A text is the record of what it was made from: its wording is left out. *)
(*                                                                         *)
(* Sources: domain/commentary.py, app/review_runtime.py,                   *)
(* app/rewrite_commentary_service.py, adapters/state/processed_sqlite.py.  *)
(***************************************************************************)
EXTENDS Integers, Sequences, FiniteSets, Orders, Sums

CONSTANTS
    Posted,         \* the photos of the review, in the order it judges them
    SetOf,          \* SetOf[p]: the group of photo p, "" when it has none
    Sights,         \* what can be measured of a photo
    KeyHash,        \* KeyHash[key]: checksum of a photo's path or a group's id
    NamesHash,      \* NamesHash[key]: checksum of the names of a group's photos
    GroupAnswers,   \* answers of the model about a group: sets of flaws
    PostAnswers,    \* answers of the model about a photo: sets of flaws
    MaxRejudged     \* bound: rescores

ItemsOf(s) == {s[i]: i \in DOMAIN s}
Shown == ItemsOf(Posted)
Unsaid == ""
GroupKey(p) == IF SetOf[p] = Unsaid THEN p ELSE SetOf[p]
GroupKeys == {GroupKey(p): p \in Shown}
Languages == {"zh", "en"}

VARIABLES
    sights,     \* the measurements of each photo
    standing,   \* rank in the group and decision of each photo
    tongue,     \* output_language, "" when commentary is not enabled
    reviewing,  \* the review is still at work
    spoken,     \* the comment on each group made so far
    noted,      \* the comment columns of each photo's row
    kept,       \* history: language of the last rewrite, "" after a rescore
    rejudged

commentVars == <<sights, standing, tongue, reviewing, spoken, noted, kept, rejudged>>

DimPriority ==
    <<"clarity", "exposure", "lighting", "composition", "color", "subject", "depth", "mood",
      "sharpness">>
Ahead(list, a, b) == \E i, j \in DOMAIN list: i < j /\ list[i] = a /\ list[j] = b
ComesBefore(a, b) == Ahead(DimPriority, a, b)
FirstTwo(s) == SubSeq(s, 1, IF Len(s) < 2 THEN Len(s) ELSE 2)

(* Photos of one review are different files.  Of a row's scores and of its *)
(* visible breakdown only the known dimensions are read; a score is a      *)
(* whole number of the unit in which scores are told apart.                *)
ASSUME CommentAssumption ==
    /\ Posted \in Seq(Shown) /\ \A i, j \in DOMAIN Posted: Posted[i] = Posted[j] => i = j
    /\ MaxRejudged \in Nat
    /\ \A sight \in Sights: \A scores \in {sight.scores, sight.visible}:
         /\ DOMAIN scores \subseteq ItemsOf(DimPriority)
         /\ \A d \in DOMAIN scores: scores[d] \in Int

---------------------------------------------------------------------------
(* The weakest dimensions                                                  *)

WeakerFirst(scores, dims) ==
    {o \in dims \X dims: \/ scores[o[1]] < scores[o[2]]
                         \/ scores[o[1]] = scores[o[2]] /\ ComesBefore(o[1], o[2])}
FromWeakest(scores, dims) == Ordered(dims, WeakerFirst(scores, dims))
Weakest(scores) == FirstTwo(FromWeakest(scores, DOMAIN scores))

(* Indices of the photos, among these, that measure the dimension.         *)
WithDim(group, dim) == {i \in DOMAIN group: dim \in DOMAIN group[i].scores}
DimTotal(group, dim) ==
    Addition([i \in DOMAIN group |->
                 IF i \in WithDim(group, dim) THEN group[i].scores[dim] ELSE 0])
DimCount(group, dim) == Cardinality(WithDim(group, dim))

MeanBelow(group, a, b) ==
    DimTotal(group, a) * DimCount(group, b) < DimTotal(group, b) * DimCount(group, a)

WeakestOfGroup(group) ==
    LET measured_ == UNION {DOMAIN group[i].scores: i \in DOMAIN group}
    IN FirstTwo(Ordered(measured_,
           {o \in measured_ \X measured_:
                \/ MeanBelow(group, o[1], o[2])
                \/ ~MeanBelow(group, o[2], o[1]) /\ ComesBefore(o[1], o[2])}))

(* The photo's own scores come first; the visible breakdown fills up.      *)
WeakestOfPhoto(sight) ==
    LET own == Weakest(sight.scores)
        more == FromWeakest(sight.visible, ItemsOf(Weakest(sight.visible)) \ ItemsOf(own))
    IN FirstTwo(own \o more)

---------------------------------------------------------------------------
(* Scenes                                                                  *)

(* The most frequent values other than "", the first seen first.           *)
MostCommon(values) ==
    LET times(v) == Cardinality({i \in DOMAIN values: values[i] = v})
        seen == ItemsOf(values) \ {Unsaid}
        SeenFirst(v, w) == \E i \in DOMAIN values:
            values[i] = v /\ \A j \in DOMAIN values: values[j] = w => i < j
    IN Ordered(seen, {o \in seen \X seen:
           times(o[1]) > times(o[2]) \/ (times(o[1]) = times(o[2]) /\ SeenFirst(o[1], o[2]))})

SceneContext(scene, raw) ==
    CASE raw \in {"stage", "camp"} -> raw
      [] scene = "city" /\ raw = "night" -> "city_night"
      [] scene = "detail" /\ raw = "product" -> "product"
      [] OTHER -> IF scene = Unsaid THEN "default" ELSE scene

(* The contexts with a wording of their own for a dimension.               *)
ShootingClauses ==
    ({"stage"} \X {"clarity", "color", "lighting"}) \union
    ({"camp"} \X {"clarity", "color", "exposure"}) \union
    ({"city_night"} \X {"lighting", "color"}) \union
    ({"product"} \X {"clarity", "lighting"}) \union
    ({"animals"} \X {"clarity", "subject"})
PostClauses ==
    ({"stage"} \X {"color", "lighting"}) \union ({"camp"} \X {"color", "depth"}) \union
    ({"city_night"} \X {"lighting", "color"}) \union ({"product"} \X {"clarity", "lighting"}) \union
    ({"animals"} \X {"clarity", "subject"})
Advice(dim, context, clauses, language) ==
    [dim |-> dim,
     context |-> IF language = "zh" /\ <<context, dim>> \in clauses THEN context ELSE Unsaid]

Hinted ==
    {"people", "city", "landscape", "indoor", "detail", "stage", "camp", "city_night", "product",
     "animals"}
SubjectHint(context, judged, language) ==
    CASE judged.decision = "reject" -> "rescue"
      [] judged.decision # "reject" /\ judged.rank = 1 ->
            IF language = "zh" /\ context \in {"stage", "camp"} THEN "best " \o context ELSE "best"
      [] OTHER -> IF context \in Hinted THEN context ELSE "main"

---------------------------------------------------------------------------
(* Texts                                                                   *)

Silence == [by |-> "nobody"]
Spoken(flaws) == IF "empty" \in flaws THEN Silence ELSE [by |-> "model", flaws |-> flaws]

Turned(advice, hash) ==
    IF hash % 2 = 1 THEN [i \in DOMAIN advice |-> advice[Len(advice) + 1 - i]] ELSE advice

(* group: the photos' measurements, in order.                              *)
GroupText(group, hash, language) ==
    LET weak == WeakestOfGroup(group)
        scenes == MostCommon([i \in DOMAIN group |-> group[i].scene])
        raws == MostCommon([i \in DOMAIN group |-> group[i].raw])
        First(s) == IF s = <<>> THEN Unsaid ELSE s[1]
        context == SceneContext(First(scenes), First(raws))
    IN IF weak = <<>> THEN Silence
       ELSE [by |-> "rules", language |-> language, weak |-> weak, scenes |-> FirstTwo(scenes),
             opening |-> IF language = "zh" THEN hash % 3 ELSE 0,
             advice |-> Turned([i \in DOMAIN weak |->
                                   Advice(weak[i], context, ShootingClauses, language)], hash)]

PostText(sight, judged, hash, language) ==
    LET weak == WeakestOfPhoto(sight)
        context == SceneContext(sight.scene, sight.raw)
    IN IF weak = <<>> THEN Silence
       ELSE [by |-> "rules", language |-> language, weak |-> weak,
             hint |-> SubjectHint(context, judged, language), opening |-> hash % 3,
             advice |-> Turned([i \in DOMAIN weak |->
                                   Advice(weak[i], context, PostClauses, language)], hash)]

GroupFlaws == {"empty", "foreign", "short", "score list", "canned", "restates"}
PostFlaws == {"empty", "foreign", "short", "canned", "other section", "shooting"}

(* A remark on exposure is refused unless light is what is weak.           *)
OffTopic(flaws, weak) == "exposure" \in flaws /\ {"exposure", "lighting"} \cap ItemsOf(weak) = {}

GroupRefused(flaws, group) ==
    flaws \cap GroupFlaws # {} \/ OffTopic(flaws, WeakestOfGroup(group))
PostRefused(flaws, sight) ==
    flaws \cap PostFlaws # {} \/ OffTopic(flaws, Weakest(sight.scores))

Failed == {"failed"}    \* the model raised an error

Chosen(flaws, refused, own) ==
    IF flaws = Failed \/ (refused /\ own # Silence) THEN own ELSE Spoken(flaws)

---------------------------------------------------------------------------
SightsOf(photos) == [i \in DOMAIN photos |-> sights[photos[i]]]
InGroup(key) == {p \in Shown: GroupKey(p) = key}
Judged(key) ==
    Ordered(InGroup(key), {o \in Shown \X Shown: Ahead(Posted, o[1], o[2])})

CommentGroup(key, flaws) ==
    LET group == SightsOf(Judged(key))
    IN /\ reviewing /\ spoken[key] = <<>>
       /\ spoken' = [spoken EXCEPT ![key] =
              IF tongue # Unsaid THEN <<Chosen(flaws, GroupRefused(flaws, group),
                                       GroupText(group, NamesHash[key], tongue))>>
              ELSE <<Silence>>]
       /\ UNCHANGED <<sights, standing, tongue, reviewing, noted, kept, rejudged>>

(* The texts are stored with the row that becomes done; a photo whose      *)
(* sidecar cannot be written becomes an error.                             *)
CommentPhoto(p, flaws, written_) ==
    LET sight == sights[p]
        post == IF tongue # Unsaid THEN Chosen(flaws, PostRefused(flaws, sight),
                                       PostText(sight, standing[p], KeyHash[p], tongue))
                ELSE Silence
    IN /\ reviewing /\ spoken[GroupKey(p)] # <<>> /\ noted[p].status = "waiting"
       /\ noted' = [noted EXCEPT ![p] =
              IF written_ THEN [status |-> "done", group |-> spoken[GroupKey(p)][1], post |-> post]
              ELSE [@ EXCEPT !.status = "error"]]
       /\ UNCHANGED <<sights, standing, tongue, reviewing, spoken, kept, rejudged>>

(* The review ends or is stopped.                                          *)
EndReview ==
    /\ reviewing
    /\ reviewing' = FALSE
    /\ UNCHANGED <<sights, standing, tongue, spoken, noted, kept, rejudged>>

IsDone(p) == noted[p].status = "done"
StandingsOf(photos) ==
    {s \in [photos -> [rank: 1..Len(Posted), decision: {"keep", "reject"}]]:
        \A key \in GroupKeys:
            LET members == {p \in photos: GroupKey(p) = key}
            IN {s[p].rank: p \in members} = 1..Cardinality(members)}

(* rescore ranks and judges the finished rows again; the comments stay.    *)
RescoreRows(s) ==
    /\ ~reviewing /\ rejudged < MaxRejudged
    /\ standing' = [p \in Shown |-> IF p \in DOMAIN s THEN s[p] ELSE standing[p]]
    /\ kept' = Unsaid
    /\ rejudged' = rejudged + 1
    /\ UNCHANGED <<sights, tongue, reviewing, spoken, noted>>

(* The finished rows of a group, as the database orders them.              *)
RowsOf(key) ==
    Ordered({p \in InGroup(key): IsDone(p)},
        {o \in Shown \X Shown:
            \/ standing[o[1]].rank < standing[o[2]].rank
            \/ standing[o[1]].rank = standing[o[2]].rank /\ Ahead(Posted, o[1], o[2])})

StoredSight(p) ==
    [scores |-> sights[p].scores, raw |-> sights[p].raw,
     scene |-> IF sights[p].scene = Unsaid THEN "other" ELSE sights[p].scene]
MadeAnew(p, language) ==
    LET rows == RowsOf(GroupKey(p))
    IN [status |-> "done",
        group |-> GroupText([i \in DOMAIN rows |-> StoredSight(rows[i])],
                            KeyHash[GroupKey(p)], language),
        post |-> PostText(sights[p], standing[p], KeyHash[p], language)]

(* rewrite-commentary; its dry run only counts the rows that would differ. *)
RewriteComments(language) ==
    /\ ~reviewing
    /\ noted' = [p \in Shown |-> IF IsDone(p) THEN MadeAnew(p, language) ELSE noted[p]]
    /\ kept' = language
    /\ UNCHANGED <<sights, standing, tongue, reviewing, spoken, rejudged>>

CommentInit ==
    /\ sights \in [Shown -> Sights]
    /\ standing \in StandingsOf(Shown)
    /\ tongue \in Languages \union {Unsaid}
    /\ reviewing = TRUE
    /\ spoken = [key \in GroupKeys |-> <<>>]
    /\ noted = [p \in Shown |-> [status |-> "waiting", group |-> Silence, post |-> Silence]]
    /\ kept = Unsaid /\ rejudged = 0

CommentNext ==
    \/ \E key \in GroupKeys, flaws \in GroupAnswers \union {Failed}: CommentGroup(key, flaws)
    \/ \E p \in Shown, flaws \in PostAnswers \union {Failed}, w \in BOOLEAN: CommentPhoto(p, flaws, w)
    \/ EndReview
    \/ \E s \in StandingsOf({p \in Shown: IsDone(p)}): RescoreRows(s)
    \/ \E language \in Languages: RewriteComments(language)

CommentSpec == CommentInit /\ [][CommentNext]_commentVars

(* Whoever wants a comment on a photo of which anything is measured gets   *)
(* one, on the photo and on its group, whatever the model answered.        *)
NobodyIsSilent ==
    \A p \in Shown: IsDone(p) /\ (tongue # Unsaid \/ kept # Unsaid) =>
        /\ DOMAIN sights[p].scores \union DOMAIN sights[p].visible # {} => noted[p].post # Silence
        /\ DOMAIN sights[p].scores # {} => noted[p].group # Silence

(* An answer the screen refuses is stored only where no score could speak  *)
(* in its place.                                                           *)
OnlyFitAnswers ==
    \A p \in Shown:
        /\ noted[p].post.by = "model" /\ PostRefused(noted[p].post.flaws, sights[p])
              => WeakestOfPhoto(sights[p]) = <<>>
        /\ noted[p].group.by = "model" /\ noted[p].group.flaws \cap GroupFlaws # {}
              => \A q \in Shown: GroupKey(q) = GroupKey(p) => DOMAIN sights[q].scores = {}

(* The finished photos of a group share the comment on the group.          *)
SpeakAsOne ==
    \A p, q \in Shown: IsDone(p) /\ IsDone(q) /\ GroupKey(p) = GroupKey(q) =>
        noted[p].group = noted[q].group

(* A text made from the scores of a photo names what is weakest of it.     *)
AdviceOnThePhoto ==
    \A p \in Shown:
        LET own == sights[p].scores
            said == noted[p].post
        IN said.by = "rules" =>
             \A d \in ItemsOf(said.weak), e \in DOMAIN own \ ItemsOf(said.weak):
                 d \in DOMAIN own /\ own[d] <= own[e]

(* What the advice on a group does not name is, on the average of the      *)
(* photos that measure it, at least as strong as what it names.            *)
NamesWeakest(weak, group) ==
    LET With(d) == {q \in group: d \in DOMAIN sights[q].scores}
        Total(d) == Addition([i \in DOMAIN Posted |->
            IF Posted[i] \in With(d) THEN sights[Posted[i]].scores[d] ELSE 0])
    IN \A d \in ItemsOf(weak), e \in ItemsOf(DimPriority) \ ItemsOf(weak):
           With(e) # {} => Total(d) * Cardinality(With(e)) <= Total(e) * Cardinality(With(d))
AdviceOnTheGroup ==
    \A p \in Shown:
        LET group == {q \in InGroup(GroupKey(p)): kept = Unsaid \/ IsDone(q)}
            said == noted[p].group
        IN IsDone(p) /\ said.by = "rules" /\ (spoken[GroupKey(p)] = <<said>> \/ kept # Unsaid) =>
             NamesWeakest(said.weak, group)

(* Rewriting the comments once more in the same language changes nothing.  *)
RewriteSettles ==
    kept # Unsaid => \A p \in Shown: IsDone(p) => noted[p] = MadeAnew(p, kept)

CommentsHold ==
    /\ NobodyIsSilent /\ OnlyFitAnswers /\ SpeakAsOne /\ RewriteSettles
    /\ AdviceOnThePhoto /\ AdviceOnTheGroup

CommentTypeOK ==
    /\ sights \in [Shown -> Sights]
    /\ standing \in [Shown -> [rank: 1..Len(Posted), decision: {"keep", "reject"}]]
    /\ tongue \in Languages \union {Unsaid} /\ reviewing \in BOOLEAN
    /\ \A key \in GroupKeys: Len(spoken[key]) <= 1
    /\ \A p \in Shown: noted[p].status \in {"waiting", "done", "error"}
    /\ kept \in Languages \union {Unsaid} /\ rejudged \in 0..MaxRejudged
=============================================================================
