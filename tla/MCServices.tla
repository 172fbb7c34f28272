---------------------------- MODULE MCServices ----------------------------
(***************************************************************************)
(* The components around the review, on small instances.  They share no    *)
(* state with one another, so one of them moves in each behaviour, the     *)
(* focus, and the others stay in one initial state.                        *)
(***************************************************************************)
EXTENDS Sequences, ModelCatalog, WebConfig, OMLXHarness, Grouping, Decisions,
        Answers, StateStore, MCDocuments, Records, MCContainerEntry

CONSTANT Focus      \* the components to explore

VARIABLE focus

MCRoleOf == [m \in Models |-> IF m = "detector" THEN "detection" ELSE "aesthetic"]
MCCandidates == <<"qwen", "gemma">>
MCSceneOf == <<"street", "people">>
MCPartitions == {{{1, 2}}, {{1}, {2}}}
MCPolicies == {[keep |-> 3, review |-> 2], [keep |-> 2, review |-> 1]}
MCBatches == {<<1>>, <<2, 3, 2>>, <<4, 3, 2, 1>>}

MCDims == {"composition", "mood"}
MCMeasured(fasts, focuses, eyes) ==
    [cpu: {[exposure |-> e, sharpness |-> h]: e \in {None, 800}, h \in {20, 700}},
     lit: {500}, fast: fasts, scene: {"people", "other"}, clarity: {300},
     focus: focuses, eye: eyes,
     dims: {[composition |-> c, mood |-> 900]: c \in {0, 400}},
     learned: {None, 800}, target: {"", "bird"}, confidence: {90}]
MCMeasurements ==
    MCMeasured({30}, {None, 700}, {None, 300}) \union MCMeasured({None}, {700}, {300})
Usual ==
    [measure |-> TRUE, guard |-> 25, vision |-> TRUE, portrait |-> TRUE, screening |-> FALSE,
     tier1 |-> 50, tier2 |-> 50, weight |-> [exposure |-> 1, sharpness |-> 2],
     floor |-> [exposure |-> 0, sharpness |-> 100],
     weights |-> [default |-> [composition |-> 50, mood |-> 50],
                  people |-> [composition |-> 100, mood |-> 0]],
     priorWeight |-> 10, hardTechnical |-> 150, hardFocus |-> 150, keep |-> 750, review |-> 550,
     calibration |-> [enabled |-> FALSE, confidence |-> 60, pivot |-> 550,
        profiles |-> [default |-> [scale |-> 150, offset |-> 50, labelled |-> TRUE],
                      people |-> [scale |-> 50, offset |-> 0, labelled |-> FALSE],
                      bird |-> [scale |-> 120, offset |-> -100, labelled |-> TRUE]]]]
MCSettings ==
    {Usual,
     [Usual EXCEPT !.calibration.enabled = TRUE],
     [Usual EXCEPT !.screening = TRUE, !.keep = 600, !.review = 250, !.priorWeight = 0,
                   !.weights["people"] = [composition |-> 0, mood |-> 100]],
     [Usual EXCEPT !.measure = FALSE, !.guard = 0]}

MCCriteria == {"light", "mood"}
Said(scene, raw, extra, l, h) ==
    [scene |-> scene, raw |-> raw, extra |-> extra, scores |-> [light |-> l, mood |-> h]]
Usable == Said("known", "label", FALSE, 70, 1200)
MCPayloads ==
    {Usable, Said("known", "words", FALSE, -5, Missing), Said("odd", "number", FALSE, 40, Worded),
     Said("none", "none", FALSE, 60, Worded), Said("none", "none", TRUE, Worded, Worded),
     Said("none", "none", FALSE, Worded, Dummy), Said("known", "words", FALSE, NotANumber, 50)}
Braced(p) == <<OpenBrace, Body(p), CloseBrace>>
MCTexts ==
    UNION {[1..n -> {OpenBrace, CloseBrace, QuoteMark, Body(Usable)}]: n \in 0..5}
    \union UNION {{Braced(p), <<OpenBrace, Body(p)>>, <<[is |-> "prose", says |-> p]>>,
                   <<QuoteMark, OpenBrace, CloseBrace>> \o Braced(p)}: p \in MCPayloads}
    \union {<<[is |-> "array", says |-> [light |-> 30, mood |-> 0]]>>,
            <<EscapeMark, QuoteMark>> \o Braced(Usable),
            <<OpenBrace, QuoteMark, EscapeMark, QuoteMark, CloseBrace, QuoteMark, CloseBrace>>}
MCReplies ==
    [shape: {"error", "odd", "refusal"}, text: {<<>>}]
    \union [shape: {"content"}, text: MCTexts]
    \union [shape: {"parsed"}, text: {Braced(p): p \in MCPayloads}]

CatalogOff == CatalogInit /\ together /\ selected = Nothing /\ \A m \in Models: files[m] = "none"
ConfigOff == WebConfigInit /\ backup = CHOOSE doc \in Documents: doc.valid
HarnessOff == HarnessInit /\ runtime.up /\ catalogued
GroupingOff == GroupingInit /\ shots = [f \in Photos |-> CHOOSE s \in Shots: s.print = 0]
SelectionOff ==
    /\ SelectionInit
    /\ coverage
    /\ policy = CHOOSE p \in Policies: TRUE
    /\ measured = CHOOSE q \in [Shoot -> {[score |-> s, defect |-> FALSE, screened |-> FALSE]:
                                            s \in Scores}]: TRUE
InferenceOff == InferenceInit /\ file.content = Gone
PolicyOff ==
    /\ seen = CHOOSE m \in Measurements: TRUE
    /\ settings = CHOOSE s \in Settings: TRUE
    /\ PolicyInit

StoreOff == StoreInit /\ external /\ ~disk["legacy"].main.there

BackendOff == BackendInit /\ ask = [backend |-> "omlx", task |-> "full"]

DocumentOff ==
    MCDocumentInit /\ written = OnLocal /\ registry = "none" /\ bundle = "bytes1"

MCBenchModels == <<"gemma">>
MCTrials == <<"structured_outputs", "other">>
MCSupports == {[xgrammar |-> TRUE, structured |-> FALSE]}
MCPosts ==
    {[length |-> 20, placeholder |-> FALSE, han |-> 15, actionable |-> TRUE, specific |-> 1,
      relevant |-> TRUE, stopped |-> TRUE, sentences |-> 2]}
MCBenchReplies ==
    {[text |-> "none", latency |-> 1],
     [text |-> "valid", latency |-> 3, post |-> CHOOSE p \in MCPosts: TRUE]}

BenchOff == BenchInit
(* Of all results only those of the second run whose first candidate fails. *)
FewerResults == bench[2].results # <<>> => bench[2].results[1].valid = 0

MCRow(path, group, rank, scene, score) ==
    [path |-> path, group |-> group, rank |-> rank, status |-> "done", scene |-> scene,
     score |-> score, artifacts |-> 1, text |-> "valid", meta |-> [is |-> "missing"]]
MCFinite(v) == [is |-> "finite", value |-> v]
MCMeta(v) ==
    [is |-> "object",
     facts |-> [quality_assessment |-> [there |-> TRUE, object |-> TRUE, version |-> v, decided |-> TRUE],
                selection |-> [there |-> TRUE, object |-> TRUE, version |-> 1, decided |-> TRUE,
                               role |-> FALSE]],
     quality |-> [quality |-> "finite", _quality |-> IF v = 1 THEN "absent" ELSE "invalid_or_missing"]]
MCRecorded ==
    {MCRow(1, 1, 1, 1, MCFinite(5)), MCRow(3, 0, 0, 1, [is |-> "missing"])}
MCStored ==
    {<<MCRow(1, 1, 1, 1, MCFinite(3)), MCRow(2, 1, 1, 2, MCFinite(8)), MCRow(3, 2, 1, 1, MCFinite(4)),
       [MCRow(5, 0, -1, 3, MCFinite(6)) EXCEPT !.meta = MCMeta(1)]>>,
     <<MCRow(1, 1, 3, 1, MCFinite(3)), MCRow(1, 1, 2, 1, MCFinite(3)),
       [MCRow(2, 0, 1, 1, [is |-> "nonfinite"]) EXCEPT !.meta = MCMeta(2), !.status = "error"],
       [MCRow(4, 0, 1, 1, [is |-> "invalid_type"]) EXCEPT !.artifacts = 2]>>}
MCDatabase == <<"config", "state.db">>
MCRequested == <<"photos">>
MCJobRoots == {<<"photos">>, <<"old">>}
MCOutputs == {<<"reviews">>, <<"old", "reviews">>}

AuditOff == AuditInit /\ jobs[1].rows[2].path = 2 /\ \A j \in JobIds: jobs[j].root = Requested

MCHashBucket == [a |-> 5, b |-> 40, c |-> 90]
MCItem(path, raw, human) ==
    [path |-> path, target |-> "bird", raw |-> raw, human |-> human, rating |-> 0, split |-> ""]
MCLabelFiles ==
    {<<MCItem("a", 2, 3), MCItem("b", 6, 6), MCItem("c", 9, 10)>>,
     <<MCItem("a", 2, 8), MCItem("b", 6, 2)>>,
     <<MCItem("b", 4, 4), [MCItem("b", 4, 0) EXCEPT !.rating = 5], MCItem("c", 5, 7)>>,
     <<MCItem("c", 7, 4), [MCItem("b", 6, 3) EXCEPT !.split = "holdout"]>>,
     <<[MCItem("b", 6, 3) EXCEPT !.split = "train"], MCItem("a", 3, 0)>>}

LabelOff == LabelInit

MCPhoto(id, group, reject, nonPhoto) ==
    [id |-> id, group |-> group, there |-> TRUE, reject |-> reject, nonPhoto |-> nonPhoto,
     scene |-> IF nonPhoto THEN "" ELSE "street", face |-> IF id = 1 THEN "yes" ELSE "unlabelled"]
MCManifest ==
    [items |-> <<MCPhoto(1, 1, "yes", FALSE), MCPhoto(2, 1, "no", FALSE),
                 MCPhoto(3, 2, "unlabelled", TRUE)>>,
     pairs |-> <<<<2, 1>>>>, preferred |-> (1 :> 2)]
MCManifests ==
    {MCManifest, [MCManifest EXCEPT !.preferred = (1 :> 1), !.pairs = <<<<1, 2>>>>],
     [MCManifest EXCEPT !.preferred = (2 :> 3), !.pairs = <<<<1, 2>>, <<2, 3>>>>],
     [MCManifest EXCEPT !.pairs = <<<<1, 1>>>>], [MCManifest EXCEPT !.preferred = (1 :> 3)]}
MCSaid(score, face) ==
    [score |-> score, scene |-> IF score > 4 THEN "street" ELSE "other", face |-> face,
     near |-> (1 :> score) @@ (2 :> 5) @@ (3 :> 4),
     roles |-> IF score = 7 THEN [x \in {} |-> 0] ELSE [reject_prior |-> score, quality |-> 3]]
MCAnswers == {MCSaid(3, "yes"), MCSaid(5, "yes"), MCSaid(7, "unknown")}

LocalBenchOff == LocalBenchInit

MCAsked ==
    {[search |-> {}, label |-> "", scored |-> "", order |-> "score_desc", page |-> 2, size |-> 1]}
MCRootHolds == [all |-> {1, 2}, year |-> {2}]

LibraryOff ==
    LibraryInit /\ home = "all" /\ agrees /\ \A p \in Shelf: There(p) /\ library[p].root = home

EntryOff == EntryInit /\ \A i \in DOMAIN Places: owned[i].kind = "none"

MCPosted == <<"p1", "p2">>
MCSetOf == [p1 |-> "g1", p2 |-> "g1"]
MCSeen(scores, visible, scene, raw) ==
    [scores |-> scores, visible |-> visible, scene |-> scene, raw |-> raw]
MCNothing == [x \in {} |-> 0]
MCSights ==
    {MCSeen([exposure |-> 4, color |-> 7, mood |-> 9], MCNothing, "people", "stage"),
     MCSeen([color |-> 6, mood |-> 3, lighting |-> 6], [exposure |-> 1], "city", "night"),
     MCSeen([mood |-> 5], [mood |-> 4, color |-> 8], "", ""),
     MCSeen(MCNothing, MCNothing, "", "")}
MCKeyHash == [p1 |-> 1, p2 |-> 5, g1 |-> 2]
MCNamesHash == [g1 |-> 3]
MCGroupAnswers == {{"empty"}, {"foreign"}, {"exposure"}}
MCPostAnswers == {{}, {"shooting"}, {"exposure"}}

CommentStart ==
    /\ CommentInit
    /\ standing["p1"].rank = 1 /\ standing["p2"].decision = "keep" /\ tongue # "en"
CommentOff ==
    CommentStart /\ standing["p1"].decision = "keep" /\ tongue = ""
    /\ \A p \in Shown: sights[p].raw = "stage"

MCInit ==
    /\ focus \in Focus
    /\ IF focus = "catalog" THEN CatalogInit /\ selected = Nothing /\ files["detector"] # "other" ELSE CatalogOff
    /\ IF focus = "config" THEN WebConfigInit ELSE ConfigOff
    /\ IF focus = "harness" THEN HarnessInit ELSE HarnessOff
    /\ IF focus = "grouping" THEN GroupingInit /\ shots[1].hash = 0 /\ shots[1].time < 1 /\ shots[2].time < 2
       ELSE GroupingOff
    /\ IF focus = "selection" THEN SelectionInit ELSE SelectionOff
    /\ IF focus = "inference" THEN InferenceInit ELSE InferenceOff
    /\ IF focus = "policy" THEN PolicyInit ELSE PolicyOff
    /\ IF focus = "store" THEN StoreInit ELSE StoreOff
    /\ IF focus = "backend" THEN BackendInit ELSE BackendOff
    /\ IF focus = "document" THEN MCDocumentInit ELSE DocumentOff
    /\ IF focus = "benchmark" THEN BenchInit ELSE BenchOff
    /\ IF focus = "audit" THEN AuditInit /\ jobs[2].root = Requested ELSE AuditOff
    /\ IF focus = "labels" THEN LabelInit ELSE LabelOff
    /\ IF focus = "local" THEN LocalBenchInit ELSE LocalBenchOff
    /\ CASE focus = "library" -> LibraryInit /\ There(1) /\ There(2) /\ home = "all" /\ ~agrees
         [] focus = "thumbs" -> LibraryInit /\ agrees /\ home = "year" /\ There(1)
         [] OTHER -> LibraryOff
    /\ IF focus = "entry" THEN EntryInit /\ owned[1].kind = "plain" /\ owned[3].kind \in {"none", "plain"} ELSE EntryOff
    /\ IF focus = "comments" THEN CommentStart ELSE CommentOff

MCNext ==
    /\ UNCHANGED focus
    /\ \/ focus = "catalog" /\ CatalogNext
       \/ focus # "catalog" /\ UNCHANGED catalogVars
    /\ \/ focus = "config" /\ WebConfigNext
       \/ focus # "config" /\ UNCHANGED webConfigVars
    /\ \/ focus = "harness" /\ HarnessNext
       \/ focus # "harness" /\ UNCHANGED harnessVars
    /\ \/ focus = "grouping" /\ GroupingNext
       \/ focus # "grouping" /\ UNCHANGED groupingVars
    /\ \/ focus = "selection" /\ SelectionNext
       \/ focus # "selection" /\ UNCHANGED selectionVars
    /\ \/ focus = "inference" /\ InferenceNext
       \/ focus # "inference" /\ UNCHANGED inferenceVars
    /\ \/ focus = "policy" /\ PolicyNext
       \/ focus # "policy" /\ UNCHANGED policyVars
    /\ \/ focus = "store" /\ StoreNext
       \/ focus # "store" /\ UNCHANGED storeVars
    /\ \/ focus = "backend" /\ BackendNext
       \/ focus # "backend" /\ UNCHANGED backendVars
    /\ \/ focus = "document" /\ DocumentNext
       \/ focus # "document" /\ UNCHANGED documentVars
    /\ \/ focus = "benchmark" /\ BenchNext /\ FewerResults'
       \/ focus # "benchmark" /\ UNCHANGED benchVars
    /\ \/ focus = "audit" /\ AuditNext
       \/ focus # "audit" /\ UNCHANGED auditVars
    /\ \/ focus = "labels" /\ LabelNext
       \/ focus # "labels" /\ UNCHANGED labelVars
    /\ \/ focus = "local" /\ LocalBenchNext
       \/ focus # "local" /\ UNCHANGED localBenchVars
    /\ \/ focus = "library" /\ (ShelfNext \/ AroundNext)
       \/ focus = "thumbs" /\ (ThumbNext \/ AroundNext)
       \/ focus \notin {"library", "thumbs"} /\ UNCHANGED libraryVars
    /\ \/ focus = "entry" /\ EntryNext
       \/ focus # "entry" /\ UNCHANGED entryVars
    /\ \/ focus = "comments" /\ CommentNext
       \/ focus # "comments" /\ UNCHANGED commentVars

MCSpec == MCInit /\ [][MCNext]_<<focus, catalogVars, webConfigVars, harnessVars, groupingVars,
                                 selectionVars, inferenceVars, policyVars, storeVars,
                                 backendVars,
                                 documentVars,
                                 benchVars,
                                 auditVars,
                                 labelVars,
                                 localBenchVars,
                                 libraryVars,
                                 entryVars,
                                 commentVars>>

(* The variables of the component that moves keep their types.            *)
ServicesTypeOK ==
    CASE focus = "catalog" -> CatalogTypeOK
      [] focus = "config" -> WebConfigTypeOK
      [] focus = "harness" -> HarnessTypeOK
      [] focus = "grouping" -> GroupingTypeOK
      [] focus = "selection" -> SelectionTypeOK
      [] focus = "inference" -> InferenceTypeOK
      [] focus = "policy" -> PolicyTypeOK
      [] focus = "store" -> StoreTypeOK
      [] focus = "backend" -> BackendTypeOK
      [] focus = "document" -> DocumentTypeOK
      [] focus = "benchmark" -> BenchTypeOK
      [] focus = "audit" -> AuditTypeOK
      [] focus = "labels" -> LabelTypeOK
      [] focus = "local" -> LocalBenchTypeOK
      [] focus \in {"library", "thumbs"} -> LibraryTypeOK
      [] focus = "entry" -> EntryTypeOK
      [] focus = "comments" -> CommentTypeOK

---------------------------------------------------------------------------
(* Results follow their inputs, wherever a component computes something    *)
(* from data: an accepted setting takes effect, one cache key never stands *)
(* for two inputs, and reports add up.                                     *)
ResultsFollowInputs ==
    /\ SettingsTakeEffect /\ SameKeySameInputs
    /\ EveryRowCounted /\ SampleSpansTheScores
=============================================================================
