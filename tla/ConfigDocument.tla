-------------------------- MODULE ConfigDocument --------------------------
(***************************************************************************)
(* A configuration document on its way into a run: it is normalized, the   *)
(* registry's models are put in, it is validated, overridden by the        *)
(* command line, normalized again by every reader, and hashed into the key *)
(* that decides whether old scores may be used.                            *)
(*                                                                         *)
(* A document maps sections to their keys and keys to classes of values:   *)
(* null, Booleans, words (on and off read as Booleans, known is a choice   *)
(* the key offers), numbers inside ("int", "fraction") and outside ("low", *)
(* "high") the key's range; "preset" is the built-in default.              *)
(*                                                                         *)
(* Sources: utils/config_validator.py, commands/scoring.py (load_config,   *)
(* apply_run_overrides, build_score_cache_key), clients/base.py,           *)
(* app/model_catalog_service.py (apply_model_selections),                  *)
(* app/local_embedding_identity.py.                                        *)
(***************************************************************************)
EXTENDS Integers, FiniteSets, Sequences, TLC

CONSTANTS
    Configs,        \* the documents somebody may write
    Revisions,      \* those written between two runs
    Choices,        \* what the registry may have selected for a model file
    Bundles       \* what a model file may hold

VARIABLES
    written,        \* the configuration file
    registry,       \* the selected model of each role
    bundle,         \* what is at the model path: its bytes, or why there are none
    cfg,            \* the configuration in the program
    step,           \* how far the command is
    args,           \* what the command line overrides
    earlier         \* the key and the inputs of the run before

documentVars == <<written, registry, bundle, cfg, step, args, earlier>>

Keys(c, s) == IF s \in DOMAIN c THEN DOMAIN c[s] ELSE {}
Value(c, s, k) == IF k \in Keys(c, s) THEN c[s][k] ELSE "absent"
Section(c, s) == IF s \in DOMAIN c THEN c[s] ELSE <<>>
Words == {"known", "text", "on", "off", "preset", "local", "omlx", "ollama", "selected"}
Falsy(v) == v \in {"absent", "null", "false", "blank"}

(* _coerce_bool_like. *)
Coerced(v) == CASE v = "on" -> "true" [] v = "off" -> "false" [] OTHER -> v

(* setdefault for the presets; Booleans are read, a missing one is its     *)
(* default; keys in `gone' are dropped.                                    *)
Filled(given, switches, presets, gone) ==
    [k \in (DOMAIN given \union DOMAIN switches \union presets) \ gone |->
        CASE k \in DOMAIN given /\ k \in DOMAIN switches -> Coerced(given[k])
          [] k \in DOMAIN given /\ k \notin DOMAIN switches -> given[k]
          [] k \notin DOMAIN given /\ k \in DOMAIN switches -> switches[k]
          [] OTHER -> "preset"]
Disabled == [enabled |-> "false"]
Optional == [enabled |-> "false", enforce_available |-> "false"]

-----------------------------------------------------------------------------
Backend(c) ==
    IF ~Falsy(Value(c, "top", "backend")) THEN Value(c, "top", "backend")
    ELSE IF ~Falsy(Value(c, "top", "vision_backend")) THEN Value(c, "top", "vision_backend")
    ELSE "local"

(* commentary_enabled, or the last of the three keys it replaces.          *)
Commentary(c) ==
    LET own == Value(c, "top", "commentary_enabled")
        given == SelectSeq([i \in 1..3 |-> Value(c, <<"local", "ollama", "omlx">>[i],
                                                 "commentary_enabled")],
                           LAMBDA v: v \notin {"absent", "null"})
    IN Coerced(IF own \notin {"absent", "null"} THEN own
               ELSE IF given # <<>> THEN given[Len(given)]
               ELSE IF Backend(c) = "local" THEN "false" ELSE "true")

Top(c) ==
    LET word(k) == IF Falsy(Value(c, "top", k)) THEN "preset" ELSE c["top"][k]
    IN (  "backend" :> Backend(c) @@ "commentary_enabled" :> Commentary(c)
       @@ "log_level" :> word("log_level") @@ "output_language" :> word("output_language"))
       @@ Filled(Section(c, "top"), <<>>, {"raw_extensions"},
                 {"vision_backend", "input_dir", "reprocess"})

(* The local backend's sections.                                           *)
Semantic(c) == Filled(Section(c, "semantic"), Optional,
    {"model_name", "pretrained", "device", "min_confidence"}, {})
Detection(c) == Filled(Section(c, "detection"), Optional,
    {"runtime", "model_name", "model_version", "device", "fallback_device", "model_path",
     "compiled_cache_dir", "input_size", "score_threshold", "max_results"}, {})
PixelQuality(c) == Filled(Section(c, "quality"), Optional,
    {"device", "policy_version", "metrics"}, {})
Aesthetics(c) == Filled(Section(c, "aesthetic"), Optional,
    {"runtime", "model_name", "model_version", "device", "model_path", "result_cache_size",
     "performance_hint", "batch_size", "max_in_flight", "infer_requests"}, {})
Calibration(c) == Filled(Section(c, "calibration"), Disabled,
    {"policy_version", "minimum_label_count", "minimum_target_confidence", "pivot", "profiles"}, {})
(* The revision pinned for the default model does not go with another.     *)
Embedding(c) ==
    LET given == Section(c, "embedding")
        revision == IF "model_name" \in DOMAIN given /\ given["model_name"] # "preset"
                    THEN "blank" ELSE "preset"
    IN Filled(given, Optional @@ [allow_batch_fallback |-> "true"],
              {"runtime", "model_name", "device", "model_path", "processor_path",
               "compiled_cache_dir", "result_cache_size", "batch_size"}, {})
       @@ "model_revision" :> revision
Face(c) == Filled(Section(c, "face"), Optional,
    {"model_asset_path", "num_faces", "min_detection_confidence"}, {})

Runtimes(c) == Filled(Section(c, "inference"), [enforce_available |-> "false"],
    {"runtime", "device", "fallback_device", "model_cache_dir", "provider_tags"}, {})
Management(c) == Filled(Section(c, "model_management"), [selection_enabled |-> "false"],
    {"registry_dir", "catalog_path"}, {})
Preview(c) == Filled(Section(c, "preview"), [prefer_embedded |-> "true"], {"focus_max_size"},
    {k \in {"fallback_decode"}: Value(c, "preview", k) \in {"null", "known"}})

(* The hash threshold of the grouping follows the older visual similarity  *)
(* when it is not given itself.                                            *)
Visual(c) == Filled(Section(c, "visual"), Disabled, {"hash_threshold", "max_merge_gap_minutes"}, {})
Groups(c) ==
    LET older == Visual(c)
        filled == Filled(Section(c, "grouping"), Disabled, {"time_gap_seconds"}, {"group_guard"})
        derived == IF Falsy(older["enabled"]) THEN "zero" ELSE older["hash_threshold"]
    IN filled @@ "hash_threshold" :> derived
BestCandidate(c) ==
    LET older == Value(c, "screening_policy", "top1_review_fallback")
        default == IF older = "absent" THEN "true" ELSE Coerced(older)
    IN Filled(Section(c, "best"), [enabled |-> default], {}, {})

ScoreRevision(c) ==
    IF \/ "revision" \in Keys(c, "score_policy")
       \/ Value(c, "scoring", "cache_revision") \in {"absent", "null"}
    THEN Section(c, "score_policy")
    ELSE "revision" :> c["scoring"]["cache_revision"] @@ Section(c, "score_policy")

(* Two names of one setting with different values.                         *)
Conflicting(c) ==
    \/ /\ "top1_review_fallback" \in Keys(c, "screening_policy") /\ "enabled" \in Keys(c, "best")
       /\ Coerced(c["screening_policy"]["top1_review_fallback"]) # Coerced(c["best"]["enabled"])
    \/ /\ "cache_revision" \in Keys(c, "scoring") /\ "revision" \in Keys(c, "score_policy")
       /\ c["scoring"]["cache_revision"] # c["score_policy"]["revision"]

Screener(c) ==
    IF Falsy(Value(c, "screening", "backend")) THEN "backend" :> "preset" @@ Section(c, "screening")
    ELSE Section(c, "screening")
Focusing(c) == Filled(Section(c, "focus"), [enabled |-> "true"],
    {"mode", "downscale_warning_ratio", "roi_expand_ratio", "eye_roi_ratio",
     "global_blur_reject_below"}, {"high_resolution_roi"})
Refining(c) == Filled(Section(c, "refinement"), Disabled,
    {"max_candidates", "max_seconds", "score_gap", "focus_max_size"}, {})
Portrait(c) == Filled(Section(c, "portrait"), Disabled, {}, {"min_face_ratio", "review_penalty"})
Writing(c) ==
    LET fixed == {"write_mode", "compatibility_profile", "machine_tag_target"} IN
    Filled(Section(c, "xmp"), <<>>, {}, {k \in fixed: Value(c, "xmp", k) \in {"null", "known"}})

(* A scene's weights are made to sum to one; other dimensions are dropped. *)
Scenes(c) ==
    LET scaled(v) == CASE v \in {"raw", "unknown"} -> "weights"
                       [] v = "zero" -> "preset"
                       [] OTHER -> v
        from == IF Section(c, "scene_profiles") # <<>> THEN Section(c, "scene_profiles")
                ELSE Section(c, "scene_weights") @@ "default" :> "preset"
    IN [scene \in DOMAIN from |-> scaled(from[scene])]

(* The oMLX keys: the grouped one, the flat one, the default; all three    *)
(* places end with the same value.                                         *)
AdminKeys == {"base_url", "full_vision_model", "fast_vision_model", "commentary_model", "timeout",
              "max_concurrent", "cache_enabled"}
(* Fault: the flat key wins over the grouped one.                          *)
Admin_Flat(c) ==
    [k \in AdminKeys |->
        IF Value(c, "omlx", k) \notin {"absent", "null"} THEN Value(c, "omlx", k)
        ELSE IF Value(c, "omlx_admin", k) \notin {"absent", "null"} THEN Value(c, "omlx_admin", k)
        ELSE "preset"]

Admin(c) ==
    LET grouped(k) == Value(c, "omlx_admin", k)
        flat(k) == IF k = "fast_vision_model" /\ Value(c, "omlx", k) = "absent"
                   THEN Value(c, "omlx", "full_vision_model") ELSE Value(c, "omlx", k)
        first(k) == IF grouped(k) \notin {"absent", "null"} THEN grouped(k)
                    ELSE IF flat(k) \notin {"absent", "null"} THEN flat(k) ELSE "preset"
    IN [k \in AdminKeys |-> IF k = "cache_enabled" THEN Coerced(first(k)) ELSE first(k)]
OMLX(c) ==
    LET filled(s, keys) == [k \in keys \union Keys(c, s) |->
            IF Value(c, s, k) \in {"absent", "null"} /\ k \in keys THEN "preset" ELSE Coerced(c[s][k])]
    IN IF "omlx" \notin DOMAIN c THEN <<>> ELSE
       "omlx" :> (Admin(c) @@ Section(c, "omlx"))
       @@ "omlx_admin" :> (Admin(c) @@ Section(c, "omlx_admin"))
       @@ "omlx_runtime" :> filled("omlx_runtime", {"probe_on_run"})
       @@ "omlx_requests" :> filled("omlx_requests",
                                    {"contract_mode", "model_profile_mode", "enable_thinking"})
Ollama(c) ==
    IF "ollama" \notin DOMAIN c THEN <<>> ELSE
    "ollama" :> (Section(c, "ollama") @@ "fast_vision_model" :>
                    (IF Value(c, "ollama", "vision_model") = "absent" THEN "null"
                     ELSE Value(c, "ollama", "vision_model")))

(* normalize_config. *)
Normalized(c) ==
    LET drop(s, keys) == [k \in Keys(c, s) \ keys |-> c[s][k]] IN
    (  "top" :> Top(c) @@ "legacy" :> Filled(Section(c, "legacy"), Disabled, {}, {})
    @@ "semantic" :> Semantic(c) @@ "detection" :> Detection(c) @@ "quality" :> PixelQuality(c)
    @@ "aesthetic" :> Aesthetics(c) @@ "calibration" :> Calibration(c)
    @@ "embedding" :> Embedding(c) @@ "face" :> Face(c) @@ "inference" :> Runtimes(c)
    @@ "model_management" :> Management(c) @@ "preview" :> Preview(c) @@ "visual" :> Visual(c)
    @@ "grouping" :> Groups(c)
    @@ "embsim" :> Filled(Section(c, "embsim"), Disabled, {"threshold"}, {})
    @@ "best" :> BestCandidate(c) @@ "screening" :> Screener(c)
    @@ "musiq" :> Filled(Section(c, "musiq"), <<>>, {"score_divisor", "helper_timeout_seconds"}, {})
    @@ "focus" :> Focusing(c) @@ "refinement" :> Refining(c) @@ "portrait" :> Portrait(c)
    @@ "decision" :> Filled(Section(c, "decision"), <<>>,
                            {"keep_threshold", "review_threshold"}, {})
    @@ "hard_reject" :> Filled(Section(c, "hard_reject"), <<>>,
                               {"technical_quality_below", "subject_focus_below"}, {})
    @@ "screening_policy" :> Filled(Section(c, "screening_policy"), <<>>, {"weight"},
                                    {"top1_review_fallback"})
    @@ "score_policy" :> ScoreRevision(c)
    @@ "scoring" :> drop("scoring", {"pixel_weight", "vision_weight", "cache_revision"})
    @@ "pipeline" :> Filled(Section(c, "pipeline"), <<>>, {"score_prefetch_window"}, {})
    @@ "xmp" :> Writing(c) @@ "scene_profiles" :> Scenes(c))
    @@ OMLX(c) @@ Ollama(c) @@ [s \in DOMAIN c \ {"scene_weights"} |-> c[s]]

(* What normalize_config itself refuses or stumbles over: a section that   *)
(* is no mapping, a conflict, a number where a word is lowered.            *)
Unreadable(c) ==
    \/ \E s \in DOMAIN c: "not a mapping" \in DOMAIN c[s]
    \/ Value(c, "quality", "metrics") = "null" \/ Value(c, "calibration", "profiles") = "null"
    \/ Conflicting(c)
    \/ \E k \in {"log_level", "output_language"}:
          ~Falsy(Value(c, "top", k)) /\ c["top"][k] \notin Words
    \/ ~Falsy(Value(c, "screening", "backend")) /\ c["screening"]["backend"] \notin Words
    \/ \E s \in {"scene_profiles", "scene_weights"}: \E k \in Keys(c, s): c[s][k] = "text"

-----------------------------------------------------------------------------
(* The kinds of values the checks tell apart.  Some let a Boolean pass as  *)
(* a number.                                                               *)
All(c, s, keys, accepted) == \A k \in keys \cap Keys(c, s): c[s][k] \in accepted
Each(c, s, keys, accepted) == \A k \in keys: Value(c, s, k) \in accepted
Switches(c, s) ==
    All(c, s, {"enabled", "enforce_available", "allow_batch_fallback", "prefer_embedded",
               "selection_enabled"}, {"true", "false", "on", "off"})
Whole == {"preset", "int", "zero"}
Number == Whole \union {"fraction"}
LaxNumber == Number \union {"true", "false"}
Positive == Whole \union {"high", "true"}
Choice == {"preset", "known"}
Path == Words

ValidTop(c) ==
    /\ "scorers" \in DOMAIN c
    /\ Backend(c) \in {"local", "ollama", "omlx"}
    /\ Backend(c) # "local" => ~Falsy(Value(c, "legacy", "enabled"))
    /\ Each(c, "top", {"log_level", "output_language"}, Choice)
    /\ Each(c, "top", {"commentary_enabled"}, {"true", "false"})
    /\ Each(c, "top", {"raw_extensions"}, {"preset", "list"})
ValidManagement(c) ==
    /\ Switches(c, "model_management")
    /\ Each(c, "model_management", {"registry_dir"}, Path)
    /\ Each(c, "model_management", {"catalog_path"}, Path \union {"blank"})
ValidPreview(c) ==
    /\ Switches(c, "preview") /\ "fallback_decode" \notin Keys(c, "preview")
    /\ All(c, "preview", {"max_size", "focus_max_size"}, Whole \union {"null"})
ValidFocus(c) ==
    /\ Switches(c, "focus") /\ Each(c, "focus", {"mode"}, Choice)
    /\ Each(c, "focus", {"roi_expand_ratio", "eye_roi_ratio", "global_blur_reject_below"}, LaxNumber)
    /\ Switches(c, "refinement")
    /\ Each(c, "refinement", {"max_candidates", "focus_max_size"}, Whole)
    /\ Each(c, "refinement", {"max_seconds", "score_gap"}, Number)
    /\ Switches(c, "portrait")
ValidPipeline(c) ==
    /\ Each(c, "pipeline", {"score_prefetch_window"}, Whole)
    /\ All(c, "pipeline", {"max_files"}, Whole \union {"null"})
(* The review threshold is not above the one for keeping; of the classes   *)
(* only zero is known to be below the others.                              *)
ValidDecision(c) ==
    /\ c["decision"]["keep_threshold"] = "zero" => c["decision"]["review_threshold"] = "zero"
    /\ Each(c, "decision", {"keep_threshold", "review_threshold"}, Number)
    /\ Each(c, "hard_reject", {"technical_quality_below", "subject_focus_below"}, Number)
    /\ Each(c, "screening_policy", {"weight"}, Number)
ValidGrouping(c) ==
    /\ \A s \in {"grouping", "visual", "embsim", "best"}: Switches(c, s)
    /\ Each(c, "grouping", {"time_gap_seconds"}, Number)
    /\ \A s \in {"grouping", "visual"}: Each(c, s, {"hash_threshold"}, Whole)
    /\ Each(c, "visual", {"max_merge_gap_minutes"}, Number)
    /\ Each(c, "embsim", {"threshold"}, Number)
ValidWriting(c) ==
    {"write_mode", "compatibility_profile", "machine_tag_target"} \cap Keys(c, "xmp") = {}
ValidSemantic(c) ==
    /\ Value(c, "top", "commentary_enabled") = "false"
    /\ Switches(c, "semantic")
    /\ Each(c, "semantic", {"model_name", "pretrained", "device"}, Path)
    /\ Each(c, "semantic", {"min_confidence"}, LaxNumber)
ValidDetection(c) ==
    /\ Switches(c, "detection") /\ Each(c, "detection", {"runtime"}, Choice)
    /\ Each(c, "detection", {"model_name", "model_version", "device", "fallback_device"}, Path)
    /\ Each(c, "detection", {"score_threshold"}, LaxNumber)
    /\ Each(c, "detection", {"input_size", "max_results"}, Whole)
    /\ Falsy(c["detection"]["enabled"])
       \/ Each(c, "detection", {"model_path", "compiled_cache_dir"}, Path \ {"preset"})
ValidQuality(c) ==
    /\ Switches(c, "quality") /\ Each(c, "quality", {"device", "policy_version"}, Path)
    /\ Each(c, "quality", {"metrics"}, {"preset", "fine"})
ValidAesthetic(c) ==
    /\ Switches(c, "aesthetic") /\ Each(c, "aesthetic", {"runtime", "performance_hint"}, Choice)
    /\ Each(c, "aesthetic", {"model_name", "model_version", "device"}, Path)
    /\ Each(c, "aesthetic", {"result_cache_size", "batch_size", "max_in_flight"}, Whole)
    /\ Each(c, "aesthetic", {"infer_requests"}, Whole \union {"known"})
    /\ Falsy(c["aesthetic"]["enabled"]) \/ Each(c, "aesthetic", {"model_path"}, Path \ {"preset"})
ValidCalibration(c) ==
    /\ Switches(c, "calibration") /\ Each(c, "calibration", {"policy_version"}, Path)
    /\ Each(c, "calibration", {"minimum_label_count"}, Whole)
    /\ Each(c, "calibration", {"minimum_target_confidence", "pivot"}, Number)
    /\ Each(c, "calibration", {"profiles"}, {"preset", "fine"})
ValidEmbedding(c) ==
    LET on == ~Falsy(c["embedding"]["enabled"])
        openvino == c["embedding"]["runtime"] = "known" IN
    /\ All(c, "embedding", {"enabled", "enforce_available"}, {"true", "false"})
    /\ Each(c, "embedding", {"runtime"}, Choice)
    /\ Each(c, "embedding", {"model_name", "device"}, Path)
    /\ Each(c, "embedding", {"model_revision"},
            IF on /\ ~openvino THEN {"preset", "known"} ELSE Path \union {"blank"})
    /\ Each(c, "embedding", {"result_cache_size", "batch_size"}, Whole)
    /\ on /\ openvino => Each(c, "embedding", {"model_path", "processor_path"}, Path \ {"preset"})
ValidFace(c) ==
    /\ Switches(c, "face") /\ Each(c, "face", {"model_asset_path"}, Path)
    /\ Each(c, "face", {"num_faces"}, Positive)
    /\ Each(c, "face", {"min_detection_confidence"}, LaxNumber)
ValidRuntime(c) ==
    /\ Switches(c, "inference") /\ Each(c, "inference", {"runtime"}, Choice)
    /\ Each(c, "inference", {"device"}, Path)
ValidOllama(c) ==
    /\ "ollama" \in DOMAIN c
    /\ {"base_url", "vision_model", "commentary_model", "timeout"} \subseteq Keys(c, "ollama")
    /\ All(c, "ollama", {"max_concurrent"}, Positive)
ValidOMLX(c) ==
    /\ "omlx" \in DOMAIN c
    /\ Each(c, "omlx_admin", {"max_concurrent"}, Positive)
    /\ Each(c, "omlx_requests", {"contract_mode", "model_profile_mode"}, Choice)
    /\ All(c, "omlx_runtime", {"probe_on_run"}, {"preset", "true", "false"})
    /\ All(c, "omlx_requests", {"enable_thinking"}, {"preset", "true", "false"})
    /\ Each(c, "omlx_admin", {"cache_enabled"}, {"preset", "true", "false"})
ValidScreening(c) ==
    /\ Each(c, "screening", {"backend"}, Choice)
    /\ Each(c, "musiq", {"score_divisor"}, Positive \union {"fraction"})
    /\ Each(c, "musiq", {"helper_timeout_seconds"}, Number \union {"high"})
(* Weights that are not a number sum to no number, which is within 0.01.   *)
ValidScenes(c) == All(c, "scene_profiles", Keys(c, "scene_profiles"), {"preset", "weights", "nan"})

Accepts(c) ==
    /\ ValidTop(c) /\ ValidManagement(c) /\ ValidPreview(c) /\ ValidFocus(c) /\ ValidPipeline(c)
    /\ ValidDecision(c) /\ ValidGrouping(c) /\ ValidWriting(c) /\ ValidScreening(c) /\ ValidScenes(c)
    /\ CASE Backend(c) = "local" -> /\ ValidSemantic(c) /\ ValidDetection(c) /\ ValidQuality(c)
                                    /\ ValidAesthetic(c) /\ ValidCalibration(c)
                                    /\ ValidEmbedding(c) /\ ValidFace(c) /\ ValidRuntime(c)
         [] Backend(c) = "ollama" -> ValidOllama(c)
         [] Backend(c) = "omlx" -> ValidOMLX(c)
         [] OTHER -> TRUE
(* validate_config. *)
Validated(c) == ~Unreadable(c) /\ Accepts(Normalized(c))

-----------------------------------------------------------------------------
(* apply_model_selections: the role "aesthetic"; a model of another        *)
(* adapter is refused.                                                     *)
Managed(c) == ~Falsy(Value(c, "model_management", "selection_enabled")) /\ registry # "none"
WithModels(c) ==
    IF Managed(c)
    THEN [c EXCEPT !["aesthetic"] = [k \in {"model_path", "model_name", "model_version", "model_id"}
                                       |-> registry] @@ @]
    ELSE c

(* sync_omlx_model_selection: one model for all three tasks.               *)
ModelKeys == {"fast_vision_model", "full_vision_model", "commentary_model"}
Synced(c) ==
    [c EXCEPT !["omlx"] = [k \in ModelKeys |-> "selected"] @@ @,
              !["omlx_admin"] = [k \in ModelKeys |-> "selected"] @@ @,
              !["top"] = [k \in ModelKeys |-> "selected"] @@ @]

(* apply_run_overrides. *)
Overridden(c, given) ==
    LET n == Normalized(c)
        named == IF ~given.scorers THEN n
                 ELSE [n EXCEPT !["scorers"] = [name \in DOMAIN @ |-> "false"]]
        apart == IF ~given.apart THEN named
                 ELSE [named EXCEPT !["visual"]["enabled"] = "false",
                                    !["grouping"]["hash_threshold"] = "zero"]
    IN [apart EXCEPT !["top"] = "input_dir" :> "text" @@ "reprocess" :> "false" @@ @]

(* build_score_cache_key: the sections with their credentials blanked, and *)
(* the content of the model file when the model is enabled.                *)
KeyedSections ==
    {"legacy", "local", "semantic", "detection", "quality", "aesthetic", "calibration", "embedding",
     "face", "inference", "ollama", "omlx", "omlx_admin", "omlx_runtime", "omlx_requests", "scorers",
     "score_policy", "screening", "musiq", "screening_policy", "decision", "hard_reject",
     "scene_profiles", "grouping", "visual", "embsim", "best", "preview", "focus", "refinement",
     "portrait", "xmp"}
AssetIdentity(c) ==
    IF Backend(c) # "local" \/ Falsy(c["aesthetic"]["enabled"]) THEN "none"
    ELSE IF Falsy(c["aesthetic"]["model_path"]) THEN "not configured" ELSE bundle
(* build_local_embedding_cache_key: not the settings that only say how an  *)
(* embedding is computed, but how the picture was made.                    *)
EmbeddingKey(c) ==
    IF Backend(c) # "local" \/ Falsy(c["embedding"]["enabled"]) THEN <<>>
    ELSE "preview" :> c["preview"]
         @@ "settings" :> [k \in DOMAIN c["embedding"] \
                             {"enabled", "enforce_available", "compiled_cache_dir", "result_cache_size",
                              "batch_size", "allow_batch_fallback"} |-> c["embedding"][k]]
         @@ "inference" :> [k \in {"model_cache_dir", "fallback_device"} |-> c["inference"][k]]

CacheKey(c) ==
    [config |-> [s \in KeyedSections \cap DOMAIN c |->
                    [k \in DOMAIN c[s] |-> IF k = "api_key" THEN "blank" ELSE c[s][k]]],
     backend |-> c["top"]["backend"], commentary |-> c["top"]["commentary_enabled"],
     language |-> c["top"]["output_language"], assets |-> AssetIdentity(c),
     embedding |-> EmbeddingKey(c)]

(* What a score, a group or a description is made from.                    *)
ReadSections ==
    {"semantic", "detection", "quality", "aesthetic", "calibration", "scorers", "musiq", "screening",
     "screening_policy", "decision", "hard_reject", "scene_profiles", "grouping", "visual", "best",
     "preview", "focus", "refinement", "portrait", "xmp", "inference", "face", "embedding"}
ScoreInputs(c) ==
    [config |-> [s \in ReadSections |-> Section(c, s)],
     language |-> c["top"]["output_language"],
     model |-> IF Falsy(c["aesthetic"]["enabled"]) \/ bundle \in {"missing", "unreadable"}
               THEN "none" ELSE bundle]

-----------------------------------------------------------------------------
NoArgs == [scorers |-> FALSE, apart |-> FALSE, model |-> FALSE]
Steps == {"idle", "loaded", "ready", "keyed", "refused"}

DocumentTypeOK ==
    /\ written \in Configs
    /\ registry \in Choices /\ bundle \in Bundles
    /\ step \in Steps /\ args \in [scorers: BOOLEAN, apart: BOOLEAN, model: BOOLEAN]
    /\ step \in {"loaded", "ready", "keyed"} => Backend(cfg) \in {"local", "ollama", "omlx"}
    /\ Len(earlier) <= 2

DocumentInit ==
    /\ written \in Configs /\ registry \in Choices /\ bundle \in Bundles
    /\ cfg = <<>> /\ step = "idle" /\ args = NoArgs /\ earlier = <<>>

(* load_config, or the first lines of cmd_run.                             *)
LoadConfig ==
    LET given == WithModels(Normalized(written)) IN
    /\ step = "idle"
    /\ IF Unreadable(written) \/ (Managed(Normalized(written)) /\ registry = "foreign")
          \/ ~Validated(given)
       THEN step' = "refused" /\ cfg' = <<>>
       ELSE step' = "loaded" /\ cfg' = given
    /\ UNCHANGED <<written, registry, bundle, args, earlier>>

(* apply_run_overrides, after the choice of an oMLX model if one is made.  *)
Override ==
    /\ step = "loaded"
    /\ args' \in [scorers: BOOLEAN, apart: BOOLEAN, model: {Backend(cfg) = "omlx"}]
    /\ cfg' = Overridden(IF args'.model THEN Synced(cfg) ELSE cfg, args')
    /\ step' = "ready"
    /\ UNCHANGED <<written, registry, bundle, earlier>>

(* The key is built and the client made, which normalizes once more.       *)
MakeClient ==
    /\ step = "ready" /\ Len(earlier) < 2
    /\ cfg' = Normalized(cfg)
    /\ earlier' = Append(earlier, [key |-> CacheKey(cfg), inputs |-> ScoreInputs(Normalized(cfg))])
    /\ step' = "keyed"
    /\ UNCHANGED <<written, registry, bundle, args>>

(* Between two runs the file, the selection or the model file is changed   *)
(* (bound: two runs, the first of one of the Revisions).                   *)
Revise ==
    /\ step = "keyed" /\ Len(earlier) < 2 /\ written \in Revisions
    /\ \/ written' \in Revisions /\ UNCHANGED <<registry, bundle>>
       \/ registry' \in Choices /\ UNCHANGED <<written, bundle>>
       \/ bundle' \in Bundles /\ UNCHANGED <<written, registry>>
    /\ step' = "idle" /\ cfg' = <<>> /\ args' = NoArgs
    /\ UNCHANGED earlier

DocumentNext == LoadConfig \/ Override \/ MakeClient \/ Revise

DocumentSpec == DocumentInit /\ [][DocumentNext]_documentVars

-----------------------------------------------------------------------------
(* Names that are no longer read, and two that the command line sets.      *)
Retired ==
    {<<"top", k>>: k \in {"vision_backend", "input_dir", "reprocess"}}
    \union {<<"grouping", "group_guard">>, <<"focus", "high_resolution_roi">>}
    \union {<<"portrait", k>>: k \in {"min_face_ratio", "review_penalty"}}
    \union {<<"scoring", k>>: k \in {"pixel_weight", "vision_weight", "cache_revision"}}
    \union {<<"screening_policy", "top1_review_fallback">>, <<"preview", "fallback_decode">>}
    \union {<<"xmp", k>>: k \in {"write_mode", "compatibility_profile", "machine_tag_target"}}
Overrides ==
    (IF args.scorers THEN {<<"scorers", k>>: k \in Keys(cfg, "scorers")} ELSE {})
    \union (IF args.apart THEN {<<"visual", "enabled">>, <<"grouping", "hash_threshold">>} ELSE {})
    \union (IF ~Managed(cfg) THEN {}
            ELSE {<<"aesthetic", k>>: k \in {"model_path", "model_name", "model_version"}})
AdminValue(k) ==
    LET grouped == Value(written, "omlx_admin", k) flat == Value(written, "omlx", k) IN
    IF grouped \in {"absent", "null"} THEN flat ELSE grouped

(* What the file says is what the program works with, however often it is  *)
(* normalized on the way: a document that was accepted stays acceptable    *)
(* and does not change any more; every value in it is in effect, under the *)
(* current name when it was given under an old one and the grouped oMLX    *)
(* value before the flat one, unless the command line or the registry      *)
(* replaced it; and a chosen oMLX model is used for all three tasks.       *)
SettingsTakeEffect ==
    step \in {"ready", "keyed"} =>
    /\ Validated(cfg) /\ (step = "keyed" => Normalized(cfg) = cfg)
    /\ \A s \in DOMAIN written \ {"omlx", "omlx_admin", "scene_profiles", "scene_weights"}:
       \A k \in DOMAIN written[s]:
          LET v == written[s][k] IN
          \/ <<s, k>> \in Retired \union Overrides
          \/ v \in {"null", "blank"}
          \/ cfg[s][k] \in {v, Coerced(v)}
    /\ LET older == Value(written, "screening_policy", "top1_review_fallback") IN
       older = "absent" \/ cfg["best"]["enabled"] = Coerced(older)
    /\ LET older == Value(written, "scoring", "cache_revision") IN
       older \in {"absent", "null"} \/ cfg["score_policy"]["revision"] = older
    /\ LET older == Value(written, "top", "vision_backend") IN
       Falsy(older) \/ ~Falsy(Value(written, "top", "backend")) \/ cfg["top"]["backend"] = older
    /\ \A k \in AdminKeys: "omlx" \in DOMAIN cfg =>
       /\ cfg["omlx"][k] = cfg["omlx_admin"][k]
       /\ cfg["omlx"][k] = "selected" \/ AdminValue(k) \in {"absent", "null"}
             \/ cfg["omlx"][k] \in {AdminValue(k), Coerced(AdminValue(k))}
       /\ args.model /\ k \in ModelKeys => cfg["omlx"][k] = "selected"

(* Two runs with the same cache key scored from the same inputs: the key   *)
(* misses nothing that a score, a group or a description is made from.     *)
SameKeySameInputs ==
    Len(earlier) = 2 /\ earlier[1].key = earlier[2].key => earlier[1].inputs = earlier[2].inputs
=============================================================================
