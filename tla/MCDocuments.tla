---------------------------- MODULE MCDocuments ----------------------------
(***************************************************************************)
(* Configuration documents for the model checker: one per backend, each    *)
(* with every change of one key to a telling value, and with the pairs of  *)
(* keys that bear on one another.                                          *)
(***************************************************************************)
EXTENDS ConfigDocument

OnLocal == "scorers" :> [exposure |-> "true"]
        @@ "aesthetic" :> [enabled |-> "true", model_path |-> "text"]
OnOMLX == "top" :> [backend |-> "omlx", commentary_enabled |-> "on"]
       @@ "legacy" :> [enabled |-> "on"] @@ "scorers" :> [mood |-> "true"] @@ "omlx" :> <<>>
OnOllama == "ollama" :> [base_url |-> "text", vision_model |-> "text", commentary_model |-> "text",
                         timeout |-> "int", commentary_enabled |-> "off"]
         @@ "top" :> [vision_backend |-> "ollama"] @@ "legacy" :> [enabled |-> "true"]
         @@ "scorers" :> [mood |-> "true"]

Change(c, s, k, v) == s :> (k :> v @@ Section(c, s)) @@ c
Change2(c, s, k, v, t, l, w) == Change(Change(c, s, k, v), t, l, w)

Toggles == {"null", "on", "text"}
Numbers == {"null", "true", "fraction", "high", "zero"}
OneChange == UNION {
    {"top"} \X {"backend", "vision_backend"} \X {"null", "blank", "local", "omlx", "text"},
    {"top"} \X {"log_level", "output_language", "raw_extensions", "commentary_enabled"}
            \X {"null", "blank", "known", "list", "int", "text", "on", "off"},
    {"top"} \X {"input_dir", "reprocess"} \X {"text"},
    {"local"} \X {"commentary_enabled"} \X {"on", "false"},
    {"semantic", "detection", "quality", "aesthetic", "calibration", "embedding", "face", "legacy",
     "grouping", "visual", "embsim", "best", "focus", "refinement", "portrait"}
            \X {"enabled"} \X Toggles,
    {"semantic"} \X {"allow_batch_fallback"} \X Toggles,
    {"preview"} \X {"prefer_embedded"} \X Toggles,
    {"preview"} \X {"fallback_decode"} \X {"null", "known", "text"},
    {"preview"} \X {"max_size"} \X Numbers,
    {"semantic"} \X {"min_confidence", "device"} \X (Numbers \union {"text", "blank"}),
    {"detection"} \X {"input_size", "score_threshold", "model_path"} \X (Numbers \union {"text"}),
    {"quality"} \X {"metrics"} \X {"null", "fine", "unordered"},
    {"calibration"} \X {"profiles"} \X {"fine", "steep"},
    {"calibration"} \X {"pivot"} \X Numbers,
    {"embedding"} \X {"model_name", "model_revision"} \X {"text", "known"},
    {"face"} \X {"num_faces"} \X Numbers,
    {"inference"} \X {"runtime", "device"} \X {"known", "text", "blank"},
    {"grouping"} \X {"hash_threshold", "group_guard"} \X Numbers,
    {"grouping"} \X {"not a mapping"} \X {"null"},
    {"visual"} \X {"hash_threshold"} \X Numbers,
    {"screening_policy"} \X {"top1_review_fallback"} \X {"off", "true"},
    {"screening_policy"} \X {"weight"} \X Numbers,
    {"score_policy"} \X {"revision"} \X {"text"},
    {"scoring"} \X {"cache_revision"} \X {"null", "text", "known"},
    {"screening"} \X {"backend", "enabled"} \X {"text", "known", "int"},
    {"musiq"} \X {"score_divisor"} \X Numbers,
    {"xmp"} \X {"write_mode"} \X {"null", "known", "text"},
    {"scene_profiles"} \X {"default", "people"} \X {"raw", "nan", "text", "unknown"},
    {"scene_weights"} \X {"people"} \X {"raw", "zero"},
    {"pipeline"} \X {"max_files"} \X Numbers,
    {"decision"} \X {"keep_threshold", "review_threshold"} \X Numbers,
    {"model_management"} \X {"selection_enabled"} \X Toggles,
    {"model_management"} \X {"registry_dir"} \X {"null"}}

OldAndNew ==
    {Change2(OnLocal, "screening_policy", "top1_review_fallback", v, "best", "enabled", w):
        v \in {"on", "off"}, w \in {"true", "false", "text"}}
    \union {Change2(OnLocal, "scoring", "cache_revision", v, "score_policy", "revision", w):
        v \in {"text", "null"}, w \in {"text", "known"}}
    \union {Change2(OnLocal, "visual", "enabled", v, "visual", "hash_threshold", "int"):
        v \in {"on", "off"}}
    \union {Change2(OnLocal, "top", "backend", v, "top", "vision_backend", "ollama"):
        v \in {"local", "null"}}
FlatAndGrouped ==
    {Change2(OnOMLX, "omlx", k, v, "omlx_admin", k, w):
        k \in AdminKeys, v \in {"text", "null", "true", "high"}, w \in {"known", "null", "false"}}
    \union {Change(OnOMLX, s, k, v): s \in {"omlx_requests", "omlx_runtime"},
        k \in {"contract_mode", "probe_on_run"}, v \in {"known", "text", "on"}}

MCRevisions ==
    {OnLocal} \union {Change(OnLocal, c[1], c[2], c[3]):
        c \in {<<"aesthetic", "enabled", "off">>, <<"pipeline", "max_files", "int">>,
               <<"embedding", "enabled", "on">>, <<"top", "log_level", "known">>,
               <<"model_management", "selection_enabled", "on">>}}
MCConfigs ==
    {OnLocal, OnOMLX, OnOllama, Change(OnOMLX, "top", "backend", "ollama")}
    \union {Change(OnLocal, c[1], c[2], c[3]): c \in OneChange}
    \union OldAndNew \union FlatAndGrouped \union MCRevisions

(* The documents that are not revised start with one registry and file.    *)
MCDocumentInit ==
    /\ DocumentInit
    /\ written \in MCRevisions \/ (registry = "none" /\ bundle = "bytes1")
=============================================================================
