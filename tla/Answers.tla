------------------------------ MODULE Answers ------------------------------
(***************************************************************************)
(* What the models say and what is said in their place: the local client   *)
(* answers from its cache or from inference requests in flight, a vision   *)
(* backend over HTTP with a text in which its answer has to be found; the  *)
(* comments take a model's words or are made from the scores.  The three   *)
(* share nothing, a call ends before its answer is used, so that together  *)
(* they are the conjunction of their specifications.                       *)
(***************************************************************************)
EXTENDS Commentary, Inference, VisionBackend

AnswersSpec == InferenceSpec /\ BackendSpec /\ CommentSpec

(* Whoever asks a model gets its answer: each preview its own, by the      *)
(* model on disk (openvino_service.py, local client), and of a text what   *)
(* the model states in it, nothing that was made up or stood elsewhere     *)
(* (json_extract.py, omlx.py, ollama.py).  Where it fails or its comment   *)
(* is refused, the scores speak (commentary.py).                           *)
AnswersHold == AnswersBelong /\ AnswerIsTheModels /\ CommentsHold
=============================================================================
