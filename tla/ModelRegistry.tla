--------------------------- MODULE ModelRegistry ---------------------------
(***************************************************************************)
(* What the model catalog promises to one service's callers: a registry of *)
(* verified files and of one selected model per role, whose operations are *)
(* atomic.  ModelCatalog implements it.                                    *)
(***************************************************************************)
CONSTANTS Models, RoleOf, NoModel

VARIABLES
    files,      \* files[m]: what lies at the managed path of m
    selected,   \* selected[r]: the model selected for role r
    forcing     \* the models that somebody is deleting with force

(* A model appears in the registry as a verified file only. *)
Install(m) ==
    /\ files[m] # "whole"
    /\ files' = [files EXCEPT ![m] = "whole"]
    /\ UNCHANGED selected

(* A selection changes one role and leaves the others. *)
Select(m) ==
    /\ selected' = [selected EXCEPT ![RoleOf[m]] = m]
    /\ UNCHANGED files

(* The selected model is removed only by force. *)
Remove(m) ==
    /\ files[m] # "none"
    /\ selected[RoleOf[m]] = m => m \in forcing
    /\ files' = [files EXCEPT ![m] = "none"]
    /\ UNCHANGED selected

(* A forced deletion deselects what it removed, and nothing else. *)
Deselect(m) ==
    /\ m \in forcing
    /\ selected[RoleOf[m]] = m
    /\ files[m] = "none"
    /\ selected' = [selected EXCEPT ![RoleOf[m]] = NoModel]
    /\ UNCHANGED files

Next ==
    \/ \E m \in Models: Install(m) \/ Select(m) \/ Remove(m) \/ Deselect(m)
    \/ UNCHANGED <<files, selected>>
=============================================================================
