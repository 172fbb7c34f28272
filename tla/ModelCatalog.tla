---------------------------- MODULE ModelCatalog ----------------------------
(***************************************************************************)
(* Installation, selection and deletion of the pinned model files.  The    *)
(* callers are request threads of one Web service, which share a           *)
(* ModelCatalogService and its RLock, or separate processes (the service   *)
(* and the `models` command), which share only the files.                  *)
(*                                                                         *)
(* Source: app/model_catalog_service.py.                                   *)
(***************************************************************************)
EXTENDS Integers, FiniteSets

CONSTANTS
    Models,         \* the catalog
    RoleOf,         \* RoleOf[m]: the role that m plays
    NoModel,        \* no selection
    Bundled,        \* the models whose verified file is part of the image
    Callers,        \* whoever installs, selects and deletes
    MaxCrashes      \* bound: how often a process dies

ASSUME CatalogAssumption ==
    /\ Bundled \subseteq Models
    /\ NoModel \notin Models
    /\ MaxCrashes \in Nat
    /\ RoleOf \in [Models -> {"aesthetic", "detection", "face_detection"}]

VARIABLES
    together,   \* the callers are threads of one service, and share its lock
    files,      \* files[m]: what lies at the managed path of m
    folder,     \* the models whose directory exists
    temps,      \* temps[m]: whose partial downloads lie in that directory
    selected,   \* selections.json
    call,       \* call[c]: what caller c is doing
    crashes

catalogVars == <<together, files, folder, temps, selected, call, crashes>>

Roles == {RoleOf[m]: m \in Models}
Selections == [Roles -> Models \union {NoModel}]

CallStates == {"idle", "open", "download", "replace", "chosen", "write",
               "unlink", "list", "rmdir", "pop"}

(* A call holds the lock of its service in every state but these two. *)
Locked(c) == call[c].at \notin {"idle", "chosen"}
LockFree(c) == together => \A d \in Callers: ~Locked(d)

(* _model_status: the managed file counts when its checksum is right, the  *)
(* bundled one otherwise.                                                  *)
Installed(m) == files[m] = "whole" \/ m \in Bundled

CatalogTypeOK ==
    /\ together \in BOOLEAN
    /\ files \in [Models -> {"none", "other", "whole"}]
    /\ folder \subseteq Models
    /\ temps \in [Models -> SUBSET Callers]
    /\ selected \in Selections
    /\ call \in [Callers -> [at: CallStates, model: Models \union {NoModel},
                             force: BOOLEAN, seen: Selections]]
    /\ crashes \in 0..MaxCrashes

Nothing == [r \in Roles |-> NoModel]
Idle == [at |-> "idle", model |-> NoModel, force |-> FALSE, seen |-> Nothing]
Go(c, s) == call' = [call EXCEPT ![c].at = s]
Return(c) == call' = [call EXCEPT ![c] = Idle]

(* A managed file may be missing, whole, or have the wrong checksum: cut   *)
(* off by a copy, damaged or replaced by hand.                             *)
CatalogInit ==
    /\ together \in BOOLEAN
    /\ files \in [Models -> {"none", "other", "whole"}]
    /\ folder = {m \in Models: files[m] # "none"}
    /\ temps = [m \in Models |-> {}]
    /\ selected \in {s \in Selections: \A r \in Roles: s[r] # NoModel =>
                                          RoleOf[s[r]] = r /\ Installed(s[r])}
    /\ call = [c \in Callers |-> Idle]
    /\ crashes = 0

(* install: takes the lock and returns at once when the file is verified.  *)
InstallCall(c, m) ==
    /\ call[c].at = "idle" /\ LockFree(c)
    /\ files[m] # "whole"
    /\ folder' = folder \union {m}
    /\ call' = [call EXCEPT ![c] = [Idle EXCEPT !.at = "open", !.model = m]]
    /\ UNCHANGED <<together, files, temps, selected, crashes>>

(* mkstemp in the model's directory, unless another process removed it.    *)
OpenTemp(c) ==
    /\ call[c].at = "open"
    /\ LET m == call[c].model IN
       \/ m \in folder /\ temps' = [temps EXCEPT ![m] = @ \union {c}] /\ Go(c, "download")
       \/ m \notin folder /\ UNCHANGED temps /\ Return(c)
    /\ UNCHANGED <<together, files, folder, selected, crashes>>

(* The download fails or its checksum is wrong: the temporary file goes.   *)
DownloadFails(c) ==
    /\ call[c].at = "download"
    /\ temps' = [temps EXCEPT ![call[c].model] = @ \ {c}]
    /\ Return(c)
    /\ UNCHANGED <<together, files, folder, selected, crashes>>

Verified(c) ==
    /\ call[c].at = "download"
    /\ Go(c, "replace")
    /\ UNCHANGED <<together, files, folder, temps, selected, crashes>>

Replace(c) ==
    /\ call[c].at = "replace"
    /\ files' = [files EXCEPT ![call[c].model] = "whole"]
    /\ temps' = [temps EXCEPT ![call[c].model] = @ \ {c}]
    /\ Return(c)
    /\ UNCHANGED <<together, folder, selected, crashes>>

(* select: the status is examined with the lock released again.            *)
SelectCall(c, m) ==
    /\ call[c].at = "idle" /\ LockFree(c)
    /\ Installed(m)
    /\ call' = [call EXCEPT ![c] = [Idle EXCEPT !.at = "chosen", !.model = m]]
    /\ UNCHANGED <<together, files, folder, temps, selected, crashes>>

SelectRead(c) ==
    /\ call[c].at = "chosen" /\ LockFree(c)
    /\ call' = [call EXCEPT ![c].at = "write", ![c].seen = selected]
    /\ UNCHANGED <<together, files, folder, temps, selected, crashes>>

SelectWrite(c) ==
    /\ call[c].at = "write"
    /\ selected' = [call[c].seen EXCEPT ![RoleOf[call[c].model]] = call[c].model]
    /\ Return(c)
    /\ UNCHANGED <<together, files, folder, temps, crashes>>

(* Fault: delete reads the selections without the lock.                    *)
DeleteCall_Unlocked(c, m, force) ==
    /\ call[c].at = "idle"
    /\ selected[RoleOf[m]] = m => force
    /\ call' = [call EXCEPT ![c] = [at |-> "unlink", model |-> m, force |-> force,
                                    seen |-> selected]]
    /\ UNCHANGED <<together, files, folder, temps, selected, crashes>>

(* delete: refused for the selected model unless forced.                   *)
DeleteCall(c, m, force) ==
    /\ call[c].at = "idle" /\ LockFree(c)
    /\ selected[RoleOf[m]] = m => force
    /\ call' = [call EXCEPT ![c] = [at |-> "unlink", model |-> m, force |-> force,
                                    seen |-> selected]]
    /\ UNCHANGED <<together, files, folder, temps, selected, crashes>>

Unlink(c) ==
    /\ call[c].at = "unlink"
    /\ LET m == call[c].model IN
       \/ files[m] = "none" /\ UNCHANGED files /\ Go(c, "pop")
       \/ files[m] # "none" /\ files' = [files EXCEPT ![m] = "none"] /\ Go(c, "list")
    /\ UNCHANGED <<together, folder, temps, selected, crashes>>

(* The directory is removed when it is seen empty.                         *)
ListFolder(c) ==
    /\ call[c].at = "list"
    /\ LET m == call[c].model IN
       Go(c, IF m \in folder /\ temps[m] = {} /\ files[m] = "none" THEN "rmdir" ELSE "pop")
    /\ UNCHANGED <<together, files, folder, temps, selected, crashes>>

(* rmdir raises when another process has put something there or has        *)
(* removed it first: delete then ends before it changes the selections.    *)
Rmdir(c) ==
    /\ call[c].at = "rmdir"
    /\ LET m == call[c].model IN
       IF m \in folder /\ temps[m] = {} /\ files[m] = "none"
         THEN folder' = folder \ {m} /\ Go(c, "pop")
         ELSE UNCHANGED folder /\ Return(c)
    /\ UNCHANGED <<together, files, temps, selected, crashes>>

Pop(c) ==
    /\ call[c].at = "pop"
    /\ LET m == call[c].model IN
       selected' = IF call[c].force /\ call[c].seen[RoleOf[m]] = m
                   THEN [call[c].seen EXCEPT ![RoleOf[m]] = NoModel]
                   ELSE selected
    /\ Return(c)
    /\ UNCHANGED <<together, files, folder, temps, crashes>>

(* A process dies: its calls end where they are and leave their temporary  *)
(* files behind.                                                           *)
Die(c) ==
    /\ crashes < MaxCrashes
    /\ call[c].at # "idle"
    /\ crashes' = crashes + 1
    /\ call' = [d \in Callers |-> IF together \/ d = c THEN Idle ELSE call[d]]
    /\ UNCHANGED <<together, files, folder, temps, selected>>

CatalogStep(c) ==
    \/ \E m \in Models: InstallCall(c, m) \/ SelectCall(c, m)
    \/ \E m \in Models, force \in BOOLEAN: DeleteCall(c, m, force)
    \/ OpenTemp(c) \/ DownloadFails(c) \/ Verified(c) \/ Replace(c)
    \/ SelectRead(c) \/ SelectWrite(c)
    \/ Unlink(c) \/ ListFolder(c) \/ Rmdir(c) \/ Pop(c)
    \/ Die(c)

CatalogNext == \E c \in Callers: CatalogStep(c)

CatalogSpec == CatalogInit /\ [][CatalogNext]_catalogVars

-----------------------------------------------------------------------------
Forcing == {call[c].model: c \in {d \in Callers: call[d].force}}
Registry == INSTANCE ModelRegistry WITH forcing <- Forcing

(* What concurrent calls on one service and deaths of its process do is    *)
(* what an atomic registry may do: a file appears verified, the selected   *)
(* model goes only by force, no selection is lost to another call's, and a *)
(* forced deletion takes back only the selection of what it removed.       *)
RegistryStep == [][together => Registry!Next]_catalogVars
=============================================================================
