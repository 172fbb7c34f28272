----------------------------- MODULE XmpSidecar -----------------------------
(***************************************************************************)
(* One photo's XMP sidecar, which two parties change without a common      *)
(* lock: material-agent (the write of a review run, rewrite-xmp, and       *)
(* reset-ai with --clear-xmp, one at a time under run.lock) and whatever   *)
(* editor the photographer uses.  Each operation prepares a private copy,  *)
(* compares the sidecar's identity with the one it took at the start and   *)
(* replaces the file; then it records in SQLite what it did.               *)
(*                                                                         *)
(* Sources: adapters/metadata/exiftool_xmp.py, app/rewrite_xmp_service.py, *)
(* app/reset_ai_judgement_service.py, app/rescore_service.py, the write    *)
(* path of app/review_runtime.py, and adapters/state/processed_sqlite.py.  *)
(*                                                                         *)
(* A field is the set of the values it holds: empty when it is missing, a  *)
(* singleton otherwise.  photoshop:Instructions and dc:description are     *)
(* written, owned and cleared by the same rules and are one field, text.   *)
(* The pj:* identifiers are one flag.  Nothing is counted, so no bound is  *)
(* needed: runs, edits and failures may follow each other for ever.        *)
(***************************************************************************)
EXTENDS Integers, FiniteSets

CONSTANTS
    Stars,          \* ratings, those an editor may set included
    Texts,          \* texts, those an editor may type included
    EditorInWindow  \* whether an edit may fall between the identity
                    \* comparison and the replacement

ASSUME StarsAssumption == Stars \subseteq Int /\ 0 \in Stars
ASSUME WindowAssumption == EditorInWindow \in BOOLEAN

VARIABLES
    disk,       \* the sidecar
    row,        \* the photo's row of the processed table
    ledger,     \* the last entry of xmp_projection_ledger
    pc,         \* the next step of the operation in progress, "idle" without
    op,         \* what the operation holds in memory
    aiLeft,     \* history: the fields the last replacement left in the sidecar
    torn,       \* history: a replacement the row does not tell of
    kept        \* history: a reset without --clear-xmp left the sidecar alone

history == <<aiLeft, torn, kept>>
vars    == <<disk, row, ledger, pc, op, history>>

NoFields == [rating |-> {}, text |-> {}]
NoFile   == [exists |-> FALSE, readable |-> TRUE, tags |-> FALSE,
             rating |-> {}, text |-> {}]
NoRow    == [status |-> "none", star |-> 0, text |-> {}, owned |-> NoFields]
NoOp     == [kind |-> "none", star |-> 0, text |-> {}, existed |-> FALSE,
             stale |-> FALSE, plan |-> NoFields, rated |-> FALSE,
             temp |-> NoFile, replaced |-> FALSE]
NoEntry  == [status |-> "none", replaced |-> FALSE]

Ratings  == {{}} \cup {{s} : s \in Stars}
TextSets == {{}} \cup {{t} : t \in Texts}

Fields(s) == [rating |-> s.rating, text |-> s.text]

Init ==
    /\ disk \in {NoFile} \cup [exists : {TRUE}, readable : {TRUE}, tags : {FALSE},
                                rating : Ratings, text : TextSets]
    /\ row = NoRow
    /\ ledger = NoEntry
    /\ pc = "idle"
    /\ op = NoOp
    /\ aiLeft = NoFields
    /\ torn = FALSE
    /\ kept = FALSE

Goto(l) == pc' = l
Stop    == pc' = "idle" /\ op' = NoOp

-----------------------------------------------------------------------------
(* What the operations make of a sidecar *)

\* Only a missing or a zero rating may be filled.
RatingAllowed(s) == s.rating \subseteq {0}

\* preview_projection: the effective values once the plan is carried out.
Planned(s, star, text) ==
    [rating |-> IF RatingAllowed(s) THEN {star} ELSE s.rating, text |-> text]

\* Fault: exiftool is told to add a value rather than to set it.
Updated_AddsText(s, star, text) ==
    [s EXCEPT !.exists = TRUE, !.tags = TRUE, !.text = @ \cup text,
              !.rating = IF RatingAllowed(s) THEN {star} ELSE @]

\* Fault: The rating is always written.
Updated_AlwaysRates(s, star, text) ==
    [s EXCEPT !.exists = TRUE, !.tags = TRUE, !.text = text, !.rating = {star}]

\* _update_existing_xmp, and _write_minimal_xmp when there is no file.
Updated(s, star, text) ==
    [s EXCEPT !.exists = TRUE, !.tags = TRUE, !.text = text,
              !.rating = IF RatingAllowed(s) THEN {star} ELSE @]

\* Fault: The cleanup clears every scalar the row has a value for.
Unless_Forced(value, owned) == IF owned # {} THEN {} ELSE value

\* clear_ai_tags: a scalar goes only if it is still the one the row owns.
Unless(value, owned) == IF owned # {} /\ value = owned THEN {} ELSE value

Cleared(s, owned) ==
    [s EXCEPT !.tags = FALSE,
              !.rating = Unless(@, owned.rating),
              !.text   = Unless(@, owned.text)]

\* Fault: A preserved rating counts as written.
Owned_AlwaysRating(o) == [rating |-> {o.star}, text |-> o.text]

\* The xmp_payload a successful write stores: a preserved rating is not owned.
Owned(o) == [rating |-> IF o.rated THEN {o.star} ELSE {}, text |-> o.text]

-----------------------------------------------------------------------------
(* The operations start *)

\* A review run is about to write the photo: it has just been scored, which
\* replaces its row, or the row an earlier run stored is reused.
StartReview(star, text) ==
    /\ pc = "idle"
    /\ \/ row' = [NoRow EXCEPT !.status = "scored", !.star = star]
       \/ row.status # "none" /\ row.star = star /\ UNCHANGED row
    /\ op' = [NoOp EXCEPT !.kind = "review", !.star = star, !.text = {text}]
    /\ Goto("identify")
    /\ UNCHANGED <<disk, ledger, history>>

StartRewrite ==
    /\ pc = "idle"
    /\ row.status = "done"
    /\ op' = [NoOp EXCEPT !.kind = "rewrite", !.star = row.star, !.text = row.text]
    /\ Goto("identify")
    /\ UNCHANGED <<disk, row, ledger, history>>

\* Rows of every status are reset; the sidecars only on demand.
StartReset(clearXmp) ==
    /\ pc = "idle"
    /\ row.status # "none"
    /\ op' = [NoOp EXCEPT !.kind = IF clearXmp THEN "clear" ELSE "reset"]
    /\ Goto(IF clearXmp THEN "identify" ELSE "delete")
    /\ UNCHANGED <<disk, row, ledger, history>>

\* rescore and rewrite-commentary change rows and leave sidecars and the
\* ownership payload alone.
Rescore(star) ==
    /\ pc = "idle"
    /\ row.status # "none"
    /\ row' = [row EXCEPT !.star = star]
    /\ UNCHANGED <<disk, ledger, pc, op, history>>

RewriteCommentary(text) ==
    /\ pc = "idle"
    /\ row.status = "done"
    /\ row' = [row EXCEPT !.text = {text}]
    /\ UNCHANGED <<disk, ledger, pc, op, history>>

-----------------------------------------------------------------------------
(* Preparing the copy *)

TakeIdentity ==
    /\ pc = "identify"
    /\ op' = [op EXCEPT !.existed = disk.exists, !.stale = FALSE]
    /\ Goto(IF op.kind # "clear" THEN "preview"
            ELSE IF disk.exists THEN "copy" ELSE "delete")
    /\ UNCHANGED <<disk, row, ledger, history>>

Preview ==
    /\ pc = "preview"
    /\ disk.readable
    /\ op' = [op EXCEPT !.plan = Planned(disk, op.star, op.text), !.rated = RatingAllowed(disk)]
    /\ Goto("copy")
    /\ UNCHANGED <<disk, row, ledger, history>>

Prepared ==
    IF op.kind = "clear" THEN Cleared(disk, row.owned)
    ELSE Updated(IF op.existed THEN disk ELSE NoFile, op.star, op.text)

\* Fault: The identity is taken when the file is copied, after the plan was made.
Copy_TakesIdentity ==
    /\ pc = "copy"
    /\ op.existed => disk.exists /\ disk.readable
    /\ op' = [op EXCEPT !.stale = FALSE, !.temp = Prepared]
    /\ Goto("check")
    /\ UNCHANGED <<disk, row, ledger, history>>

\* The policy fields are read again, from the copy.
Copy ==
    /\ pc = "copy"
    /\ op.existed => disk.exists /\ disk.readable
    /\ op' = [op EXCEPT !.temp = Prepared]
    /\ Goto("check")
    /\ UNCHANGED <<disk, row, ledger, history>>

CheckIdentity ==
    /\ pc = "check"
    /\ ~op.stale
    /\ Goto("replace")
    /\ UNCHANGED <<disk, row, ledger, op, history>>

Replace ==
    /\ pc = "replace"
    /\ disk' = op.temp
    /\ op' = [op EXCEPT !.replaced = TRUE]
    /\ aiLeft' = Fields(op.temp)
    /\ torn' = TRUE
    /\ Goto(IF op.kind = "clear" THEN "others" ELSE "record")
    /\ UNCHANGED <<row, ledger, kept>>

\* The sidecar cannot be read or copied, ExifTool fails, the identity has
\* changed, the replacement fails.  reset-ai stops there and keeps every row.
PreparationFails ==
    /\ pc \in {"preview", "copy", "check", "replace"}
    /\ IF op.kind = "clear" THEN Stop ELSE Goto("failed") /\ UNCHANGED op
    /\ UNCHANGED <<disk, row, ledger, history>>

-----------------------------------------------------------------------------
(* Recording what was done *)

Entry(status) == [status |-> status, replaced |-> op.replaced]

RecordFailure ==
    /\ pc = "failed"
    /\ ledger' = Entry("failed")
    /\ Stop
    /\ UNCHANGED <<disk, row, history>>

RecordReview ==
    /\ pc = "record"
    /\ op.kind = "review"
    /\ ledger' = Entry("committed")
    /\ Goto("finalize")
    /\ UNCHANGED <<disk, row, op, history>>

MarkDone ==
    /\ pc = "finalize"
    /\ row' = [status |-> "done", star |-> op.star, text |-> op.text, owned |-> Owned(op)]
    /\ torn' = FALSE
    /\ Stop
    /\ UNCHANGED <<disk, ledger, aiLeft, kept>>

\* One transaction for the receipt and the payload.
RecordRewrite ==
    /\ pc = "record"
    /\ op.kind = "rewrite"
    /\ ledger' = Entry("committed")
    /\ row' = [row EXCEPT !.owned = Owned(op)]
    /\ torn' = FALSE
    /\ Stop
    /\ UNCHANGED <<disk, aiLeft, kept>>

\* A rewrite whose record failed reports that, still as a committed write,
\* without the payload.
RecordPersistenceError ==
    /\ pc = "relabel"
    /\ ledger' = Entry("committed")
    /\ Stop
    /\ UNCHANGED <<disk, row, history>>

PersistenceFails ==
    /\ pc \in {"failed", "record", "finalize", "relabel", "delete"}
    /\ IF pc = "record" /\ op.kind = "rewrite"
       THEN Goto("relabel") /\ UNCHANGED op
       ELSE Stop
    /\ UNCHANGED <<disk, row, ledger, history>>

\* reset-ai clears the sidecars of all rows before it deletes any row.
OthersCleared ==
    /\ pc = "others"
    /\ Goto("delete")
    /\ UNCHANGED <<disk, row, ledger, op, history>>

OthersFail ==
    /\ pc = "others"
    /\ Stop
    /\ UNCHANGED <<disk, row, ledger, history>>

DeleteRows ==
    /\ pc = "delete"
    /\ row' = NoRow
    /\ torn' = FALSE
    /\ kept' = (op.kind = "reset")
    /\ Stop
    /\ UNCHANGED <<disk, ledger, aiLeft>>

\* The process dies, or a BaseException unwinds it.
Crash ==
    /\ pc # "idle"
    /\ Stop
    /\ UNCHANGED <<disk, row, ledger, history>>

-----------------------------------------------------------------------------
(* The editor *)

Edit ==
    /\ pc = "replace" => EditorInWindow
    /\ \/ \E r \in Ratings, t \in TextSets :
             disk' = [disk EXCEPT !.exists = TRUE, !.readable = TRUE, !.rating = r, !.text = t]
       \/ disk.exists /\ disk' = [disk EXCEPT !.readable = FALSE]
       \/ disk' = NoFile
    /\ disk' # disk
    /\ op' = [op EXCEPT !.stale = pc # "idle"]
    /\ UNCHANGED <<row, ledger, pc, history>>

-----------------------------------------------------------------------------

Start ==
    \/ \E s \in Stars, t \in Texts : StartReview(s, t)
    \/ StartRewrite
    \/ \E c \in BOOLEAN : StartReset(c)
    \/ \E s \in Stars : Rescore(s)
    \/ \E t \in Texts : RewriteCommentary(t)

Prepare == TakeIdentity \/ Preview \/ Copy \/ CheckIdentity \/ Replace \/ PreparationFails

Persist ==
    \/ RecordFailure \/ RecordReview \/ MarkDone \/ RecordRewrite
    \/ RecordPersistenceError \/ PersistenceFails
    \/ OthersCleared \/ OthersFail \/ DeleteRows

Next == Start \/ Prepare \/ Persist \/ Crash \/ Edit

Spec == Init /\ [][Next]_vars

-----------------------------------------------------------------------------
(* Properties *)

FieldSets == [rating : Ratings, text : TextSets]
Sidecars  == [exists : BOOLEAN, readable : BOOLEAN, tags : BOOLEAN,
              rating : Ratings, text : TextSets]

Rows       == [status : {"none", "scored", "done"}, star : Stars, text : TextSets,
               owned : FieldSets]
Entries    == [status : {"none", "committed", "failed"}, replaced : BOOLEAN]
Operations == [kind : {"none", "review", "rewrite", "clear", "reset"}, star : Stars,
               text : TextSets, existed : BOOLEAN, stale : BOOLEAN, plan : FieldSets,
               rated : BOOLEAN, temp : Sidecars, replaced : BOOLEAN]
Steps      == {"idle", "identify", "preview", "copy", "check", "replace", "failed",
               "record", "finalize", "relabel", "others", "delete"}

\* Every field of a sidecar, of a row's payload and of an operation's memory
\* holds at most one value, and the operation is at one of its steps.
TypeOK ==
    /\ disk \in Sidecars
    /\ row \in Rows
    /\ ledger \in Entries
    /\ pc \in Steps
    /\ op \in Operations
    /\ aiLeft \in FieldSets
    /\ torn \in BOOLEAN
    /\ kept \in BOOLEAN

\* The step at which an operation replaces the sidecar.
Replacing  == pc = "replace" /\ op'.replaced
Projecting == Replacing /\ op.kind \in {"review", "rewrite"}
Clearing   == Replacing /\ op.kind = "clear"

\* Write-back never changes a rating that is neither missing nor zero, whoever
\* set it and whenever: between any two steps of the operation the editor may
\* have rated the photo (exiftool_xmp.py write, _rating_write_allowed).
RatingPreserved ==
    [][Projecting /\ ~RatingAllowed(disk) => disk'.rating = disk.rating]_vars

\* A committed receipt is true: the effective values it reports, planned from
\* one reading of the sidecar, are those of the file that was made from a
\* later reading (preview_projection, finish_projection).
ReceiptIsTrue ==
    [][Projecting => Fields(disk') = op.plan]_vars

\* The scalars a row claims to own are those the last replacement left in the
\* sidecar, except after a replacement that never reached the row.
OwnedIsLeft ==
    ~torn => /\ row.owned.rating \in {{}, aiLeft.rating}
             /\ row.owned.text \in {{}, aiLeft.text}

\* A scalar the user changed after the last replacement.
ClearsChanged(f) == disk[f] # {} /\ disk'[f] = {} /\ disk[f] # aiLeft[f]

\* AI cleanup removes no scalar that the user changed after the write-back
\* (clear_ai_tags with the row's payload as expected_fields).
UserChangeSurvivesReset ==
    [][Clearing => \A f \in {"rating", "text"} : ~ClearsChanged(f)]_vars

\* The same, as long as every replacement has been recorded in the row.
UserChangeSurvivesSettledReset ==
    [][Clearing /\ ~torn => \A f \in {"rating", "text"} : ~ClearsChanged(f)]_vars

\* Machine tags in a sidecar can be found again: the photo has a row, which a
\* later reset would clear, unless a reset was told to leave sidecars alone.
NoOrphanTags == disk.tags => row.status # "none" \/ kept

\* The ledger says committed exactly of the attempts that replaced the
\* sidecar: a database error after the replacement is not a failed write, and
\* a refused write is not a success.
LedgerTellsReplaced ==
    ledger.status # "none" => (ledger.status = "committed" <=> ledger.replaced)

\* The row, the ledger and the sidecar tell one story.
StoresInStep == OwnedIsLeft /\ NoOrphanTags /\ LedgerTellsReplaced
=============================================================================
