-------------------------- MODULE XmpSidecarProofs --------------------------
(***************************************************************************)
(* XmpSidecar keeps its safety properties for every set of ratings and     *)
(* texts, as long as no edit falls between the comparison of identities    *)
(* and the replacement.  What makes them inductive is what an operation    *)
(* knows at each of its steps: unless the sidecar has been edited since,   *)
(* the plan and the copy agree with the sidecar itself.                    *)
(***************************************************************************)
EXTENDS XmpSidecar, TLAPS

\* The kinds of operation that reach a step.
KindAt ==
    /\ pc = "idle" => op.kind = "none"
    /\ pc \in {"preview", "failed", "record", "finalize", "relabel"} =>
           op.kind \in {"review", "rewrite"}
    /\ pc \in {"identify", "copy", "check", "replace"} =>
           op.kind \in {"review", "rewrite", "clear"}
    /\ pc = "others" => op.kind = "clear"
    /\ pc = "delete" => op.kind \in {"clear", "reset"}

\* A file that is not there holds nothing; an operation works for a row.
Shape ==
    /\ ~disk.exists => disk = NoFile
    /\ op.kind # "none" => row.status # "none"

\* What was read of a sidecar that has not been edited since is still so.
IdentityKnown ==
    /\ pc \in {"preview", "copy"} /\ ~op.stale => (op.existed <=> disk.exists)
    /\ pc = "copy" /\ op.kind = "clear" => op.existed
    /\ pc = "replace" => ~op.stale

PlanKnown ==
    pc \in {"copy", "check", "replace"} /\ op.kind # "clear" /\ ~op.stale =>
        /\ op.plan = Planned(disk, op.star, op.text)
        /\ (op.rated <=> RatingAllowed(disk))

CopyKnown ==
    pc \in {"check", "replace"} /\ ~op.stale =>
        op.temp = IF op.kind = "clear" THEN Cleared(disk, row.owned)
                                       ELSE Updated(disk, op.star, op.text)

\* A prepared copy has machine tags unless it is a cleaned one.
CopyTags ==
    /\ pc \in {"check", "replace"} => op.temp.exists
    /\ pc \in {"check", "replace"} /\ op.kind = "clear" => ~op.temp.tags
    /\ pc \in {"others", "delete"} /\ op.kind = "clear" => ~disk.tags

\* What happened to the sidecar, by step.
ReplacedAt ==
    /\ pc \in {"record", "finalize", "relabel"} =>
           /\ op.replaced
           /\ op.text = aiLeft.text
           /\ op.rated => aiLeft.rating = {op.star}
    /\ pc \in {"identify", "preview", "copy", "check", "replace", "failed"} => ~op.replaced

IInv ==
    /\ TypeOK
    /\ KindAt
    /\ Shape
    /\ IdentityKnown
    /\ PlanKnown
    /\ CopyKnown
    /\ CopyTags
    /\ ReplacedAt
    /\ OwnedIsLeft
    /\ NoOrphanTags
    /\ LedgerTellsReplaced

-----------------------------------------------------------------------------
(* What the operators on sidecars return *)

\* Missing fields and single values are fields.
LEMMA FieldValues ==
    /\ {} \in Ratings /\ {} \in TextSets
    /\ \A s \in Stars : {s} \in Ratings
    /\ \A x \in Texts : {x} \in TextSets
    /\ 0 \in Stars
BY StarsAssumption DEF Ratings, TextSets

\* Write-back keeps the shape of a sidecar and does what was planned.
LEMMA UpdatedIsSidecar ==
    ASSUME NEW s \in Sidecars, NEW star \in Stars, NEW text \in TextSets
    PROVE  /\ Updated(s, star, text) \in Sidecars
           /\ Planned(s, star, text) \in FieldSets
           /\ Fields(Updated(s, star, text)) = Planned(s, star, text)
           /\ Updated(s, star, text).exists
           /\ Fields(s) \in FieldSets
BY FieldValues DEF Updated, Planned, Fields, Sidecars, FieldSets

\* Cleanup keeps the shape, and removes a field only if the row owns its value.
LEMMA ClearedIsSidecar ==
    ASSUME NEW s \in Sidecars, NEW owned \in FieldSets
    PROVE  /\ Cleared(s, owned) \in Sidecars
           /\ ~Cleared(s, owned).tags
           /\ Cleared(s, owned).exists = s.exists
           /\ \A f \in {"rating", "text"} :
                  Cleared(s, owned)[f] = {} => s[f] = {} \/ s[f] = owned[f]
BY FieldValues DEF Cleared, Unless, Sidecars, FieldSets

\* The constants of the model have the types of what they stand for.
LEMMA ConstantTypes ==
    /\ NoFields \in FieldSets
    /\ NoFile \in Sidecars
    /\ NoRow \in Rows
    /\ NoEntry \in Entries
    /\ NoOp \in Operations
<1>1. NoFields \in FieldSets /\ NoFile \in Sidecars
  BY FieldValues DEF NoFields, NoFile, FieldSets, Sidecars
<1> QED
  BY <1>1, FieldValues DEF NoRow, NoEntry, NoOp, Rows, Entries, Operations

-----------------------------------------------------------------------------
(* Type correctness *)

\* Before anything happened the variables have their types.
LEMMA InitIsTyped == Init => TypeOK
<1> SUFFICES ASSUME Init PROVE TypeOK
  OBVIOUS
<1>1. disk \in Sidecars
  BY ConstantTypes DEF Init, Sidecars
<1> QED
  BY <1>1, ConstantTypes DEF Init, TypeOK, Steps

\* Each step leaves every variable in its type.
LEMMA NextKeepsTypes == TypeOK /\ Next => TypeOK'
<1> SUFFICES ASSUME TypeOK, Next PROVE TypeOK'
  OBVIOUS
<1> USE FieldValues, ConstantTypes
    DEF TypeOK, Goto, Stop, history, Steps
<1>1. CASE \E s \in Stars, x \in Texts : StartReview(s, x)
  <2> SUFFICES ASSUME NEW s \in Stars, NEW x \in Texts, StartReview(s, x)
             PROVE  TypeOK'
    BY <1>1
  <2>1. row' \in Rows
    BY DEF StartReview, NoRow, Rows
  <2>2. op' \in Operations
    BY DEF StartReview, Operations
  <2> QED
    BY <2>1, <2>2 DEF StartReview
<1>2. CASE StartRewrite
  BY <1>2 DEF StartRewrite, Rows, Operations
<1>3. CASE \E c \in BOOLEAN : StartReset(c)
  BY <1>3 DEF StartReset, Operations
<1>4. CASE \E s \in Stars : Rescore(s)
  BY <1>4 DEF Rescore, Rows
<1>5. CASE \E x \in Texts : RewriteCommentary(x)
  BY <1>5 DEF RewriteCommentary, Rows
<1>6. CASE TakeIdentity
  BY <1>6 DEF TakeIdentity, Operations, Sidecars
<1>7. CASE Preview
  <2>1. Planned(disk, op.star, op.text) \in FieldSets
    BY UpdatedIsSidecar DEF Operations
  <2>2. op' \in Operations
    BY <1>7, <2>1 DEF Preview, Operations, RatingAllowed
  <2> QED
    BY <1>7, <2>2 DEF Preview
<1>8. CASE Copy
  <2>1. Updated(IF op.existed THEN disk ELSE NoFile, op.star, op.text) \in Sidecars
    BY UpdatedIsSidecar DEF Operations
  <2>2. Cleared(disk, row.owned) \in Sidecars
    BY ClearedIsSidecar DEF Rows
  <2>3. op' \in Operations
    BY <1>8, <2>1, <2>2 DEF Copy, Prepared, Operations
  <2> QED
    BY <1>8, <2>3 DEF Copy
<1>9. CASE CheckIdentity
  BY <1>9 DEF CheckIdentity
<1>10. CASE Replace
  <2>1. op' \in Operations /\ op.temp \in Sidecars
    BY <1>10 DEF Replace, Operations
  <2>2. Fields(op.temp) \in FieldSets
    BY <2>1 DEF Fields, Sidecars, FieldSets
  <2> QED
    BY <1>10, <2>1, <2>2 DEF Replace
<1>11. CASE PreparationFails
  BY <1>11 DEF PreparationFails
<1>12. CASE RecordFailure \/ RecordReview
  BY <1>12 DEF RecordFailure, RecordReview, Entry, Entries, Operations
<1>13. CASE MarkDone \/ RecordRewrite
  <2>1. Owned(op) \in FieldSets
    BY DEF Owned, Operations, FieldSets
  <2>2. row' \in Rows
    BY <1>13, <2>1 DEF MarkDone, RecordRewrite, Operations, Rows
  <2>3. ledger' \in Entries
    BY <1>13 DEF MarkDone, RecordRewrite, Entry, Entries, Operations
  <2> QED
    BY <1>13, <2>2, <2>3 DEF MarkDone, RecordRewrite
<1>14. CASE RecordPersistenceError
  BY <1>14 DEF RecordPersistenceError, Entry, Entries, Operations
<1>15. CASE PersistenceFails \/ OthersCleared \/ OthersFail \/ Crash
  BY <1>15 DEF PersistenceFails, OthersCleared, OthersFail, Crash
<1>16. CASE DeleteRows
  BY <1>16 DEF DeleteRows
<1>17. CASE Edit
  <2>1. disk' \in Sidecars
    BY <1>17 DEF Edit, Sidecars
  <2>2. op' \in Operations
    BY <1>17 DEF Edit, Operations
  <2> QED
    BY <1>17, <2>1, <2>2 DEF Edit
<1> QED
  BY <1>1, <1>2, <1>3, <1>4, <1>5, <1>6, <1>7, <1>8, <1>9, <1>10, <1>11, <1>12, <1>13,
     <1>14, <1>15, <1>16, <1>17
     DEF Next, Start, Prepare, Persist

-----------------------------------------------------------------------------
(* The invariant is inductive *)

\* IInv holds before anything was written.
LEMMA InitEstablishesIInv == Init => IInv
<1> SUFFICES ASSUME Init PROVE IInv
  OBVIOUS
<1>1. (~disk.exists => disk = NoFile) /\ ~disk.tags
  <2>1. CASE disk = NoFile
    BY <2>1 DEF NoFile
  <2>2. CASE disk # NoFile
    BY <2>2 DEF Init
  <2> QED
    BY <2>1, <2>2
<1>4. Shape /\ NoOrphanTags
  BY <1>1 DEF Init, Shape, NoOrphanTags, NoOp
<1>2. OwnedIsLeft /\ LedgerTellsReplaced
  BY DEF Init, OwnedIsLeft, LedgerTellsReplaced, NoRow, NoFields, NoEntry
<1>3. KindAt /\ IdentityKnown /\ PlanKnown /\ CopyKnown /\ CopyTags /\ ReplacedAt
  BY DEF Init, KindAt, IdentityKnown, PlanKnown, CopyKnown, CopyTags, ReplacedAt, NoOp
<1> QED
  BY <1>2, <1>3, <1>4, InitIsTyped DEF IInv

\* Steps are reached by the operations they belong to, which work for a row.
LEMMA ControlIsKept ==
    IInv /\ EditorInWindow = FALSE /\ Next => (KindAt /\ Shape)'
<1> SUFFICES ASSUME IInv, EditorInWindow = FALSE, Next
             PROVE  (KindAt /\ Shape)'
  OBVIOUS
<1> USE DEF IInv, TypeOK, Steps, Rows, Operations, Entries, Sidecars, KindAt, Shape, Goto,
            Stop, history, NoRow, NoOp
<1>1. CASE \E s \in Stars, x \in Texts : StartReview(s, x)
  BY <1>1 DEF StartReview
<1>2. CASE StartRewrite \/ \E c \in BOOLEAN : StartReset(c)
  BY <1>2 DEF StartRewrite, StartReset
<1>3. CASE \/ \E s \in Stars : Rescore(s)
          \/ \E x \in Texts : RewriteCommentary(x)
  BY <1>3 DEF Rescore, RewriteCommentary
<1>4. CASE TakeIdentity
  BY <1>4 DEF TakeIdentity
<1>5. CASE Preview
  BY <1>5 DEF Preview
<1>6. CASE Copy
  BY <1>6 DEF Copy
<1>7. CASE CheckIdentity
  BY <1>7 DEF CheckIdentity
<1>8. CASE Replace
  BY <1>8 DEF Replace, CopyTags
<1>9. CASE PreparationFails
  BY <1>9 DEF PreparationFails
<1>10. CASE RecordFailure \/ RecordReview
  BY <1>10 DEF RecordFailure, RecordReview, Entry
<1>11. CASE MarkDone \/ RecordRewrite
  BY <1>11 DEF MarkDone, RecordRewrite, Entry
<1>12. CASE RecordPersistenceError \/ PersistenceFails
  BY <1>12 DEF RecordPersistenceError, PersistenceFails, Entry
<1>13. CASE OthersCleared \/ OthersFail \/ DeleteRows
  BY <1>13 DEF OthersCleared, OthersFail, DeleteRows
<1>14. CASE Crash \/ Edit
  <2>1. CASE Crash
    BY <2>1 DEF Crash
  <2>2. CASE Edit
    <3>1. KindAt' /\ row' = row /\ op'.kind = op.kind
      BY <2>2 DEF Edit
    <3>2. ~disk'.exists => disk' = NoFile
      BY <2>2 DEF Edit
    <3> QED
      BY <3>1, <3>2
  <2> QED
    BY <1>14, <2>1, <2>2
<1> QED
  BY <1>1, <1>2, <1>3, <1>4, <1>5, <1>6, <1>7, <1>8, <1>9, <1>10, <1>11, <1>12, <1>13, <1>14
     DEF Next, Start, Prepare, Persist

\* What an operation knows of the sidecar, while nobody edits it.
LEMMA KnowledgeIsKept ==
    IInv /\ EditorInWindow = FALSE /\ Next => (IdentityKnown /\ PlanKnown /\ CopyKnown)'
<1> SUFFICES ASSUME IInv, EditorInWindow = FALSE, Next
             PROVE  (IdentityKnown /\ PlanKnown /\ CopyKnown)'
  OBVIOUS
<1> USE DEF IInv, TypeOK, Steps, Rows, Operations, Entries, Sidecars, KindAt, Shape,
            IdentityKnown, PlanKnown, CopyKnown, Goto, Stop, history, NoRow,
            NoOp
<1>1. CASE \E s \in Stars, x \in Texts : StartReview(s, x)
  BY <1>1 DEF StartReview
<1>2. CASE StartRewrite \/ \E c \in BOOLEAN : StartReset(c)
  BY <1>2 DEF StartRewrite, StartReset
<1>3. CASE \/ \E s \in Stars : Rescore(s)
          \/ \E x \in Texts : RewriteCommentary(x)
  BY <1>3 DEF Rescore, RewriteCommentary
<1>4. CASE TakeIdentity
  <2>1. pc' \in {"preview", "copy", "delete"} /\ op'.stale = FALSE
    BY <1>4 DEF TakeIdentity
  <2>2. op'.existed = disk'.exists
    BY <1>4 DEF TakeIdentity
  <2>3. pc' = "copy" => op'.kind = "clear" /\ op'.existed
    BY <1>4 DEF TakeIdentity
  <2> QED
    BY <2>1, <2>2, <2>3
<1>5. CASE Preview
  BY <1>5 DEF Preview
<1>6. CASE Copy
  <2>1. pc' = "check" /\ disk' = disk /\ row' = row
    BY <1>6 DEF Copy
  <2>2. op'.stale = op.stale /\ op'.kind = op.kind /\ op'.star = op.star
        /\ op'.text = op.text /\ op'.plan = op.plan /\ op'.rated = op.rated
    BY <1>6 DEF Copy
  <2>3. PlanKnown'
    BY <1>6, <2>1, <2>2 DEF Copy
  <2>4. ~op.stale => op'.temp = IF op.kind = "clear" THEN Cleared(disk, row.owned)
                                ELSE Updated(disk, op.star, op.text)
    BY <1>6 DEF Copy, Prepared
  <2> QED
    BY <2>1, <2>2, <2>3, <2>4
<1>7. CASE CheckIdentity
  BY <1>7 DEF CheckIdentity
<1>8. CASE Replace
  BY <1>8 DEF Replace
<1>9. CASE PreparationFails
  BY <1>9 DEF PreparationFails
<1>10. CASE RecordFailure \/ RecordReview
  BY <1>10 DEF RecordFailure, RecordReview, Entry
<1>11. CASE MarkDone \/ RecordRewrite
  BY <1>11 DEF MarkDone, RecordRewrite, Entry
<1>12. CASE RecordPersistenceError \/ PersistenceFails
  BY <1>12 DEF RecordPersistenceError, PersistenceFails, Entry
<1>13. CASE OthersCleared \/ OthersFail \/ DeleteRows
  BY <1>13 DEF OthersCleared, OthersFail, DeleteRows
<1>14. CASE Crash \/ Edit
  <2>1. CASE Crash
    BY <2>1 DEF Crash
  <2>2. CASE Edit
    <3>1. CASE pc = "idle"
      BY <2>2, <3>1 DEF Edit
    <3>2. CASE pc # "idle"
      <4>1. op'.stale /\ pc' = pc /\ pc # "replace"
        BY <2>2, <3>2 DEF Edit
      <4>2. op'.kind = op.kind /\ op'.existed = op.existed
        BY <2>2 DEF Edit
      <4> QED
        BY <4>1, <4>2
    <3> QED
      BY <3>1, <3>2
  <2> QED
    BY <1>14, <2>1, <2>2
<1> QED
  BY <1>1, <1>2, <1>3, <1>4, <1>5, <1>6, <1>7, <1>8, <1>9, <1>10, <1>11, <1>12, <1>13, <1>14
     DEF Next, Start, Prepare, Persist

\* Machine tags come with a row, and go before it does.
LEMMA TagsAreKept ==
    IInv /\ EditorInWindow = FALSE /\ Next => (CopyTags /\ NoOrphanTags)'
<1> SUFFICES ASSUME IInv, EditorInWindow = FALSE, Next
             PROVE  (CopyTags /\ NoOrphanTags)'
  OBVIOUS
<1> USE DEF IInv, TypeOK, Steps, Rows, Operations, Entries, Sidecars, KindAt, Shape,
            CopyTags, NoOrphanTags, Goto, Stop, history, NoRow, NoOp
<1>1. CASE \E s \in Stars, x \in Texts : StartReview(s, x)
  BY <1>1 DEF StartReview
<1>2. CASE StartRewrite \/ \E c \in BOOLEAN : StartReset(c)
  BY <1>2 DEF StartRewrite, StartReset
<1>3. CASE \/ \E s \in Stars : Rescore(s)
          \/ \E x \in Texts : RewriteCommentary(x)
  BY <1>3 DEF Rescore, RewriteCommentary
<1>4. CASE TakeIdentity
  <2>1. pc' = "delete" => disk = NoFile
    BY <1>4 DEF TakeIdentity
  <2>2. pc' \in {"preview", "copy", "delete"} /\ disk' = disk /\ row' = row /\ kept' = kept
    BY <1>4 DEF TakeIdentity
  <2> QED
    BY <2>1, <2>2 DEF NoFile
<1>5. CASE Preview
  BY <1>5 DEF Preview
<1>6. CASE Copy
  <2>1. pc' = "check" /\ disk' = disk /\ row' = row /\ kept' = kept /\ op'.kind = op.kind
    BY <1>6 DEF Copy
  <2>2. CASE op.kind = "clear"
    <3>1. op'.temp = Cleared(disk, row.owned) /\ disk.exists
      BY <1>6, <2>2 DEF Copy, Prepared, IdentityKnown
    <3> QED
      BY <2>1, <3>1, ClearedIsSidecar
  <2>3. CASE op.kind # "clear"
    <3>1. op'.temp.exists
      BY <1>6, <2>3, UpdatedIsSidecar, ConstantTypes DEF Copy, Prepared
    <3> QED
      BY <2>1, <2>3, <3>1
  <2> QED
    BY <2>2, <2>3
<1>7. CASE CheckIdentity
  BY <1>7 DEF CheckIdentity
<1>8. CASE Replace
  BY <1>8 DEF Replace
<1>9. CASE PreparationFails
  BY <1>9 DEF PreparationFails
<1>10. CASE RecordFailure \/ RecordReview
  BY <1>10 DEF RecordFailure, RecordReview, Entry
<1>11. CASE MarkDone \/ RecordRewrite
  BY <1>11 DEF MarkDone, RecordRewrite, Entry
<1>12. CASE RecordPersistenceError \/ PersistenceFails
  BY <1>12 DEF RecordPersistenceError, PersistenceFails, Entry
<1>13. CASE OthersCleared \/ OthersFail \/ DeleteRows
  BY <1>13 DEF OthersCleared, OthersFail, DeleteRows
<1>14. CASE Crash \/ Edit
  <2>1. CASE Crash
    BY <2>1 DEF Crash
  <2>2. CASE Edit
    <3>0. disk' # NoFile => disk'.tags = disk.tags
      BY <2>2 DEF Edit
    <3>1. disk' = NoFile => ~disk'.tags
      BY DEF NoFile
    <3>2. disk'.tags => disk.tags
      BY <3>0, <3>1
    <3>3. op'.temp = op.temp /\ op'.kind = op.kind /\ UNCHANGED <<row, pc, kept>>
      BY <2>2 DEF Edit
    <3> QED
      BY <3>2, <3>3
  <2> QED
    BY <1>14, <2>1, <2>2
<1> QED
  BY <1>1, <1>2, <1>3, <1>4, <1>5, <1>6, <1>7, <1>8, <1>9, <1>10, <1>11, <1>12, <1>13, <1>14
     DEF Next, Start, Prepare, Persist

\* Ownership and ledger follow the replacements.
LEMMA HistoryIsKept ==
    IInv /\ EditorInWindow = FALSE /\ Next => (ReplacedAt /\ OwnedIsLeft /\ LedgerTellsReplaced)'
<1> SUFFICES ASSUME IInv, EditorInWindow = FALSE, Next
             PROVE  (ReplacedAt /\ OwnedIsLeft /\ LedgerTellsReplaced)'
  OBVIOUS
<1> USE DEF IInv, TypeOK, Steps, Rows, Operations, Entries, Sidecars, KindAt,
            IdentityKnown, PlanKnown, CopyKnown, ReplacedAt, OwnedIsLeft,
            LedgerTellsReplaced, Goto, Stop, history, NoRow, NoOp
<1>1. CASE \E s \in Stars, x \in Texts : StartReview(s, x)
  <2>1. pc' = "identify" /\ op'.replaced = FALSE /\ UNCHANGED <<ledger, history>>
    BY <1>1 DEF StartReview
  <2>2. row'.owned = NoFields \/ row' = row
    BY <1>1 DEF StartReview
  <2> QED
    BY <2>1, <2>2 DEF NoFields
<1>2. CASE StartRewrite \/ \E c \in BOOLEAN : StartReset(c)
  BY <1>2 DEF StartRewrite, StartReset
<1>3. CASE \/ \E s \in Stars : Rescore(s)
          \/ \E x \in Texts : RewriteCommentary(x)
  BY <1>3 DEF Rescore, RewriteCommentary
<1>4. CASE TakeIdentity
  BY <1>4 DEF TakeIdentity
<1>5. CASE Preview
  BY <1>5 DEF Preview
<1>6. CASE Copy
  BY <1>6 DEF Copy
<1>7. CASE CheckIdentity
  BY <1>7 DEF CheckIdentity
<1>8. CASE Replace
  <2>1. op'.replaced /\ pc' \in {"record", "others"} /\ torn' /\ ledger' = ledger
    BY <1>8 DEF Replace
  <2>2. pc' = "record" => aiLeft' = Planned(disk, op.star, op.text)
    BY <1>8, UpdatedIsSidecar DEF Replace
  <2>3. op'.rated = op.rated /\ op'.star = op.star /\ op'.text = op.text
    BY <1>8 DEF Replace
  <2>4. pc' = "record" => op.text = aiLeft'.text /\ (op.rated => aiLeft'.rating = {op.star})
    BY <1>8, <2>2 DEF Replace, Planned
  <2> QED
    BY <2>1, <2>3, <2>4
<1>9. CASE PreparationFails
  BY <1>9 DEF PreparationFails
<1>10. CASE RecordFailure \/ RecordReview
  BY <1>10 DEF RecordFailure, RecordReview, Entry
<1>11. CASE MarkDone \/ RecordRewrite
  <2>1. op.replaced /\ op.text = aiLeft.text /\ (op.rated => aiLeft.rating = {op.star})
    BY <1>11 DEF MarkDone, RecordRewrite
  <2>2. row'.owned = Owned(op) /\ pc' = "idle" /\ aiLeft' = aiLeft
    BY <1>11 DEF MarkDone, RecordRewrite
  <2>3. OwnedIsLeft'
    BY <2>1, <2>2 DEF Owned
  <2>4. LedgerTellsReplaced'
    BY <1>11, <2>1 DEF MarkDone, RecordRewrite, Entry
  <2> QED
    BY <2>2, <2>3, <2>4
<1>12. CASE RecordPersistenceError \/ PersistenceFails
  BY <1>12 DEF RecordPersistenceError, PersistenceFails, Entry
<1>13. CASE OthersCleared \/ OthersFail \/ DeleteRows
  BY <1>13 DEF OthersCleared, OthersFail, DeleteRows, NoFields
<1>14. CASE Crash \/ Edit
  <2>1. CASE Crash
    BY <2>1 DEF Crash
  <2>2. CASE Edit
    <3>1. op'.replaced = op.replaced /\ op'.text = op.text /\ op'.rated = op.rated
          /\ op'.star = op.star /\ UNCHANGED <<row, ledger, pc, history>>
      BY <2>2 DEF Edit
    <3> QED
      BY <3>1
  <2> QED
    BY <1>14, <2>1, <2>2
<1> QED
  BY <1>1, <1>2, <1>3, <1>4, <1>5, <1>6, <1>7, <1>8, <1>9, <1>10, <1>11, <1>12, <1>13, <1>14
     DEF Next, Start, Prepare, Persist

\* The conjuncts together: every step keeps the invariant.
LEMMA NextKeepsIInv == IInv /\ EditorInWindow = FALSE /\ [Next]_vars => IInv'
<1> SUFFICES ASSUME IInv, EditorInWindow = FALSE, [Next]_vars PROVE IInv'
  OBVIOUS
<1>1. CASE Next
  <2>1. TypeOK'
    BY <1>1, NextKeepsTypes DEF IInv
  <2> QED
    BY <1>1, <2>1, ControlIsKept, KnowledgeIsKept, TagsAreKept, HistoryIsKept DEF IInv
<1>2. CASE UNCHANGED vars
  BY <1>2 DEF vars, history, IInv, TypeOK, KindAt, Shape, IdentityKnown, PlanKnown,
              CopyKnown, CopyTags, ReplacedAt, OwnedIsLeft, NoOrphanTags,
              LedgerTellsReplaced, Planned, RatingAllowed, Updated, Cleared, Unless
<1> QED
  BY <1>1, <1>2

\* The replacement, in the terms the action properties use.
LEMMA ReplacementFacts ==
    ASSUME IInv, Replacing, [Next]_vars
    PROVE  /\ disk' = op.temp
           /\ Projecting => /\ Fields(disk') = Planned(disk, op.star, op.text)
                            /\ op.plan = Planned(disk, op.star, op.text)
           /\ Clearing => disk' = Cleared(disk, row.owned)
<1>1. Replace
  <2>1. ~op.replaced
    BY DEF IInv, ReplacedAt, Replacing
  <2>2. pc = "replace" /\ op'.replaced
    BY DEF Replacing
  <2>3. ~(UNCHANGED vars)
    BY <2>1, <2>2 DEF vars
  <2>4. ~Crash /\ ~PreparationFails
    BY <2>1, <2>2 DEF Crash, PreparationFails, Stop, Goto, NoOp
  <2>5. ~Edit
    <3>1. Edit => op'.replaced = op.replaced
      BY DEF Edit, IInv, TypeOK, Operations
    <3> QED
      BY <2>1, <2>2, <3>1
  <2>6. Prepare \/ Start \/ Persist
    BY <2>3, <2>4, <2>5 DEF Next
  <2> QED
    BY <2>2, <2>4, <2>6
       DEF Start, StartReview, StartRewrite, StartReset, Rescore, RewriteCommentary,
           Prepare, TakeIdentity, Preview, Copy, CheckIdentity, Persist, RecordFailure,
           RecordReview, MarkDone, RecordRewrite, RecordPersistenceError,
           PersistenceFails, OthersCleared, OthersFail, DeleteRows
<1>2. disk' = op.temp
  BY <1>1 DEF Replace
<1>3. pc = "replace" /\ ~op.stale
  BY DEF Replacing, IInv, IdentityKnown
<1>4. ASSUME Projecting
      PROVE  /\ Fields(disk') = Planned(disk, op.star, op.text)
             /\ op.plan = Planned(disk, op.star, op.text)
  <2>1. op.temp = Updated(disk, op.star, op.text)
    BY <1>3, <1>4 DEF Projecting, IInv, CopyKnown
  <2>2. op.plan = Planned(disk, op.star, op.text)
    BY <1>3, <1>4 DEF Projecting, IInv, PlanKnown
  <2>3. disk \in Sidecars /\ op.star \in Stars /\ op.text \in TextSets
    BY DEF IInv, TypeOK, Operations
  <2> QED
    BY <1>2, <2>1, <2>2, <2>3, UpdatedIsSidecar
<1>5. ASSUME Clearing PROVE disk' = Cleared(disk, row.owned)
  BY <1>2, <1>3, <1>5 DEF Clearing, IInv, CopyKnown
<1> QED
  BY <1>2, <1>4, <1>5

-----------------------------------------------------------------------------
(* What every execution satisfies *)

\* The inductive invariant holds of every execution in which edits keep out of
\* the window.
THEOREM Invariant == EditorInWindow = FALSE /\ Spec => []IInv
<1> SUFFICES ASSUME EditorInWindow = FALSE PROVE Spec => []IInv
  OBVIOUS
<1>1. IInv /\ [Next]_vars => IInv'
  BY NextKeepsIInv
<1> QED
  BY InitEstablishesIInv, <1>1, PTL DEF Spec

\* Types, which do not depend on when the editor acts.
THEOREM TypeCorrect == Spec => []TypeOK
<1>1. TypeOK /\ [Next]_vars => TypeOK'
  <2>1. TypeOK /\ UNCHANGED vars => TypeOK'
    BY DEF TypeOK, vars, history
  <2> QED
    BY <2>1, NextKeepsTypes
<1> QED
  BY InitIsTyped, <1>1, PTL DEF Spec

\* Rows own only what was left in the sidecar, machine tags have rows, and the
\* ledger tells which attempts replaced the sidecar.
THEOREM StoresAgree == EditorInWindow = FALSE /\ Spec => []StoresInStep
<1>1. IInv => StoresInStep
  BY DEF IInv, StoresInStep
<1> QED
  BY <1>1, Invariant, PTL

\* No write-back changes a rating it has to preserve.
THEOREM RatingsArePreserved == EditorInWindow = FALSE /\ Spec => RatingPreserved
<1>1. IInv /\ [Next]_vars =>
          [Projecting /\ ~RatingAllowed(disk) => disk'.rating = disk.rating]_vars
  <2> SUFFICES ASSUME IInv, [Next]_vars, Projecting, ~RatingAllowed(disk)
               PROVE  disk'.rating = disk.rating
    OBVIOUS
  <2>1. Fields(disk') = Planned(disk, op.star, op.text)
    BY ReplacementFacts DEF Projecting
  <2> QED
    BY <2>1 DEF Fields, Planned
<1> QED
  BY <1>1, Invariant, PTL DEF Spec, RatingPreserved

\* Committed receipts report what is in the file.
THEOREM ReceiptsAreTrue == EditorInWindow = FALSE /\ Spec => ReceiptIsTrue
<1>1. IInv /\ [Next]_vars => [Projecting => Fields(disk') = op.plan]_vars
  BY ReplacementFacts DEF Projecting
<1> QED
  BY <1>1, Invariant, PTL DEF Spec, ReceiptIsTrue

\* Once every replacement is recorded, cleanup spares what the user changed.
THEOREM SettledResetIsSafe ==
    EditorInWindow = FALSE /\ Spec => UserChangeSurvivesSettledReset
<1>1. IInv /\ [Next]_vars =>
          [Clearing /\ ~torn => \A f \in {"rating", "text"} : ~ClearsChanged(f)]_vars
  <2> SUFFICES ASSUME IInv, [Next]_vars, Clearing, ~torn,
                      NEW f \in {"rating", "text"}, ClearsChanged(f)
               PROVE  FALSE
    OBVIOUS
  <2>1. disk' = Cleared(disk, row.owned)
    BY ReplacementFacts DEF Clearing
  <2>2. disk \in Sidecars /\ row.owned \in FieldSets
    BY DEF IInv, TypeOK, Rows
  <2>3. disk[f] = row.owned[f] /\ disk[f] # {}
    BY <2>1, <2>2, ClearedIsSidecar DEF ClearsChanged
  <2>4. row.owned[f] \in {{}, aiLeft[f]}
    BY DEF IInv, OwnedIsLeft
  <2> QED
    BY <2>3, <2>4 DEF ClearsChanged
<1> QED
  BY <1>1, Invariant, PTL DEF Spec, UserChangeSurvivesSettledReset
=============================================================================
