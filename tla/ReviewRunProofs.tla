-------------------------- MODULE ReviewRunProofs --------------------------
(***************************************************************************)
(* Proofs about ReviewRun, for any number of photos, bursts, scores, modes *)
(* and failures: the pipeline never locks itself out, a dry run is pure, a *)
(* done row vouches for its sidecar, a row is reused only for the pixels   *)
(* it was computed from, the pipeline implements PhotoLedger, the outcome  *)
(* of a run tells of all its photos, a finished run leaves its results     *)
(* settled, and a run over settled results does nothing.                   *)
(***************************************************************************)
EXTENDS ReviewRun, FiniteSetTheorems, TLAPS

-----------------------------------------------------------------------------
(* Ranks                                                                   *)

LEMMA FilesFinite ==
    /\ N \in Nat /\ IsFiniteSet(Files) /\ Cardinality(Files) = N
    /\ \A S \in SUBSET Files : IsFiniteSet(S) /\ Cardinality(S) \in 0..N
<1>1. N \in Nat /\ 1 \in Int /\ N \in Int
  BY FilesAssumption
<1>2. IsFiniteSet(1..N) /\ Cardinality(1..N) = IF 1 > N THEN 0 ELSE N - 1 + 1
  BY <1>1, FS_Interval
<1>3. IsFiniteSet(Files) /\ Cardinality(Files) = N
  BY <1>1, <1>2 DEF Files
<1>4. ASSUME NEW S \in SUBSET Files PROVE IsFiniteSet(S) /\ Cardinality(S) \in 0..N
  <2>1. IsFiniteSet(S) /\ Cardinality(S) <= Cardinality(Files)
    BY <1>3, FS_Subset
  <2>2. Cardinality(S) \in Nat
    BY <2>1, FS_CardinalityType
  <2> QED BY <1>1, <1>3, <2>1, <2>2
<1> QED BY <1>1, <1>3, <1>4

\* The rank of a member counts the members before it: no member has a rank
\* beyond the size of the group.
LEMMA RankInRange ==
    ASSUME NEW S \in SUBSET Files, NEW sc, NEW f \in S, ~Before(sc, f, f)
    PROVE  RankIn(S, sc, f) \in 1..Cardinality(S)
<1> DEFINE ahead == {g \in S : Before(sc, g, f)}
<1>1. ahead \in SUBSET (S \ {f})
  OBVIOUS
<1> HIDE DEF ahead
<1>2. IsFiniteSet(S) /\ Cardinality(S) \in Nat
  BY FilesFinite
<1>3. IsFiniteSet(S \ {f}) /\ Cardinality(S \ {f}) = Cardinality(S) - 1
  BY <1>2, FS_RemoveElement
<1>4. IsFiniteSet(ahead) /\ Cardinality(ahead) <= Cardinality(S) - 1
  BY <1>1, <1>3, FS_Subset
<1>5. Cardinality(ahead) \in Nat
  BY <1>4, FS_CardinalityType
<1> QED BY <1>2, <1>4, <1>5 DEF RankIn, ahead

\* No two members of a group have the same rank.
LEMMA RanksDiffer ==
    ASSUME NEW S \in SUBSET Files, NEW sc \in [Files -> Int], NEW f \in S, NEW g \in S,
           RankIn(S, sc, f) = RankIn(S, sc, g)
    PROVE  f = g
<1>1. ASSUME NEW a \in S, NEW b \in S, Before(sc, a, b)
      PROVE  RankIn(S, sc, a) # RankIn(S, sc, b)
  <2> DEFINE A == {h \in S : Before(sc, h, a)}
             B == {h \in S : Before(sc, h, b)}
  <2>0. \A h \in S : h \in Int /\ sc[h] \in Int
    BY FilesAssumption DEF Files
  <2>a. ASSUME NEW h \in S, Before(sc, h, a) PROVE Before(sc, h, b)
    BY <1>1, <2>0, <2>a DEF Before
  <2>b. ~Before(sc, a, a)
    BY <2>0 DEF Before
  <2>1. A \subseteq B /\ a \in B /\ a \notin A
    BY <1>1, <2>a, <2>b
  <2>2. A \in SUBSET Files /\ B \in SUBSET Files
    OBVIOUS
  <2> HIDE DEF A, B
  <2>3. IsFiniteSet(B) /\ Cardinality(A) \in Nat /\ Cardinality(B) \in Nat
    BY <2>2, FilesFinite
  <2>4. Cardinality(A) # Cardinality(B)
    BY <2>1, <2>3, FS_Subset
  <2> QED BY <2>3, <2>4 DEF RankIn, A, B
<1>2. f = g \/ Before(sc, f, g) \/ Before(sc, g, f)
  <2>1. f \in Int /\ g \in Int /\ sc[f] \in Int /\ sc[g] \in Int
    BY FilesAssumption DEF Files
  <2> QED BY <2>1 DEF Before
<1> QED BY <1>1, <1>2

-----------------------------------------------------------------------------
(* Types                                                                   *)

Rows  == [status : {"none", "scored", "done"}, fp : 0..MaxVersion, of : 0..MaxVersion,
          key : Int, score : Scores \cup {0}, refined : BOOLEAN, info : Infos]
Works == [stage : Stages, score : Scores \cup {0}, of : 0..MaxVersion,
          skip : BOOLEAN, refined : BOOLEAN, prev : Infos]

WritePcs == {"writing", "publishing", "recording", "confirming"}

\* The group that is written is one of the groups.
GroupExists == pc \in WritePcs => group <= N

LEMMA Nothing == NoInfo \in Infos /\ NoRow \in Rows /\ NoWork \in Works /\ NoFile \in FileRows
<1>1. N \in Nat /\ MaxVersion \in Nat
  BY FilesAssumption, BoundsAssumption
<1>2. NoInfo \in Infos
  BY <1>1 DEF NoInfo, Infos
<1>3. NoRow \in Rows
  BY <1>1, <1>2 DEF NoRow, Rows
<1>4. NoWork \in Works
  BY <1>1, <1>2 DEF NoWork, Works, Stages
<1> QED BY <1>1, <1>2, <1>3, <1>4 DEF NoFile, FileRows

Types ==
    /\ content \in [Files -> 0..MaxVersion] /\ proc \in [Files -> Rows]
    /\ xmp \in [Files -> Infos]
    /\ pc \in {"idle", "grouping", "scoring", "marking", "groups"} \cup WritePcs
    /\ mode \in Modes /\ disc \subseteq Files /\ work \in [Files -> Works]
    /\ group \in 0..(N + 1) /\ rank \in 0..(N + 1) /\ errors \in BOOLEAN
    /\ files \in [Files -> FileRows] /\ filesDb \in [Files -> FileRows] /\ tx \in BOOLEAN
    /\ outcome \in {"none", "running", "finished", "finished_with_errors", "interrupted"}
    /\ inputs \in {"settled", "steady", "changed"}
    /\ torn \subseteq Files /\ faults \in 0..MaxFaults

LEMMA TypesOf == (TypeOK <=> Types) /\ (TypeOK' <=> Types')
BY DEF TypeOK, Types, Rows, Works, WritePcs

LEMMA ScoresOf == ASSUME TypeOK PROVE WorkScores \in [Files -> Int]
<1>1. \A f \in Files : work[f] \in Works
  BY TypesOf DEF Types
<1>2. \A f \in Files : work[f].score \in Scores \cup {0}
  BY <1>1 DEF Works
<1>3. \A f \in Files : work[f].score \in Int
  BY <1>2, ScoresAssumption
<1> QED BY <1>3 DEF WorkScores

\* The member that is written next.
LEMMA CurrentFacts ==
    ASSUME TypeOK, NEW f \in Files, Current(f)
    PROVE  /\ f \in Members(group) /\ Burst[f] = group /\ work[f].stage = "scored"
           /\ InfoOf(f) \in Infos \ {NoInfo}
           /\ rank \in 1..N /\ rank + 1 \in 0..(N + 1)
<1>1. f \in Members(group) /\ Burst[f] = group /\ work[f].stage = "scored" /\ f \in Scored(Burst[f])
  BY DEF Current, Scored, Members
<1>2. Scored(Burst[f]) \in SUBSET Files /\ Members(Burst[f]) \in SUBSET Files
  BY DEF Scored, Members, TypeOK
<1>3. ~Before(WorkScores, f, f)
  <2>1. WorkScores[f] \in Int
    BY ScoresOf
  <2> QED BY <2>1, FilesAssumption DEF Before, Files
<1>4. RankIn(Scored(Burst[f]), WorkScores, f) \in 1..Cardinality(Scored(Burst[f]))
  BY <1>1, <1>2, <1>3, RankInRange
<1>5. Cardinality(Scored(Burst[f])) \in 0..N /\ N \in Nat
  BY <1>2, FilesFinite
<1>6. RankIn(Scored(Burst[f]), WorkScores, f) \in 1..N
  BY <1>4, <1>5
<1>7. InfoOf(f) \in Infos
  <2>1. work[f].score \in Scores \cup {0}
    BY DEF TypeOK
  <2> QED BY <1>2, <1>5, <1>6, <2>1 DEF InfoOf, Infos
<1>8. InfoOf(f) # NoInfo
  <2>1. f \in InfoOf(f).members /\ NoInfo.members = {}
    BY <1>1 DEF InfoOf, NoInfo
  <2> QED BY <2>1
<1>9. rank \in 1..N /\ rank + 1 \in 0..(N + 1)
  BY <1>5, <1>6 DEF Current, InfoOf
<1> QED BY <1>1, <1>7, <1>8, <1>9

LEMMA OneCurrent ==
    ASSUME TypeOK, NEW f \in Files, NEW g \in Files, Current(f), Current(g)
    PROVE  f = g
<1>1. f \in Scored(group) /\ g \in Scored(group) /\ Burst[f] = group /\ Burst[g] = group
  BY CurrentFacts DEF Current
<1>2. Scored(group) \in SUBSET Files
  BY DEF Scored, Members, TypeOK
<1>3. WorkScores \in [Files -> Int]
  BY ScoresOf
<1>4. RankIn(Scored(group), WorkScores, f) = RankIn(Scored(group), WorkScores, g)
  BY <1>1 DEF Current, InfoOf
<1> QED BY <1>1, <1>2, <1>3, <1>4, RanksDiffer

\* Scores, versions and marks of a group that is finalized.
LEMMA FinalizedFacts ==
    ASSUME TypeOK, FinalizeGroup
    PROVE  /\ work' \in [Files -> Works]
           /\ \A f \in Files : work'[f].stage = work[f].stage
                               /\ work'[f].of \in {work[f].of, content[f]}
<1>a. PICK A \in SUBSET Refinable : \E G \in SUBSET A : \E new \in [G -> Scores] :
          work' = RefinedBy(Refreshed, A, G, new)
  BY DEF FinalizeGroup
<1>b. PICK G \in SUBSET A : \E new \in [G -> Scores] : work' = RefinedBy(Refreshed, A, G, new)
  BY <1>a
<1>1. PICK new \in [G -> Scores] : work' = RefinedBy(Refreshed, A, G, new)
  BY <1>b
<1>2. ASSUME NEW f \in Files
      PROVE  /\ Refreshed[f] \in Works /\ Refreshed[f].stage = work[f].stage
             /\ Refreshed[f].of = work[f].of
  <2>1. work[f] \in Works
    BY TypesOf DEF Types
  <2>2. PICK same \in BOOLEAN : same = SamePlace(work[f].prev, InfoOf(f))
    BY DEF SamePlace
  <2>3. CASE f \in Scored(group)
    <3>1. Refreshed[f] = [work[f] EXCEPT !.skip = @ /\ same]
      BY <2>2, <2>3 DEF Refreshed
    <3> QED BY <2>1, <3>1 DEF Works
  <2>4. CASE f \notin Scored(group)
    BY <2>1, <2>4 DEF Refreshed
  <2> QED BY <2>3, <2>4
<1>3. ASSUME NEW f \in Files
      PROVE  /\ work'[f] \in Works /\ work'[f].stage = work[f].stage
             /\ work'[f].of \in {work[f].of, content[f]}
  <2>1. CASE f \in G
    <3>1. work'[f] = [Refreshed[f] EXCEPT !.score = new[f], !.of = content[f],
                                          !.refined = TRUE, !.skip = FALSE]
      BY <1>1, <2>1 DEF RefinedBy
    <3> QED BY <1>2, <2>1, <3>1, TypesOf DEF Types, Works
  <2>2. CASE f \notin G
    <3>1. PICK tried \in BOOLEAN : tried <=> f \in A
      <4>1. CASE f \in A
        BY <4>1
      <4>2. CASE f \notin A
        BY <4>2
      <4> QED BY <4>1, <4>2
    <3>2. work'[f] = [Refreshed[f] EXCEPT !.refined = @ \/ tried]
      BY <1>1, <2>2, <3>1 DEF RefinedBy
    <3> QED BY <1>2, <3>2 DEF Works
  <2> QED BY <2>1, <2>2
<1>4. work' = [f \in Files |-> work'[f]]
  BY <1>1 DEF RefinedBy
<1>5. work' \in [Files -> Works]
  BY <1>3, <1>4
<1> QED BY <1>3, <1>5

-----------------------------------------------------------------------------
(* Every step keeps the types.                                             *)

FileStatuses == {"none", "pending", "scored", "error", "written", "skipped", "simulated"}

LEMMA Recorded ==
    ASSUME Types, NEW f \in Files, NEW s \in FileStatuses, NEW r \in 0..N, Record(f, s, r)
    PROVE  files' \in [Files -> FileRows] /\ filesDb' \in [Files -> FileRows] /\ tx' \in BOOLEAN
<1>1. [status |-> s, rank |-> r] \in FileRows
  BY DEF FileRows, FileStatuses
<1>2. files' = [files EXCEPT ![f] = [status |-> s, rank |-> r]]
  BY DEF Record
<1> QED BY <1>1, <1>2 DEF Types, Record

LEMMA StagedWork ==
    ASSUME Types, NEW f \in Files, NEW st \in Stages, NEW s \in Scores \cup {0},
           NEW v \in 0..MaxVersion
    PROVE  /\ [work EXCEPT ![f].stage = st] \in [Files -> Works]
           /\ [work EXCEPT ![f].score = s] \in [Files -> Works]
           /\ [work EXCEPT ![f].stage = st, ![f].score = s] \in [Files -> Works]
           /\ [work EXCEPT ![f].stage = st, ![f].of = v] \in [Files -> Works]
BY DEF Types, Works

LEMMA ScoringTypes ==
    ASSUME Types, NEW f \in Files, Scoring(f)
    PROVE  Types' /\ GroupExists'
<1>0. 0 \in 0..N /\ 0 \in Scores \cup {0} /\ content[f] \in 0..MaxVersion /\ mode.key \in Int
      /\ proc[f] \in Rows /\ work[f] \in Works
  BY FilesAssumption, ModesAssumption DEF Types
<1>1. CASE PrepareCached(f)
  <2> DEFINE w == [stage |-> "cached", score |-> proc[f].score, of |-> proc[f].of,
                   skip |-> proc[f].status = "done", refined |-> proc[f].refined,
                   prev |-> proc[f].info]
  <2>1. w \in Works
    BY <1>0 DEF Works, Rows, Stages
  <2>2. work' = [work EXCEPT ![f] = w]
    BY <1>1 DEF PrepareCached
  <2> HIDE DEF w
  <2> QED BY <1>1, <2>1, <2>2
           DEF PrepareCached, Submitted, Types, GroupExists, WritePcs, store, jobVars, history
<1>2. CASE PrepareFrame(f)
  <2>a. /\ [work EXCEPT ![f].stage = "frame", ![f].of = content[f]] \in [Files -> Works]
        /\ [work EXCEPT ![f].stage = "broken"] \in [Files -> Works]
    BY <1>0, StagedWork DEF Stages
  <2>1. work' \in [Files -> Works]
    BY <1>2, <2>a DEF PrepareFrame
  <2>2. faults' \in 0..MaxFaults
    BY <1>2, BoundsAssumption DEF PrepareFrame, Types
  <2> QED BY <1>2, <2>1, <2>2
           DEF PrepareFrame, Submitted, Types, GroupExists, WritePcs, store, jobVars, history
<1>3. CASE ConsumeCached(f)
  <2>1. work' \in [Files -> Works]
    BY <1>0, <1>3, StagedWork DEF ConsumeCached, Stages
  <2>2. files' \in [Files -> FileRows] /\ filesDb' \in [Files -> FileRows] /\ tx' \in BOOLEAN
    BY <1>0, <1>3, Recorded DEF ConsumeCached, FileStatuses
  <2> QED BY <1>3, <2>1, <2>2 DEF ConsumeCached, Types, GroupExists, WritePcs, store, history
<1>4. ASSUME NEW s \in Scores, ConsumeDry(f, s) PROVE Types' /\ GroupExists'
  <2>1. work' \in [Files -> Works]
    BY <1>0, <1>4, StagedWork DEF ConsumeDry, Stages
  <2>2. files' \in [Files -> FileRows] /\ filesDb' \in [Files -> FileRows] /\ tx' \in BOOLEAN
    BY <1>0, <1>4, Recorded DEF ConsumeDry, FileStatuses
  <2> QED BY <1>4, <2>1, <2>2 DEF ConsumeDry, Types, GroupExists, WritePcs, store, history
<1>5. ASSUME NEW s \in Scores, ConsumeFlush(f, s) PROVE Types' /\ GroupExists'
  <2>1. work' \in [Files -> Works]
    BY <1>0, <1>5, StagedWork DEF ConsumeFlush, Stages
  <2> QED BY <1>5, <2>1
           DEF ConsumeFlush, Flush, Types, GroupExists, WritePcs, store, history
<1>6. CASE MarkScored(f)
  <2> DEFINE r == [NoRow EXCEPT !.status = "scored", !.fp = content[f], !.of = work[f].of,
                                !.key = mode.key, !.score = work[f].score]
  <2>1. r \in Rows
    BY <1>0, Nothing DEF Rows, Works
  <2>2. proc' = [proc EXCEPT ![f] = r]
    BY <1>6 DEF MarkScored
  <2> HIDE DEF r
  <2>3. proc' \in [Files -> Rows]
    BY <2>1, <2>2 DEF Types
  <2>4. work' \in [Files -> Works]
    BY <1>0, <1>6, StagedWork DEF MarkScored, Stages
  <2>5. files' \in [Files -> FileRows] /\ filesDb' \in [Files -> FileRows] /\ tx' \in BOOLEAN
    BY <1>0, <1>6, Recorded DEF MarkScored, FileStatuses
  <2> QED BY <1>6, <2>3, <2>4, <2>5 DEF MarkScored, Types, GroupExists, WritePcs, history
<1>7. CASE ScoreError(f)
  <2>1. work' \in [Files -> Works]
    BY <1>0, <1>7, StagedWork DEF ScoreError, Stages
  <2>2. files' \in [Files -> FileRows] /\ filesDb' \in [Files -> FileRows] /\ tx' \in BOOLEAN
    BY <1>0, <1>7, Recorded DEF ScoreError, FileStatuses
  <2>3. faults' \in 0..MaxFaults
    BY <1>7, BoundsAssumption DEF ScoreError, Types
  <2> QED BY <1>7, <2>1, <2>2, <2>3
           DEF ScoreError, Types, GroupExists, WritePcs, store, history
<1> QED BY <1>1, <1>2, <1>3, <1>4, <1>5, <1>6, <1>7 DEF Scoring

LEMMA WritingTypes ==
    ASSUME TypeOK, Types, GroupExists, NEW f \in Files, Writing(f)
    PROVE  Types' /\ GroupExists'
<1>0. Current(f)
  BY DEF Writing, WriteSkipped, WriteSimulated, WriteFlush, PublishSidecar,
         RecordProjection, MarkDone, WriteError
<1>1. /\ rank \in 0..N /\ rank + 1 \in 0..(N + 1) /\ InfoOf(f) \in Infos
      /\ content[f] \in 0..MaxVersion /\ mode.key \in Int /\ work[f] \in Works
  BY <1>0, CurrentFacts, FilesAssumption, ModesAssumption DEF Types
<1>2. ASSUME NEW s \in FileStatuses, Written(f, s)
      PROVE  /\ files' \in [Files -> FileRows] /\ filesDb' \in [Files -> FileRows]
             /\ tx' \in BOOLEAN /\ rank' \in 0..(N + 1) /\ pc' = "writing"
  BY <1>1, <1>2, Recorded DEF Written
<1>3. CASE WriteSkipped(f) \/ WriteSimulated(f)
  <2>1. PICK s \in FileStatuses : Written(f, s)
    BY <1>3 DEF WriteSkipped, WriteSimulated, FileStatuses
  <2>2. /\ files' \in [Files -> FileRows] /\ filesDb' \in [Files -> FileRows]
        /\ tx' \in BOOLEAN /\ rank' \in 0..(N + 1) /\ pc' = "writing"
    BY <1>2, <2>1
  <2> QED BY <1>3, <2>2
           DEF WriteSkipped, WriteSimulated, Types, GroupExists, WritePcs, store, history
<1>4. CASE WriteFlush(f) \/ RecordProjection(f)
  BY <1>4 DEF WriteFlush, RecordProjection, Flush, Types, GroupExists, WritePcs, store,
              jobVars, history
<1>5. CASE PublishSidecar(f)
  BY <1>1, <1>5 DEF PublishSidecar, Types, GroupExists, WritePcs, jobVars
<1>6. CASE MarkDone(f)
  <2> DEFINE r == [status |-> "done", fp |-> content[f], of |-> work[f].of,
                   key |-> mode.key, score |-> work[f].score,
                   refined |-> work[f].refined, info |-> InfoOf(f)]
  <2>1. r \in Rows
    BY <1>1 DEF Rows, Works
  <2>2. proc' = [proc EXCEPT ![f] = r]
    BY <1>6 DEF MarkDone
  <2> HIDE DEF r
  <2>3. proc' \in [Files -> Rows]
    BY <2>1, <2>2 DEF Types
  <2>4. /\ files' \in [Files -> FileRows] /\ filesDb' \in [Files -> FileRows]
        /\ tx' \in BOOLEAN /\ rank' \in 0..(N + 1) /\ pc' = "writing"
    BY <1>2, <1>6 DEF MarkDone, FileStatuses
  <2> QED BY <1>6, <2>3, <2>4 DEF MarkDone, Types, GroupExists, WritePcs
<1>7. CASE WriteError(f)
  <2>1. /\ files' \in [Files -> FileRows] /\ filesDb' \in [Files -> FileRows]
        /\ tx' \in BOOLEAN /\ rank' \in 0..(N + 1) /\ pc' = "writing"
    BY <1>2, <1>7 DEF WriteError, FileStatuses
  <2>2. faults' \in 0..MaxFaults
    BY <1>7, BoundsAssumption DEF WriteError, Types
  <2> QED BY <1>7, <2>1, <2>2 DEF WriteError, Types, GroupExists, WritePcs, store, history
<1> QED BY <1>3, <1>4, <1>5, <1>6, <1>7 DEF Writing

LEMMA NextTypes ==
    ASSUME TypeOK, GroupExists, [Next]_vars
    PROVE  TypeOK' /\ GroupExists'
<1> SUFFICES Types' /\ GroupExists'
  BY TypesOf
<1>0. Types /\ N \in Nat /\ MaxFaults \in Nat /\ NoWork \in Works /\ NoFile \in FileRows
  BY TypesOf, Nothing, FilesAssumption, BoundsAssumption
<1>1. CASE \E m \in Modes : StartRun(m)
  <2>1. [f \in Files |-> NoFile] \in [Files -> FileRows] /\ Present \subseteq Files
    BY <1>0 DEF Present
  <2> QED BY <1>0, <1>1, <2>1 DEF StartRun, Types, GroupExists, WritePcs, store
<1>2. CASE Group
  BY <1>0, <1>2 DEF Group, Flush, Types, GroupExists, WritePcs, store, history
<1>a. CASE ScoringDone
  BY <1>0, <1>a DEF ScoringDone, Types, GroupExists, WritePcs, store, jobVars, history
<1>3. CASE Submit
  <2>1. [status |-> "pending", rank |-> 0] \in FileRows
    BY <1>0 DEF FileRows
  <2>2. files' \in [Files -> FileRows]
    BY <1>0, <1>3, <2>1 DEF Submit, Types
  <2> QED BY <1>0, <1>3, <2>2 DEF Submit, Types, GroupExists, WritePcs, store, runVars, history
<1>4. CASE FinalizeGroup
  <2>1. work' \in [Files -> Works]
    BY <1>4, FinalizedFacts
  <2> QED BY <1>0, <1>4, <2>1
           DEF FinalizeGroup, Types, GroupExists, WritePcs, store, jobVars, history
<1>5. CASE GroupDone
  BY <1>0, <1>5 DEF GroupDone, Types, GroupExists, WritePcs, store, jobVars, history
<1>6. ASSUME Forget
      PROVE  /\ work' \in [Files -> Works] /\ group' \in 0..(N + 1) /\ rank' \in 0..(N + 1)
             /\ errors' \in BOOLEAN /\ pc' = "idle" /\ GroupExists'
  <2>1. work' \in [Files -> Works]
    BY <1>0, <1>6 DEF Forget
  <2>2. pc' = "idle" /\ group' = 0 /\ rank' = 0 /\ errors' \in BOOLEAN
    BY <1>6 DEF Forget
  <2>3. GroupExists'
    BY <2>2 DEF GroupExists, WritePcs
  <2> QED BY <1>0, <2>1, <2>2, <2>3
<1>b. CASE FinishRun
  BY <1>0, <1>6, <1>b DEF FinishRun, Flush, Types, store, history
<1>c. CASE Interrupt
  <2>1. faults' \in 0..MaxFaults
    BY <1>0, <1>c DEF Interrupt, Types
  <2>2. work' \in [Files -> Works] /\ group' \in 0..(N + 1) /\ rank' \in 0..(N + 1)
        /\ errors' \in BOOLEAN /\ pc' = "idle" /\ GroupExists'
    BY <1>6, <1>c DEF Interrupt
  <2> QED BY <1>0, <1>c, <2>1, <2>2 DEF Interrupt, Types, store, history
<1>7. ASSUME NEW f \in Files, Scoring(f) \/ Writing(f) PROVE Types' /\ GroupExists'
  BY <1>0, <1>7, ScoringTypes, WritingTypes
<1>8. CASE BatchFull \/ UNCHANGED vars
  BY <1>0, <1>8 DEF BatchFull, Flush, vars, store, runVars, jobVars, history, Types,
                    GroupExists, WritePcs
<1>9. ASSUME NEW f \in Files, ChangePhoto(f) PROVE Types' /\ GroupExists'
  <2>1. content' \in [Files -> 0..MaxVersion]
    BY <1>0, <1>9, BoundsAssumption DEF ChangePhoto, Types
  <2> QED BY <1>0, <1>9, <2>1
           DEF ChangePhoto, Types, GroupExists, WritePcs, store, runVars, jobVars
<1> QED BY <1>1, <1>2, <1>3, <1>4, <1>5, <1>7, <1>8, <1>9, <1>a, <1>b, <1>c
        DEF Next, Work, Start

-----------------------------------------------------------------------------
(* Control: what the run's position in a write path tells.                 *)

StorePcs == {"marking", "publishing", "recording", "confirming"}

\* The write paths run without an open transaction and in real runs only, and
\* past the writer the sidecar holds what the row will say.
Control ==
    /\ pc \in StorePcs => ~tx /\ ~mode.dry
    /\ pc \in {"recording", "confirming"} =>
           \A f \in Files : Current(f) => xmp[f] = InfoOf(f)

LEMMA SameGroup ==
    ASSUME UNCHANGED <<work, disc, group, rank>>, NEW f \in Files
    PROVE  (Current(f)' <=> Current(f)) /\ InfoOf(f)' = InfoOf(f)
BY DEF Current, Scored, Members, InfoOf, WorkScores, RankIn, Before

\* The steps that neither leave nor enter a write path.
LEMMA ControlRests ==
    ASSUME Control, UNCHANGED <<work, disc, group, rank, xmp, pc, mode, tx>>
    PROVE  Control'
<1>1. \A f \in Files : (Current(f)' <=> Current(f)) /\ InfoOf(f)' = InfoOf(f)
  BY SameGroup
<1> QED BY <1>1 DEF Control, StorePcs

LEMMA ControlStep ==
    ASSUME TypeOK, Control, [Next]_vars
    PROVE  Control'
<1>1. ASSUME pc' \notin StorePcs PROVE Control'
  BY <1>1 DEF Control, StorePcs
<1>2. CASE Start \/ Group \/ Submit \/ ScoringDone \/ FinalizeGroup \/ GroupDone \/ FinishRun
           \/ Interrupt
  <2>1. pc' \notin StorePcs
    BY <1>2 DEF Start, StartRun, Group, Submit, ScoringDone, FinalizeGroup, GroupDone, FinishRun,
                Interrupt, Forget, StorePcs, runVars
  <2> QED BY <1>1, <2>1
<1>3. ASSUME NEW f \in Files, Scoring(f) PROVE Control'
  <2>1. CASE PrepareCached(f) \/ PrepareFrame(f)
    BY <2>1 DEF PrepareCached, PrepareFrame, Submitted, Control, StorePcs, jobVars
  <2>2. ASSUME NEW s \in Scores, ConsumeFlush(f, s) PROVE Control'
    BY <2>2 DEF ConsumeFlush, Flush, Control, StorePcs
  <2>3. ASSUME NEW s \in Scores, ConsumeDry(f, s) PROVE Control'
    BY <2>3 DEF ConsumeDry, Control, StorePcs
  <2>4. CASE ConsumeCached(f) \/ MarkScored(f) \/ ScoreError(f)
    BY <2>4 DEF ConsumeCached, MarkScored, ScoreError, Control, StorePcs
  <2> QED BY <1>3, <2>1, <2>2, <2>3, <2>4 DEF Scoring
<1>4. ASSUME NEW f \in Files, Writing(f) PROVE Control'
  <2>1. CASE WriteSkipped(f) \/ WriteSimulated(f) \/ MarkDone(f) \/ WriteError(f)
    <3>1. pc' \notin StorePcs
      BY <2>1 DEF WriteSkipped, WriteSimulated, MarkDone, WriteError, Written, StorePcs
    <3> QED BY <1>1, <3>1
  <2>2. CASE WriteFlush(f)
    BY <2>2 DEF WriteFlush, Flush, Control, StorePcs
  <2>3. CASE PublishSidecar(f)
    <3>1. ASSUME NEW g \in Files, Current(g)' PROVE xmp'[g] = InfoOf(g)'
      <4>1. UNCHANGED <<work, disc, group, rank>> /\ Current(f)
            /\ xmp' = [xmp EXCEPT ![f] = InfoOf(f)]
        BY <2>3 DEF PublishSidecar
      <4>2. Current(g) /\ InfoOf(g)' = InfoOf(g)
        BY <3>1, <4>1, SameGroup
      <4>3. g = f
        BY <4>1, <4>2, OneCurrent
      <4>4. xmp'[f] = InfoOf(f)
        BY <4>1, TypesOf DEF Types
      <4> QED BY <4>2, <4>3, <4>4
    <3>2. pc' = "recording" /\ tx' = tx /\ mode' = mode /\ pc = "publishing"
      BY <2>3 DEF PublishSidecar, jobVars
    <3> QED BY <3>1, <3>2 DEF Control, StorePcs
  <2>4. CASE RecordProjection(f)
    <3>1. \A g \in Files : (Current(g)' <=> Current(g)) /\ InfoOf(g)' = InfoOf(g)
      BY <2>4, SameGroup DEF RecordProjection
    <3>2. pc' = "confirming" /\ tx' = tx /\ mode' = mode /\ pc = "recording" /\ xmp' = xmp
      BY <2>4 DEF RecordProjection, jobVars, store
    <3> QED BY <3>1, <3>2 DEF Control, StorePcs
  <2> QED BY <1>4, <2>1, <2>2, <2>3, <2>4 DEF Writing
<1>5. CASE BatchFull
  BY <1>5 DEF BatchFull, Control, StorePcs, runVars
<1>6. ASSUME NEW f \in Files, ChangePhoto(f) PROVE Control'
  BY <1>6, ControlRests DEF ChangePhoto, runVars, store, jobVars
<1>7. CASE UNCHANGED vars
  BY <1>7, ControlRests DEF vars, runVars, store, jobVars
<1> QED BY <1>2, <1>3, <1>4, <1>5, <1>6, <1>7 DEF Next, Work

-----------------------------------------------------------------------------
(* What is stored                                                          *)

\* Between runs nothing is held in memory; what a real run has scored has a
\* row; a done row vouches for its sidecar.
Stored ==
    /\ pc = "idle" => \A f \in Files : work[f].stage = "none"
    /\ ~mode.dry => \A f \in Files : work[f].stage \in {"cached", "scored"}
                                         => proc[f].status # "none"
    /\ DoneMatchesSidecar

\* Steps of the run that touch neither rows nor stages.
LEMMA StoredRests ==
    ASSUME Stored, UNCHANGED <<proc, xmp, torn, mode>>, pc' # "idle" \/ pc = "idle",
           \A f \in Files : work'[f].stage = work[f].stage
    PROVE  Stored'
BY DEF Stored, DoneMatchesSidecar

LEMMA StoredStep ==
    ASSUME TypeOK, TypeOK', Control, Stored, [Next]_vars
    PROVE  Stored'
<1>0. Types /\ Types'
  BY TypesOf
<1>1. CASE Group \/ Submit \/ ScoringDone \/ GroupDone \/ BatchFull \/ UNCHANGED vars
  BY <1>1, StoredRests DEF Group, Submit, ScoringDone, GroupDone, BatchFull, vars, runVars,
                           store, history
<1>2. CASE FinalizeGroup
  BY <1>2, FinalizedFacts, StoredRests DEF FinalizeGroup, store, history
<1>3. ASSUME NEW m \in Modes, StartRun(m) PROVE Stored'
  <2>1. \A f \in Files : work'[f].stage = "none"
    BY <1>3 DEF StartRun, Stored
  <2> QED BY <1>3, <2>1 DEF StartRun, Stored, DoneMatchesSidecar, store
<1>4. CASE FinishRun \/ Interrupt
  <2>1. \A f \in Files : work'[f].stage = "none"
    BY <1>4 DEF FinishRun, Interrupt, Forget, NoWork
  <2> QED BY <1>4, <2>1 DEF FinishRun, Interrupt, Stored, DoneMatchesSidecar, store, history
<1>5. ASSUME NEW f \in Files, ChangePhoto(f) PROVE Stored'
  BY <1>5, StoredRests DEF ChangePhoto, store, runVars
<1>6. ASSUME NEW f \in Files, Scoring(f) PROVE Stored'
  <2>1. pc # "idle" /\ pc' # "idle"
    BY <1>6 DEF Scoring, PrepareCached, PrepareFrame, Submitted, ConsumeCached, ConsumeDry,
                ConsumeFlush, MarkScored, ScoreError
  <2>2. CASE PrepareCached(f)
    BY <1>0, <2>1, <2>2 DEF PrepareCached, RowIsValid, Stored, DoneMatchesSidecar, Types, store,
                            history
  <2>3. CASE PrepareFrame(f)
    <3>1. \A g \in Files : work'[g].stage \in {work[g].stage, "frame", "broken"}
      BY <1>0, <2>3 DEF PrepareFrame, Types, Works
    <3> QED BY <2>1, <2>3, <3>1 DEF PrepareFrame, Stored, DoneMatchesSidecar, store, history
  <2>4. CASE ConsumeCached(f)
    BY <1>0, <2>1, <2>4 DEF ConsumeCached, Stored, DoneMatchesSidecar, Types, Works, store, history
  <2>5. ASSUME NEW s \in Scores, ConsumeDry(f, s) PROVE Stored'
    BY <1>0, <2>1, <2>5 DEF ConsumeDry, Stored, DoneMatchesSidecar, Types, Works, store, history
  <2>6. ASSUME NEW s \in Scores, ConsumeFlush(f, s) PROVE Stored'
    <3>1. \A g \in Files : work'[g].stage = work[g].stage
      BY <1>0, <2>6 DEF ConsumeFlush, Types, Works
    <3> QED BY <2>1, <2>6, <3>1, StoredRests DEF ConsumeFlush, store, history
  <2>7. CASE MarkScored(f)
    <3>1. /\ \A g \in Files \ {f} : work'[g] = work[g] /\ proc'[g] = proc[g]
          /\ proc'[f].status = "scored"
      BY <1>0, <2>7 DEF MarkScored, Types, NoRow
    <3> QED BY <2>1, <2>7, <3>1 DEF MarkScored, Stored, DoneMatchesSidecar, history
  <2>8. CASE ScoreError(f)
    <3>1. \A g \in Files : work'[g].stage \in {work[g].stage, "failed"}
      BY <1>0, <2>8 DEF ScoreError, Types, Works
    <3> QED BY <2>1, <2>8, <3>1 DEF ScoreError, Stored, DoneMatchesSidecar, store, history
  <2> QED BY <1>6, <2>2, <2>3, <2>4, <2>5, <2>6, <2>7, <2>8 DEF Scoring
<1>7. ASSUME NEW f \in Files, Writing(f) PROVE Stored'
  <2>1. pc # "idle" /\ pc' # "idle"
    BY <1>7 DEF Writing, WriteSkipped, WriteSimulated, WriteFlush, PublishSidecar,
                RecordProjection, MarkDone, WriteError, Written
  <2>2. CASE WriteSkipped(f) \/ WriteSimulated(f) \/ WriteFlush(f) \/ RecordProjection(f)
             \/ WriteError(f)
    BY <2>1, <2>2, StoredRests DEF WriteSkipped, WriteSimulated, WriteFlush, RecordProjection,
                                   WriteError, store, history
  <2>3. CASE PublishSidecar(f)
    BY <1>0, <2>1, <2>3 DEF PublishSidecar, Stored, DoneMatchesSidecar, Types
  <2>4. CASE MarkDone(f)
    <3>1. /\ \A g \in Files \ {f} : proc'[g] = proc[g]
          /\ proc'[f].status = "done" /\ proc'[f].info = InfoOf(f)
      BY <1>0, <2>4 DEF MarkDone, Types
    <3>2. xmp[f] = InfoOf(f)
      BY <2>4 DEF MarkDone, Control
    <3> QED BY <2>1, <2>4, <3>1, <3>2 DEF MarkDone, Stored, DoneMatchesSidecar
  <2> QED BY <1>7, <2>2, <2>3, <2>4 DEF Writing
<1> QED BY <1>1, <1>2, <1>3, <1>4, <1>5, <1>6, <1>7 DEF Next, Work, Start

-----------------------------------------------------------------------------
(* The photo whose score is being stored                                   *)

\* It is the decoded head of the queue, whatever the workers do meanwhile.
Decoded == pc = "marking" => \A f \in Queue(1) : work[f].stage = "frame"

LEMMA OneHead ==
    ASSUME disc \subseteq Files, NEW f \in Queue(1), NEW g \in Queue(1)
    PROVE  f = g
<1>1. ASSUME NEW a \in Queue(1), NEW b \in Queue(1), a < b PROVE FALSE
  <2> DEFINE ahead == {h \in Unscored : h < b}
  <2>1. a \in ahead /\ ahead \in SUBSET Files
    BY <1>1 DEF Queue, Unscored
  <2>2. Cardinality(ahead) < 1
    BY DEF Queue
  <2> HIDE DEF ahead
  <2>3. IsFiniteSet(ahead) /\ Cardinality(ahead) \in 0..N /\ N \in Nat
    BY <2>1, FilesFinite
  <2>4. Cardinality(ahead) = 0
    BY <2>2, <2>3
  <2>5. ahead = {}
    BY <2>3, <2>4, FS_EmptySet
  <2> QED BY <2>1, <2>5
<1>2. f \in Int /\ g \in Int
  BY FilesAssumption DEF Queue, Unscored, Files
<1> QED BY <1>1, <1>2

LEMMA SameQueue ==
    ASSUME disc' = disc,
           \A f \in disc : work'[f].stage \in {"scored", "failed"}
                               <=> work[f].stage \in {"scored", "failed"}
    PROVE  Queue(1)' = Queue(1)
<1>1. Unscored' = Unscored
  BY DEF Unscored
<1> QED BY <1>1 DEF Queue

LEMMA DecodedStep ==
    ASSUME TypeOK, Decoded, [Next]_vars
    PROVE  Decoded'
<1> SUFFICES ASSUME pc' = "marking" PROVE Decoded'
  BY DEF Decoded
<1>0. Types /\ disc \subseteq Files
  BY TypesOf DEF Types
<1>a. Queue(1) \subseteq disc
  BY DEF Queue, Unscored
<1>1. ASSUME NEW f \in Files, NEW s \in Scores, ConsumeFlush(f, s) PROVE Decoded'
  <2>1. disc' = disc /\ f \in Queue(1) /\ work[f].stage = "frame"
    BY <1>1 DEF ConsumeFlush, AtHead
  <2>2. \A g \in Files : work'[g].stage = work[g].stage
    BY <1>0, <1>1 DEF ConsumeFlush, Types, Works
  <2>3. Queue(1)' = Queue(1)
    BY <1>0, <2>1, <2>2, SameQueue
  <2>4. \A g \in Queue(1) : g = f
    BY <1>0, <2>1, OneHead
  <2> QED BY <1>0, <1>a, <2>1, <2>2, <2>3, <2>4 DEF Decoded
<1>2. ASSUME NEW f \in Files, PrepareCached(f) \/ PrepareFrame(f) PROVE Decoded'
  <2>1. UNCHANGED <<disc, pc>> /\ f \in disc /\ work[f].stage = "none"
    BY <1>2 DEF PrepareCached, PrepareFrame, Submitted, Unscored
  <2>2. /\ \A g \in Files \ {f} : work'[g] = work[g]
        /\ work'[f].stage \in {"cached", "frame", "broken"}
    BY <1>0, <1>2 DEF PrepareCached, PrepareFrame, Types, Works
  <2>3. Queue(1)' = Queue(1)
    BY <1>0, <2>1, <2>2, SameQueue
  <2>4. f \notin Queue(1)
    BY <2>1 DEF Decoded
  <2> QED BY <1>0, <1>a, <2>1, <2>2, <2>3, <2>4 DEF Decoded
<1>3. ASSUME UNCHANGED <<work, disc, pc>> PROVE Decoded'
  <2>1. Queue(1)' = Queue(1)
    BY <1>3, SameQueue
  <2> QED BY <1>3, <2>1 DEF Decoded
<1>4. CASE BatchFull \/ UNCHANGED vars \/ \E f \in Files : ChangePhoto(f)
  BY <1>3, <1>4 DEF BatchFull, ChangePhoto, vars, runVars
<1>5. ~(\/ Start \/ Group \/ Submit \/ ScoringDone \/ FinalizeGroup \/ GroupDone \/ FinishRun
        \/ Interrupt)
  BY DEF Start, StartRun, Group, Submit, ScoringDone, FinalizeGroup, GroupDone, FinishRun,
         Interrupt, Forget, runVars
<1>6. ASSUME NEW f \in Files
      PROVE  /\ ~(ConsumeCached(f) \/ MarkScored(f) \/ ScoreError(f))
             /\ \A s \in Scores : ~ConsumeDry(f, s)
             /\ ~Writing(f)
  BY DEF ConsumeCached, MarkScored, ScoreError, ConsumeDry, Writing, WriteSkipped, WriteSimulated,
         WriteFlush, PublishSidecar, RecordProjection, MarkDone, WriteError, Written
<1> QED BY <1>1, <1>2, <1>4, <1>5, <1>6 DEF Next, Work, Scoring

-----------------------------------------------------------------------------
(* What the scores were computed from                                      *)

\* While no photo is replaced during a run, a row's fingerprint and its score
\* belong to one version, and what the run holds in memory belongs to the
\* version on disk.
Fresh ==
    /\ \A f \in Files : proc[f].status # "none" => proc[f].of = proc[f].fp
    /\ \A f \in Files : work[f].stage \in {"frame", "cached", "scored"} => work[f].of = content[f]
    /\ \A f \in Files : work[f].stage # "none" => f \in disc
    /\ pc # "idle" => \A f \in disc : content[f] > 0

\* A step that keeps rows, photos and stages keeps what is fresh.
LEMMA FreshRests ==
    ASSUME TypeOK, Fresh, UNCHANGED <<content, proc, disc>>,
           pc' # "idle" => pc # "idle",
           \A f \in Files : work'[f].stage = work[f].stage
                            /\ work'[f].of \in {work[f].of, content[f]}
    PROVE  Fresh'
<1>1. disc \subseteq Files
  BY DEF TypeOK
<1> QED BY <1>1 DEF Fresh

\* A worker prepared a photo.
LEMMA FreshPrepared ==
    ASSUME TypeOK, Fresh, NEW f \in Files, Submitted(f),
           UNCHANGED <<content, proc, disc, pc>>,
           \A g \in Files \ {f} : work'[g] = work[g],
           \/ work'[f].stage = "broken"
           \/ work'[f].stage \in {"frame", "cached"} /\ work'[f].of = content[f]
    PROVE  Fresh'
<1>1. disc \subseteq Files /\ f \in disc /\ work[f].stage = "none"
  BY DEF TypeOK, Submitted, Unscored
<1> QED BY <1>1 DEF Fresh

LEMMA FreshStep ==
    ASSUME ~EditsDuringRun, TypeOK, Stored, Decoded, Fresh, [Next]_vars
    PROVE  Fresh'
<1>0. Types
  BY TypesOf
<1>1. CASE Group \/ Submit \/ ScoringDone \/ GroupDone \/ BatchFull \/ UNCHANGED vars
  <2>1. /\ UNCHANGED <<content, proc, disc, work>>
        /\ pc' # "idle" => pc # "idle"
    BY <1>1 DEF Group, Submit, ScoringDone, GroupDone, BatchFull, vars, runVars, store
  <2> QED BY <2>1, FreshRests
<1>2. CASE FinalizeGroup
  <2>1. /\ UNCHANGED <<content, proc, disc>> /\ pc' = "writing" /\ pc = "groups"
    BY <1>2 DEF FinalizeGroup, store
  <2> QED BY <1>2, <2>1, FinalizedFacts, FreshRests
<1>3. ASSUME NEW m \in Modes, StartRun(m) PROVE Fresh'
  <2>1. \A f \in Files : work'[f] = work[f] /\ work'[f].stage = "none"
    BY <1>3 DEF StartRun, Stored
  <2>2. \A f \in disc' : f \in Files /\ content'[f] > 0
    BY <1>3 DEF StartRun, Present
  <2>3. pc' = "grouping" /\ proc' = proc
    BY <1>3 DEF StartRun, store
  <2> QED BY <2>1, <2>2, <2>3 DEF Fresh
<1>4. CASE FinishRun \/ Interrupt
  <2>1. \A f \in Files : work'[f].stage = "none"
    BY <1>4 DEF FinishRun, Interrupt, Forget, NoWork
  <2>2. pc' = "idle" /\ proc' = proc
    BY <1>4 DEF FinishRun, Interrupt, Forget, store
  <2> QED BY <2>1, <2>2 DEF Fresh
<1>5. ASSUME NEW f \in Files, ChangePhoto(f) PROVE Fresh'
  <2>1. UNCHANGED <<proc, work, disc, pc>>
    BY <1>5 DEF ChangePhoto, store, runVars
  <2>2. /\ \A g \in Files \ {f} : content'[g] = content[g]
        /\ content'[f] = content[f] + 1 /\ content[f] \in 0..MaxVersion
    BY <1>0, <1>5 DEF ChangePhoto, Types
  <2>3. content[f] > 0 => pc = "idle"
    BY <1>5 DEF ChangePhoto
  <2>4. work[f].stage = "none"
    <3>1. CASE pc = "idle"
      BY <3>1 DEF Stored
    <3>2. CASE pc # "idle"
      BY <2>3, <3>2 DEF Fresh
    <3> QED BY <3>1, <3>2
  <2>6. disc \subseteq Files
    BY <1>0 DEF Types
  <2>7. pc # "idle" => \A g \in disc : content'[g] > 0
    BY <2>2, <2>6, BoundsAssumption DEF Fresh
  <2> QED BY <2>1, <2>2, <2>4, <2>7 DEF Fresh
<1>6. ASSUME NEW f \in Files, Scoring(f) PROVE Fresh'
  <2>1. CASE PrepareCached(f)
    <3>1. UNCHANGED <<content, proc, disc, pc>> /\ Submitted(f)
      BY <2>1 DEF PrepareCached, store
    <3>2. proc[f].of = content[f]
      BY <2>1 DEF PrepareCached, RowIsValid, Fresh
    <3>3. /\ \A g \in Files \ {f} : work'[g] = work[g]
          /\ work'[f].stage = "cached" /\ work'[f].of = proc[f].of
      BY <1>0, <2>1 DEF PrepareCached, Types
    <3> QED BY <3>1, <3>2, <3>3, FreshPrepared
  <2>2. CASE PrepareFrame(f)
    <3>1. UNCHANGED <<content, proc, disc, pc>> /\ Submitted(f)
      BY <2>2 DEF PrepareFrame, store
    <3>2. /\ \A g \in Files \ {f} : work'[g] = work[g]
          /\ \/ work'[f].stage = "broken"
             \/ work'[f].stage = "frame" /\ work'[f].of = content[f]
      BY <1>0, <2>2 DEF PrepareFrame, Types, Works
    <3> QED BY <3>1, <3>2, FreshPrepared
  <2>3. CASE ConsumeCached(f) \/ \E s \in Scores : ConsumeDry(f, s)
    <3>1. UNCHANGED <<content, proc, disc, pc>> /\ pc = "scoring"
      BY <2>3 DEF ConsumeCached, ConsumeDry, store
    <3>2. /\ \A g \in Files \ {f} : work'[g] = work[g]
          /\ work'[f].of = work[f].of /\ work[f].stage \in {"frame", "cached"}
      BY <1>0, <2>3 DEF ConsumeCached, ConsumeDry, Types, Works
    <3> QED BY <3>1, <3>2 DEF Fresh
  <2>4. ASSUME NEW s \in Scores, ConsumeFlush(f, s) PROVE Fresh'
    <3>1. UNCHANGED <<content, proc, disc>> /\ f \in Queue(1) /\ work[f].stage = "frame"
          /\ pc = "scoring"
      BY <2>4 DEF ConsumeFlush, AtHead, store
    <3>2. \A g \in Files : work'[g].stage = work[g].stage /\ work'[g].of = work[g].of
      BY <1>0, <2>4 DEF ConsumeFlush, Types, Works
    <3>3. disc \subseteq Files
      BY <1>0 DEF Types
    <3> QED BY <3>1, <3>2, <3>3 DEF Fresh
  <2>5. CASE MarkScored(f)
    <3>1. UNCHANGED <<content, disc>> /\ pc' = "scoring" /\ work[f].stage = "frame"
          /\ f \in disc /\ pc = "marking"
      BY <2>5 DEF MarkScored, AtHead, Queue, Unscored, Decoded
    <3>2. /\ \A g \in Files \ {f} : work'[g] = work[g] /\ proc'[g] = proc[g]
          /\ work'[f].stage = "scored" /\ work'[f].of = work[f].of
          /\ proc'[f].of = work[f].of /\ proc'[f].fp = content[f]
      BY <1>0, <2>5 DEF MarkScored, Types, Works, NoRow
    <3> QED BY <3>1, <3>2 DEF Fresh
  <2>6. CASE ScoreError(f)
    <3>1. UNCHANGED <<content, proc, disc>> /\ pc' = "scoring" /\ f \in disc
          /\ pc # "idle"
      BY <2>6 DEF ScoreError, AtHead, Queue, Unscored, store
    <3>2. (\A g \in Files \ {f} : work'[g] = work[g]) /\ work'[f].stage = "failed"
      BY <1>0, <2>6 DEF ScoreError, Types, Works
    <3> QED BY <3>1, <3>2 DEF Fresh
  <2> QED BY <1>6, <2>1, <2>2, <2>3, <2>4, <2>5, <2>6 DEF Scoring
<1>7. ASSUME NEW f \in Files, Writing(f) PROVE Fresh'
  <2>1. UNCHANGED <<content, disc, work>> /\ pc # "idle" /\ pc' \notin {"idle", "marking"}
    BY <1>7 DEF Writing, WriteSkipped, WriteSimulated, WriteFlush, PublishSidecar,
                RecordProjection, MarkDone, WriteError, Written, store
  <2>2. CASE MarkDone(f)
    <3>1. work[f].stage = "scored"
      BY <2>2, CurrentFacts DEF MarkDone
    <3>2. /\ \A g \in Files \ {f} : proc'[g] = proc[g]
          /\ proc'[f].of = work[f].of /\ proc'[f].fp = content[f]
      BY <1>0, <2>2 DEF MarkDone, Types
    <3> QED BY <2>1, <3>1, <3>2 DEF Fresh
  <2>3. CASE ~MarkDone(f)
    <3>1. proc' = proc
      BY <1>7, <2>3 DEF Writing, WriteSkipped, WriteSimulated, WriteFlush, PublishSidecar,
                        RecordProjection, WriteError, store
    <3> QED BY <2>1, <3>1, FreshRests
  <2> QED BY <2>2, <2>3
<1> QED BY <1>1, <1>2, <1>3, <1>4, <1>5, <1>6, <1>7 DEF Next, Work, Start

-----------------------------------------------------------------------------
(* The invariant and its theorems                                          *)

ReviewInv == TypeOK /\ GroupExists /\ Control /\ Decoded /\ Stored

LEMMA InitReviewInv == ASSUME Init PROVE ReviewInv /\ Fresh
<1>1. N \in Nat /\ MaxVersion \in Nat \ {0} /\ MaxFaults \in Nat
  BY FilesAssumption, BoundsAssumption
<1>2. Types
  <2>1. content \in [Files -> 0..MaxVersion] /\ proc \in [Files -> Rows] /\ xmp \in [Files -> Infos]
    BY <1>1, Nothing DEF Init
  <2>2. work \in [Files -> Works] /\ files \in [Files -> FileRows] /\ filesDb \in [Files -> FileRows]
    BY Nothing DEF Init
  <2>3. group \in 0..(N + 1) /\ rank \in 0..(N + 1) /\ faults \in 0..MaxFaults
    BY <1>1 DEF Init
  <2>4. mode \in Modes /\ disc = {} /\ torn = {} /\ pc = "idle" /\ outcome = "none"
        /\ inputs = "changed" /\ errors = FALSE /\ tx = FALSE
    BY DEF Init
  <2> QED BY <2>1, <2>2, <2>3, <2>4 DEF Types
<1>3. \A f \in Files : work[f].stage = "none" /\ proc[f].status = "none"
  BY DEF Init, NoWork, NoRow
<1>4. pc = "idle" /\ disc = {}
  BY DEF Init
<1> QED BY <1>2, <1>3, <1>4, TypesOf
        DEF ReviewInv, GroupExists, WritePcs, Control, StorePcs, Stored, DoneMatchesSidecar, Decoded, Fresh

LEMMA NextReviewInv == ASSUME ReviewInv, [Next]_vars PROVE ReviewInv'
<1>1. TypeOK' /\ GroupExists'
  BY NextTypes DEF ReviewInv
<1>2. Control'
  BY ControlStep DEF ReviewInv
<1>3. Stored'
  BY <1>1, StoredStep DEF ReviewInv
<1>4. Decoded'
  BY DecodedStep DEF ReviewInv
<1> QED BY <1>1, <1>2, <1>3, <1>4 DEF ReviewInv

\* What every reachable state of the pipeline satisfies, the base of the theorems
\* below.
THEOREM ReviewInvariant == Spec => []ReviewInv
<1>1. Init => ReviewInv
  BY InitReviewInv
<1>2. ReviewInv /\ [Next]_vars => ReviewInv'
  BY NextReviewInv
<1> QED BY <1>1, <1>2, PTL DEF Spec

\* Rows, sidecars, job files and the memory of a run keep their types, for
\* any number of photos, bursts, modes and failures.
THEOREM ReviewTypeCorrect == Spec => []TypeOK
<1>1. ReviewInv => TypeOK
  BY DEF ReviewInv
<1> QED BY <1>1, ReviewInvariant, PTL

\* Outside the photos whose last write stopped halfway, a done row of the
\* processed table says what the sidecar says.
THEOREM DoneRowsMatch == Spec => []DoneMatchesSidecar
<1>1. ReviewInv => DoneMatchesSidecar
  BY DEF ReviewInv, Stored
<1> QED BY <1>1, ReviewInvariant, PTL

\* Which steps write the processed table or a sidecar.
LEMMA Writers ==
    ASSUME [Next]_vars, store' # store
    PROVE  \E f \in Files :
               \/ MarkScored(f) /\ pc = "marking" /\ xmp' = xmp
               \/ PublishSidecar(f) /\ pc = "publishing" /\ proc' = proc
               \/ MarkDone(f) /\ pc = "confirming" /\ xmp' = xmp
<1>1. ASSUME NEW f \in Files, Scoring(f) PROVE MarkScored(f) /\ pc = "marking" /\ xmp' = xmp
  BY <1>1 DEF Scoring, PrepareCached, PrepareFrame, ConsumeCached, ConsumeDry, ConsumeFlush,
              ScoreError, MarkScored
<1>2. ASSUME NEW f \in Files, Writing(f)
      PROVE  \/ PublishSidecar(f) /\ pc = "publishing" /\ proc' = proc
             \/ MarkDone(f) /\ pc = "confirming" /\ xmp' = xmp
  BY <1>2 DEF Writing, WriteSkipped, WriteSimulated, WriteFlush, RecordProjection, WriteError,
              PublishSidecar, MarkDone
<1>3. ~(\/ Start \/ Group \/ Submit \/ ScoringDone \/ FinalizeGroup \/ GroupDone \/ FinishRun
        \/ BatchFull \/ Interrupt \/ (\E f \in Files : ChangePhoto(f)) \/ UNCHANGED vars)
  BY DEF Start, StartRun, Group, Submit, ScoringDone, FinalizeGroup, GroupDone, FinishRun,
         BatchFull, Interrupt, ChangePhoto, vars
<1> QED BY <1>1, <1>2, <1>3 DEF Next, Work

\* A row of the processed table is written only while the runtime connection
\* of the same process has committed: the process never waits for its own lock.
THEOREM NeverLocksItself == Spec => NoSelfLock
<1>1. ReviewInv /\ [Next]_vars => [proc' # proc => ~tx]_vars
  <2> SUFFICES ASSUME ReviewInv, [Next]_vars, proc' # proc PROVE ~tx
    OBVIOUS
  <2>1. pc \in {"marking", "confirming"}
    BY Writers DEF store
  <2> QED BY <2>1 DEF ReviewInv, Control, StorePcs
<1> QED BY <1>1, ReviewInvariant, PTL DEF Spec, NoSelfLock

\* A dry run leaves the processed table and the sidecars alone, at every step
\* and wherever it stops.
THEOREM DryRunsArePure == Spec => DryRunPure
<1>1. ReviewInv /\ [Next]_vars => [pc # "idle" /\ mode.dry => UNCHANGED store]_vars
  <2> SUFFICES ASSUME ReviewInv, [Next]_vars, mode.dry, store' # store PROVE FALSE
    OBVIOUS
  <2>1. pc \in StorePcs
    BY Writers DEF StorePcs
  <2> QED BY <2>1 DEF ReviewInv, Control
<1> QED BY <1>1, ReviewInvariant, PTL DEF Spec, DryRunPure

\* While photos are replaced only between runs, a row that a run would reuse is
\* a score of the photo's present pixels.  (The run ReviewRunEdits shows that
\* the condition is needed.)
THEOREM ReuseIsSafe ==
    ASSUME ~EditsDuringRun PROVE Spec => []ReuseIsUnchanged
<1>1. Init => ReviewInv /\ Fresh
  BY InitReviewInv
<1>2. ReviewInv /\ Fresh /\ [Next]_vars => ReviewInv' /\ Fresh'
  BY NextReviewInv, FreshStep DEF ReviewInv
<1>3. Fresh => ReuseIsUnchanged
  BY DEF Fresh, ReuseIsUnchanged, RowIsValid
<1> QED BY <1>1, <1>2, <1>3, PTL DEF Spec

-----------------------------------------------------------------------------
(* The pipeline implements PhotoLedger.                                    *)

Status    == [f \in Files |-> proc[f].status]
Confirmed == [f \in Files |-> proc[f].info]

LEMMA InitLedger == ASSUME Init PROVE Ledger!Init
BY DEF Init, Ledger!Init, NoRow, Status, Confirmed

LEMMA LedgerStep ==
    ASSUME ReviewInv, [Next]_vars
    PROVE  [Ledger!Next]_(Ledger!vars)
<1>0. Types
  BY TypesOf DEF ReviewInv
<1>1. CASE store' = store
  <2>1. Status' = Status /\ Confirmed' = Confirmed /\ xmp' = xmp
    BY <1>1 DEF store, Status, Confirmed
  <2> QED BY <2>1 DEF Ledger!vars, Status, Confirmed
<1>2. ASSUME NEW f \in Files, MarkScored(f), xmp' = xmp PROVE Ledger!Score(f)
  <2>1. \A g \in Files : proc'[g] = IF g = f THEN proc'[f] ELSE proc[g]
    BY <1>0, <1>2 DEF MarkScored, Types
  <2>2. proc'[f].status = "scored" /\ proc'[f].info = NoInfo
    BY <1>0, <1>2 DEF MarkScored, NoRow, Types
  <2>3. Status' = [Status EXCEPT ![f] = "scored"] /\ Confirmed' = [Confirmed EXCEPT ![f] = NoInfo]
    BY <2>1, <2>2 DEF Status, Confirmed
  <2> QED BY <1>2, <2>3 DEF Ledger!Score, Status, Confirmed
<1>3. ASSUME NEW f \in Files, pc \in {"publishing", "confirming"}, Current(f)
      PROVE  proc[f].status # "none" /\ InfoOf(f) \in Infos \ {NoInfo}
  BY <1>3, CurrentFacts DEF ReviewInv, Control, Stored, StorePcs
<1>4. ASSUME NEW f \in Files, PublishSidecar(f), proc' = proc
      PROVE  \E o \in Infos \ {NoInfo} : Ledger!Publish(f, o)
  <2>1. proc[f].status # "none" /\ InfoOf(f) \in Infos \ {NoInfo}
    BY <1>3, <1>4 DEF PublishSidecar
  <2>2. xmp' = [xmp EXCEPT ![f] = InfoOf(f)]
    BY <1>4 DEF PublishSidecar
  <2> QED BY <1>4, <2>1, <2>2 DEF Ledger!Publish
<1>5. ASSUME NEW f \in Files, MarkDone(f), xmp' = xmp PROVE Ledger!Confirm(f)
  <2>1. proc[f].status # "none" /\ InfoOf(f) # NoInfo /\ xmp[f] = InfoOf(f)
    BY <1>3, <1>5 DEF MarkDone, ReviewInv, Control
  <2>2. \A g \in Files : proc'[g] = IF g = f THEN proc'[f] ELSE proc[g]
    BY <1>0, <1>5 DEF MarkDone, Types
  <2>3. proc'[f].status = "done" /\ proc'[f].info = xmp[f]
    BY <1>0, <1>5, <2>1 DEF MarkDone, Types
  <2>4. Status' = [Status EXCEPT ![f] = "done"] /\ Confirmed' = [Confirmed EXCEPT ![f] = xmp[f]]
    BY <2>2, <2>3 DEF Status, Confirmed
  <2> QED BY <1>5, <2>1, <2>4 DEF Ledger!Confirm, Status, Confirmed
<1> QED BY <1>1, <1>2, <1>4, <1>5, Writers DEF Ledger!Next

\* Whatever order the pipeline works in and wherever it is interrupted, every
\* photo goes through the ledger's steps: a new score forgets that the photo
\* was done, only a stored score is published, and a row is confirmed for
\* exactly what the sidecar holds.
THEOREM ReviewImplementsLedger == Spec => LedgerSpec
<1>1. Init => Ledger!Init
  BY InitLedger
<1>2. ReviewInv /\ [Next]_vars => [Ledger!Next]_(Ledger!vars)
  BY LedgerStep
<1> QED BY <1>1, <1>2, ReviewInvariant, PTL DEF Spec, LedgerSpec, Ledger!Spec

-----------------------------------------------------------------------------
(* What a run has accounted for                                            *)

RankPcs == {"groups"} \cup WritePcs

\* The photos whose place in their group has been dealt with.
Handled(f) ==
    /\ f \in disc /\ work[f].stage = "scored" /\ pc \in RankPcs
    /\ \/ Burst[f] < group
       \/ Burst[f] = group /\ pc \in WritePcs /\ InfoOf(f).rank < rank

\* A failure is counted exactly when a photo is recorded as failed, and no
\* record of a failure is written over.
Account ==
    /\ pc \in RankPcs => Unscored = {}
    /\ pc # "idle" =>
           /\ outcome = "running"
           /\ \A f \in disc : work[f].stage = "failed" => files[f].status = "error"
           /\ \A f \in disc : files[f].status = "error" => work[f].stage = "failed" \/ Handled(f)
           /\ \A f \in disc : Handled(f)
                  => files[f].status \in {"written", "skipped", "simulated", "error"}
           /\ errors <=> \E f \in disc : files[f].status = "error"
    /\ pc = "idle" => ~errors /\ ~tx

AccountInv == Account /\ OutcomeAccountsForFiles

LEMMA Bursts == \A f \in Files : Burst[f] \in 1..N /\ N \in Nat
BY BurstAssumption, FilesAssumption

LEMMA RankPositive ==
    ASSUME NEW S \in SUBSET Files, NEW sc, NEW f
    PROVE  RankIn(S, sc, f) \in Nat /\ RankIn(S, sc, f) >= 1
<1> DEFINE ahead == {g \in S : Before(sc, g, f)}
<1>1. Cardinality(ahead) \in 0..N /\ N \in Nat
  BY FilesFinite
<1> QED BY <1>1 DEF RankIn

LEMMA HandledLater == ASSUME pc \notin RankPcs, NEW f PROVE ~Handled(f)
BY DEF Handled

\* Finalizing a group starts with its first place.
LEMMA FinalizeHandles ==
    ASSUME TypeOK, TypeOK', FinalizeGroup
    PROVE  \A f \in disc : Handled(f)' <=> Handled(f)
<1>0. Types /\ Types'
  BY TypesOf
<1>1. UNCHANGED <<disc, group>> /\ pc = "groups" /\ pc' = "writing" /\ rank' = 1
  BY DEF FinalizeGroup
<1>2. \A f \in Files : work'[f].stage = work[f].stage
  BY FinalizedFacts
<1>3. ASSUME NEW f \in disc PROVE Handled(f)' <=> Handled(f)
  <2>1. f \in Files /\ Scored(Burst[f])' \in SUBSET Files
    BY <1>0 DEF Scored, Members, Types
  <2>2. RankIn(Scored(Burst[f])', WorkScores', f) >= 1
        /\ RankIn(Scored(Burst[f])', WorkScores', f) \in Nat
    BY <2>1, RankPositive
  <2>3. InfoOf(f)'.rank = RankIn(Scored(Burst[f])', WorkScores', f)
    BY DEF InfoOf, RankIn, Before
  <2>4. ~(InfoOf(f)'.rank < rank')
    BY <1>1, <2>2, <2>3
  <2> QED BY <1>1, <1>2, <2>1, <2>4 DEF Handled, RankPcs, WritePcs
<1> QED BY <1>3

\* When the places of a group are used up, all its members have been handled.
LEMMA GroupDoneHandles ==
    ASSUME TypeOK, GroupDone
    PROVE  \A f \in disc : Handled(f)' <=> Handled(f)
<1>0. Types
  BY TypesOf
<1>1. /\ UNCHANGED <<disc, work, rank>>
      /\ pc = "writing" /\ pc' = "groups" /\ group' = group + 1
      /\ rank > Cardinality(Scored(group))
  BY DEF GroupDone
<1>2. ASSUME NEW f \in disc PROVE Handled(f)' <=> Handled(f)
  <2>1. f \in Files /\ Burst[f] \in Int /\ group \in Int /\ rank \in Int
    BY <1>0, Bursts DEF Types
  <2>2. ASSUME work[f].stage = "scored", Burst[f] = group PROVE InfoOf(f).rank < rank
    <3>1. f \in Scored(group) /\ Scored(group) \in SUBSET Files
      BY <1>0, <2>2 DEF Scored, Members, Types
    <3>2. WorkScores[f] \in Int
      BY <2>1, ScoresOf
    <3>3. ~Before(WorkScores, f, f)
      BY <2>1, <3>2, FilesAssumption DEF Before, Files
    <3>4. RankIn(Scored(group), WorkScores, f) \in 1..Cardinality(Scored(group))
      BY <3>1, <3>3, RankInRange
    <3>5. Cardinality(Scored(group)) \in Int
      BY <3>1, FilesFinite
    <3> QED BY <1>1, <2>1, <2>2, <3>4, <3>5 DEF InfoOf
  <2> QED BY <1>1, <2>1, <2>2 DEF Handled, RankPcs, WritePcs
<1> QED BY <1>2

\* The current member is the one that is handled by the writing of its place.
LEMMA WritingHandles ==
    ASSUME TypeOK, NEW f \in Files, Writing(f)
    PROVE  /\ f \in disc /\ work[f].stage = "scored" /\ ~Handled(f)
           /\ UNCHANGED <<disc, work, group, outcome>>
           /\ pc \in WritePcs /\ pc' \in WritePcs
           /\ \A g \in Files : InfoOf(g)' = InfoOf(g)
           /\ \A g \in disc \ {f} : Handled(g)' <=> Handled(g)
           /\ \/ UNCHANGED rank /\ ~Handled(f)'
              \/ rank' = rank + 1 /\ Handled(f)'
<1>0. Types
  BY TypesOf
<1>1. Current(f) /\ UNCHANGED <<disc, outcome, work, group>>
      /\ pc \in WritePcs /\ pc' \in WritePcs /\ (UNCHANGED rank \/ rank' = rank + 1)
  BY DEF Writing, WriteSkipped, WriteSimulated, WriteFlush, PublishSidecar, RecordProjection,
         MarkDone, WriteError, Written, WritePcs
<1>2. /\ f \in disc /\ work[f].stage = "scored" /\ Burst[f] = group /\ rank \in 1..N
      /\ InfoOf(f).rank = rank
  BY <1>1, CurrentFacts DEF Members, Current
<1>3. pc \in RankPcs /\ pc' \in RankPcs
  BY <1>1 DEF RankPcs
<1>4. \A g \in Files : InfoOf(g)' = InfoOf(g)
  BY <1>1 DEF InfoOf, Scored, Members, WorkScores, RankIn, Before
<1>5. ~Handled(f)
  BY <1>2, Bursts DEF Handled
<1>6. ASSUME NEW g \in disc \ {f} PROVE Handled(g)' <=> Handled(g)
  <2>1. g \in Files
    BY <1>0 DEF Types
  <2>2. CASE work[g].stage # "scored" \/ Burst[g] # group
    BY <1>1, <1>3, <2>2 DEF Handled
  <2>3. CASE work[g].stage = "scored" /\ Burst[g] = group
    <3>1. g \in Scored(group) /\ Scored(group) \in SUBSET Files
      BY <1>0, <2>3, <2>1 DEF Scored, Members, Types
    <3>2. InfoOf(g).rank # rank
      <4>1. InfoOf(g).rank = rank => Current(g)
        BY <3>1 DEF Current
      <4> QED BY <1>1, <2>1, <4>1, OneCurrent
    <3>3. InfoOf(g).rank \in Nat
      BY <2>3, <3>1, RankPositive DEF InfoOf
    <3>4. InfoOf(g).rank < rank' <=> InfoOf(g).rank < rank
      BY <1>1, <1>2, <3>2, <3>3
    <3>5. InfoOf(g)' = InfoOf(g)
      BY <1>4, <2>1
    <3> QED BY <1>1, <1>3, <3>4, <3>5 DEF Handled
  <2> QED BY <2>2, <2>3
<1>7. (UNCHANGED rank /\ ~Handled(f)') \/ (rank' = rank + 1 /\ Handled(f)')
  <2>1. InfoOf(f)'.rank = rank /\ Burst[f] \in Int /\ rank \in Int
    BY <1>2, <1>4, Bursts
  <2>2. Handled(f)' <=> rank < rank'
    BY <1>1, <1>2, <1>3, <2>1 DEF Handled
  <2> QED BY <1>1, <2>1, <2>2
<1> QED BY <1>1, <1>2, <1>4, <1>5, <1>6, <1>7

\* Steps that neither record nor rank nor end anything.
LEMMA AccountRests ==
    ASSUME TypeOK, AccountInv, UNCHANGED <<files, errors, disc, outcome>>,
           pc # "idle" /\ pc' # "idle",
           \A f \in disc : work'[f].stage = "failed" <=> work[f].stage = "failed",
           \A f \in disc : Handled(f)' <=> Handled(f),
           pc' \in RankPcs => Unscored' = {}
    PROVE  AccountInv'
<1>1. outcome' = "running"
  BY DEF AccountInv, Account
<1>2. OutcomeAccountsForFiles'
  BY <1>1 DEF OutcomeAccountsForFiles
<1> QED BY <1>2 DEF AccountInv, Account

\* A photo that was not accounted for is now.
LEMMA AccountRecords ==
    ASSUME TypeOK, AccountInv, NEW f \in disc, NEW s \in FileStatuses, NEW r \in 0..N,
           Record(f, s, r), UNCHANGED <<disc, outcome>>, pc # "idle" /\ pc' # "idle",
           errors' = (errors \/ s = "error"),
           work[f].stage # "failed", ~Handled(f),
           work'[f].stage = "failed" => s = "error",
           s = "error" => work'[f].stage = "failed" \/ Handled(f)',
           Handled(f)' => s \in {"written", "skipped", "simulated", "error"},
           \A g \in disc \ {f} : work'[g].stage = "failed" <=> work[g].stage = "failed",
           \A g \in disc \ {f} : Handled(g)' <=> Handled(g),
           pc' \in RankPcs => Unscored' = {}
    PROVE  AccountInv'
<1>1. outcome' = "running"
  BY DEF AccountInv, Account
<1>2. OutcomeAccountsForFiles'
  BY <1>1 DEF OutcomeAccountsForFiles
<1>3. disc \subseteq Files /\ files \in [Files -> FileRows]
  BY TypesOf DEF Types
<1>4. files'[f].status = s /\ \A g \in disc \ {f} : files'[g] = files[g]
  BY <1>3 DEF Record
<1>5. files[f].status # "error"
  BY DEF AccountInv, Account
<1>6. errors' <=> \E g \in disc : files'[g].status = "error"
  <2>1. errors <=> \E g \in disc : files[g].status = "error"
    BY DEF AccountInv, Account
  <2> QED BY <1>4, <1>5, <2>1
<1>7. \A g \in disc : work'[g].stage = "failed" => files'[g].status = "error"
  BY <1>4 DEF AccountInv, Account
<1>8. \A g \in disc : files'[g].status = "error" => work'[g].stage = "failed" \/ Handled(g)'
  BY <1>4 DEF AccountInv, Account
<1>9. \A g \in disc : Handled(g)'
          => files'[g].status \in {"written", "skipped", "simulated", "error"}
  BY <1>4 DEF AccountInv, Account
<1> QED BY <1>1, <1>2, <1>6, <1>7, <1>8, <1>9 DEF AccountInv, Account

LEMMA AccountScoring ==
    ASSUME TypeOK, AccountInv, NEW f \in Files, Scoring(f)
    PROVE  AccountInv'
<1>0. Types /\ 0 \in 0..N
  BY TypesOf, FilesAssumption
<1>1. pc \in {"scoring", "marking"} /\ pc' \in {"scoring", "marking"} /\ f \in Unscored
      /\ UNCHANGED <<disc, outcome>>
  BY DEF Scoring, PrepareCached, PrepareFrame, Submitted, ConsumeCached, ConsumeDry, ConsumeFlush,
         MarkScored, ScoreError, AtHead, Queue
<1>2. pc \notin RankPcs /\ pc' \notin RankPcs /\ pc # "idle" /\ pc' # "idle"
  BY <1>1 DEF RankPcs, WritePcs
<1>3. \A g : ~Handled(g) /\ ~Handled(g)'
  BY <1>2 DEF Handled
<1>4. f \in disc /\ work[f].stage # "failed" /\ disc \subseteq Files
  BY <1>0, <1>1 DEF Unscored, Types
<1>5. CASE PrepareCached(f) \/ PrepareFrame(f) \/ \E s \in Scores : ConsumeFlush(f, s)
  <2>1. UNCHANGED <<files, errors>>
    BY <1>5 DEF PrepareCached, PrepareFrame, ConsumeFlush, Flush, jobVars
  <2>2. (\A g \in Files \ {f} : work'[g] = work[g]) /\ work'[f].stage # "failed"
    BY <1>0, <1>4, <1>5 DEF PrepareCached, PrepareFrame, ConsumeFlush, Types, Works
  <2> QED BY <1>1, <1>2, <1>3, <1>4, <2>1, <2>2, AccountRests
<1>6. CASE ConsumeCached(f) \/ MarkScored(f) \/ \E s \in Scores : ConsumeDry(f, s)
  <2>1. Record(f, "scored", 0) /\ errors' = errors
    BY <1>6 DEF ConsumeCached, MarkScored, ConsumeDry
  <2>2. (\A g \in Files \ {f} : work'[g] = work[g]) /\ work'[f].stage = "scored"
    BY <1>0, <1>6 DEF ConsumeCached, MarkScored, ConsumeDry, Types, Works
  <2>3. errors' = (errors \/ "scored" = "error")
    BY <1>0, <2>1 DEF Types
  <2> QED BY <1>0, <1>1, <1>2, <1>3, <1>4, <2>1, <2>2, <2>3, AccountRecords DEF FileStatuses
<1>7. CASE ScoreError(f)
  <2>1. Record(f, "error", 0) /\ errors' = (errors \/ "error" = "error")
    BY <1>7 DEF ScoreError
  <2>2. (\A g \in Files \ {f} : work'[g] = work[g]) /\ work'[f].stage = "failed"
    BY <1>0, <1>7 DEF ScoreError, Types, Works
  <2> QED BY <1>0, <1>1, <1>2, <1>3, <1>4, <2>1, <2>2, AccountRecords DEF FileStatuses
<1> QED BY <1>5, <1>6, <1>7 DEF Scoring

LEMMA AccountWriting ==
    ASSUME TypeOK, AccountInv, NEW f \in Files, Writing(f)
    PROVE  AccountInv'
<1>0. Types
  BY TypesOf
<1>1. /\ Current(f) /\ f \in disc /\ work[f].stage = "scored" /\ ~Handled(f)
      /\ UNCHANGED <<disc, work, group, outcome>>
      /\ \A g \in disc \ {f} : Handled(g)' <=> Handled(g)
      /\ pc \in RankPcs /\ pc' \in RankPcs /\ pc # "idle" /\ pc' # "idle"
  BY WritingHandles DEF Writing, WriteSkipped, WriteSimulated, WriteFlush, PublishSidecar,
                        RecordProjection, MarkDone, WriteError, RankPcs, WritePcs
<1>2. Unscored = {} /\ Unscored' = {}
  BY <1>1 DEF AccountInv, Account, Unscored
<1>3. rank \in 1..N /\ rank \in 0..N
  BY <1>1, CurrentFacts, FilesAssumption
<1>4. CASE WriteFlush(f) \/ PublishSidecar(f) \/ RecordProjection(f)
  <2>1. UNCHANGED <<files, errors, rank>>
    BY <1>4 DEF WriteFlush, PublishSidecar, RecordProjection, Flush, jobVars
  <2>2. ~Handled(f)'
    BY <1>3, <2>1, WritingHandles
  <2> QED BY <1>1, <1>2, <2>1, <2>2, AccountRests
<1>5. ASSUME NEW s \in {"written", "skipped", "simulated", "error"}, Written(f, s),
             errors' = (errors \/ s = "error")
      PROVE  AccountInv'
  <2>1. Record(f, s, rank) /\ rank' = rank + 1 /\ s \in FileStatuses
    BY <1>5 DEF Written, FileStatuses
  <2>2. Handled(f)'
    BY <1>3, <2>1, WritingHandles
  <2> QED BY <1>1, <1>2, <1>3, <1>5, <2>1, <2>2, AccountRecords
<1>6. CASE WriteSkipped(f) \/ WriteSimulated(f) \/ MarkDone(f)
  <2>1. PICK s \in {"written", "skipped", "simulated"} : Written(f, s)
    BY <1>6 DEF WriteSkipped, WriteSimulated, MarkDone
  <2>2. errors' = (errors \/ s = "error")
    BY <1>0, <1>6, <2>1 DEF WriteSkipped, WriteSimulated, MarkDone, Types
  <2> QED BY <1>5, <2>1, <2>2
<1>7. CASE WriteError(f)
  <2>1. Written(f, "error") /\ errors' = (errors \/ "error" = "error")
    BY <1>7 DEF WriteError
  <2> QED BY <1>5, <2>1
<1> QED BY <1>4, <1>6, <1>7 DEF Writing

LEMMA AccountStep ==
    ASSUME TypeOK, TypeOK', Stored, AccountInv, [Next]_vars
    PROVE  AccountInv'
<1>0. Types /\ Types'
  BY TypesOf
<1>1. ASSUME NEW m \in Modes, StartRun(m) PROVE AccountInv'
  <2>1. pc' = "grouping" /\ outcome' = "running" /\ errors' = FALSE
    BY <1>1 DEF StartRun, AccountInv, Account
  <2>2. \A f \in Files : work'[f].stage = "none" /\ files'[f].status = "none"
    BY <1>1 DEF StartRun, Stored, NoFile
  <2>3. disc' \subseteq Files
    BY <1>0 DEF Types
  <2>4. \A f : ~Handled(f)'
    BY <2>1 DEF Handled, RankPcs, WritePcs
  <2> QED BY <2>1, <2>2, <2>3, <2>4
          DEF AccountInv, Account, OutcomeAccountsForFiles, RankPcs, WritePcs
<1>2. CASE Group \/ ScoringDone
  <2>1. /\ UNCHANGED <<files, errors, disc, outcome, work>>
        /\ pc \notin RankPcs /\ pc # "idle" /\ pc' # "idle"
        /\ \/ pc' \notin RankPcs
           \/ pc' = "groups" /\ group' = 1 /\ Unscored = {}
    BY <1>2 DEF Group, ScoringDone, Flush, jobVars, RankPcs, WritePcs
  <2>2. \A f \in disc : ~Handled(f) /\ ~Handled(f)'
    <3>1. ASSUME NEW f \in disc PROVE ~Handled(f)'
      <4>1. Burst[f] >= 1
        BY <1>0, Bursts DEF Types
      <4>2. Burst[f] \in Int
        BY <1>0, Bursts DEF Types
      <4> QED BY <2>1, <4>1, <4>2 DEF Handled, WritePcs
    <3> QED BY <2>1, <3>1, HandledLater
  <2>3. Unscored' = Unscored
    BY <2>1 DEF Unscored
  <2> QED BY <2>1, <2>2, <2>3, AccountRests
<1>3. CASE Submit
  <2>1. UNCHANGED <<work, disc, errors, outcome, pc>> /\ pc = "scoring"
    BY <1>3 DEF Submit, runVars
  <2>2. ASSUME NEW f \in Files
        PROVE  \/ files'[f] = files[f]
               \/ files[f].status = "none" /\ files'[f].status = "pending"
    <3>1. files'[f] = IF f \in Queue(Window) /\ files[f].status = "none"
                      THEN [status |-> "pending", rank |-> 0] ELSE files[f]
      BY <1>3 DEF Submit
    <3>2. CASE f \in Queue(Window) /\ files[f].status = "none"
      BY <3>1, <3>2
    <3>3. CASE ~(f \in Queue(Window) /\ files[f].status = "none")
      BY <3>1, <3>3
    <3> QED BY <3>2, <3>3
  <2>3. \A f : ~Handled(f) /\ ~Handled(f)'
    BY <2>1 DEF Handled, RankPcs, WritePcs
  <2>4. \A f \in disc : files'[f].status = "error" <=> files[f].status = "error"
    BY <1>0, <2>2 DEF Types
  <2> QED BY <2>1, <2>3, <2>4
          DEF AccountInv, Account, OutcomeAccountsForFiles, RankPcs, WritePcs
<1>4. CASE FinalizeGroup
  <2>1. /\ UNCHANGED <<files, errors, disc, outcome, group>>
        /\ pc = "groups" /\ pc' = "writing" /\ rank' = 1
    BY <1>4 DEF FinalizeGroup, jobVars
  <2>2. \A f \in Files : work'[f].stage = work[f].stage
    BY <1>4, FinalizedFacts
  <2>3. Unscored' = {}
    BY <1>0, <2>1, <2>2 DEF AccountInv, Account, Unscored, RankPcs, Types
  <2>4. \A f \in disc : Handled(f)' <=> Handled(f)
    BY <1>4, FinalizeHandles
  <2> QED BY <1>0, <2>1, <2>2, <2>3, <2>4, AccountRests DEF Types
<1>5. CASE GroupDone
  <2>1. /\ UNCHANGED <<files, errors, disc, outcome, work, rank>>
        /\ pc = "writing" /\ pc' = "groups" /\ group' = group + 1
        /\ rank > Cardinality(Scored(group))
    BY <1>5 DEF GroupDone, jobVars
  <2>2. Unscored' = {}
    BY <2>1 DEF AccountInv, Account, Unscored, RankPcs, WritePcs
  <2>3. \A f \in disc : Handled(f)' <=> Handled(f)
    BY <1>5, GroupDoneHandles
  <2> QED BY <2>1, <2>2, <2>3, AccountRests
<1>6. CASE FinishRun
  <2>1. pc = "groups" /\ group > N /\ filesDb' = files /\ disc' = disc /\ pc' = "idle"
        /\ errors' = FALSE /\ tx' = FALSE
        /\ outcome' = IF errors THEN "finished_with_errors" ELSE "finished"
    BY <1>6 DEF FinishRun, Forget, Flush
  <2>2. ASSUME ~errors, NEW f \in disc
        PROVE  files[f].status \in {"written", "skipped", "simulated"}
    <3>1. files[f].status # "error"
      BY <2>1, <2>2 DEF AccountInv, Account
    <3>2. work[f].stage = "scored"
      BY <2>1, <3>1 DEF AccountInv, Account, Unscored, RankPcs
    <3>3. Burst[f] < group
      BY <1>0, <2>1, Bursts DEF Types
    <3>4. Handled(f)
      BY <2>1, <3>2, <3>3 DEF Handled, RankPcs
    <3> QED BY <2>1, <3>1, <3>4 DEF AccountInv, Account
  <2>3. errors => \E f \in disc : files[f].status = "error"
    BY <2>1 DEF AccountInv, Account
  <2> QED BY <2>1, <2>2, <2>3 DEF AccountInv, Account, OutcomeAccountsForFiles, RankPcs, WritePcs
<1>7. CASE Interrupt
  BY <1>7 DEF Interrupt, Forget, AccountInv, Account, OutcomeAccountsForFiles, RankPcs, WritePcs
<1>8. ASSUME UNCHANGED <<work, disc, group, rank, pc, files, errors, outcome>>,
             pc = "idle" => UNCHANGED <<filesDb, tx>>
      PROVE  AccountInv'
  <2>1. \A f \in Files : InfoOf(f)' = InfoOf(f)
    BY <1>8, SameGroup
  <2>2. \A f \in disc : Handled(f)' <=> Handled(f)
    BY <1>0, <1>8, <2>1 DEF Handled, Types
  <2>3. Unscored' = Unscored
    BY <1>8 DEF Unscored
  <2>4. CASE pc # "idle"
    BY <1>8, <2>2, <2>3, <2>4, AccountRests DEF AccountInv, Account
  <2>5. CASE pc = "idle"
    BY <1>8, <2>5 DEF AccountInv, Account, OutcomeAccountsForFiles, RankPcs, WritePcs
  <2> QED BY <2>4, <2>5
<1>9. CASE BatchFull \/ UNCHANGED vars \/ \E f \in Files : ChangePhoto(f)
  <2>1. UNCHANGED <<work, disc, group, rank, pc, files, errors, outcome>>
    BY <1>9 DEF BatchFull, Flush, ChangePhoto, vars, runVars, jobVars
  <2>2. pc = "idle" => UNCHANGED <<filesDb, tx>>
    BY <1>9 DEF BatchFull, ChangePhoto, vars, jobVars, AccountInv, Account
  <2> QED BY <1>8, <2>1, <2>2
<1> QED BY <1>1, <1>2, <1>3, <1>4, <1>5, <1>6, <1>7, <1>9, AccountScoring, AccountWriting
        DEF Next, Work, Start

\* The outcome of a run tells of every photo it discovered: finished means
\* each was written, skipped or simulated, finished_with_errors that one of
\* them failed, whatever failed or was interrupted before.
THEOREM OutcomesAccount == Spec => []OutcomeAccountsForFiles
<1>1. Init => ReviewInv /\ AccountInv
  <2>1. Init => AccountInv
    BY DEF Init, AccountInv, Account, OutcomeAccountsForFiles, RankPcs, WritePcs
  <2> QED BY <2>1, InitReviewInv
<1>2. ReviewInv /\ AccountInv /\ [Next]_vars => ReviewInv' /\ AccountInv'
  BY NextReviewInv, AccountStep DEF ReviewInv
<1>3. AccountInv => OutcomeAccountsForFiles
  BY DEF AccountInv
<1> QED BY <1>1, <1>2, <1>3, PTL DEF Spec
-----------------------------------------------------------------------------
(* A run over settled results                                              *)

\* What such a run holds in memory is what the rows say, so that nothing is
\* left to be written.
Rerun ==
    inputs = "settled" /\ pc # "idle" =>
        /\ disc = Present /\ ~mode.reprocess /\ Settled(mode.key)
        /\ pc \notin StorePcs
        /\ \A f \in disc :
               /\ work[f].stage \in {"none", "cached", "scored"}
               /\ work[f].stage # "none" => /\ work[f].skip
                                            /\ work[f].score = proc[f].score
                                            /\ work[f].prev = proc[f].info

\* Equal scores give equal ranks.
LEMMA RanksAgree ==
    ASSUME NEW S, NEW sc, NEW sd, NEW f \in S, \A g \in S : sc[g] = sd[g]
    PROVE  RankIn(S, sc, f) = RankIn(S, sd, f)
<1>1. {g \in S : Before(sc, g, f)} = {g \in S : Before(sd, g, f)}
  BY DEF Before
<1> QED BY <1>1 DEF RankIn

LEMMA SettledRests ==
    ASSUME UNCHANGED <<content, proc, mode>>, Settled(mode.key)
    PROVE  Settled(mode.key)' /\ Present' = Present
BY DEF Settled, Present, RowIsValid, RowScores, RankIn, Before

\* Every member of a settled group has been given its old place again.
LEMMA SettledPlace ==
    ASSUME TypeOK, Rerun, inputs = "settled", pc = "groups", Unscored = {},
           NEW f \in Scored(group)
    PROVE  work[f].skip /\ SamePlace(work[f].prev, InfoOf(f))
<1>0. Types /\ disc = Present /\ Settled(mode.key)
  BY TypesOf DEF Rerun
<1>1. f \in disc /\ f \in Files /\ Burst[f] = group /\ work[f].stage = "scored"
  BY <1>0 DEF Scored, Members, Types
<1>2. \A g \in disc : work[g].stage = "scored" /\ work[g].score = proc[g].score
  BY <1>0 DEF Rerun, Unscored
<1> DEFINE S == {g \in Present : Burst[g] = Burst[f]}
<1>3. Members(Burst[f]) = S /\ Scored(Burst[f]) = S /\ f \in S /\ S \subseteq Files
  BY <1>0, <1>1, <1>2 DEF Members, Scored, Present
<1>4. \A g \in S : WorkScores[g] = RowScores[g]
  BY <1>0, <1>2, <1>3 DEF WorkScores, RowScores
<1>5. proc[f].info = [members |-> S, rank |-> RankIn(S, RowScores, f),
                      size |-> Cardinality(S), score |-> proc[f].score]
  BY <1>0, <1>1 DEF Settled
<1> HIDE DEF S
<1>6. RankIn(S, WorkScores, f) = RankIn(S, RowScores, f)
  BY <1>3, <1>4, RanksAgree
<1>7. work[f].skip /\ work[f].prev = proc[f].info
  BY <1>1 DEF Rerun
<1> QED BY <1>3, <1>5, <1>6, <1>7 DEF SamePlace, InfoOf

\* Finalizing a group without refinement only takes back some write flags.
LEMMA Unrefined ==
    ASSUME TypeOK, FinalizeGroup, Refinable = {}
    PROVE  \A f \in Files :
               /\ work'[f].stage = work[f].stage
               /\ work'[f].score = work[f].score
               /\ work'[f].prev = work[f].prev
               /\ work'[f].skip \in BOOLEAN
               /\ work'[f].skip <=>
                      work[f].skip /\ (f \in Scored(group) => SamePlace(work[f].prev, InfoOf(f)))
<1>0. Types
  BY TypesOf
<1>1. ASSUME NEW f \in Files
      PROVE  /\ Refreshed[f] \in Works
             /\ Refreshed[f].stage = work[f].stage /\ Refreshed[f].score = work[f].score
             /\ Refreshed[f].prev = work[f].prev
             /\ Refreshed[f].skip <=>
                    work[f].skip /\ (f \in Scored(group) => SamePlace(work[f].prev, InfoOf(f)))
  <2>1. work[f] \in Works
    BY <1>0 DEF Types
  <2>2. CASE f \in Scored(group)
    <3>1. PICK same \in BOOLEAN : same = SamePlace(work[f].prev, InfoOf(f))
      BY DEF SamePlace
    <3>2. Refreshed[f] = [work[f] EXCEPT !.skip = @ /\ same]
      BY <2>2, <3>1 DEF Refreshed
    <3> QED BY <2>1, <2>2, <3>1, <3>2 DEF Works
  <2>3. CASE f \notin Scored(group)
    BY <2>1, <2>3 DEF Refreshed, Works
  <2> QED BY <2>2, <2>3
<1>2. PICK A \in SUBSET Refinable : \E G \in SUBSET A : \E new \in [G -> Scores] :
          work' = RefinedBy(Refreshed, A, G, new)
  BY DEF FinalizeGroup
<1>3. PICK G \in SUBSET A : \E new \in [G -> Scores] : work' = RefinedBy(Refreshed, A, G, new)
  BY <1>2
<1>4. PICK new \in [G -> Scores] : work' = RefinedBy(Refreshed, A, G, new)
  BY <1>3
<1>5. A = {} /\ G = {}
  BY <1>2
<1>6. ASSUME NEW f \in Files PROVE work'[f] = [Refreshed[f] EXCEPT !.refined = @ \/ FALSE]
  BY <1>4, <1>5 DEF RefinedBy
<1> QED BY <1>1, <1>6 DEF Works

\* So finalizing a settled group changes nothing that matters.
LEMMA SettledFinalize ==
    ASSUME TypeOK, Rerun, inputs = "settled", Unscored = {}, FinalizeGroup
    PROVE  \A f \in Files : /\ work'[f].stage = work[f].stage
                            /\ work'[f].score = work[f].score
                            /\ work'[f].prev = work[f].prev
                            /\ work'[f].skip = work[f].skip
<1>0. Types /\ pc = "groups" /\ \A f \in Files : work[f].skip \in BOOLEAN
  BY TypesOf DEF FinalizeGroup, Types, Works
<1>1. \A f \in Scored(group) : work[f].skip /\ SamePlace(work[f].prev, InfoOf(f))
  BY <1>0, SettledPlace
<1>2. ASSUME NEW f \in Scored(group) PROVE Refreshed[f].skip
  <2>1. work[f] \in Works
    BY <1>0 DEF Types, Scored, Members
  <2>2. Refreshed[f] = [work[f] EXCEPT !.skip = TRUE]
    BY <1>0, <1>1 DEF Refreshed, Scored, Members, Types
  <2> QED BY <2>1, <2>2 DEF Works
<1>3. Refinable = {}
  BY <1>2 DEF Refinable
<1> QED BY <1>0, <1>1, <1>3, Unrefined

\* Steps that keep what the rows and the run's memory say.
LEMMA RerunRests ==
    ASSUME TypeOK, Rerun, UNCHANGED <<content, proc, mode, disc, inputs>>,
           pc' # "idle" => pc # "idle", pc' \notin StorePcs \/ pc' = pc,
           \A f \in Files : /\ work'[f].stage = work[f].stage
                            /\ work'[f].score = work[f].score
                            /\ work'[f].prev = work[f].prev
                            /\ work'[f].skip = work[f].skip
    PROVE  Rerun'
<1>1. disc \subseteq Files
  BY TypesOf DEF Types
<1> SUFFICES ASSUME inputs' = "settled", pc' # "idle" PROVE Rerun'
  BY DEF Rerun
<1>2. Settled(mode.key)' /\ Present' = Present
  BY SettledRests DEF Rerun
<1> QED BY <1>1, <1>2 DEF Rerun

LEMMA RerunStep ==
    ASSUME TypeOK, Stored, AccountInv, Rerun, [Next]_vars
    PROVE  Rerun'
<1>0. Types
  BY TypesOf
<1>1. ASSUME NEW m \in Modes, StartRun(m) PROVE Rerun'
  <2> SUFFICES ASSUME inputs' = "settled" PROVE Rerun'
    BY DEF Rerun
  <2>1. Settled(m.key) /\ ~m.reprocess /\ mode' = m /\ disc' = Present /\ pc' = "grouping"
        /\ UNCHANGED <<content, proc>>
    BY <1>1 DEF StartRun, store
  <2>2. Settled(mode.key)' /\ Present' = Present
    BY <2>1 DEF Settled, Present, RowIsValid, RowScores, RankIn, Before
  <2>3. \A f \in Files : work'[f].stage = "none"
    BY <1>1 DEF StartRun, Stored
  <2> QED BY <2>1, <2>2, <2>3 DEF Rerun, StorePcs, Present
<1>2. CASE Group \/ Submit \/ ScoringDone \/ GroupDone \/ BatchFull \/ UNCHANGED vars
  <2>1. /\ UNCHANGED <<content, proc, mode, disc, inputs, work>>
        /\ pc' # "idle" => pc # "idle"
        /\ pc' \notin StorePcs \/ pc' = pc
    BY <1>2 DEF Group, Submit, ScoringDone, GroupDone, BatchFull, vars, runVars, store, history,
                StorePcs
  <2> QED BY <2>1, RerunRests
<1>3. CASE FinishRun \/ Interrupt
  BY <1>3 DEF FinishRun, Interrupt, Forget, Rerun
<1>4. ASSUME NEW f \in Files, ChangePhoto(f) PROVE Rerun'
  BY <1>4 DEF ChangePhoto, Rerun
<1>5. CASE FinalizeGroup
  <2>1. /\ UNCHANGED <<content, proc, mode, disc, inputs>>
        /\ pc = "groups" /\ pc' = "writing"
    BY <1>5 DEF FinalizeGroup, store, history
  <2>2. Unscored = {}
    BY <2>1 DEF AccountInv, Account, RankPcs
  <2>3. CASE inputs = "settled"
    BY <1>5, <2>1, <2>2, <2>3, SettledFinalize, RerunRests DEF StorePcs
  <2>4. CASE inputs # "settled"
    BY <2>1, <2>4 DEF Rerun
  <2> QED BY <2>3, <2>4
<1>6. ASSUME NEW f \in Files, Scoring(f), inputs = "settled" PROVE Rerun'
  <2>1. pc # "idle" /\ pc \notin StorePcs /\ f \in disc /\ UNCHANGED <<content, disc, inputs, mode>>
        /\ disc \subseteq Files
    BY <1>0, <1>6 DEF Scoring, PrepareCached, PrepareFrame, Submitted, ConsumeCached, ConsumeDry,
                 ConsumeFlush, MarkScored, ScoreError, AtHead, Queue, Unscored, Rerun, history, Types
  <2>2. disc = Present /\ ~mode.reprocess /\ RowIsValid(f, mode.key) /\ proc[f].status = "done"
        /\ work[f].stage \in {"none", "cached", "scored"} /\ Settled(mode.key)
    BY <1>6, <2>1 DEF Rerun, Settled
  <2>3. PrepareCached(f) \/ ConsumeCached(f)
    BY <1>6, <2>1, <2>2 DEF Scoring, PrepareFrame, ConsumeDry, ConsumeFlush, MarkScored, ScoreError,
                            StorePcs
  <2>4. UNCHANGED <<proc, pc>> /\ \A g \in Files \ {f} : work'[g] = work[g]
    BY <1>0, <2>3 DEF PrepareCached, ConsumeCached, store, Types
  <2>5. /\ work'[f].stage \in {"cached", "scored"} /\ work'[f].skip
        /\ work'[f].score = proc[f].score /\ work'[f].prev = proc[f].info
    <3>1. CASE PrepareCached(f)
      BY <1>0, <2>2, <3>1 DEF PrepareCached, Types
    <3>2. CASE ConsumeCached(f)
      <4>1. work[f].stage = "cached" /\ work[f] \in Works /\ work'[f] = [work[f] EXCEPT !.stage = "scored"]
        BY <1>0, <3>2 DEF ConsumeCached, Types
      <4>2. work[f].skip /\ work[f].score = proc[f].score /\ work[f].prev = proc[f].info
        BY <1>6, <2>1, <4>1 DEF Rerun
      <4> QED BY <4>1, <4>2 DEF Works
    <3> QED BY <2>3, <3>1, <3>2
  <2>6. Settled(mode.key)' /\ Present' = Present
    BY <2>1, <2>2, <2>4, SettledRests
  <2> QED BY <1>6, <2>1, <2>2, <2>4, <2>5, <2>6 DEF Rerun
<1>7. ASSUME NEW f \in Files, Writing(f), inputs = "settled" PROVE Rerun'
  <2>1. pc # "idle" /\ Current(f)
    BY <1>7 DEF Writing, WriteSkipped, WriteSimulated, WriteFlush, PublishSidecar,
                RecordProjection, MarkDone, WriteError
  <2>2. f \in disc /\ work[f].stage = "scored"
    BY <2>1, CurrentFacts DEF Members
  <2>3. work[f].skip /\ pc \notin StorePcs
    BY <1>7, <2>1, <2>2 DEF Rerun
  <2>4. WriteSkipped(f)
    BY <1>7, <2>3 DEF Writing, WriteSimulated, WriteFlush, PublishSidecar, RecordProjection,
                      MarkDone, WriteError, StorePcs
  <2>5. UNCHANGED <<content, proc, mode, disc, inputs, work>> /\ pc' = "writing"
    BY <2>4 DEF WriteSkipped, Written, store, history
  <2> QED BY <2>1, <2>5, RerunRests DEF StorePcs
<1>8. ASSUME NEW f \in Files, Scoring(f) \/ Writing(f), inputs # "settled" PROVE Rerun'
  <2>1. inputs' = inputs
    BY <1>8 DEF Scoring, PrepareCached, PrepareFrame, ConsumeCached, ConsumeDry, ConsumeFlush,
                MarkScored, ScoreError, Writing, WriteSkipped, WriteSimulated, WriteFlush,
                PublishSidecar, RecordProjection, MarkDone, WriteError, history
  <2> QED BY <1>8, <2>1 DEF Rerun
<1> QED BY <1>1, <1>2, <1>3, <1>4, <1>5, <1>6, <1>7, <1>8 DEF Next, Work, Start

\* A run over settled results, in the mode they were settled in, scores no
\* photo again and opens no write path, whatever interrupts it; settled means
\* done, valid and in place, so nothing is missed by leaving them alone.
THEOREM RerunsDoNothing == Spec => []RerunIsNoOp
<1> DEFINE Inv == ReviewInv /\ AccountInv /\ Rerun
<1>1. Init => Inv
  BY InitReviewInv DEF Init, AccountInv, Account, OutcomeAccountsForFiles, RankPcs, WritePcs, Rerun
<1>2. Inv /\ [Next]_vars => Inv'
  BY NextReviewInv, AccountStep, RerunStep DEF ReviewInv
<1>3. Inv => RerunIsNoOp
  BY DEF Rerun, RerunIsNoOp, StorePcs
<1> QED BY <1>1, <1>2, <1>3, PTL DEF Spec
-----------------------------------------------------------------------------
(* A finished run leaves its results settled                               *)

\* What the run holds for a photo is what the photo's row says.
Kept(f) ==
    work[f].stage \in {"cached", "scored"} =>
        /\ RowIsValid(f, mode.key) /\ proc[f].score = work[f].score
        /\ work[f].skip => proc[f].status = "done" /\ work[f].prev = proc[f].info

\* A photo is left unwritten only in its old place, and once handled without
\* a failure its row tells the place it has.
Placed(f) ==
    /\ pc \in WritePcs /\ f \in Scored(group) /\ work[f].skip
           => SamePlace(work[f].prev, InfoOf(f))
    /\ pc \in WritePcs \ {"writing"} /\ Current(f) => ~work[f].skip
    /\ Handled(f) /\ files[f].status # "error"
           => proc[f].status = "done" /\ proc[f].info = InfoOf(f)

Settling ==
    /\ \A f \in Files : proc[f].status = "done" => proc[f].info.score = proc[f].score
    /\ \A f \in Files : work[f].stage \notin {"cached", "scored"} => ~work[f].skip
    /\ inputs # "changed" /\ pc # "idle" =>
           /\ disc = Present
           /\ ~mode.dry => \A f \in disc : Kept(f) /\ Placed(f)

SettlingInv == Settling /\ FinishedIsSettled

\* Steps that keep the rows and what the run holds.
LEMMA SettlingRests ==
    ASSUME TypeOK, Settling, UNCHANGED <<content, proc, mode, disc, inputs>>,
           pc # "idle" /\ pc' # "idle",
           \A f \in Files : /\ work'[f].stage = work[f].stage
                            /\ work'[f].score = work[f].score
                            /\ work'[f].prev = work[f].prev
                            /\ work'[f].skip => work[f].skip,
           inputs # "changed" /\ ~mode.dry => \A f \in disc : Placed(f)'
    PROVE  SettlingInv'
<1>1. disc \subseteq Files
  BY TypesOf DEF Types
<1>2. FinishedIsSettled'
  BY DEF FinishedIsSettled
<1>3. Present' = Present
  BY DEF Present
<1>4. ASSUME NEW f \in disc, Kept(f) PROVE Kept(f)'
  BY <1>1, <1>4 DEF Kept, RowIsValid
<1> QED BY <1>2, <1>3, <1>4 DEF SettlingInv, Settling

LEMMA SettlingScoring ==
    ASSUME TypeOK, Decoded, Settling, NEW f \in Files, Scoring(f)
    PROVE  SettlingInv'
<1>0. Types /\ disc \subseteq Files
  BY TypesOf DEF Types
<1>1. pc \in {"scoring", "marking"} /\ pc' \in {"scoring", "marking"} /\ f \in Unscored
      /\ UNCHANGED <<disc, content, mode, inputs>>
  BY DEF Scoring, PrepareCached, PrepareFrame, Submitted, ConsumeCached, ConsumeDry, ConsumeFlush,
         MarkScored, ScoreError, AtHead, Queue, history
<1>2. FinishedIsSettled' /\ pc # "idle" /\ pc' # "idle" /\ Present' = Present /\ f \in disc
  BY <1>1 DEF FinishedIsSettled, Present, Unscored
<1>3. \A g \in Files \ {f} : work'[g] = work[g] /\ proc'[g] = proc[g]
  BY <1>0 DEF Scoring, PrepareCached, PrepareFrame, ConsumeCached, ConsumeDry, ConsumeFlush,
              MarkScored, ScoreError, store, Types
<1>4. /\ proc'[f].status = "done" => proc'[f].info.score = proc'[f].score
      /\ work'[f].stage \notin {"cached", "scored"} => ~work'[f].skip
      /\ inputs # "changed" /\ ~mode.dry => Kept(f)'
  <2>0. work[f] \in Works /\ proc[f] \in Rows
    BY <1>0 DEF Types
  <2>1. CASE PrepareCached(f)
    BY <1>0, <1>1, <2>1 DEF PrepareCached, store, Kept, RowIsValid, Types, Settling
  <2>2. CASE PrepareFrame(f)
    <3>1. work[f].stage = "none" /\ proc' = proc
      BY <2>2 DEF PrepareFrame, Submitted, store
    <3>2. work'[f].stage \in {"frame", "broken"} /\ work'[f].skip = work[f].skip
      BY <1>0, <2>0, <2>2 DEF PrepareFrame, Types, Works
    <3> QED BY <3>1, <3>2 DEF Kept, Settling
  <2>3. CASE ConsumeCached(f)
    <3>1. work[f].stage = "cached" /\ proc' = proc
          /\ work'[f] = [work[f] EXCEPT !.stage = "scored"]
      BY <1>0, <2>3 DEF ConsumeCached, store, Types
    <3>2. inputs # "changed" /\ ~mode.dry => Kept(f)
      BY <1>2 DEF Settling
    <3> QED BY <1>1, <2>0, <3>1, <3>2 DEF Kept, RowIsValid, Settling, Works
  <2>4. ASSUME NEW s \in Scores, ConsumeDry(f, s)
        PROVE  /\ mode.dry /\ proc' = proc
               /\ work'[f].stage \notin {"cached", "scored"} => ~work'[f].skip
    <3>1. work'[f].stage = "scored"
      BY <1>0, <2>0, <2>4 DEF ConsumeDry, Types, Works
    <3> QED BY <2>4, <3>1 DEF ConsumeDry, store
  <2>5. ASSUME NEW s \in Scores, ConsumeFlush(f, s)
        PROVE  work[f].stage = "frame" /\ proc' = proc /\ work'[f].stage = "frame"
               /\ work'[f].skip = work[f].skip
    BY <1>0, <2>0, <2>5 DEF ConsumeFlush, store, Types, Works
  <2>6. CASE MarkScored(f)
    <3>1. work[f].stage = "frame"
      BY <2>6 DEF MarkScored, AtHead, Decoded
    <3>2. work'[f] = [work[f] EXCEPT !.stage = "scored"] /\ ~work[f].skip
      BY <1>0, <2>6, <3>1 DEF MarkScored, Types, Settling
    <3>3. proc'[f].status = "scored" /\ proc'[f].fp = content[f] /\ proc'[f].key = mode.key
          /\ proc'[f].score = work[f].score
      BY <1>0, <2>6 DEF MarkScored, Types, NoRow
    <3> QED BY <1>1, <2>0, <3>2, <3>3 DEF Kept, RowIsValid, Works
  <2>7. CASE ScoreError(f)
    <3>1. proc' = proc /\ work'[f].stage = "failed" /\ work'[f].skip = work[f].skip
          /\ work[f].stage \in {"frame", "broken"}
      BY <1>0, <2>0, <2>7 DEF ScoreError, store, Types, Works
    <3> QED BY <3>1 DEF Kept, Settling
  <2> QED BY <2>1, <2>2, <2>3, <2>4, <2>5, <2>6, <2>7 DEF Scoring, Kept, Settling
<1>5. \A g : Placed(g)'
  BY <1>1 DEF Placed, Handled, RankPcs, WritePcs
<1>6. ASSUME inputs # "changed", ~mode.dry, NEW g \in disc PROVE Kept(g)'
  <2>1. CASE g = f
    BY <1>4, <1>6, <2>1
  <2>2. CASE g # f
    <3>1. g \in Files \ {f} /\ Kept(g)
      BY <1>0, <1>2, <1>6, <2>2 DEF Settling
    <3> QED BY <1>1, <1>3, <3>1 DEF Kept, RowIsValid
  <2> QED BY <2>1, <2>2
<1>7. inputs # "changed" => disc = Present
  BY <1>2 DEF Settling
<1> QED BY <1>0, <1>1, <1>2, <1>3, <1>4, <1>5, <1>6, <1>7 DEF SettlingInv, Settling

LEMMA SettlingFinalize ==
    ASSUME ~Refine, TypeOK, TypeOK', Settling, FinalizeGroup
    PROVE  SettlingInv'
<1>0. Types /\ disc \subseteq Files
  BY TypesOf DEF Types
<1>1. /\ UNCHANGED <<content, proc, mode, disc, inputs, files, group>>
      /\ pc = "groups" /\ pc' = "writing"
  BY DEF FinalizeGroup, store, jobVars, history
<1>2. Refinable = {}
  BY DEF Refinable
<1>3. \A f \in Files : /\ work'[f].stage = work[f].stage
                       /\ work'[f].score = work[f].score
                       /\ work'[f].prev = work[f].prev
                       /\ work'[f].skip => work[f].skip
  BY <1>2, Unrefined
<1>4. ASSUME NEW f \in Files PROVE InfoOf(f)' = InfoOf(f) /\ Scored(group)' = Scored(group)
  <2>1. \A b : Scored(b)' = Scored(b) /\ Members(b)' = Members(b)
    BY <1>0, <1>1, <1>3 DEF Scored, Members
  <2>2. WorkScores' = WorkScores
    BY <1>3 DEF WorkScores
  <2>3. work'[f].score = work[f].score
    BY <1>3
  <2>4. RankIn(Scored(Burst[f]), WorkScores, f)' = RankIn(Scored(Burst[f]), WorkScores, f)
    BY <2>1, <2>2 DEF RankIn, Before
  <2>5. Scored(group)' = Scored(group)
    BY <1>1, <2>1
  <2> QED BY <2>1, <2>3, <2>4, <2>5 DEF InfoOf
<1>5. ASSUME inputs # "changed", ~mode.dry, NEW f \in disc PROVE Placed(f)'
  <2>1. f \in Files /\ Placed(f)
    BY <1>0, <1>1, <1>5 DEF Settling
  <2>2. Handled(f)' <=> Handled(f)
    BY FinalizeHandles
  <2>3. f \in Scored(group) /\ work'[f].skip => SamePlace(work[f].prev, InfoOf(f))
    BY <1>2, <2>1, Unrefined
  <2>4. SamePlace(work'[f].prev, InfoOf(f)') <=> SamePlace(work[f].prev, InfoOf(f))
    BY <1>3, <1>4, <2>1
  <2>5. pc' \in WritePcs /\ f \in Scored(group)' /\ work'[f].skip
            => SamePlace(work'[f].prev, InfoOf(f)')
    BY <1>4, <2>1, <2>3, <2>4
  <2>6. Handled(f)' /\ files'[f].status # "error"
            => proc'[f].status = "done" /\ proc'[f].info = InfoOf(f)'
    BY <1>1, <1>4, <2>1, <2>2 DEF Placed
  <2> QED BY <1>1, <2>5, <2>6 DEF Placed, SamePlace
<1> QED BY <1>1, <1>3, <1>5, SettlingRests

LEMMA SettlingWriting ==
    ASSUME TypeOK, TypeOK', Settling, NEW f \in Files, Writing(f)
    PROVE  SettlingInv'
<1>0. Types /\ Types' /\ disc \subseteq Files
  BY TypesOf DEF Types
<1>1. /\ f \in disc /\ work[f].stage = "scored" /\ ~Handled(f)
      /\ UNCHANGED <<disc, work, group, outcome>>
      /\ pc \in WritePcs /\ pc' \in WritePcs
      /\ \A g \in Files : InfoOf(g)' = InfoOf(g)
      /\ \A g \in disc \ {f} : Handled(g)' <=> Handled(g)
  BY WritingHandles
<1>2. UNCHANGED <<content, mode, inputs>> /\ Current(f)
  BY DEF Writing, WriteSkipped, WriteSimulated, WriteFlush, PublishSidecar, RecordProjection,
         MarkDone, WriteError, history
<1>3. /\ FinishedIsSettled' /\ pc # "idle" /\ pc' # "idle" /\ Present' = Present
      /\ Scored(group)' = Scored(group)
  BY <1>1, <1>2 DEF FinishedIsSettled, WritePcs, Present, Scored, Members
<1>4. \A g \in Files \ {f} : proc'[g] = proc[g] /\ files'[g] = files[g]
  BY <1>0 DEF Writing, WriteSkipped, WriteSimulated, WriteFlush, PublishSidecar, RecordProjection,
              MarkDone, WriteError, Written, Record, Flush, store, jobVars, Types
<1>5. ASSUME inputs # "changed", ~mode.dry
      PROVE  \A g \in disc : Kept(g) /\ Placed(g)
  BY <1>3, <1>5 DEF Settling
<1>6. ASSUME inputs # "changed", ~mode.dry, NEW g \in disc \ {f} PROVE Kept(g)' /\ Placed(g)'
  <2>1. g \in Files \ {f} /\ Kept(g) /\ Placed(g)
    BY <1>0, <1>5, <1>6
  <2>2. Kept(g)'
    BY <1>1, <1>2, <1>4, <2>1 DEF Kept, RowIsValid
  <2>3. pc' \in WritePcs \ {"writing"} => ~Current(g)'
    <3> SUFFICES ASSUME pc' \in WritePcs \ {"writing"} PROVE ~Current(g)'
      OBVIOUS
    <3>1. UNCHANGED rank
      BY DEF Writing, WriteSkipped, WriteSimulated, WriteFlush, PublishSidecar, RecordProjection,
             MarkDone, WriteError, Written
    <3>2. Current(g)' <=> Current(g)
      BY <1>1, <2>1, <3>1, SameGroup
    <3> QED BY <1>2, <2>1, <3>2, OneCurrent
  <2>4. pc' \in WritePcs /\ g \in Scored(group)' /\ work'[g].skip
            => SamePlace(work'[g].prev, InfoOf(g)')
    BY <1>1, <1>3, <2>1 DEF Placed
  <2>5. Handled(g)' /\ files'[g].status # "error"
            => proc'[g].status = "done" /\ proc'[g].info = InfoOf(g)'
    BY <1>1, <1>4, <2>1 DEF Placed
  <2> QED BY <2>2, <2>3, <2>4, <2>5 DEF Placed, SamePlace
<1>7. /\ proc'[f].status = "done" => proc'[f].info.score = proc'[f].score
      /\ inputs # "changed" /\ ~mode.dry => Kept(f)' /\ Placed(f)'
  <2>0. InfoOf(f)' = InfoOf(f) /\ InfoOf(f).score = work[f].score /\ f \in Scored(group)
    BY <1>1, <1>2 DEF InfoOf, Current
  <2>1. CASE MarkDone(f)
    <3>1. /\ proc'[f].status = "done" /\ proc'[f].info = InfoOf(f) /\ proc'[f].fp = content[f]
          /\ proc'[f].key = mode.key /\ proc'[f].score = work[f].score
      BY <1>0, <2>1 DEF MarkDone, Types
    <3>2. inputs # "changed" /\ ~mode.dry => ~work[f].skip
      BY <1>1, <1>2, <1>5, <2>1 DEF Placed, MarkDone, WritePcs
    <3> QED BY <1>1, <1>2, <2>0, <3>1, <3>2 DEF Kept, Placed, RowIsValid
  <2>2. ASSUME ~MarkDone(f), inputs # "changed", ~mode.dry PROVE Kept(f)' /\ Placed(f)'
    <3>1. proc' = proc /\ Kept(f) /\ Placed(f)
      BY <1>1, <1>5, <2>2 DEF Writing, WriteSkipped, WriteSimulated, WriteFlush, PublishSidecar,
                              RecordProjection, WriteError, store
    <3>2. Kept(f)'
      BY <1>1, <1>2, <3>1 DEF Kept, RowIsValid
    <3>3. pc' \in WritePcs \ {"writing"} => ~work'[f].skip
      BY <1>1, <1>2, <2>2, <3>1
         DEF Placed, Writing, WriteSkipped, WriteSimulated, WriteFlush, PublishSidecar,
             RecordProjection, WriteError, Written, WritePcs
    <3>4. work'[f].skip => SamePlace(work'[f].prev, InfoOf(f)')
      BY <1>1, <2>0, <3>1 DEF Placed
    <3>5. ASSUME Handled(f)', files'[f].status # "error"
          PROVE  proc'[f].status = "done" /\ proc'[f].info = InfoOf(f)'
      <4>1. rank' = rank + 1 /\ rank \in Int
        BY <1>0, <3>5, WritingHandles DEF Types
      <4>2. WriteSkipped(f) \/ WriteError(f)
        BY <2>2, <4>1 DEF Writing, WriteSimulated, WriteFlush, PublishSidecar, RecordProjection
      <4>3. ~WriteError(f)
        <5> SUFFICES ASSUME WriteError(f) PROVE files'[f].status = "error"
          BY <3>5
        <5> QED BY <1>0 DEF WriteError, Written, Record, Types
      <4>4. work[f].skip
        BY <4>2, <4>3 DEF WriteSkipped
      <4>5. proc[f].status = "done" /\ work[f].prev = proc[f].info
            /\ proc[f].score = work[f].score /\ SamePlace(work[f].prev, InfoOf(f))
        BY <1>1, <2>0, <3>1, <4>4 DEF Kept, Placed
      <4>6. proc[f].info.score = proc[f].score
        BY <1>0, <1>1, <4>5 DEF Settling
      <4>7. proc[f].info \in Infos /\ InfoOf(f) \in Infos
        BY <1>0, <1>1, <1>2, CurrentFacts DEF Types, Rows
      <4>8. proc[f].info = InfoOf(f)
        BY <2>0, <4>5, <4>6, <4>7 DEF SamePlace, Infos
      <4> QED BY <2>0, <3>1, <4>5, <4>8
    <3> QED BY <3>2, <3>3, <3>4, <3>5 DEF Placed, SamePlace
  <2>3. ASSUME ~MarkDone(f) PROVE proc' = proc
    BY <2>3 DEF Writing, WriteSkipped, WriteSimulated, WriteFlush, PublishSidecar,
                RecordProjection, WriteError, store
  <2> QED BY <1>0, <1>1, <2>1, <2>2, <2>3 DEF Settling
<1>8. ASSUME inputs # "changed", ~mode.dry, NEW g \in disc PROVE Kept(g)' /\ Placed(g)'
  BY <1>6, <1>7, <1>8
<1>9. inputs # "changed" => disc = Present
  BY <1>3 DEF Settling
<1> QED BY <1>0, <1>1, <1>2, <1>3, <1>4, <1>7, <1>8, <1>9 DEF SettlingInv, Settling

\* A run that finishes without failures has handled every photo.
LEMMA SettlingFinish ==
    ASSUME TypeOK, TypeOK', AccountInv, Settling, FinishRun
    PROVE  FinishedIsSettled'
<1>0. Types
  BY TypesOf
<1>1. /\ UNCHANGED <<content, proc, mode, inputs>> /\ pc = "groups" /\ group > N
      /\ outcome' = IF errors THEN "finished_with_errors" ELSE "finished"
  BY DEF FinishRun, store, history
<1> SUFFICES ASSUME ~errors, ~mode.dry, inputs # "changed" PROVE Settled(mode.key)
  <2>1. Settled(mode.key) => Settled(mode.key)'
    BY <1>1, SettledRests
  <2> QED BY <1>1, <2>1 DEF FinishedIsSettled
<1>2. disc = Present /\ \A f \in disc : Kept(f) /\ Placed(f)
  BY <1>1 DEF Settling
<1>3. \A f \in disc : work[f].stage = "scored" /\ files[f].status # "error"
  BY <1>1 DEF AccountInv, Account, Unscored, RankPcs
<1>4. ASSUME NEW f \in Present
      PROVE  LET S == {g \in Present : Burst[g] = Burst[f]} IN
             /\ proc[f].status = "done" /\ RowIsValid(f, mode.key)
             /\ proc[f].info = [members |-> S, rank |-> RankIn(S, RowScores, f),
                                size |-> Cardinality(S), score |-> proc[f].score]
  <2> DEFINE S == {g \in Present : Burst[g] = Burst[f]}
  <2>1. f \in Files /\ Burst[f] < group
    BY <1>0, <1>1, Bursts DEF Present, Types
  <2>2. Handled(f)
    BY <1>1, <1>2, <1>3, <2>1 DEF Handled, RankPcs
  <2>3. proc[f].status = "done" /\ proc[f].info = InfoOf(f) /\ RowIsValid(f, mode.key)
    BY <1>2, <1>3, <2>2 DEF Placed, Kept
  <2>4. Members(Burst[f]) = S /\ Scored(Burst[f]) = S
    BY <1>2, <1>3 DEF Members, Scored
  <2>5. \A g \in S : WorkScores[g] = RowScores[g]
    BY <1>2, <1>3 DEF WorkScores, RowScores, Kept, Present
  <2>6. f \in S /\ work[f].score = proc[f].score
    BY <1>2, <1>3 DEF Kept
  <2> HIDE DEF S
  <2>7. RankIn(S, WorkScores, f) = RankIn(S, RowScores, f)
    BY <2>5, <2>6, RanksAgree
  <2>8. proc[f].info = [members |-> S, rank |-> RankIn(S, RowScores, f),
                        size |-> Cardinality(S), score |-> proc[f].score]
    BY <2>3, <2>4, <2>6, <2>7 DEF InfoOf
  <2> QED BY <2>3, <2>8 DEF S
<1> QED BY <1>4 DEF Settled

LEMMA SettlingStep ==
    ASSUME ~Refine, TypeOK, TypeOK', Decoded, Stored, AccountInv, SettlingInv, [Next]_vars
    PROVE  SettlingInv'
<1>0. Types /\ Settling /\ disc \subseteq Files
  BY TypesOf DEF Types, SettlingInv
<1>1. ASSUME NEW m \in Modes, StartRun(m) PROVE SettlingInv'
  <2>1. disc' = Present /\ pc' = "grouping" /\ UNCHANGED <<content, proc, work>>
    BY <1>1 DEF StartRun, store
  <2>2. \A f \in Files : work'[f].stage = "none"
    BY <1>1, <2>1 DEF StartRun, Stored
  <2>3. FinishedIsSettled' /\ Present' = Present /\ Present \subseteq Files
    BY <2>1 DEF FinishedIsSettled, Present
  <2>4. \A f \in Files : Kept(f)' /\ Placed(f)'
    BY <2>1, <2>2 DEF Kept, Placed, Handled, WritePcs, RankPcs
  <2> QED BY <1>0, <2>1, <2>2, <2>3, <2>4 DEF SettlingInv, Settling
<1>2. ASSUME UNCHANGED <<content, proc, mode, disc, inputs, work>>, pc # "idle" /\ pc' # "idle",
             pc' \notin WritePcs, UNCHANGED files \/ pc' # "groups",
             \A f \in disc : Handled(f)' => Handled(f),
             \A f \in Files : InfoOf(f)' = InfoOf(f)
      PROVE  SettlingInv'
  <2>1. ASSUME inputs # "changed", ~mode.dry, NEW f \in disc PROVE Placed(f)'
    <3>1. Placed(f) /\ f \in Files
      BY <1>0, <1>2, <2>1 DEF Settling
    <3>2. Handled(f)' => pc' = "groups"
      BY <1>2 DEF Handled, RankPcs
    <3> QED BY <1>2, <2>1, <3>1, <3>2 DEF Placed
  <2> QED BY <1>0, <1>2, <2>1, SettlingRests
<1>3. CASE Group \/ Submit \/ ScoringDone
  <2>1. /\ UNCHANGED <<content, proc, mode, disc, inputs, work>> /\ pc # "idle" /\ pc' # "idle"
        /\ pc' \notin WritePcs
        /\ \/ pc' = "scoring"
           \/ pc' = "groups" /\ group' = 1 /\ UNCHANGED files
    BY <1>3 DEF Group, Submit, ScoringDone, store, history, runVars, jobVars, WritePcs
  <2>2. ASSUME NEW f \in disc PROVE ~Handled(f)'
    <3>1. Burst[f] \in 1..N /\ N \in Nat
      BY <1>0, Bursts
    <3> QED BY <2>1, <3>1 DEF Handled, RankPcs, WritePcs
  <2>3. \A f \in Files : InfoOf(f)' = InfoOf(f)
    BY <2>1 DEF InfoOf, Members, Scored, WorkScores, RankIn, Before
  <2> QED BY <1>2, <2>1, <2>2, <2>3
<1>4. CASE GroupDone
  <2>1. /\ UNCHANGED <<content, proc, mode, disc, inputs, work, files>>
        /\ pc # "idle" /\ pc' # "idle" /\ pc' \notin WritePcs
    BY <1>4 DEF GroupDone, store, history, jobVars, WritePcs
  <2>2. \A f \in Files : InfoOf(f)' = InfoOf(f)
    BY <2>1 DEF InfoOf, Members, Scored, WorkScores, RankIn, Before
  <2> QED BY <1>2, <1>4, <2>1, <2>2, GroupDoneHandles
<1>5. CASE FinishRun \/ Interrupt
  <2>1. pc' = "idle" /\ work' = [f \in Files |-> NoWork] /\ UNCHANGED proc
    BY <1>5 DEF FinishRun, Interrupt, Forget, store
  <2>2. Settling'
    BY <1>0, <2>1 DEF Settling, NoWork
  <2>3. FinishedIsSettled'
    <3>1. CASE FinishRun
      BY <1>0, <3>1, SettlingFinish
    <3>2. CASE Interrupt
      BY <3>2 DEF Interrupt, FinishedIsSettled
    <3> QED BY <1>5, <3>1, <3>2
  <2> QED BY <2>2, <2>3 DEF SettlingInv
<1>6. ASSUME NEW f \in Files, ChangePhoto(f) PROVE SettlingInv'
  BY <1>0, <1>6 DEF ChangePhoto, SettlingInv, Settling, FinishedIsSettled, store, runVars
<1>7. CASE BatchFull \/ UNCHANGED vars
  <2>1. UNCHANGED <<content, proc, mode, disc, inputs, work, pc, group, rank, files, outcome>>
    BY <1>7 DEF BatchFull, Flush, vars, runVars, jobVars, store, history
  <2>2. FinishedIsSettled'
    BY <2>1, SettledRests DEF SettlingInv, FinishedIsSettled
  <2>3. ASSUME NEW f \in disc PROVE (Placed(f)' <=> Placed(f)) /\ (Kept(f)' <=> Kept(f))
    <3>1. f \in Files
      BY <1>0
    <3>2. (Current(f)' <=> Current(f)) /\ InfoOf(f)' = InfoOf(f)
      BY <2>1, <3>1, SameGroup
    <3>3. (f \in Scored(group))' <=> f \in Scored(group)
      BY <2>1 DEF Scored, Members
    <3> QED BY <2>1, <3>1, <3>2, <3>3 DEF Placed, Kept, Handled, RowIsValid, SamePlace
  <2>4. Present' = Present
    BY <2>1 DEF Present
  <2> QED BY <1>0, <2>1, <2>2, <2>3, <2>4 DEF SettlingInv, Settling
<1> QED BY <1>0, <1>1, <1>3, <1>4, <1>5, <1>6, <1>7, SettlingScoring, SettlingFinalize,
           SettlingWriting
        DEF Next, Work, Start

\* Without selective refinement, a real run that reports finished over photos
\* nobody touched has left every one of them done, reusable and in the place
\* its group's scores give it, whatever was stored before and however often
\* the runs before it were interrupted.  (The run ReviewRunRefine shows that
\* refinement breaks this.)
THEOREM FinishedRunsSettle ==
    ASSUME ~Refine PROVE Spec => []FinishedIsSettled
<1> DEFINE Inv == ReviewInv /\ AccountInv /\ SettlingInv
<1>1. Init => Inv
  <2>1. Init => AccountInv /\ FinishedIsSettled
    BY DEF Init, AccountInv, Account, OutcomeAccountsForFiles, RankPcs, WritePcs, FinishedIsSettled
  <2>2. Init => Settling
    BY DEF Init, Settling, NoRow, NoWork
  <2> QED BY <2>1, <2>2, InitReviewInv DEF SettlingInv
<1>2. Inv /\ [Next]_vars => Inv'
  BY NextReviewInv, AccountStep, SettlingStep DEF ReviewInv
<1>3. Inv => FinishedIsSettled
  BY DEF SettlingInv
<1> QED BY <1>1, <1>2, <1>3, PTL DEF Spec
=============================================================================
