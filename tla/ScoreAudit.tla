----------------------------- MODULE ScoreAudit -----------------------------
(***************************************************************************)
(* The review of persisted scores.  A reader opens the runtime database    *)
(* read-only, while a run may be writing to it, and publishes review.json  *)
(* into a private directory: the pinned review of one or two named jobs    *)
(* reads everything in one transaction and never replaces a report; the    *)
(* review of the latest finished job reads statement by statement and      *)
(* replaces the report that is there.                                      *)
(*                                                                         *)
(* Sources: commands/score_review.py, commands/persisted_score_audit.py.   *)
(***************************************************************************)
EXTENDS Integers, Sequences, FiniteSets
LOCAL INSTANCE SequencesExt
LOCAL INSTANCE FiniteSetsExt

CONSTANTS
    Readers,        \* processes that review
    JobIds,         \* jobs of the runtime database, in order of their end
    Recorded,       \* rows a run may record
    Stored,         \* what an old database holds of the first job
    JobRoots,       \* photo roots of the jobs, as paths
    Outputs,        \* directories a review may be asked to write to
    Database,       \* where the runtime database lies
    Requested,      \* the photo root a review is asked with
    Sampled,        \* samples a review may be asked for
    MostQuantiles,  \* 10: samples taken at quantiles
    MostRows        \* bound: rows of a job

StoredRows == UNION {{rows[i]: i \in DOMAIN rows}: rows \in Stored}
ASSUME AuditAssumption ==
    /\ 0 \notin Readers /\ MostRows \in Nat
    /\ Stored \subseteq Seq(StoredRows) /\ \A rows \in Stored: Len(rows) <= MostRows

VARIABLES
    jobs,       \* the runtime database
    reader,     \* what each reader is doing
    reports     \* the review.json of each directory

auditVars == <<jobs, reader, reports>>

TerminalJobs == {"finished", "finished_with_errors"}
Nobody == [by |-> 0]

-----------------------------------------------------------------------------
(* One row of a job.  Its score is a number, absent, or not a finite       *)
(* number; its payload says how many artifacts there are, whether the one  *)
(* can be read, and what is in it.                                         *)

Readable(row) == row.artifacts <= 1 /\ row.text \in {"valid", "invalid_numbers"}
PayloadStatus(row) == IF row.artifacts > 1 THEN "duplicate_artifacts" ELSE row.text

(* A fact counts only in the version the decisions are stored in, with a   *)
(* decision and reasons of the right kind and, for a selection, a role.    *)
VersionedFact(meta, key) ==
    LET fact == meta.facts[key]
    IN CASE ~fact.there -> "missing"
         [] fact.there /\ ~fact.object -> "malformed"
         [] fact.there /\ fact.object /\ fact.version = 0 -> "missing_version"
         [] fact.there /\ fact.object /\ fact.version < 0 -> "malformed"
         [] fact.there /\ fact.object /\ fact.version > 1 -> "unsupported_version"
         [] OTHER -> IF fact.decided /\ (key = "selection" => fact.role)
                     THEN "valid" ELSE "malformed"

(* The quality numbers are under the name they are stored by, or else an   *)
(* older one; two that differ are ambiguous.                               *)
QualityStatus(meta) ==
    LET named == {n \in {"quality", "_quality"}: meta.quality[n] # "absent"}
        from == IF "quality" \in named THEN "quality" ELSE "_quality"
    IN IF named = {} THEN "missing"
       ELSE IF \E n, o \in named: meta.quality[n] # meta.quality[o]
       THEN "ambiguous_aliases" ELSE meta.quality[from]

RowFact(row) ==
    LET known == Readable(row) /\ row.meta.is # "malformed"
        facts == IF row.meta.is = "object" THEN row.meta
                 ELSE [facts |-> [k \in {"quality_assessment", "selection"} |-> [there |-> FALSE]],
                       quality |-> [n \in {"quality", "_quality"} |-> "absent"]]
    IN [path |-> row.path, group |-> row.group, rank |-> row.rank, status |-> row.status,
        scene |-> row.scene, score |-> row.score, payload |-> PayloadStatus(row),
        assessment |-> IF known THEN VersionedFact(facts, "quality_assessment")
                       ELSE "unresolved",
        selection |-> IF known THEN VersionedFact(facts, "selection") ELSE "unresolved",
        quality |-> IF known THEN QualityStatus(facts) ELSE "unresolved"]

RowFacts(rows) == [i \in DOMAIN rows |-> RowFact(rows[i])]

-----------------------------------------------------------------------------
(* The distribution of a cohort.                                           *)

FiniteRows(rows) == SelectSeq(rows, LAMBDA r: r.score.is = "finite")
OrderedScores(rows) ==
    LET finite == FiniteRows(rows)
    IN SortSeq([i \in DOMAIN finite |-> finite[i].score.value], <)

(* Linear interpolation between the neighbours, in twentieths.             *)
PercentilePoints == <<0, 1, 5, 10, 15, 19, 20>>
Percentile(ordered, point) ==
    LET at == point * (Len(ordered) - 1)
        lower == ordered[1 + (at \div 20)]
        upper == ordered[1 + ((at + 19) \div 20)]
    IN lower * (20 - (at % 20)) + upper * (at % 20)
Percentiles(ordered) ==
    IF ordered = <<>> THEN <<>>
    ELSE [i \in DOMAIN PercentilePoints |-> Percentile(ordered, PercentilePoints[i])]

(* A row without a group is a group of its own.                            *)
Members(rows, i) ==
    {j \in DOMAIN rows: j = i \/ (rows[i].group # 0 /\ rows[j].group = rows[i].group)}
GroupFact(rows, members) ==
    LET ranks == {rows[i].rank: i \in members} \cap (1..MostRows)
        holders(k) == {i \in members: rows[i].rank = k}
    IN [count |-> Cardinality(members),
        scored |-> Cardinality({i \in members: rows[i].score.is = "finite"}),
        missing |-> Cardinality(holders(0)),
        invalid |-> Cardinality({i \in members: rows[i].rank < 0}),
        above |-> Cardinality({i \in members: rows[i].rank > Cardinality(members)}),
        duplicated |-> {k \in ranks: Cardinality(holders(k)) > 1}]
Cohort(rows) ==
    [rows |-> rows, percentiles |-> Percentiles(OrderedScores(rows)),
     groups |-> {[of |-> Members(rows, i), fact |-> GroupFact(rows, Members(rows, i))]:
                   i \in DOMAIN rows},
     states |-> [s \in {"finite", "missing", "nonfinite", "invalid_type"} |->
                   Cardinality({i \in DOMAIN rows: rows[i].score.is = s})]]

(* Two cohorts are compared by exact stored path.                          *)
RowsAt(rows, path) == {i \in DOMAIN rows: rows[i].path = path}
PathsOf(rows) == {rows[i].path: i \in DOMAIN rows}
TheRow(rows, path) == rows[CHOOSE i \in RowsAt(rows, path): TRUE]
Single(a, b, path) ==
    Cardinality(RowsAt(a, path)) = 1 /\ Cardinality(RowsAt(b, path)) = 1
Compared(a, b) ==
    LET shared == PathsOf(a) \cap PathsOf(b)
        single == {p \in shared: Single(a, b, p)}
        finite == {p \in single: /\ TheRow(a, p).score.is = "finite"
                                 /\ TheRow(b, p).score.is = "finite"}
    IN [onlyA |-> PathsOf(a) \ PathsOf(b), onlyB |-> PathsOf(b) \ PathsOf(a),
        ambiguous |-> shared \ single, other |-> single \ finite,
        delta |-> [p \in finite |-> TheRow(b, p).score.value - TheRow(a, p).score.value]]

-----------------------------------------------------------------------------
(* The sample: the quantiles of the score, then the ends of every scene,   *)
(* the most frequent first, then the ends of the groups that differ most,  *)
(* then whatever comes first; nothing twice and no more than asked for.    *)

SampleOrder(rows) ==
    SortSeq(FiniteRows(rows),
            LAMBDA r, s: \/ r.score.value < s.score.value
                         \/ r.score.value = s.score.value /\ r.path < s.path)
(* round: to the nearest, a half to the even one.                          *)
HalfEven(a, b) ==
    LET down == a \div b
        twice == 2 * (a % b)
    IN IF twice > b \/ (twice = b /\ down % 2 = 1) THEN down + 1 ELSE down
QuantileRows(ordered, limit) ==
    LET n == Len(ordered)
        q == Min({limit, MostQuantiles, n})
    IN [i \in 1..q |-> ordered[1 + HalfEven((i - 1) * (n - 1), Max({1, q - 1}))]]
Ends(part) == <<part[1], part[Len(part)]>>
Spread(part) == part[Len(part)].score.value - part[1].score.value
SceneRows(ordered) ==
    LET of(s) == SelectSeq(ordered, LAMBDA r: r.scene = s)
        scenes == SetToSortSeq({ordered[i].scene: i \in DOMAIN ordered},
                     LAMBDA s, t: \/ Len(of(s)) > Len(of(t))
                                  \/ Len(of(s)) = Len(of(t)) /\ s < t)
    IN FlattenSeq([i \in DOMAIN scenes |-> Ends(of(scenes[i]))])
GroupRows(ordered) ==
    LET of(g) == SelectSeq(ordered, LAMBDA r: r.group = g)
        several == {g \in {ordered[i].group: i \in DOMAIN ordered} \ {0}: Len(of(g)) > 1}
        widest == SetToSortSeq(several,
                     LAMBDA g, h: \/ Spread(of(g)) > Spread(of(h))
                                  \/ Spread(of(g)) = Spread(of(h)) /\ g > h)
    IN FlattenSeq([i \in DOMAIN widest |-> Ends(of(widest[i]))])
Samplings(rows, limit) ==
    LET ordered == SampleOrder(rows)
        wanted == QuantileRows(ordered, limit) \o SceneRows(ordered)
                    \o GroupRows(ordered) \o ordered
        once == FoldLeft(LAMBDA picked, r: IF Contains(picked, r) THEN picked
                                            ELSE Append(picked, r), <<>>, wanted)
    IN SubSeq(once, 1, Min({limit, Len(once)}))

-----------------------------------------------------------------------------
(* The readers.                                                            *)

Related(p, q) == IsPrefix(p, q) \/ IsPrefix(q, p)
Isolated(output, roots) ==
    /\ \A root \in roots: ~Related(output, root)
    /\ ~IsPrefix(output, Database)

ReaderIdle == [at |-> "idle"]
Reads(r, state) == reader' = [reader EXCEPT ![r] = state]

AuditInit ==
    /\ \E first \in Stored, roots \in [JobIds -> JobRoots]:
         jobs = [j \in JobIds |->
                   [status |-> IF j = 1 THEN "finished" ELSE "absent", root |-> roots[j],
                    rows |-> IF j = 1 THEN first ELSE <<>>]]
    /\ reader = [r \in Readers |-> ReaderIdle]
    /\ reports = [o \in Outputs |-> Nobody]

(* What a run does to the database, with its rows in one transaction each. *)
RunWrites(j) ==
    /\ \/ /\ jobs[j].status = "absent"
          /\ \A i \in JobIds: i < j => jobs[i].status \notin {"absent", "running"}
          /\ jobs' = [jobs EXCEPT ![j].status = "running"]
       \/ /\ jobs[j].status = "running"
          /\ \/ \E s \in TerminalJobs \union {"failed"}: jobs' = [jobs EXCEPT ![j].status = s]
             \/ /\ Len(jobs[j].rows) < MostRows
                /\ \E row \in Recorded:
                     /\ row.path \notin PathsOf(jobs[j].rows)
                     /\ jobs' = [jobs EXCEPT ![j].rows = Append(@, row)]
    /\ UNCHANGED <<reader, reports>>

(* Fault: the review of a job that still runs is accepted.                 *)
Reviewable_AnyStatus(job) == job.status # "absent"
Reviewable(job) == job.status \in TerminalJobs

PinnedReport(r, a, b, limit) ==
    LET rows(j) == RowFacts(jobs[j].rows)
    IN [by |-> r, kind |-> "pinned", limit |-> limit,
        of |-> IF a = b THEN <<a>> ELSE <<a, b>>,
        cohorts |-> IF a = b THEN <<Cohort(rows(a))>> ELSE <<Cohort(rows(a)), Cohort(rows(b))>>,
        compared |-> IF a = b THEN <<>> ELSE <<Compared(rows(a), rows(b))>>,
        sample |-> IF a = b THEN Samplings(rows(a), limit) ELSE <<>>]

(* The pinned review: one transaction over the jobs, their rows and their  *)
(* payloads.  An unknown, unfinished or repeated job, a report that is     *)
(* already there and an output that is not apart from the photos and the   *)
(* database are refused before anything is written.                        *)
AskPinned(r) ==
    /\ reader[r] = ReaderIdle
    /\ \E o \in Outputs, a \in JobIds, b \in JobIds, n \in Sampled:
         /\ reports[o] = Nobody
         /\ Reviewable(jobs[a]) /\ Reviewable(jobs[b])
         /\ Isolated(o, {Requested, jobs[a].root, jobs[b].root})
         /\ Reads(r, [at |-> "publish", output |-> o, report |-> PinnedReport(r, a, b, n)])
    /\ UNCHANGED <<jobs, reports>>

(* Hard-linking the temporary file fails when a report has appeared.       *)
PublishPinned(r) ==
    /\ reader[r].at = "publish"
    /\ LET o == reader[r].output
       IN IF reports[o] = Nobody
          THEN /\ reports' = [reports EXCEPT ![o] = reader[r].report]
               /\ Reads(r, [at |-> "published", kind |-> "pinned", output |-> o])
          ELSE UNCHANGED reports /\ Reads(r, [at |-> "failed"])
    /\ UNCHANGED jobs

(* The latest review: the newest job that finished without errors; its     *)
(* rows and its payloads are read by later statements.  A score that is    *)
(* not a finite number, or no score at all, ends it.                       *)
AskLatest(r) ==
    /\ reader[r] = ReaderIdle
    /\ \E o \in Outputs, n \in Sampled, j \in JobIds:
         /\ ~Related(o, Requested)
         /\ jobs[j].status = "finished"
         /\ \A i \in JobIds: i > j => jobs[i].status # "finished"
         /\ Reads(r, [at |-> "rows", output |-> o, limit |-> n, of |-> j])
    /\ UNCHANGED <<jobs, reports>>

ScoredRows(rows) == SelectSeq(rows, LAMBDA row: row.score.is # "missing")
LatestRows(r) ==
    /\ reader[r].at = "rows"
    /\ LET rows == ScoredRows(jobs[reader[r].of].rows)
       IN IF rows # <<>> /\ FiniteRows(rows) = rows
          THEN Reads(r, [at |-> "payloads", output |-> reader[r].output, limit |-> reader[r].limit,
                         of |-> reader[r].of, rows |-> rows])
          ELSE Reads(r, [at |-> "failed"])
    /\ UNCHANGED <<jobs, reports>>

(* The report replaces the one that is there.                              *)
LatestReport(r) ==
    /\ reader[r].at = "payloads"
    /\ LET state == reader[r]
           stored == ScoredRows(jobs[state.of].rows)
           facts == [i \in DOMAIN state.rows |-> RowFact(stored[i])]
       IN /\ reports' = [reports EXCEPT ![state.output] =
               [by |-> r, kind |-> "latest", of |-> <<state.of>>, limit |-> state.limit,
                cohorts |-> <<Cohort(facts)>>, compared |-> <<>>,
                sample |-> Samplings(facts, state.limit)]]
          /\ Reads(r, [at |-> "published", kind |-> "latest", output |-> state.output])
    /\ UNCHANGED jobs

AuditNext ==
    \/ \E j \in JobIds: RunWrites(j)
    \/ \E r \in Readers:
         AskPinned(r) \/ PublishPinned(r) \/ AskLatest(r) \/ LatestRows(r) \/ LatestReport(r)

AuditSpec == AuditInit /\ [][AuditNext]_auditVars

-----------------------------------------------------------------------------
AuditTypeOK ==
    /\ \A j \in JobIds:
         /\ jobs[j].status \in TerminalJobs \union {"absent", "running", "failed"}
         /\ jobs[j].root \in JobRoots /\ Len(jobs[j].rows) <= MostRows
    /\ \A r \in Readers: reader[r].at \in {"idle", "publish", "rows", "payloads",
                                                  "published", "failed"}
    /\ \A o \in Outputs: reports[o].by \in Readers \union {0}
(* A report is final: its jobs were over when they were read, so that it   *)
(* still says what the database says, whatever runs have done since, and   *)
(* it lies apart from their photos (read in one transaction,               *)
(* persisted_score_audit.py:640-690; by statements, score_review.py:445).  *)
ReportsAreFinal ==
    \A o \in Outputs: reports[o] # Nobody =>
      LET report == reports[o]
          stored(j) == IF report.kind = "pinned" THEN jobs[j].rows ELSE ScoredRows(jobs[j].rows)
      IN /\ \A k \in DOMAIN report.cohorts:
              report.cohorts[k].rows = RowFacts(stored(report.of[k]))
         /\ report.kind = "pinned" => \A k \in DOMAIN report.of:
              ~Related(o, jobs[report.of[k]].root)
         /\ ~Related(o, Requested)

(* A pinned review that ended well still has its report, unless a latest   *)
(* review was asked to write to the same directory.                        *)
PinnedReportStays ==
    \A r \in Readers: reader[r].at = "published" /\ reader[r].kind = "pinned" =>
      \/ reports[reader[r].output].by = r
      \/ reports[reader[r].output].kind = "latest"

(* Every row is in one state, one group and, where two jobs are compared,  *)
(* every path on one side, ambiguous, incomparable or in one pair; the     *)
(* percentiles ascend from the lowest score to the highest.                *)
EveryRowCounted ==
    \A o \in Outputs: reports[o] # Nobody =>
      /\ \A k \in DOMAIN reports[o].cohorts:
           LET c == reports[o].cohorts[k]
               ordered == OrderedScores(c.rows)
           IN /\ Cardinality(UNION {{<<g.of, i>>: i \in g.of}: g \in c.groups}) = Len(c.rows)
              /\ MapThenSumSet(LAMBDA s: c.states[s], DOMAIN c.states) = Len(c.rows)
              /\ MapThenSumSet(LAMBDA g: g.fact.scored, c.groups) = Len(ordered)
              /\ ordered # <<>> =>
                   /\ c.percentiles[1] = 20 * Min(ToSet(ordered))
                   /\ c.percentiles[7] = 20 * Max(ToSet(ordered))
                   /\ \A i \in 1..6: c.percentiles[i] <= c.percentiles[i + 1]
      /\ reports[o].compared # <<>> =>
           LET c == reports[o].compared[1]
               parts == <<c.onlyA, c.onlyB, c.ambiguous, c.other, DOMAIN c.delta>>
               a == reports[o].cohorts[1].rows
               b == reports[o].cohorts[2].rows
           IN /\ UNION ToSet(parts) = PathsOf(a) \union PathsOf(b)
              /\ \A i, j \in DOMAIN parts: i # j => parts[i] \cap parts[j] = {}

(* The sample repeats no row, is as large as asked for or as there are     *)
(* scored rows, holds the lowest and the highest score, and every scene    *)
(* when there is room for its ends beside the quantiles.                   *)
SampleSpansTheScores ==
    \A o \in Outputs: reports[o] # Nobody /\ Len(reports[o].of) = 1 =>
      LET rows == ToSet(FiniteRows(reports[o].cohorts[1].rows))
          sample == reports[o].sample
          scenes == {row.scene: row \in rows}
      IN /\ IsInjective(sample)
         /\ Len(sample) = Min({reports[o].limit, Cardinality(rows)})
         /\ ToSet(sample) \subseteq rows
         /\ reports[o].limit > 1 /\ rows # {} =>
              {Min({row.score.value: row \in rows}), Max({row.score.value: row \in rows})}
                \subseteq {row.score.value: row \in ToSet(sample)}
         /\ reports[o].limit >= MostQuantiles + 2 * Cardinality(scenes) =>
              {row.scene: row \in ToSet(sample)} = scenes

=============================================================================
