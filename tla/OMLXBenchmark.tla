---------------------------- MODULE OMLXBenchmark ----------------------------
(***************************************************************************)
(* The oMLX benchmark: every candidate of every model is tried on a fixed  *)
(* sample, the best candidate of each model is reported, and the best seen *)
(* so far is kept in best_candidates.json, which several benchmark runs    *)
(* read, compare and rewrite without a lock and in place.                  *)
(***************************************************************************)
EXTENDS Integers, Sequences, FiniteSets, Sums
LOCAL INSTANCE FiniteSetsExt

CONSTANTS
    BenchRuns,      \* the benchmark processes
    BenchModels,    \* sequence of the model names asked for
    Trials,         \* sequence of the candidates' contract modes
    FewestSamples,  \* 5: a cache batch needs as many images
    MostSamples,    \* 10: and takes no more
    SampleSets,     \* how many images a sample set may hold
    BenchRepeats,   \* repeat counts asked for
    BenchReplies,   \* what one call of the runtime may come to
    Supports,       \* what the runtime may support: [xgrammar, structured]
    MaxStops        \* bound: benchmark processes that die

Modes == {"single_fixture", "kv_cache_batch"}
ContractModes == {"response_format_json_schema", "structured_outputs", "other"}

ASSUME BenchAssumption ==
    /\ FewestSamples \in Nat \ {0} /\ MostSamples \in Nat /\ FewestSamples <= MostSamples
    /\ BenchModels \in Seq(STRING) /\ Trials \in Seq(ContractModes)
    /\ SampleSets \subseteq Nat /\ BenchRepeats \subseteq Nat /\ MaxStops \in Nat
    /\ \A reply \in BenchReplies: reply.latency \in Nat

VARIABLES
    bench,      \* each benchmark process
    best        \* best_candidates.json: its text and the entries in it

benchVars == <<bench, best>>

-----------------------------------------------------------------------------
(* One attempt.  A call that raises leaves no text, so neither parsing nor *)
(* the schema check happens; every failure is recorded and none aborts.    *)

(* The quality of a commentary, a point for each of five qualities.        *)
PostQuality(post) ==
    LET point(holds) == IF holds THEN 1 ELSE 0
    IN point(post.length > 0 /\ ~post.placeholder /\ post.han >= 4)
       + point(post.actionable)
       + point(post.specific >= 2 \/ (post.length >= 14 /\ post.specific >= 1))
       + point(post.relevant)
       + point(/\ post.stopped
               /\ post.sentences \in 1..3
               /\ post.han >= Max({4, post.length \div 5}))

Tried(task, reply) ==
    LET json == reply.text \in {"fields", "valid"}
        schema == reply.text = "valid"
    IN [task |-> task, latency |-> reply.latency, json |-> json, schema |-> schema,
        quality |-> IF task = "post" /\ schema THEN PostQuality(reply.post) ELSE 0]

(* Half-up rounding of a ratio to whole units.                             *)
Mean(total, n) == (2 * total + n) \div (2 * n)

(* The attempts at some places: rates in ten-thousandths, latencies and    *)
(* quality in hundredths.                                                  *)
Summarised(tries, at) ==
    LET n == Cardinality(at)
        rate(good) == Mean(10000 * Cardinality(good), n)
        mean(amount) ==
            Mean(100 * Addition([i \in DOMAIN tries |-> IF i \in at THEN amount[i] ELSE 0]), n)
    IN IF n = 0
       THEN [json |-> 0, schema |-> 0, latency |-> 0, quality |-> 0]
       ELSE [json |-> rate({i \in at: tries[i].json}),
             schema |-> rate({i \in at: tries[i].schema}),
             latency |-> mean([i \in at |-> tries[i].latency]),
             quality |-> mean([i \in at |-> tries[i].quality])]

Tasks == <<"fast", "full", "post">>
OfTask(tries, task) == Summarised(tries, {i \in DOMAIN tries: tries[i].task = task})

(* The key candidates are ranked by, best first in every place.            *)
SingleKey(tries) ==
    <<OfTask(tries, "fast").schema + OfTask(tries, "full").schema + OfTask(tries, "post").schema,
      -OfTask(tries, "full").latency,
      OfTask(tries, "post").quality>>

(* The first call of a batch fills the runtime's cache, the others use it. *)
BatchKey(tries) ==
    LET all == Summarised(tries, DOMAIN tries)
        warm == IF Len(tries) > 1 THEN Summarised(tries, 2..Len(tries)).latency ELSE all.latency
    IN <<all.schema, -all.latency, -warm>>

Outranks(k, l) ==
    \E i \in DOMAIN k: k[i] > l[i] /\ \A j \in 1..(i - 1): k[j] = l[j]

(* What answers a contract mode on the runtime that was asked.             *)
ConstraintPath(contract, support) ==
    CASE contract = "response_format_json_schema" /\ support.xgrammar -> "grammar"
      [] contract = "response_format_json_schema" /\ ~support.xgrammar -> "post_parse"
      [] contract = "structured_outputs" /\ support.structured -> "grammar"
      [] contract = "structured_outputs" /\ ~support.structured -> "not_available"
      [] OTHER -> "unknown"

(* The first result of the highest rank, model by model: a later one       *)
(* replaces it only when it outranks it.                                   *)
Leads(results, i) ==
    \A j \in DOMAIN results: results[j].model = results[i].model =>
        /\ ~Outranks(results[j].key, results[i].key)
        /\ j < i => Outranks(results[i].key, results[j].key)
BestByModel(results) ==
    [m \in {results[i].model: i \in DOMAIN results} |->
        results[CHOOSE i \in DOMAIN results: results[i].model = m /\ Leads(results, i)]]

-----------------------------------------------------------------------------
(* The run.                                                                *)

NoEntries == [m \in {} |-> TRUE]
BenchIdle ==
    [pc |-> "start", mode |-> "single_fixture", repeats |-> 1, samples |-> 1,
     support |-> CHOOSE s \in Supports: TRUE, results |-> <<>>, winners |-> NoEntries, read |-> NoEntries,
     published |-> FALSE, crossed |-> FALSE]

BenchInit ==
    /\ bench = [r \in BenchRuns |-> BenchIdle]
    /\ best = [text |-> "absent", entries |-> NoEntries]

Goes(r, pc) == bench' = [bench EXCEPT ![r].pc = pc]

(* A request is refused, or its sample is missing, or the runtime is       *)
(* unreachable; the run's folder was made before the runtime was asked.    *)
BenchStart(r) ==
    /\ bench[r].pc = "start"
    /\ \E mode \in Modes, repeats \in BenchRepeats, size \in SampleSets, s \in Supports:
         LET few == mode = "kv_cache_batch" /\ size < FewestSamples
         IN \/ Goes(r, "failed")
            \/ /\ repeats >= 1 /\ ~few
               /\ bench' = [bench EXCEPT ![r] =
                    [@ EXCEPT !.pc = "trying", !.mode = mode, !.repeats = repeats,
                              !.support = s,
                              !.samples = IF mode = "single_fixture" THEN 1
                                          ELSE IF size < MostSamples THEN size ELSE MostSamples]]
    /\ UNCHANGED best

AllTrials == Len(BenchModels) * Len(Trials)
TrialModel(i) == BenchModels[1 + (i - 1) \div Len(Trials)]
TrialContract(i) == Trials[1 + ((i - 1) % Len(Trials))]
TrialTasks(b) ==
    IF b.mode = "single_fixture"
    THEN [i \in 1..(3 * b.repeats) |-> Tasks[1 + ((i - 1) % 3)]]
    ELSE [i \in 1..b.samples |-> "kv_full"]

TrialResult(b, trial, tries) ==
    [model |-> TrialModel(trial), trial |-> trial, repeats |-> b.repeats,
     key |-> IF b.mode = "single_fixture" THEN SingleKey(tries) ELSE BatchKey(tries),
     valid |-> Cardinality({i \in DOMAIN tries: tries[i].schema}),
     path |-> ConstraintPath(TrialContract(trial), b.support)]

(* Every call of every model and candidate; they touch nothing another run *)
(* sees.                                                                   *)
BenchTrials(r) ==
    LET b == bench[r]
        tasks == TrialTasks(b)
    IN /\ b.pc = "trying"
       /\ \E replies \in [1..AllTrials -> [DOMAIN tasks -> BenchReplies]]:
            bench' = [bench EXCEPT ![r] =
              [@ EXCEPT !.pc = "report",
                        !.results = [t \in 1..AllTrials |-> TrialResult(b, t,
                           [i \in DOMAIN tasks |-> Tried(tasks[i], replies[t][i])])]]]
       /\ UNCHANGED best

(* A sample that cannot be decoded ends the run.                           *)
SampleUnreadable(r) ==
    /\ bench[r].pc = "trying"
    /\ Goes(r, "failed")
    /\ UNCHANGED best

(* The summary is on disk before the best candidates are looked at.        *)
BenchReport(r) ==
    /\ bench[r].pc = "report"
    /\ bench' = [bench EXCEPT ![r].pc = "read", ![r].published = TRUE,
                              ![r].winners = BestByModel(bench[r].results)]
    /\ UNCHANGED best

Updating(r) == bench[r].pc \in {"rewrite", "writing"}

(* The update notes, for the properties, which other updates it met.       *)
ReadBest(r) ==
    /\ bench[r].pc = "read"
    /\ IF best.text = "torn"
       THEN Goes(r, "failed")
       ELSE bench' = [q \in BenchRuns |->
              IF q = r
              THEN [bench[r] EXCEPT !.pc = "rewrite", !.read = best.entries,
                                    !.crossed = \E o \in BenchRuns \ {r}: Updating(o)]
              ELSE [bench[q] EXCEPT !.crossed = @ \/ Updating(q)]]
    /\ UNCHANGED best

(* Writing in place empties the file first.                                *)
Emptied(r) ==
    /\ bench[r].pc = "rewrite"
    /\ Goes(r, "writing")
    /\ best' = [best EXCEPT !.text = "torn"]

(* Fault: the last run's candidate always replaces the entry.              *)
Merged_Replace(read, winners, mode) ==
    LET mine == {<<m, mode>>: m \in DOMAIN winners}
    IN [e \in DOMAIN read \union mine |-> IF e \in mine THEN winners[e[1]] ELSE read[e]]

(* Entries are kept by model and mode; only a result that outranks the     *)
(* entry replaces it.                                                      *)
Merged(read, winners, mode) ==
    LET mine == {<<m, mode>>: m \in DOMAIN winners}
        wins(e) == e \notin DOMAIN read \/ Outranks(winners[e[1]].key, read[e].key)
    IN [e \in DOMAIN read \union mine |->
          IF e \in mine /\ wins(e) THEN winners[e[1]] ELSE read[e]]

WriteBest(r) ==
    /\ bench[r].pc = "writing"
    /\ Goes(r, "done")
    /\ best' = [text |-> "whole",
                entries |-> Merged(bench[r].read, bench[r].winners, bench[r].mode)]

(* A run killed before its report leaves nothing another run sees.         *)
BenchDies(r) ==
    /\ Cardinality({q \in BenchRuns: bench[q].pc = "dead"}) < MaxStops
    /\ bench[r].pc \in {"read", "rewrite", "writing"}
    /\ Goes(r, "dead")
    /\ UNCHANGED best

BenchNext ==
    \E r \in BenchRuns:
         \/ BenchStart(r) \/ BenchTrials(r) \/ SampleUnreadable(r)
         \/ BenchReport(r) \/ ReadBest(r) \/ Emptied(r) \/ WriteBest(r)
         \/ BenchDies(r)

BenchSpec == BenchInit /\ [][BenchNext]_benchVars

-----------------------------------------------------------------------------
BenchTypeOK ==
    /\ \A r \in BenchRuns:
         /\ bench[r].pc \in {"start", "trying", "report", "read", "rewrite", "writing",
                             "done", "failed", "dead"}
         /\ bench[r].mode \in Modes
         /\ Len(bench[r].results) \in {0, AllTrials}
         /\ bench[r].published \in BOOLEAN /\ bench[r].crossed \in BOOLEAN
    /\ best.text \in {"absent", "torn", "whole"}
    /\ DOMAIN best.entries \subseteq {BenchModels[i]: i \in DOMAIN BenchModels} \X Modes

(* Unless two updates met, no finished run found a candidate that outranks *)
(* the best one on file (comparison at omlx_benchmark_service.py:855-868); *)
(* the best on file is always the result of a run whose summary was        *)
(* written, and the file can only be unreadable while a run writes it or   *)
(* after one died writing it.                                              *)
Crossed == \E q \in BenchRuns: bench[q].crossed
BestOnFile ==
    /\ \A r \in BenchRuns: bench[r].pc = "done" /\ best.text = "whole" /\ ~Crossed =>
         \A i \in DOMAIN bench[r].results:
           LET mine == bench[r].results[i]
               onFile == <<mine.model, bench[r].mode>>
           IN onFile \in DOMAIN best.entries /\ ~Outranks(mine.key, best.entries[onFile].key)
    /\ \A e \in DOMAIN best.entries: \E r \in BenchRuns:
         /\ bench[r].published /\ bench[r].mode = e[2]
         /\ \E i \in DOMAIN bench[r].results: bench[r].results[i] = best.entries[e]
    /\ best.text = "torn" =>
         \E r \in BenchRuns: bench[r].pc \in {"writing", "dead"} /\ bench[r].published

(* Rounded rates rank as the counts do: then no finished run had more      *)
(* valid answers out of as many than the best one on file.  Four decimals  *)
(* tell the counts of up to 3333 repetitions apart (the rounding at        *)
(* omlx_benchmark_service.py:739-742, the key at :818-824).                *)
MostValidOnFile ==
    \A r \in BenchRuns:
        bench[r].pc = "done" /\ best.text = "whole" /\ ~Crossed /\ bench[r].mode = "single_fixture" =>
            \A i \in DOMAIN bench[r].results:
                LET mine == bench[r].results[i]
                    onFile == best.entries[<<mine.model, bench[r].mode>>]
                IN mine.repeats = onFile.repeats /\ 3 * mine.repeats < 10000
                       => mine.valid <= onFile.valid
=============================================================================
