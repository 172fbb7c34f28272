------------------------------ MODULE Grouping ------------------------------
(***************************************************************************)
(* Grouping of photos by adjacent capture times and perceptual hashes, with *)
(* the two caches of the processed state.  Capture times are read by one   *)
(* exiftool call per batch and, where that fails or leaves a photo out, by *)
(* one call per photo; hashes are computed when a comparison asks for      *)
(* them.  Reads may fail for a while, and a photo may be replaced while    *)
(* the grouping runs.                                                      *)
(*                                                                         *)
(* Sources: domain/grouper.py, adapters/state/processed_sqlite.py (caches).*)
(***************************************************************************)
EXTENDS Integers, FiniteSets

CONSTANTS
    Photos,         \* numbers: the order of the input
    Times, Hashes,  \* capture times and hash values, as numbers
    Gap,            \* grouping.time_gap_seconds
    Threshold,      \* grouping.hash_threshold; zero groups by time alone
    BatchSize,      \* photos per exiftool call
    MaxMishaps,     \* bound: single reads that fail, photos replaced
    MaxGroupings    \* bound: grouping runs

ASSUME GroupingAssumption ==
    /\ Photos \subseteq Nat /\ IsFiniteSet(Photos) /\ Photos # {}
    /\ Times \subseteq Nat /\ Hashes \subseteq Nat
    /\ Gap \in Nat /\ Threshold \in Nat /\ BatchSize \in Nat \ {0}
    /\ MaxMishaps \in Nat /\ MaxGroupings \in Nat

VARIABLES
    shots,      \* shots[f]: the photo on disk: fingerprint, capture time, hash
    timeCache,  \* timeCache[f]: the cached capture time and its fingerprint
    hashCache,
    pass,       \* the grouping run
    mixed,      \* the photos replaced between a read and its storing
    failures, edits, groupings

groupingVars ==
    <<shots, timeCache, hashCache, pass, mixed, failures, edits, groupings>>

Absent == -1        \* None: no capture time, or no hash
Unknown == -2       \* not read yet
Shots == [print: 0..MaxMishaps, time: Times \union {Absent}, hash: Hashes]
CachedTimes == [print: 0..MaxMishaps, time: Times \union {Absent}] \union {[print |-> -1, time |-> Absent]}
CachedHashes == [print: 0..MaxMishaps, hash: Hashes] \union {[print |-> -1, hash |-> Absent]}

GroupingTypeOK ==
    /\ shots \in [Photos -> Shots]
    /\ timeCache \in [Photos -> CachedTimes]
    /\ hashCache \in [Photos -> CachedHashes]
    /\ pass.at \in {"idle", "read", "store", "hashes", "compare", "keep", "over"}
    /\ pass.unread \subseteq Photos /\ pass.single \subseteq Photos
    /\ pass.newTimes \subseteq Photos /\ pass.newHashes \subseteq Photos
    /\ pass.time \in [Photos -> Times \union {Unknown, Absent}]
    /\ pass.hash \in [Photos -> Hashes \union {Unknown, Absent}]
    /\ pass.left \subseteq Photos /\ pass.previous \subseteq Photos
    /\ pass.groups \subseteq SUBSET Photos
    /\ pass.clean \in BOOLEAN
    /\ mixed \subseteq Photos
    /\ failures \in 0..MaxMishaps /\ edits \in 0..MaxMishaps
    /\ groupings \in 0..MaxGroupings

Unstarted ==
    [at |-> "idle", unread |-> {}, single |-> {}, newTimes |-> {}, newHashes |-> {},
     time |-> [f \in Photos |-> Unknown], hash |-> [f \in Photos |-> Unknown],
     left |-> {}, previous |-> {}, groups |-> {}, clean |-> TRUE]

GroupingInit ==
    /\ shots \in [Photos -> {s \in Shots: s.print = 0}]
    /\ timeCache = [f \in Photos |-> [print |-> -1, time |-> Absent]]
    /\ hashCache = [f \in Photos |-> [print |-> -1, hash |-> Absent]]
    /\ pass = Unstarted
    /\ mixed = {}
    /\ failures = 0 /\ edits = 0 /\ groupings = 0

Believed(cache, f) == cache[f].print = shots[f].print
Fails == failures + edits < MaxMishaps /\ failures' = failures + 1

(* get_exif_cache: the rows whose fingerprint is the photo's.              *)
LoadTimes ==
    /\ pass.at \in {"idle", "over"} /\ groupings < MaxGroupings
    /\ groupings' = groupings + 1
    /\ LET hits == {f \in Photos: Believed(timeCache, f)} IN
       pass' = [Unstarted EXCEPT !.at = "read", !.unread = Photos \ hits,
                    !.time = [f \in Photos |-> IF f \in hits THEN timeCache[f].time ELSE Unknown]]
    /\ UNCHANGED <<shots, timeCache, hashCache, mixed, failures, edits>>

TimesOf(batch) == [f \in Photos |-> IF f \in batch THEN shots[f].time ELSE pass.time[f]]

(* One exiftool call for the next batch: it may leave photos out, or fail; *)
(* these photos are then read one by one.                                  *)
ReadBatch ==
    /\ pass.at = "read" /\ pass.single = {} /\ pass.unread # {}
    /\ \E batch \in SUBSET pass.unread: \E told \in SUBSET batch:
          /\ \A f \in batch, g \in pass.unread \ batch: f < g
          /\ batch = pass.unread \/ Cardinality(batch) = BatchSize
          /\ Cardinality(batch) \in 1..BatchSize
          /\ pass' = [pass EXCEPT !.unread = @ \ batch, !.single = batch \ told,
                                  !.newTimes = @ \union told, !.time = TimesOf(told)]
    /\ UNCHANGED <<shots, timeCache, hashCache, mixed, failures, edits, groupings>>

(* Fault: a failed read is remembered as a photo without capture time.     *)
ReadSingle_Remembers ==
    /\ pass.at = "read"
    /\ \E f \in pass.single:
          \/ /\ pass' = [pass EXCEPT !.single = @ \ {f}, !.newTimes = @ \union {f},
                                     !.time = TimesOf({f})]
             /\ UNCHANGED failures
          \/ /\ pass' = [pass EXCEPT !.single = @ \ {f}, !.newTimes = @ \union {f},
                                     !.time[f] = Absent, !.clean = FALSE]
             /\ Fails
    /\ UNCHANGED <<shots, timeCache, hashCache, mixed, edits, groupings>>

(* _read_exif_single_result: a failure counts as no capture time in this   *)
(* run and is not stored.                                                  *)
ReadSingle ==
    /\ pass.at = "read"
    /\ \E f \in pass.single:
          \/ /\ pass' = [pass EXCEPT !.single = @ \ {f}, !.newTimes = @ \union {f},
                                     !.time = TimesOf({f})]
             /\ UNCHANGED failures
          \/ /\ pass' = [pass EXCEPT !.single = @ \ {f}, !.time[f] = Absent, !.clean = FALSE]
             /\ Fails
    /\ UNCHANGED <<shots, timeCache, hashCache, mixed, edits, groupings>>

(* set_exif_cache: with the fingerprint that the photo has now.            *)
StoreTimes ==
    /\ pass.at = "read" /\ pass.unread = {} /\ pass.single = {}
    /\ timeCache' = [f \in Photos |->
                        IF f \in pass.newTimes
                        THEN [print |-> shots[f].print, time |-> pass.time[f]]
                        ELSE timeCache[f]]
    /\ pass' = [pass EXCEPT !.at = IF Threshold > 0 THEN "hashes" ELSE "compare",
                            !.newTimes = {}, !.left = Photos]
    /\ UNCHANGED <<shots, hashCache, mixed, failures, edits, groupings>>

(* get_visual_hash_cache, with hash comparisons only.                      *)
LoadHashes ==
    /\ pass.at = "hashes"
    /\ pass' = [pass EXCEPT !.at = "compare",
                    !.hash = [f \in Photos |->
                                IF Believed(hashCache, f) THEN hashCache[f].hash ELSE Unknown]]
    /\ UNCHANGED <<shots, timeCache, hashCache, mixed, failures, edits, groupings>>

(* sorted: by capture time, the absent last, and then in input order.      *)
Sorted(time, f, g) ==
    \/ time[f] # Absent /\ time[g] = Absent
    \/ time[f] # Absent /\ time[g] # Absent /\ time[f] < time[g]
    \/ time[f] = time[g] /\ f < g

(* Fault: two photos without capture time count as near.                   *)
Near_Absent(time, f, g) == time[g] - time[f] <= Gap

Near(time, f, g) == time[f] # Absent /\ time[g] # Absent /\ time[g] - time[f] <= Gap
Distance(a, b) == IF a < b THEN b - a ELSE a - b
Alike(hash, f, g) ==
    hash[f] # Absent /\ hash[g] # Absent /\ Distance(hash[f], hash[g]) <= Threshold

(* get_hash: a hash is computed where no comparison has asked for it.  A   *)
(* failure is not stored either.                                           *)
ComputeHash(f) ==
    /\ pass.hash[f] = Unknown
    /\ \/ /\ pass' = [pass EXCEPT !.hash[f] = shots[f].hash, !.newHashes = @ \union {f}]
          /\ UNCHANGED failures
       \/ /\ pass' = [pass EXCEPT !.hash[f] = Absent, !.clean = FALSE]
          /\ Fails
    /\ UNCHANGED <<shots, timeCache, hashCache, mixed, edits, groupings>>

First == CHOOSE f \in pass.left: \A g \in pass.left \ {f}: Sorted(pass.time, f, g)
Asked == IF Threshold > 0 /\ \E p \in pass.previous: Near(pass.time, p, First)
         THEN {f \in pass.previous \union {First}: pass.hash[f] = Unknown} ELSE {}

Hash ==
    /\ pass.at = "compare" /\ pass.left # {}
    /\ \E f \in Asked: f \in pass.previous \/ Asked = {First}
    /\ ComputeHash(CHOOSE f \in Asked: f \in pass.previous \/ Asked = {First})

(* The next photo in capture order joins the group of the one before it,   *)
(* or opens a group.                                                       *)
Linked(time, hash, f, g) == Near(time, f, g) /\ (Threshold > 0 => Alike(hash, f, g))
Compare ==
    /\ pass.at = "compare" /\ pass.left # {} /\ Asked = {}
    /\ LET f == First
           joins == {p \in pass.previous: Linked(pass.time, pass.hash, p, f)} IN
       pass' = [pass EXCEPT
                    !.left = @ \ {f}, !.previous = {f},
                    !.groups = IF joins = {} THEN @ \union {{f}}
                               ELSE {G \union (IF G \intersect joins = {} THEN {} ELSE {f}): G \in @}]
    /\ UNCHANGED <<shots, timeCache, hashCache, mixed, failures, edits, groupings>>

(* set_visual_hash_cache, and the run is over.                             *)
StoreHashes ==
    /\ pass.at = "compare" /\ pass.left = {}
    /\ hashCache' = [f \in Photos |->
                        IF f \in pass.newHashes
                        THEN [print |-> shots[f].print, hash |-> pass.hash[f]]
                        ELSE hashCache[f]]
    /\ pass' = [pass EXCEPT !.at = "over", !.newHashes = {}]
    /\ UNCHANGED <<shots, timeCache, mixed, failures, edits, groupings>>

(* A photo is replaced by another of the same name.                        *)
ReplacePhoto ==
    /\ failures + edits < MaxMishaps
    /\ edits' = edits + 1
    /\ \E f \in Photos, s \in Shots:
          /\ s.print = edits'
          /\ shots' = [shots EXCEPT ![f] = s]
          /\ mixed' = IF f \in pass.newTimes \union pass.newHashes
                      THEN mixed \union {f} ELSE mixed
    /\ pass' = [pass EXCEPT !.clean = FALSE]
    /\ UNCHANGED <<timeCache, hashCache, failures, groupings>>

GroupingNext ==
    \/ LoadTimes \/ ReadBatch \/ ReadSingle \/ StoreTimes \/ LoadHashes
    \/ Hash \/ Compare \/ StoreHashes
    \/ ReplacePhoto

GroupingSpec == GroupingInit /\ [][GroupingNext]_groupingVars

-----------------------------------------------------------------------------
(* A cached fact that will be believed is a fact of the photo: a read that *)
(* failed is not remembered as "no capture time", nor the fact of an       *)
(* earlier photo of that name.  The exception is the photo replaced        *)
(* between its reading and the storing, which takes the new fingerprint.   *)
CachedFactsHold ==
    \A f \in Photos \ mixed:
        /\ Believed(timeCache, f) => timeCache[f].time = shots[f].time
        /\ Believed(hashCache, f) => hashCache[f].hash = shots[f].hash

(* The groups by their definition: photos that follow each other in the    *)
(* order of capture, those without a capture time last, belong together    *)
(* when both times are known and near and both hashes are near.            *)
Earlier(f, g) ==
    LET t == shots[f].time
        u == shots[g].time IN
    \/ t # Absent /\ (u = Absent \/ t < u)
    \/ t = u /\ f < g
Between(f, g) == {h \in Photos: Earlier(f, h) /\ Earlier(h, g)}
Burst(f, g) ==
    /\ shots[f].time # Absent /\ shots[g].time # Absent
    /\ shots[g].time - shots[f].time \in -Gap..Gap
    /\ Threshold > 0 => shots[g].hash - shots[f].hash \in -Threshold..Threshold
Together(f, g) ==
    LET span == {f, g} \union Between(f, g) \union Between(g, f) IN
    \A a, b \in span: Earlier(a, b) /\ Between(a, b) = {} => Burst(a, b)
TrueGroups == {{g \in Photos: Together(f, g)}: f \in Photos}

(* A run in which nothing failed and nothing was replaced makes the groups *)
(* of the definition, whatever earlier runs have left in the caches.       *)
GroupsByDefinition ==
    pass.at = "over" /\ pass.clean /\ mixed = {} => pass.groups = TrueGroups

(* Grouping: what is read from the caches is what the photos hold now, and *)
(* the groups of an undisturbed run are those of the definition            *)
(* (Grouper.group, get_exif_cache, get_visual_hash_cache).                 *)
GroupsHold == CachedFactsHold /\ GroupsByDefinition
=============================================================================
