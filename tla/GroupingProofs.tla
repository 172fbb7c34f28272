--------------------------- MODULE GroupingProofs ---------------------------
(***************************************************************************)
(* What holds of Grouping and of Selection for every set of photos, times, *)
(* hashes, gap, threshold and batch size, and for every set of scenes,     *)
(* groupings, scores and policies: the caches are believed only where they *)
(* are right, a run in which nothing went wrong makes the groups of the    *)
(* definition, and what is kept of a group follows from its quality.  Of   *)
(* ScorePolicy for any measurements and settings: a rescore judges as a    *)
(* run under the same settings would have.                                 *)
(***************************************************************************)
EXTENDS Grouping, Decisions, FiniteSetTheorems, WellFoundedInduction, TLAPS

Passes ==
    [at: {"idle", "read", "store", "hashes", "compare", "keep", "over"},
     unread: SUBSET Photos, single: SUBSET Photos,
     newTimes: SUBSET Photos, newHashes: SUBSET Photos,
     time: [Photos -> Times \union {Unknown, Absent}],
     hash: [Photos -> Hashes \union {Unknown, Absent}],
     left: SUBSET Photos, previous: SUBSET Photos,
     groups: SUBSET SUBSET Photos, clean: BOOLEAN]

(* Every replacement makes a fingerprint that no cache row can have yet.   *)
PrintsAreOld ==
    \A f \in Photos:
        /\ shots[f].print <= edits
        /\ timeCache[f].print <= edits
        /\ hashCache[f].print <= edits

(* What waits to be stored was read from the photo, unless it is mixed.    *)
ReadsAreTrue ==
    /\ \A f \in pass.newTimes:
          /\ pass.time[f] # Unknown
          /\ f \notin mixed => pass.time[f] = shots[f].time
    /\ \A f \in pass.newHashes:
          /\ pass.hash[f] \in Hashes
          /\ f \notin mixed => pass.hash[f] = shots[f].hash

(* A photo is still to be read, or was read, and each fact is waiting for  *)
(* its store in one stage of the run only.                                 *)
StagesAreApart ==
    /\ pass.unread \intersect (pass.single \union pass.newTimes) = {}
    /\ pass.single \intersect pass.newTimes = {}
    /\ pass.at # "read" => pass.newTimes = {} /\ pass.unread = {} /\ pass.single = {}
    /\ pass.at # "compare" => pass.newHashes = {}

GroupingBase == GroupingTypeOK /\ pass \in Passes /\ PrintsAreOld /\ StagesAreApart

FactsInv == GroupingBase /\ ReadsAreTrue /\ CachedFactsHold

-----------------------------------------------------------------------------
(* The parts of the base invariant, so that a step can show them one by    *)
(* one.                                                                    *)
LEMMA BaseParts ==
    ASSUME pass' \in Passes,
           shots' \in [Photos -> Shots], timeCache' \in [Photos -> CachedTimes],
           hashCache' \in [Photos -> CachedHashes], mixed' \subseteq Photos,
           failures' \in 0..MaxMishaps, edits' \in 0..MaxMishaps,
           groupings' \in 0..MaxGroupings, PrintsAreOld', StagesAreApart'
    PROVE  GroupingBase'
  BY DEF GroupingBase, GroupingTypeOK, Passes

(* The initial states.                                                     *)
LEMMA FactsStart ==
    ASSUME GroupingInit PROVE FactsInv
<1> USE GroupingAssumption
<1>1. pass = Unstarted
  BY DEF GroupingInit
<1>2. /\ pass.at = "idle" /\ pass.unread = {} /\ pass.single = {} /\ pass.newTimes = {}
      /\ pass.newHashes = {} /\ pass.left = {} /\ pass.previous = {} /\ pass.groups = {}
      /\ pass.clean = TRUE
      /\ pass.time = [f \in Photos |-> Unknown] /\ pass.hash = [f \in Photos |-> Unknown]
  BY <1>1 DEF Unstarted
<1>3. pass \in Passes
  BY <1>1 DEF Unstarted, Passes
<1>4. shots \in [Photos -> Shots] /\ \A f \in Photos: shots[f].print = 0
  BY DEF GroupingInit
<1>5. \A f \in Photos: timeCache[f].print = -1 /\ hashCache[f].print = -1
  BY DEF GroupingInit
<1>6. timeCache \in [Photos -> CachedTimes] /\ hashCache \in [Photos -> CachedHashes]
  BY DEF GroupingInit, CachedTimes, CachedHashes
<1>7. GroupingTypeOK
  <2>1. mixed = {} /\ failures = 0 /\ edits = 0 /\ groupings = 0
    BY DEF GroupingInit
  <2>2. 0 \in 0..MaxMishaps /\ 0 \in 0..MaxGroupings
    OBVIOUS
  <2> QED  BY <1>3, <1>4, <1>6, <2>1, <2>2 DEF GroupingTypeOK, Passes
<1>8. PrintsAreOld
  BY <1>4, <1>5 DEF PrintsAreOld, GroupingInit
<1>9. StagesAreApart /\ ReadsAreTrue
  BY <1>2 DEF StagesAreApart, ReadsAreTrue
<1>10. CachedFactsHold
  BY <1>4, <1>5 DEF CachedFactsHold, Believed
<1> QED  BY <1>3, <1>7, <1>8, <1>9, <1>10 DEF FactsInv, GroupingBase

-----------------------------------------------------------------------------
(* A run in which nothing went wrong.                                      *)
Undisturbed == pass.clean /\ mixed = {}
Done == Photos \ pass.left
Comparing == pass.at \in {"compare", "over"}

(* It believes of each photo only what is so.                              *)
PassIsTrue ==
    Undisturbed =>
        /\ pass.at # "idle" =>
              \A f \in Photos \ (pass.unread \union pass.single): pass.time[f] = shots[f].time
        /\ \A f \in Photos: pass.hash[f] \in {Unknown, shots[f].hash}

(* It takes the photos in capture order ...                                *)
DoneAreFirst ==
    Undisturbed /\ Comparing =>
        /\ \A f \in Done, g \in pass.left: Earlier(f, g)
        /\ \/ Done = {} /\ pass.previous = {}
           \/ \E p \in Done: /\ pass.previous = {p}
                             /\ \A d \in Done \ {p}: Earlier(d, p)

(* ... and the photos taken so far stand in their groups.                  *)
DoneAreGrouped ==
    Undisturbed =>
        /\ pass.at \in {"idle", "read", "hashes"} => pass.previous = {} /\ pass.groups = {}
        /\ pass.at = "hashes" => pass.left = Photos
        /\ pass.at = "over" => pass.left = {}
        /\ Comparing => pass.groups = {{g \in Done: Together(f, g)}: f \in Done}

-----------------------------------------------------------------------------
(* Each step keeps the facts.  First the base of the run's record and of   *)
(* the caches; what a step leaves alone is cited from the invariant.       *)

LEMMA FactsLoadTimes ==
    ASSUME FactsInv, LoadTimes PROVE FactsInv'
<1> USE DEF FactsInv, GroupingBase
<1> DEFINE hits == {f \in Photos: Believed(timeCache, f)}
           time == [f \in Photos |-> IF f \in hits THEN timeCache[f].time ELSE Unknown]
<1>1. /\ pass'.at = "read" /\ pass'.unread = Photos \ hits /\ pass'.time = time
      /\ pass'.single = {} /\ pass'.newTimes = {} /\ pass'.newHashes = {}
      /\ pass'.hash = [f \in Photos |-> Unknown]
  BY DEF LoadTimes, Unstarted
<1>2. timeCache \in [Photos -> CachedTimes]
  BY DEF GroupingTypeOK
<1>3. \A f \in Photos: timeCache[f].time \in Times \union {Absent}
  BY <1>2 DEF CachedTimes
<1>4. time \in [Photos -> Times \union {Unknown, Absent}]
  BY <1>3
<1>5. pass' \in Passes
  BY <1>4 DEF LoadTimes, Unstarted, Passes
<1>6. UNCHANGED <<shots, timeCache, hashCache, mixed, failures, edits>>
  BY DEF LoadTimes
<1>7. groupings' \in 0..MaxGroupings
  BY GroupingAssumption DEF LoadTimes, GroupingTypeOK
<1>8. PrintsAreOld' /\ StagesAreApart' /\ ReadsAreTrue'
  BY <1>1, <1>6 DEF PrintsAreOld, StagesAreApart, ReadsAreTrue
<1>9. CachedFactsHold'
  BY <1>6 DEF CachedFactsHold, Believed
<1>10. GroupingBase'
  BY <1>5, <1>6, <1>7, <1>8, BaseParts DEF GroupingTypeOK
<1> QED  BY <1>8, <1>9, <1>10

LEMMA FactsReadBatch ==
    ASSUME FactsInv, ReadBatch PROVE FactsInv'
<1> USE DEF FactsInv, GroupingBase
<1>0. PICK batch \in SUBSET pass.unread: \E told \in SUBSET batch:
        pass' = [pass EXCEPT !.unread = @ \ batch, !.single = batch \ told,
                             !.newTimes = @ \union told, !.time = TimesOf(told)]
  BY DEF ReadBatch
<1>1. PICK told \in SUBSET batch:
        pass' = [pass EXCEPT !.unread = @ \ batch, !.single = batch \ told,
                             !.newTimes = @ \union told, !.time = TimesOf(told)]
  BY <1>0
<1>2. pass \in Passes /\ pass.single = {} /\ pass.at = "read"
  BY DEF ReadBatch
<1>3. /\ pass'.at = "read" /\ pass'.unread = pass.unread \ batch
      /\ pass'.single = batch \ told /\ pass'.newTimes = pass.newTimes \union told
      /\ pass'.time = TimesOf(told)
      /\ pass'.newHashes = pass.newHashes /\ pass'.hash = pass.hash
  BY <1>1, <1>2 DEF Passes
<1>4. told \subseteq Photos /\ batch \subseteq Photos
  BY <1>2 DEF Passes
<1>5. \A f \in Photos: shots[f].time \in Times \union {Absent}
  BY DEF GroupingTypeOK, Shots
<1>6. TimesOf(told) \in [Photos -> Times \union {Unknown, Absent}]
  BY <1>2, <1>5 DEF TimesOf, Passes
<1>7. pass' \in Passes
  BY <1>1, <1>2, <1>4, <1>6 DEF Passes
<1>8. UNCHANGED <<shots, timeCache, hashCache, mixed, failures, edits, groupings>>
  BY DEF ReadBatch
<1>9. PrintsAreOld'
  BY <1>8 DEF PrintsAreOld
<1>10. StagesAreApart'
  BY <1>2, <1>3 DEF StagesAreApart
<1>11. ReadsAreTrue'
  <2>1. ASSUME NEW f \in pass'.newTimes
        PROVE  pass'.time[f] # Unknown /\ (f \notin mixed => pass'.time[f] = shots[f].time)
    <3>1. CASE f \in told
      <4>1. f \in Photos
        BY <1>4, <3>1
      <4>2. pass'.time[f] = shots[f].time
        BY <1>3, <3>1, <4>1 DEF TimesOf
      <4>3. shots[f].time # Unknown
        BY <1>5, <4>1, GroupingAssumption DEF Unknown, Absent
      <4> QED  BY <4>2, <4>3
    <3>2. CASE f \notin told
      <4>1. f \in pass.newTimes /\ f \in Photos
        BY <1>2, <1>3, <3>2 DEF Passes
      <4>2. pass'.time[f] = pass.time[f]
        BY <1>3, <3>2, <4>1 DEF TimesOf
      <4> QED  BY <4>1, <4>2 DEF ReadsAreTrue
    <3> QED  BY <3>1, <3>2
  <2> QED  BY <1>3, <1>8, <2>1 DEF ReadsAreTrue
<1>12. CachedFactsHold'
  BY <1>8 DEF CachedFactsHold, Believed
<1>13. GroupingBase'
  BY <1>7, <1>8, <1>9, <1>10, BaseParts DEF GroupingTypeOK
<1> QED  BY <1>11, <1>12, <1>13

LEMMA FactsReadSingle ==
    ASSUME FactsInv, ReadSingle PROVE FactsInv'
<1> USE DEF FactsInv, GroupingBase
<1>1. PICK f \in pass.single:
        \/ /\ pass' = [pass EXCEPT !.single = @ \ {f}, !.newTimes = @ \union {f},
                                   !.time = TimesOf({f})]
           /\ UNCHANGED failures
        \/ /\ pass' = [pass EXCEPT !.single = @ \ {f}, !.time[f] = Absent, !.clean = FALSE]
           /\ Fails
  BY DEF ReadSingle
<1>2. pass \in Passes /\ pass.at = "read" /\ f \in Photos
  BY DEF ReadSingle, Passes
<1>3. UNCHANGED <<shots, timeCache, hashCache, mixed, edits, groupings>>
  BY DEF ReadSingle
<1>4. \A g \in Photos: shots[g].time \in Times \union {Absent}
  BY DEF GroupingTypeOK, Shots
<1>5. failures' \in 0..MaxMishaps
  BY <1>1, GroupingAssumption DEF Fails, GroupingTypeOK
<1>6. PrintsAreOld' /\ CachedFactsHold'
  BY <1>3 DEF PrintsAreOld, CachedFactsHold, Believed
<1>7. CASE /\ pass' = [pass EXCEPT !.single = @ \ {f}, !.newTimes = @ \union {f},
                                   !.time = TimesOf({f})]
  <2>1. /\ pass'.at = "read" /\ pass'.unread = pass.unread
        /\ pass'.single = pass.single \ {f} /\ pass'.newTimes = pass.newTimes \union {f}
        /\ pass'.time = TimesOf({f})
        /\ pass'.newHashes = pass.newHashes /\ pass'.hash = pass.hash
    BY <1>2, <1>7 DEF Passes
  <2>2. TimesOf({f}) \in [Photos -> Times \union {Unknown, Absent}]
    BY <1>2, <1>4 DEF TimesOf, Passes
  <2>3. pass' \in Passes
    BY <1>2, <1>7, <2>2 DEF Passes
  <2>4. StagesAreApart'
    BY <1>2, <2>1 DEF StagesAreApart
  <2>5. pass.newTimes \subseteq Photos
    BY <1>2 DEF Passes
  <2>6. ReadsAreTrue'
    BY <1>2, <1>3, <1>4, <2>1, <2>5, GroupingAssumption DEF ReadsAreTrue, TimesOf, Unknown, Absent
  <2> QED  BY <1>3, <1>5, <1>6, <2>3, <2>4, <2>6, BaseParts DEF GroupingTypeOK
<1>8. CASE /\ pass' = [pass EXCEPT !.single = @ \ {f}, !.time[f] = Absent, !.clean = FALSE]
  <2>1. /\ pass'.at = "read" /\ pass'.unread = pass.unread
        /\ pass'.single = pass.single \ {f} /\ pass'.newTimes = pass.newTimes
        /\ pass'.time = [pass.time EXCEPT ![f] = Absent]
        /\ pass'.newHashes = pass.newHashes /\ pass'.hash = pass.hash
    BY <1>2, <1>8 DEF Passes
  <2>2. pass' \in Passes
    BY <1>2, <1>8 DEF Passes
  <2>3. StagesAreApart'
    BY <1>2, <2>1 DEF StagesAreApart
  <2>4. \A g \in pass.newTimes: g # f /\ g \in Photos
    BY <1>2 DEF StagesAreApart, Passes
  <2>5. pass.time \in [Photos -> Times \union {Unknown, Absent}]
    BY <1>2 DEF Passes
  <2>6. ReadsAreTrue'
    BY <1>2, <1>3, <2>1, <2>4, <2>5 DEF ReadsAreTrue
  <2> QED  BY <1>3, <1>5, <1>6, <2>2, <2>3, <2>6, BaseParts DEF GroupingTypeOK
<1> QED  BY <1>1, <1>7, <1>8

LEMMA FactsStoreTimes ==
    ASSUME FactsInv, StoreTimes PROVE FactsInv'
<1> USE DEF FactsInv, GroupingBase
<1>1. pass \in Passes /\ pass.at = "read" /\ pass.unread = {} /\ pass.single = {}
  BY DEF StoreTimes
<1>2. /\ pass'.at \in {"hashes", "compare"} /\ pass'.unread = {} /\ pass'.single = {}
      /\ pass'.newTimes = {} /\ pass'.newHashes = pass.newHashes
      /\ pass'.time = pass.time /\ pass'.hash = pass.hash
  BY <1>1 DEF StoreTimes, Passes
<1>3. pass' \in Passes
  BY <1>1 DEF StoreTimes, Passes
<1>4. UNCHANGED <<shots, hashCache, mixed, failures, edits, groupings>>
  BY DEF StoreTimes
<1>5. timeCache' = [f \in Photos |-> IF f \in pass.newTimes
                                     THEN [print |-> shots[f].print, time |-> pass.time[f]]
                                     ELSE timeCache[f]]
  BY DEF StoreTimes
<1>6. shots \in [Photos -> Shots] /\ timeCache \in [Photos -> CachedTimes]
  BY DEF GroupingTypeOK
<1>7. ASSUME NEW f \in Photos
      PROVE  /\ timeCache'[f] \in CachedTimes
             /\ timeCache'[f].print <= edits
             /\ f \notin mixed /\ timeCache'[f].print = shots[f].print
                   => timeCache'[f].time = shots[f].time
  <2>1. CASE f \in pass.newTimes
    <3>1. /\ timeCache'[f].print = shots[f].print /\ timeCache'[f].time = pass.time[f]
          /\ timeCache'[f] = [print |-> shots[f].print, time |-> pass.time[f]]
      BY <1>5, <2>1
    <3>2. shots[f].print \in 0..MaxMishaps
      BY <1>6 DEF Shots
    <3>3. pass.time[f] \in Times \union {Absent}
      BY <1>1, <2>1 DEF Passes, ReadsAreTrue
    <3>4. timeCache'[f] \in CachedTimes
      BY <3>1, <3>2, <3>3 DEF CachedTimes
    <3> QED  BY <2>1, <3>1, <3>4 DEF ReadsAreTrue, PrintsAreOld
  <2>2. CASE f \notin pass.newTimes
    <3>1. timeCache'[f] = timeCache[f]
      BY <1>5, <2>2
    <3> QED  BY <1>6, <3>1 DEF PrintsAreOld, CachedFactsHold, Believed
  <2> QED  BY <2>1, <2>2
<1>8. timeCache' \in [Photos -> CachedTimes]
  BY <1>5, <1>7
<1>9. PrintsAreOld' /\ CachedFactsHold'
  BY <1>4, <1>7 DEF PrintsAreOld, CachedFactsHold, Believed
<1>10. StagesAreApart'
  BY <1>1, <1>2 DEF StagesAreApart
<1>11. ReadsAreTrue'
  BY <1>2, <1>4 DEF ReadsAreTrue
<1> QED  BY <1>3, <1>4, <1>8, <1>9, <1>10, <1>11, BaseParts DEF GroupingTypeOK

LEMMA FactsLoadHashes ==
    ASSUME FactsInv, LoadHashes PROVE FactsInv'
<1> USE DEF FactsInv, GroupingBase
<1> DEFINE hash == [f \in Photos |->
                      IF Believed(hashCache, f) THEN hashCache[f].hash ELSE Unknown]
<1>1. pass \in Passes /\ pass.at = "hashes"
  BY DEF LoadHashes
<1>2. /\ pass'.at = "compare" /\ pass'.unread = pass.unread /\ pass'.single = pass.single
      /\ pass'.newTimes = pass.newTimes /\ pass'.newHashes = pass.newHashes
      /\ pass'.time = pass.time /\ pass'.hash = hash
  BY <1>1 DEF LoadHashes, Passes
<1>3. \A f \in Photos: hashCache[f].hash \in Hashes \union {Absent}
  BY DEF GroupingTypeOK, CachedHashes
<1>4. hash \in [Photos -> Hashes \union {Unknown, Absent}]
  BY <1>3
<1> HIDE DEF hash
<1>5. pass' = [pass EXCEPT !.at = "compare", !.hash = hash]
  BY DEF LoadHashes, hash
<1>6. pass' \in Passes
  BY <1>1, <1>4, <1>5 DEF Passes
<1>7. UNCHANGED <<shots, timeCache, hashCache, mixed, failures, edits, groupings>>
  BY DEF LoadHashes
<1>8. PrintsAreOld' /\ CachedFactsHold'
  BY <1>7 DEF PrintsAreOld, CachedFactsHold, Believed
<1>9. StagesAreApart' /\ pass.newHashes = {}
  BY <1>1, <1>2 DEF StagesAreApart
<1>10. ReadsAreTrue'
  BY <1>2, <1>7, <1>9 DEF ReadsAreTrue
<1> QED  BY <1>6, <1>7, <1>8, <1>9, <1>10, BaseParts DEF GroupingTypeOK

LEMMA FactsComputeHash ==
    ASSUME FactsInv, pass.at = "compare", NEW f \in Photos, ComputeHash(f) PROVE FactsInv'
<1> USE DEF FactsInv, GroupingBase
<1>1. pass \in Passes /\ pass.hash[f] = Unknown
  BY DEF ComputeHash
<1>2. UNCHANGED <<shots, timeCache, hashCache, mixed, edits, groupings>>
  BY DEF ComputeHash
<1>3. failures' \in 0..MaxMishaps
  BY GroupingAssumption DEF ComputeHash, Fails, GroupingTypeOK
<1>4. PrintsAreOld' /\ CachedFactsHold'
  BY <1>2 DEF PrintsAreOld, CachedFactsHold, Believed
<1>5. /\ pass.hash \in [Photos -> Hashes \union {Unknown, Absent}]
      /\ pass.newHashes \subseteq Photos
  BY <1>1 DEF Passes
<1>6. shots[f].hash \in Hashes
  BY DEF GroupingTypeOK, Shots
<1>7. CASE pass' = [pass EXCEPT !.hash[f] = shots[f].hash, !.newHashes = @ \union {f}]
  <2>1. /\ pass'.at = pass.at /\ pass'.unread = pass.unread /\ pass'.single = pass.single
        /\ pass'.newTimes = pass.newTimes /\ pass'.newHashes = pass.newHashes \union {f}
        /\ pass'.time = pass.time /\ pass'.hash = [pass.hash EXCEPT ![f] = shots[f].hash]
    BY <1>1, <1>7 DEF Passes
  <2>2. pass' \in Passes
    BY <1>1, <1>6, <1>7 DEF Passes
  <2>3. StagesAreApart'
    BY <2>1 DEF StagesAreApart
  <2>4. ReadsAreTrue'
    BY <1>2, <1>5, <1>6, <2>1 DEF ReadsAreTrue
  <2> QED  BY <1>2, <1>3, <1>4, <2>2, <2>3, <2>4, BaseParts DEF GroupingTypeOK
<1>8. CASE pass' = [pass EXCEPT !.hash[f] = Absent, !.clean = FALSE]
  <2>1. /\ pass'.at = pass.at /\ pass'.unread = pass.unread /\ pass'.single = pass.single
        /\ pass'.newTimes = pass.newTimes /\ pass'.newHashes = pass.newHashes
        /\ pass'.time = pass.time /\ pass'.hash = [pass.hash EXCEPT ![f] = Absent]
    BY <1>1, <1>8 DEF Passes
  <2>2. pass' \in Passes
    BY <1>1, <1>8 DEF Passes
  <2>3. StagesAreApart'
    BY <2>1 DEF StagesAreApart
  <2>4. ReadsAreTrue'
    BY <1>1, <1>2, <1>5, <2>1, GroupingAssumption DEF ReadsAreTrue, Unknown
  <2> QED  BY <1>2, <1>3, <1>4, <2>2, <2>3, <2>4, BaseParts DEF GroupingTypeOK
<1> QED  BY <1>7, <1>8 DEF ComputeHash

-----------------------------------------------------------------------------
(* The photos of a run have a first one: the naturals are well ordered.    *)

NatBelow == {p \in Nat \X Nat: p[1] < p[2]}

LEMMA LeastNatural ==
    ASSUME NEW T, T \subseteq Nat, T # {}
    PROVE  \E m \in T: \A k \in T: m <= k
<1>1. IsWellFoundedOn(OpToRel(<, Nat), Nat)
  BY NatLessThanWellFounded
<1>2. OpToRel(<, Nat) = NatBelow
  BY DEF OpToRel, NatBelow
<1>3. IsWellFoundedOn(NatBelow, Nat)
  BY <1>1, <1>2
<1>4. PICK m \in T: \A k \in T: ~ (<<k, m>> \in NatBelow)
  BY <1>3, WFMin, Zenon
<1>5. ASSUME NEW k \in T PROVE m <= k
  <2>1. <<k, m>> \notin NatBelow
    BY <1>4, Zenon
  <2>2. k \in Nat /\ m \in Nat
    OBVIOUS
  <2>3. k < m => <<k, m>> \in NatBelow
    BY <2>2 DEF NatBelow
  <2> QED  BY <2>1, <2>2, <2>3
<1> QED  BY <1>5

(* A nonempty set of photos has a first one in the order of Sorted.        *)
LEMMA SortedHasFirst ==
    ASSUME NEW time, \A g \in Photos: time[g] \in Int /\ time[g] >= -2,
           NEW left \in SUBSET Photos, left # {}
    PROVE  \E f \in left: \A g \in left \ {f}: Sorted(time, f, g)
<1> DEFINE dated == {g \in left: time[g] # Absent}
<1>1. left \subseteq Nat
  BY GroupingAssumption
<1>2. CASE dated = {}
  <2>1. PICK f \in left: \A g \in left: f <= g
    BY <1>1, LeastNatural
  <2>2. \A g \in left \ {f}: f < g
    BY <1>1, <2>1
  <2>3. \A g \in left: time[g] = Absent
    BY <1>2
  <2> QED  BY <2>1, <2>2, <2>3 DEF Sorted
<1>3. CASE dated # {}
  <2> DEFINE stamps == {time[g] + 2: g \in dated}
  <2>1. stamps \subseteq Nat /\ stamps # {}
    BY <1>3
  <2>2. PICK t \in stamps: \A u \in stamps: t <= u
    BY <2>1, LeastNatural
  <2> DEFINE firsts == {g \in dated: time[g] + 2 = t}
  <2>3. firsts # {} /\ firsts \subseteq Nat
    BY <1>1
  <2>4. PICK f \in firsts: \A g \in firsts: f <= g
    BY <2>3, LeastNatural
  <2>5. f \in left /\ time[f] # Absent /\ time[f] + 2 = t
    OBVIOUS
  <2>6. ASSUME NEW g \in left, g # f PROVE Sorted(time, f, g)
    <3>1. CASE time[g] = Absent
      BY <2>5, <3>1 DEF Sorted
    <3>2. CASE time[g] # Absent /\ time[g] + 2 = t
      <4>1. f < g
        BY <1>1, <2>4, <2>5, <2>6, <3>2
      <4>2. time[f] = time[g]
        BY <2>5, <3>2
      <4> QED  BY <4>1, <4>2 DEF Sorted
    <3>3. CASE time[g] # Absent /\ time[g] + 2 # t
      <4>1. t <= time[g] + 2 /\ t \in Nat
        BY <2>1, <2>2, <3>3
      <4>2. time[f] < time[g]
        BY <2>5, <3>3, <4>1
      <4> QED  BY <2>5, <3>3, <4>2 DEF Sorted
    <3> QED  BY <3>1, <3>2, <3>3
  <2> QED  BY <2>5, <2>6
<1> QED  BY <1>2, <1>3

LEMMA FirstIsFirst ==
    ASSUME pass \in Passes, pass.left # {}
    PROVE  First \in pass.left /\ \A g \in pass.left \ {First}: Sorted(pass.time, First, g)
<1>0. pass.time \in [Photos -> Times \union {Unknown, Absent}]
  BY DEF Passes
<1>1. \A g \in Photos: pass.time[g] \in Int /\ pass.time[g] >= -2
  <2>1. \A t \in Times \union {Unknown, Absent}: t \in Int /\ t >= -2
    BY GroupingAssumption DEF Absent, Unknown
  <2> QED  BY <1>0, <2>1
<1>2. \E f \in pass.left: \A g \in pass.left \ {f}: Sorted(pass.time, f, g)
  BY <1>1, SortedHasFirst DEF Passes
<1> QED  BY <1>2 DEF First

(* What a step of the comparison hashes is a photo.                        *)
LEMMA HashIsOfAPhoto ==
    ASSUME pass \in Passes, Hash
    PROVE  \E f \in Photos: ComputeHash(f)
<1> DEFINE Fits(f) == f \in pass.previous \/ Asked = {First}
<1>1. pass.left # {} /\ \E f \in Asked: Fits(f)
  BY DEF Hash
<1>2. First \in Photos
  BY <1>1, FirstIsFirst DEF Passes
<1>3. Asked \subseteq Photos
  BY <1>2 DEF Asked, Passes
<1>4. (CHOOSE f \in Asked: Fits(f)) \in Asked
  BY <1>1
<1> QED  BY <1>3, <1>4 DEF Hash

LEMMA FactsHash ==
    ASSUME FactsInv, Hash PROVE FactsInv'
<1>1. pass \in Passes /\ pass.at = "compare"
  BY DEF FactsInv, GroupingBase, Hash
<1>2. PICK f \in Photos: ComputeHash(f)
  BY <1>1, HashIsOfAPhoto
<1> QED  BY <1>1, <1>2, FactsComputeHash

LEMMA FactsCompare ==
    ASSUME FactsInv, Compare PROVE FactsInv'
<1> USE DEF FactsInv, GroupingBase
<1> DEFINE joins == {p \in pass.previous: Linked(pass.time, pass.hash, p, First)}
           groups == IF joins = {} THEN pass.groups \union {{First}}
                     ELSE {G \union (IF G \intersect joins = {} THEN {} ELSE {First}): G \in pass.groups}
<1>1. pass \in Passes /\ pass.left # {}
  BY DEF Compare
<1>2. First \in Photos
  BY <1>1, FirstIsFirst DEF Passes
<1>3. groups \subseteq SUBSET Photos
  BY <1>1, <1>2 DEF Passes
<1>4. pass' = [pass EXCEPT !.left = @ \ {First}, !.previous = {First}, !.groups = groups]
  BY DEF Compare
<1> HIDE DEF groups
<1>5. /\ pass'.at = pass.at /\ pass'.unread = pass.unread /\ pass'.single = pass.single
      /\ pass'.newTimes = pass.newTimes /\ pass'.newHashes = pass.newHashes
      /\ pass'.time = pass.time /\ pass'.hash = pass.hash
  BY <1>1, <1>4 DEF Passes
<1>6. pass' \in Passes
  BY <1>1, <1>2, <1>3, <1>4 DEF Passes
<1>7. UNCHANGED <<shots, timeCache, hashCache, mixed, failures, edits, groupings>>
  BY DEF Compare
<1>8. PrintsAreOld' /\ CachedFactsHold' /\ StagesAreApart' /\ ReadsAreTrue'
  BY <1>5, <1>7 DEF PrintsAreOld, CachedFactsHold, Believed, StagesAreApart, ReadsAreTrue
<1> QED  BY <1>6, <1>7, <1>8, BaseParts DEF GroupingTypeOK

LEMMA FactsStoreHashes ==
    ASSUME FactsInv, StoreHashes PROVE FactsInv'
<1> USE DEF FactsInv, GroupingBase
<1>1. pass \in Passes /\ pass.at = "compare"
  BY DEF StoreHashes
<1>2. /\ pass'.at = "over" /\ pass'.unread = pass.unread /\ pass'.single = pass.single
      /\ pass'.newTimes = pass.newTimes /\ pass'.newHashes = {}
      /\ pass'.time = pass.time /\ pass'.hash = pass.hash
  BY <1>1 DEF StoreHashes, Passes
<1>3. pass' \in Passes
  BY <1>1 DEF StoreHashes, Passes
<1>4. UNCHANGED <<shots, timeCache, mixed, failures, edits, groupings>>
  BY DEF StoreHashes
<1>5. hashCache' = [f \in Photos |-> IF f \in pass.newHashes
                                     THEN [print |-> shots[f].print, hash |-> pass.hash[f]]
                                     ELSE hashCache[f]]
  BY DEF StoreHashes
<1>6. shots \in [Photos -> Shots] /\ hashCache \in [Photos -> CachedHashes]
  BY DEF GroupingTypeOK
<1>7. ASSUME NEW f \in Photos
      PROVE  /\ hashCache'[f] \in CachedHashes
             /\ hashCache'[f].print <= edits
             /\ f \notin mixed /\ hashCache'[f].print = shots[f].print
                   => hashCache'[f].hash = shots[f].hash
  <2>1. CASE f \in pass.newHashes
    <3>1. /\ hashCache'[f].print = shots[f].print /\ hashCache'[f].hash = pass.hash[f]
          /\ hashCache'[f] = [print |-> shots[f].print, hash |-> pass.hash[f]]
      BY <1>5, <2>1
    <3>2. shots[f].print \in 0..MaxMishaps
      BY <1>6 DEF Shots
    <3>3. pass.hash[f] \in Hashes
      BY <1>1, <2>1 DEF Passes, ReadsAreTrue
    <3>4. hashCache'[f] \in CachedHashes
      BY <3>1, <3>2, <3>3 DEF CachedHashes
    <3> QED  BY <2>1, <3>1, <3>4 DEF ReadsAreTrue, PrintsAreOld
  <2>2. CASE f \notin pass.newHashes
    <3>1. hashCache'[f] = hashCache[f]
      BY <1>5, <2>2
    <3> QED  BY <1>6, <3>1 DEF PrintsAreOld, CachedFactsHold, Believed
  <2> QED  BY <2>1, <2>2
<1>8. hashCache' \in [Photos -> CachedHashes]
  BY <1>5, <1>7
<1>9. PrintsAreOld' /\ CachedFactsHold'
  BY <1>4, <1>7 DEF PrintsAreOld, CachedFactsHold, Believed
<1>10. StagesAreApart' /\ ReadsAreTrue'
  BY <1>2, <1>1, <1>4 DEF StagesAreApart, ReadsAreTrue
<1> QED  BY <1>3, <1>4, <1>8, <1>9, <1>10, BaseParts DEF GroupingTypeOK

LEMMA FactsReplacePhoto ==
    ASSUME FactsInv, ReplacePhoto PROVE FactsInv'
<1> USE DEF FactsInv, GroupingBase
<1>1. pass \in Passes
  OBVIOUS
<1>2. pass' = [pass EXCEPT !.clean = FALSE]
  BY DEF ReplacePhoto
<1>3. /\ pass'.at = pass.at /\ pass'.unread = pass.unread /\ pass'.single = pass.single
      /\ pass'.newTimes = pass.newTimes /\ pass'.newHashes = pass.newHashes
      /\ pass'.time = pass.time /\ pass'.hash = pass.hash
  BY <1>1, <1>2 DEF Passes
<1>4. pass' \in Passes
  BY <1>1, <1>2 DEF Passes
<1>5. UNCHANGED <<timeCache, hashCache, failures, groupings>> /\ edits' = edits + 1
  BY DEF ReplacePhoto
<1>6. edits' \in 0..MaxMishaps /\ edits \in Nat
  BY <1>5, GroupingAssumption DEF ReplacePhoto, GroupingTypeOK
<1>7. PICK f \in Photos: \E s \in Shots:
        /\ s.print = edits'
        /\ shots' = [shots EXCEPT ![f] = s]
        /\ mixed' = IF f \in pass.newTimes \union pass.newHashes
                    THEN mixed \union {f} ELSE mixed
  BY DEF ReplacePhoto
<1>8. PICK s \in Shots: s.print = edits' /\ shots' = [shots EXCEPT ![f] = s]
  BY <1>7
<1>9. shots \in [Photos -> Shots] /\ mixed \subseteq Photos
  BY DEF GroupingTypeOK
<1>10. /\ shots' \in [Photos -> Shots]
       /\ shots'[f] = s /\ \A g \in Photos \ {f}: shots'[g] = shots[g]
  BY <1>8, <1>9
<1>11. /\ mixed' \subseteq Photos /\ mixed \subseteq mixed'
       /\ f \in pass.newTimes \union pass.newHashes => f \in mixed'
  BY <1>7, <1>9
<1>12. \A g \in Photos: /\ shots[g].print \in Nat
                        /\ timeCache[g].print \in Int /\ hashCache[g].print \in Int
  BY GroupingAssumption DEF GroupingTypeOK, Shots, CachedTimes, CachedHashes
<1>13. PrintsAreOld'
  BY <1>5, <1>6, <1>8, <1>10, <1>12 DEF PrintsAreOld
<1>14. ~Believed(timeCache, f)' /\ ~Believed(hashCache, f)'
  BY <1>5, <1>6, <1>8, <1>10, <1>12 DEF PrintsAreOld, Believed
<1>15. CachedFactsHold'
  BY <1>5, <1>10, <1>11, <1>14 DEF CachedFactsHold, Believed
<1>16. StagesAreApart'
  BY <1>3 DEF StagesAreApart
<1>17. pass.newTimes \subseteq Photos /\ pass.newHashes \subseteq Photos
  BY <1>1 DEF Passes
<1>18. ReadsAreTrue'
  BY <1>3, <1>10, <1>11, <1>17 DEF ReadsAreTrue
<1> QED  BY <1>4, <1>5, <1>6, <1>10, <1>11, <1>13, <1>15, <1>16, <1>18, BaseParts DEF GroupingTypeOK

LEMMA FactsStep ==
    ASSUME FactsInv, [GroupingNext]_groupingVars PROVE FactsInv'
<1>1. CASE UNCHANGED groupingVars
  BY <1>1 DEF groupingVars, FactsInv, GroupingBase, GroupingTypeOK, PrintsAreOld, StagesAreApart,
              ReadsAreTrue, CachedFactsHold, Believed, Passes
<1> QED
  BY <1>1, FactsLoadTimes, FactsReadBatch, FactsReadSingle, FactsStoreTimes, FactsLoadHashes,
     FactsHash, FactsCompare, FactsStoreHashes, FactsReplacePhoto
     DEF GroupingNext

(* The grouping's record and the caches keep their types.                  *)
THEOREM GroupingTypeCorrect == GroupingSpec => []GroupingTypeOK
<1>1. FactsInv => GroupingTypeOK
  BY DEF FactsInv, GroupingBase
<1> QED  BY <1>1, FactsStart, FactsStep, PTL DEF GroupingSpec

(* A cached fact that will be believed is a fact of the photo, whatever    *)
(* failed and was replaced, the photos replaced between a read and its     *)
(* storing excepted (get_exif_cache, set_visual_hash_cache).               *)
THEOREM CachesAreTrue == GroupingSpec => []CachedFactsHold
<1>1. FactsInv => CachedFactsHold
  BY DEF FactsInv
<1> QED  BY <1>1, FactsStart, FactsStep, PTL DEF GroupingSpec

-----------------------------------------------------------------------------
(* Earlier orders the photos, and a group is a matter of neighbours.       *)

LEMMA EarlierOrders ==
    ASSUME GroupingTypeOK
    PROVE  /\ \A f \in Photos: ~Earlier(f, f)
           /\ \A f, g \in Photos: f = g \/ Earlier(f, g) \/ Earlier(g, f)
           /\ \A f, g \in Photos: ~(Earlier(f, g) /\ Earlier(g, f))
           /\ \A f, g, h \in Photos: Earlier(f, g) /\ Earlier(g, h) => Earlier(f, h)
<1>1. \A f \in Photos: f \in Nat
  BY GroupingAssumption
<1>2. \A f \in Photos: shots[f].time \in Times \union {Absent}
  BY DEF GroupingTypeOK, Shots
<1>3. \A f \in Photos: shots[f].time \in Int
  <2>1. \A t \in Times \union {Absent}: t \in Int
    BY GroupingAssumption DEF Absent
  <2> QED  BY <1>2, <2>1
<1> QED  BY <1>1, <1>3 DEF Earlier, Absent

Span(f, g) == {f, g} \union Between(f, g) \union Between(g, f)

LEMMA TogetherIsOfTheSpan ==
    ASSUME NEW f, NEW g
    PROVE  Together(f, g) <=>
              \A a, b \in Span(f, g): Earlier(a, b) /\ Between(a, b) = {} => Burst(a, b)
  BY DEF Together, Span

LEMMA TogetherIsSymmetric ==
    ASSUME NEW f, NEW g PROVE Together(f, g) <=> Together(g, f)
<1>1. Span(f, g) = Span(g, f)
  BY DEF Span
<1> QED  BY <1>1, TogetherIsOfTheSpan

LEMMA TogetherWithItself ==
    ASSUME GroupingTypeOK, NEW f \in Photos PROVE Together(f, f)
<1>1. Between(f, f) = {}
  BY EarlierOrders DEF Between
<1>2. Span(f, f) = {f}
  BY <1>1 DEF Span
<1> QED  BY <1>2, EarlierOrders, TogetherIsOfTheSpan

(* The next photo in capture order is together with an earlier one exactly *)
(* when the last of those is and the two are a burst.                      *)
LEMMA TogetherWithTheNext ==
    ASSUME GroupingTypeOK,
           NEW D \in SUBSET Photos, NEW f \in Photos \ D, NEW p \in D, NEW g \in D,
           \A d \in D: Earlier(d, f), \A d \in D \ {p}: Earlier(d, p),
           \A h \in Photos \ (D \union {f}): Earlier(f, h)
    PROVE  Together(g, f) <=> Together(g, p) /\ Burst(p, f)
<1>1. /\ \A x \in Photos: ~Earlier(x, x)
      /\ \A x, y \in Photos: ~(Earlier(x, y) /\ Earlier(y, x))
      /\ \A x, y, z \in Photos: Earlier(x, y) /\ Earlier(y, z) => Earlier(x, z)
  BY EarlierOrders, Zenon
<1>2. Between(p, f) = {} /\ Between(f, g) = {} /\ Between(p, g) = {}
  <2>1. ASSUME NEW h \in Photos, Earlier(p, h), Earlier(h, f) PROVE FALSE
    BY <1>1, <2>1, h \in D \/ h = f \/ h \in Photos \ (D \union {f})
  <2>2. ASSUME NEW h \in Photos, Earlier(f, h), Earlier(h, g) PROVE FALSE
    BY <1>1, <2>2
  <2>3. ASSUME NEW h \in Photos, Earlier(p, h), Earlier(h, g) PROVE FALSE
    BY <1>1, <2>3
  <2> QED  BY <2>1, <2>2, <2>3 DEF Between
<1>3. Between(g, p) \subseteq D
  <2>1. ASSUME NEW h \in Photos, Earlier(h, p), h \notin D PROVE FALSE
    BY <1>1, <2>1
  <2> QED  BY <2>1 DEF Between
<1>4. Span(g, f) = Span(g, p) \union {f}
  <2>1. CASE g = p
    BY <1>2, <2>1 DEF Span
  <2>2. CASE g # p
    <3>1. Between(g, f) \subseteq Between(g, p) \union {p}
      <4>1. ASSUME NEW h \in Photos, Earlier(g, h), Earlier(h, f), h # p PROVE Earlier(h, p)
        BY <1>1, <4>1, h \in D \/ h = f \/ h \in Photos \ (D \union {f})
      <4> QED  BY <4>1 DEF Between
    <3>2. Between(g, p) \union {p} \subseteq Between(g, f)
      BY <1>1, <2>2 DEF Between
    <3> QED  BY <1>2, <3>1, <3>2 DEF Span
  <2> QED  BY <2>1, <2>2
<1>5. Span(g, p) \subseteq D /\ p \in Span(g, p)
  BY <1>2, <1>3 DEF Span
<1>6. ASSUME Together(g, f) PROVE Together(g, p) /\ Burst(p, f)
  <2>1. \A a, b \in Span(g, f): Earlier(a, b) /\ Between(a, b) = {} => Burst(a, b)
    BY <1>6, TogetherIsOfTheSpan
  <2> QED  BY <1>2, <1>4, <1>5, <2>1, TogetherIsOfTheSpan
<1>7. ASSUME Together(g, p), Burst(p, f) PROVE Together(g, f)
  <2>1. \A a, b \in Span(g, p): Earlier(a, b) /\ Between(a, b) = {} => Burst(a, b)
    BY <1>7, TogetherIsOfTheSpan
  <2>2. ASSUME NEW a \in Span(g, f), NEW b \in Span(g, f), Earlier(a, b), Between(a, b) = {}
        PROVE  Burst(a, b)
    <3>1. CASE a \in Span(g, p) /\ b \in Span(g, p)
      BY <2>1, <2>2, <3>1
    <3>2. CASE a = f
      BY <1>1, <1>4, <1>5, <2>2, <3>2
    <3>3. CASE a \in Span(g, p) /\ b = f
      <4>1. a # p => p \in Between(a, b)
        BY <1>5, <3>3 DEF Between
      <4> QED  BY <1>7, <2>2, <3>3, <4>1
    <3> QED  BY <1>4, <3>1, <3>2, <3>3
  <2> QED  BY <2>2, TogetherIsOfTheSpan
<1> QED  BY <1>6, <1>7

(* The groups of some photos, and what they become with the next photo.    *)
Class(D, f) == {g \in D: Together(f, g)}
Classes(D) == {Class(D, f): f \in D}

LEMMA ClassesWithTheNext ==
    ASSUME GroupingTypeOK,
           NEW D \in SUBSET Photos, NEW f \in Photos \ D, NEW p \in D,
           \A d \in D: Earlier(d, f), \A d \in D \ {p}: Earlier(d, p),
           \A h \in Photos \ (D \union {f}): Earlier(f, h)
    PROVE  /\ ~Burst(p, f) => Classes(D \union {f}) = Classes(D) \union {{f}}
           /\ Burst(p, f) => Classes(D \union {f}) =
                {G \union (IF G \intersect {p} = {} THEN {} ELSE {f}): G \in Classes(D)}
<1> DEFINE E == D \union {f}
<1>1. \A g \in D: Together(g, f) <=> Together(g, p) /\ Burst(p, f)
  BY TogetherWithTheNext
<1>2. \A g \in D: Together(f, g) <=> Together(g, f)
  BY TogetherIsSymmetric
<1>3. \A g \in D: Together(p, g) <=> Together(g, p)
  BY TogetherIsSymmetric
<1>4. Together(f, f) /\ Together(p, p)
  BY TogetherWithItself
<1>5. ASSUME ~Burst(p, f) PROVE Classes(E) = Classes(D) \union {{f}}
  <2>1. \A x \in D: Class(E, x) = Class(D, x)
    BY <1>1, <1>5 DEF Class
  <2>2. Class(E, f) = {f}
    BY <1>1, <1>2, <1>4, <1>5 DEF Class
  <2> QED  BY <2>1, <2>2 DEF Classes
<1>6. ASSUME Burst(p, f)
      PROVE  Classes(E) = {G \union (IF G \intersect {p} = {} THEN {} ELSE {f}): G \in Classes(D)}
  <2> DEFINE Grown(G) == G \union (IF G \intersect {p} = {} THEN {} ELSE {f})
  <2>1. ASSUME NEW x \in D PROVE Class(E, x) = Grown(Class(D, x))
    <3>1. p \in Class(D, x) <=> Together(x, p)
      BY DEF Class
    <3>2. Together(x, f) <=> Together(x, p)
      BY <1>1, <1>6
    <3>3. Class(E, x) = Class(D, x) \union (IF Together(x, p) THEN {f} ELSE {})
      BY <3>2 DEF Class
    <3> QED  BY <3>1, <3>3
  <2>2. Class(E, f) = Class(E, p)
    BY <1>1, <1>2, <1>3, <1>4, <1>6 DEF Class
  <2> HIDE DEF Grown
  <2>3. Classes(E) = {Class(E, x): x \in D}
    BY <2>2 DEF Classes
  <2>4. {Class(E, x): x \in D} = {Grown(Class(D, x)): x \in D}
    BY <2>1
  <2>5. {Grown(Class(D, x)): x \in D} = {Grown(G): G \in Classes(D)}
    BY DEF Classes
  <2> QED  BY <2>3, <2>4, <2>5 DEF Grown
<1> QED  BY <1>5, <1>6

-----------------------------------------------------------------------------
(* An undisturbed run: what it believes stays true.                        *)

LEMMA PassStart ==
    ASSUME GroupingInit PROVE PassIsTrue /\ DoneAreFirst /\ DoneAreGrouped
<1>1. /\ pass.at = "idle" /\ pass.left = {} /\ pass.previous = {} /\ pass.groups = {}
      /\ pass.hash = [f \in Photos |-> Unknown]
  BY DEF GroupingInit, Unstarted
<1> QED  BY <1>1 DEF PassIsTrue, DoneAreFirst, DoneAreGrouped, Comparing

(* Steps other than the start of a run disturb it or leave it disturbed.   *)
LEMMA UndisturbedBefore ==
    ASSUME pass \in Passes, GroupingNext, ~LoadTimes, Undisturbed'
    PROVE  Undisturbed /\ shots' = shots
<1>1. CASE ReplacePhoto
  BY <1>1 DEF ReplacePhoto, Undisturbed, Passes
<1>2. CASE ReadBatch \/ StoreTimes \/ LoadHashes \/ Compare \/ StoreHashes
  BY <1>2 DEF ReadBatch, StoreTimes, LoadHashes, Compare, StoreHashes, Undisturbed, Passes
<1>3. CASE ReadSingle
  BY <1>3 DEF ReadSingle, Undisturbed, Passes
<1>4. CASE Hash
  <2>1. PICK f \in Photos: ComputeHash(f)
    BY <1>4, HashIsOfAPhoto
  <2> QED  BY <2>1 DEF ComputeHash, Undisturbed, Passes
<1> QED  BY <1>1, <1>2, <1>3, <1>4 DEF GroupingNext

LEMMA PassLoadTimes ==
    ASSUME FactsInv, LoadTimes PROVE (PassIsTrue /\ DoneAreFirst /\ DoneAreGrouped)'
<1> DEFINE hits == {f \in Photos: Believed(timeCache, f)}
           time == [f \in Photos |-> IF f \in hits THEN timeCache[f].time ELSE Unknown]
<1>1. /\ pass'.at = "read" /\ pass'.unread = Photos \ hits /\ pass'.time = time
      /\ pass'.single = {} /\ pass'.left = {} /\ pass'.previous = {} /\ pass'.groups = {}
      /\ pass'.hash = [f \in Photos |-> Unknown]
  BY DEF LoadTimes, Unstarted
<1>2. UNCHANGED <<shots, timeCache, mixed>>
  BY DEF LoadTimes
<1>3. ASSUME Undisturbed', NEW f \in hits PROVE time[f] = shots[f].time
  BY <1>2, <1>3 DEF Undisturbed, FactsInv, CachedFactsHold
<1>4. \A f \in Photos \ pass'.unread: f \in hits
  BY <1>1
<1>5. PassIsTrue'
  BY <1>1, <1>2, <1>3, <1>4 DEF PassIsTrue
<1> QED  BY <1>1, <1>5 DEF DoneAreFirst, DoneAreGrouped, Comparing

LEMMA PassReadBatch ==
    ASSUME FactsInv, PassIsTrue, ReadBatch PROVE PassIsTrue'
<1>0. PICK batch \in SUBSET pass.unread: \E told \in SUBSET batch:
        pass' = [pass EXCEPT !.unread = @ \ batch, !.single = batch \ told,
                             !.newTimes = @ \union told, !.time = TimesOf(told)]
  BY DEF ReadBatch
<1>1. PICK told \in SUBSET batch:
        pass' = [pass EXCEPT !.unread = @ \ batch, !.single = batch \ told,
                             !.newTimes = @ \union told, !.time = TimesOf(told)]
  BY <1>0
<1>2. pass \in Passes /\ pass.single = {} /\ pass.at = "read"
  BY DEF ReadBatch, FactsInv, GroupingBase
<1>3. /\ pass'.at = "read" /\ pass'.unread = pass.unread \ batch
      /\ pass'.single = batch \ told /\ pass'.time = TimesOf(told)
      /\ pass'.hash = pass.hash /\ pass'.clean = pass.clean
  BY <1>1, <1>2 DEF Passes
<1>4. shots' = shots /\ mixed' = mixed
  BY DEF ReadBatch
<1>5. ASSUME Undisturbed', NEW f \in Photos \ (pass'.unread \union pass'.single)
      PROVE  pass'.time[f] = shots[f].time
  <2>1. f \notin told => f \notin pass.unread \union pass.single
    BY <1>2, <1>3
  <2>2. Undisturbed
    BY <1>3, <1>4, <1>5 DEF Undisturbed
  <2> QED  BY <1>2, <1>3, <2>1, <2>2 DEF TimesOf, PassIsTrue
<1> QED  BY <1>3, <1>4, <1>5 DEF PassIsTrue, Undisturbed

LEMMA PassReadSingle ==
    ASSUME FactsInv, PassIsTrue, ReadSingle PROVE PassIsTrue'
<1>1. PICK f \in pass.single:
        \/ /\ pass' = [pass EXCEPT !.single = @ \ {f}, !.newTimes = @ \union {f},
                                   !.time = TimesOf({f})]
        \/ /\ pass' = [pass EXCEPT !.single = @ \ {f}, !.time[f] = Absent, !.clean = FALSE]
  BY DEF ReadSingle
<1>2. pass \in Passes /\ pass.at = "read"
  BY DEF ReadSingle, FactsInv, GroupingBase
<1>3. shots' = shots /\ mixed' = mixed
  BY DEF ReadSingle
<1>4. CASE pass'.clean = FALSE
  BY <1>4 DEF PassIsTrue, Undisturbed
<1>5. CASE pass'.clean # FALSE
  <2>1. /\ pass'.unread = pass.unread /\ pass'.single = pass.single \ {f}
        /\ pass'.time = TimesOf({f}) /\ pass'.hash = pass.hash /\ pass'.clean = pass.clean
        /\ pass'.at = pass.at
    BY <1>1, <1>2, <1>5 DEF Passes
  <2>2. ASSUME Undisturbed', NEW g \in Photos \ (pass'.unread \union pass'.single)
        PROVE  pass'.time[g] = shots[g].time
    <3>1. g # f => g \notin pass.unread \union pass.single
      BY <2>1
    <3>2. Undisturbed
      BY <1>3, <2>1, <2>2 DEF Undisturbed
    <3> QED  BY <1>2, <2>1, <3>1, <3>2 DEF TimesOf, PassIsTrue
  <2> QED  BY <1>3, <2>1, <2>2 DEF PassIsTrue, Undisturbed
<1> QED  BY <1>4, <1>5

LEMMA PassLoadHashes ==
    ASSUME FactsInv, PassIsTrue, LoadHashes PROVE PassIsTrue'
<1> DEFINE hash == [f \in Photos |->
                      IF Believed(hashCache, f) THEN hashCache[f].hash ELSE Unknown]
<1>1. pass \in Passes /\ pass.at = "hashes"
  BY DEF LoadHashes, FactsInv, GroupingBase
<1>2. /\ pass'.at = "compare" /\ pass'.unread = pass.unread /\ pass'.single = pass.single
      /\ pass'.time = pass.time /\ pass'.hash = hash /\ pass'.clean = pass.clean
  BY <1>1 DEF LoadHashes, Passes
<1>3. shots' = shots /\ mixed' = mixed
  BY DEF LoadHashes
<1>4. ASSUME Undisturbed', NEW f \in Photos PROVE hash[f] \in {Unknown, shots[f].hash}
  BY <1>3, <1>4 DEF Undisturbed, FactsInv, CachedFactsHold
<1> QED  BY <1>1, <1>2, <1>3, <1>4 DEF PassIsTrue, Undisturbed

LEMMA PassComputeHash ==
    ASSUME FactsInv, PassIsTrue, NEW f \in Photos, ComputeHash(f) PROVE PassIsTrue'
<1>1. pass \in Passes
  BY DEF FactsInv, GroupingBase
<1>2. shots' = shots /\ mixed' = mixed
  BY DEF ComputeHash
<1>3. pass.hash \in [Photos -> Hashes \union {Unknown, Absent}]
  BY <1>1 DEF Passes
<1>4. CASE pass' = [pass EXCEPT !.hash[f] = shots[f].hash, !.newHashes = @ \union {f}]
  <2>1. /\ pass'.at = pass.at /\ pass'.unread = pass.unread /\ pass'.single = pass.single
        /\ pass'.time = pass.time /\ pass'.hash = [pass.hash EXCEPT ![f] = shots[f].hash]
        /\ pass'.clean = pass.clean
    BY <1>1, <1>4 DEF Passes
  <2> QED  BY <1>2, <1>3, <2>1 DEF PassIsTrue, Undisturbed
<1>5. CASE pass' = [pass EXCEPT !.hash[f] = Absent, !.clean = FALSE]
  BY <1>1, <1>5 DEF PassIsTrue, Undisturbed, Passes
<1> QED  BY <1>4, <1>5 DEF ComputeHash

LEMMA PassStep ==
    ASSUME FactsInv, PassIsTrue, [GroupingNext]_groupingVars PROVE PassIsTrue'
<1>1. CASE UNCHANGED groupingVars
  BY <1>1 DEF groupingVars, PassIsTrue, Undisturbed
<1>2. pass \in Passes
  BY DEF FactsInv, GroupingBase
<1>3. CASE StoreTimes \/ Compare \/ StoreHashes
  <2>1. /\ pass'.time = pass.time /\ pass'.hash = pass.hash /\ pass'.clean = pass.clean
        /\ pass'.unread = pass.unread /\ pass'.single = pass.single /\ pass.at # "idle"
        /\ shots' = shots /\ mixed' = mixed
    BY <1>2, <1>3 DEF StoreTimes, Compare, StoreHashes, Passes
  <2> QED  BY <2>1 DEF PassIsTrue, Undisturbed
<1>4. CASE Hash
  <2>1. PICK f \in Photos: ComputeHash(f)
    BY <1>2, <1>4, HashIsOfAPhoto
  <2> QED  BY <2>1, PassComputeHash
<1>5. CASE ReplacePhoto
  BY <1>2, <1>5 DEF ReplacePhoto, PassIsTrue, Undisturbed, Passes
<1> QED
  BY <1>1, <1>3, <1>4, <1>5, PassLoadTimes, PassReadBatch, PassReadSingle, PassLoadHashes
     DEF GroupingNext

-----------------------------------------------------------------------------
(* The order in which photos are taken, and their groups.                  *)
GroupsInvariant == FactsInv /\ PassIsTrue /\ DoneAreFirst /\ DoneAreGrouped

LEMMA TogetherStays ==
    ASSUME shots' = shots PROVE \A f, g: Together(f, g)' <=> Together(f, g)
<1>1. \A f, g: Earlier(f, g)' <=> Earlier(f, g)
  BY DEF Earlier
<1>2. \A f, g: Between(f, g)' = Between(f, g)
  BY <1>1 DEF Between
<1>3. \A f, g: Burst(f, g)' <=> Burst(f, g)
  BY DEF Burst
<1> QED  BY <1>1, <1>2, <1>3 DEF Together

LEMMA GroupedNext ==
    ASSUME shots' = shots, NEW D, Done' = D, pass'.groups = Classes(D),
           pass'.at \in {"compare", "over"}, pass'.at = "over" => pass'.left = {}
    PROVE  DoneAreGrouped'
<1>1. \A f, g: Together(f, g)' <=> Together(f, g)
  BY TogetherStays
<1>2. {{g \in Done': Together(f, g)'}: f \in Done'} = {{g \in D: Together(f, g)}: f \in D}
  BY <1>1
<1> QED  BY <1>2 DEF DoneAreGrouped, Classes, Class

LEMMA GroupsAreClasses ==
    DoneAreGrouped <=>
        (Undisturbed =>
            /\ pass.at \in {"idle", "read", "hashes"} => pass.previous = {} /\ pass.groups = {}
            /\ pass.at = "hashes" => pass.left = Photos
            /\ pass.at = "over" => pass.left = {}
            /\ Comparing => pass.groups = Classes(Done))
  BY DEF DoneAreGrouped, Classes, Class

(* Steps that take no photo.                                               *)
LEMMA GroupsStay ==
    ASSUME GroupsInvariant, GroupingNext, ~LoadTimes,
           pass'.left = pass.left, pass'.previous = pass.previous, pass'.groups = pass.groups,
           pass'.at = pass.at \/ (pass.at = "compare" /\ pass'.at = "over" /\ pass.left = {})
    PROVE  DoneAreFirst' /\ DoneAreGrouped'
<1>1. pass \in Passes
  BY DEF GroupsInvariant, FactsInv, GroupingBase
<1>2. SUFFICES ASSUME Undisturbed' PROVE DoneAreFirst' /\ DoneAreGrouped'
  BY DEF DoneAreFirst, DoneAreGrouped
<1>3. Undisturbed /\ shots' = shots
  BY <1>1, <1>2, UndisturbedBefore
<1>4. Done' = Done /\ (Comparing' <=> Comparing)
  BY DEF Done, Comparing
<1>5. DoneAreFirst'
  BY <1>3, <1>4 DEF GroupsInvariant, DoneAreFirst, Earlier
<1>6. /\ pass.at \in {"idle", "read", "hashes"} => pass.previous = {} /\ pass.groups = {}
      /\ pass.at = "hashes" => pass.left = Photos
      /\ pass.at = "over" => pass.left = {}
      /\ Comparing => pass.groups = Classes(Done)
  BY <1>3, GroupsAreClasses DEF GroupsInvariant
<1>7. CASE Comparing
  <2>1. pass'.groups = Classes(Done)
    BY <1>6, <1>7
  <2>2. PICK D: D = Done
    OBVIOUS
  <2>3. pass'.at \in {"compare", "over"} /\ (pass'.at = "over" => pass'.left = {})
    BY <1>6, <1>7 DEF Comparing
  <2>4. Done' = D /\ pass'.groups = Classes(D) /\ shots' = shots
    BY <1>3, <1>4, <2>1, <2>2
  <2> QED  BY <1>5, <2>3, <2>4, GroupedNext
<1>8. CASE ~Comparing
  <2>1. pass'.at = pass.at /\ pass'.at # "over" /\ ~Comparing'
    BY <1>8 DEF Comparing
  <2>2. /\ pass'.at \in {"idle", "read", "hashes"} => pass'.previous = {} /\ pass'.groups = {}
        /\ pass'.at = "hashes" => pass'.left = Photos
    BY <1>6, <2>1
  <2> QED  BY <1>5, <2>1, <2>2 DEF DoneAreGrouped
<1> QED  BY <1>5, <1>7, <1>8

(* The comparison begins with all photos still to be taken.                *)
LEMMA GroupsBegin ==
    ASSUME GroupsInvariant, StoreTimes \/ LoadHashes
    PROVE  DoneAreFirst' /\ DoneAreGrouped'
<1>1. pass \in Passes
  BY DEF GroupsInvariant, FactsInv, GroupingBase
<1>2. SUFFICES ASSUME Undisturbed' PROVE DoneAreFirst' /\ DoneAreGrouped'
  BY DEF DoneAreFirst, DoneAreGrouped
<1>3. /\ pass'.previous = pass.previous /\ pass'.groups = pass.groups
      /\ pass'.at \in {"hashes", "compare"}
      /\ pass.at \in {"read", "hashes"} /\ pass'.clean = pass.clean /\ mixed' = mixed
  BY <1>1 DEF StoreTimes, LoadHashes, Passes
<1>4. Undisturbed
  BY <1>2, <1>3 DEF Undisturbed
<1>5. pass.previous = {} /\ pass.groups = {} /\ (pass.at = "hashes" => pass.left = Photos)
  BY <1>3, <1>4 DEF GroupsInvariant, DoneAreGrouped
<1>6. pass'.left = Photos
  <2>1. CASE StoreTimes
    BY <1>1, <2>1 DEF StoreTimes, Passes
  <2>2. CASE LoadHashes
    BY <1>1, <1>5, <2>2 DEF LoadHashes, Passes
  <2> QED  BY <2>1, <2>2
<1>7. Done' = {}
  BY <1>6 DEF Done
<1> QED  BY <1>3, <1>5, <1>6, <1>7 DEF DoneAreFirst, DoneAreGrouped

(* In an undisturbed run the two are linked exactly when they are a burst. *)
LEMMA LinkedIsBurst ==
    ASSUME GroupsInvariant, Compare, Undisturbed,
           NEW p \in pass.previous, NEW f, f = First, f \in Photos, p \in Photos, Earlier(p, f)
    PROVE  Linked(pass.time, pass.hash, p, f) <=> Burst(p, f)
<1>1. pass \in Passes /\ pass.at = "compare" /\ GroupingTypeOK /\ StagesAreApart
  BY DEF GroupsInvariant, FactsInv, GroupingBase, Compare
<1>2. pass.time[p] = shots[p].time /\ pass.time[f] = shots[f].time
  BY <1>1 DEF GroupsInvariant, PassIsTrue, StagesAreApart
<1>3. pass.hash[p] \in {Unknown, shots[p].hash} /\ pass.hash[f] \in {Unknown, shots[f].hash}
  BY DEF GroupsInvariant, PassIsTrue
<1>4. shots[p] \in Shots /\ shots[f] \in Shots
  BY <1>1 DEF GroupingTypeOK
<1>5. shots[p].hash \in Nat /\ shots[f].hash \in Nat
  BY <1>4, GroupingAssumption DEF Shots
<1>6. shots[p].time \in Int /\ shots[f].time \in Int
  <2>1. \A t \in Times \union {Absent}: t \in Int
    BY GroupingAssumption DEF Absent
  <2> QED  BY <1>4, <2>1 DEF Shots
<1>7. Threshold > 0 /\ Near(pass.time, p, f)
        => pass.hash[p] = shots[p].hash /\ pass.hash[f] = shots[f].hash
  <2>1. SUFFICES ASSUME Threshold > 0, Near(pass.time, p, f)
                 PROVE  pass.hash[p] # Unknown /\ pass.hash[f] # Unknown
    BY <1>3
  <2>2. Asked = {g \in pass.previous \union {First}: pass.hash[g] = Unknown}
    BY <2>1 DEF Asked
  <2> QED  BY <2>2 DEF Compare
<1>8. Near(pass.time, p, f) <=>
        /\ shots[p].time # Absent /\ shots[f].time # Absent
        /\ shots[f].time - shots[p].time \in -Gap..Gap
  <2>1. shots[p].time # Absent /\ shots[f].time # Absent => shots[p].time <= shots[f].time
    BY <1>6 DEF Earlier
  <2>2. Gap \in Nat
    BY GroupingAssumption
  <2> QED  BY <1>2, <1>6, <2>1, <2>2 DEF Near
<1>9. pass.hash[p] = shots[p].hash /\ pass.hash[f] = shots[f].hash
        => (Alike(pass.hash, p, f) <=> shots[f].hash - shots[p].hash \in -Threshold..Threshold)
  <2>1. Threshold \in Nat
    BY GroupingAssumption
  <2> QED  BY <1>5, <2>1 DEF Alike, Distance, Absent
<1>10. CASE Near(pass.time, p, f)
  BY <1>7, <1>8, <1>9, <1>10 DEF Linked, Burst
<1>11. CASE ~Near(pass.time, p, f)
  BY <1>8, <1>11 DEF Linked, Burst
<1> QED  BY <1>10, <1>11

(* The next photo is taken.                                                *)
LEMMA GroupsCompare ==
    ASSUME GroupsInvariant, Compare PROVE DoneAreFirst' /\ DoneAreGrouped'
<1>1. pass \in Passes /\ pass.at = "compare" /\ pass.left # {} /\ GroupingTypeOK
  BY DEF GroupsInvariant, FactsInv, GroupingBase, Compare
<1>2. SUFFICES ASSUME Undisturbed' PROVE DoneAreFirst' /\ DoneAreGrouped'
  BY DEF DoneAreFirst, DoneAreGrouped
<1>3. PICK f: f = First
  OBVIOUS
<1> DEFINE joins == {p \in pass.previous: Linked(pass.time, pass.hash, p, f)}
           groups == IF joins = {} THEN pass.groups \union {{f}}
                     ELSE {G \union (IF G \intersect joins = {} THEN {} ELSE {f}): G \in pass.groups}
<1>4. /\ pass'.left = pass.left \ {f} /\ pass'.previous = {f} /\ pass'.groups = groups
      /\ pass'.at = "compare" /\ pass'.clean = pass.clean /\ shots' = shots /\ mixed' = mixed
  BY <1>1, <1>3 DEF Compare, Passes
<1>5. Undisturbed
  BY <1>2, <1>4 DEF Undisturbed
<1>6. f \in pass.left /\ \A g \in pass.left \ {f}: Sorted(pass.time, f, g)
  BY <1>1, <1>3, FirstIsFirst
<1>7. f \in Photos /\ pass.left \subseteq Photos /\ f \notin Done /\ Done \subseteq Photos
  BY <1>1, <1>6 DEF Passes, Done
<1>8. \A g \in Photos: pass.time[g] = shots[g].time
  BY <1>1, <1>5 DEF GroupsInvariant, PassIsTrue, FactsInv, GroupingBase, StagesAreApart
<1>9. \A g \in pass.left \ {f}: Earlier(f, g)
  BY <1>6, <1>7, <1>8 DEF Sorted, Earlier
<1>10. \A d \in Done, g \in pass.left: Earlier(d, g)
  BY <1>1, <1>5 DEF GroupsInvariant, DoneAreFirst, Comparing
<1>11. Done' = Done \union {f}
  BY <1>4, <1>7 DEF Done
<1>12. \A g \in Photos \ (Done \union {f}): Earlier(f, g)
  BY <1>9 DEF Done
<1>13. \A d \in Done: Earlier(d, f)
  BY <1>6, <1>10
<1>14. DoneAreFirst'
  <2>1. \A d \in Done', g \in pass'.left: Earlier(d, g)
    BY <1>4, <1>9, <1>10, <1>11
  <2>2. \A d \in Done' \ {f}: Earlier(d, f)
    BY <1>11, <1>13
  <2>3. (\A d, g: Earlier(d, g)' <=> Earlier(d, g))
    BY <1>4 DEF Earlier
  <2> QED  BY <1>4, <1>11, <2>1, <2>2, <2>3 DEF DoneAreFirst
<1>15. pass.groups = Classes(Done)
  BY <1>1, <1>5, GroupsAreClasses DEF GroupsInvariant, Comparing
<1>16. groups = Classes(Done \union {f})
  <2>1. CASE Done = {}
    <3>1. pass.previous = {}
      BY <1>1, <1>5, <2>1 DEF GroupsInvariant, DoneAreFirst, Comparing
    <3>2. groups = {{f}}
      BY <1>15, <2>1, <3>1 DEF Classes
    <3>3. Class({f}, f) = {f}
      BY <1>1, <1>7, TogetherWithItself DEF Class
    <3>4. Classes({f}) = {{f}} /\ Done \union {f} = {f}
      BY <2>1, <3>3 DEF Classes
    <3> QED  BY <3>2, <3>4
  <2>2. CASE Done # {}
    <3>1. PICK p \in Done: pass.previous = {p} /\ \A d \in Done \ {p}: Earlier(d, p)
      BY <1>1, <1>5, <2>2 DEF GroupsInvariant, DoneAreFirst, Comparing
    <3>2. Linked(pass.time, pass.hash, p, f) <=> Burst(p, f)
      BY <1>3, <1>5, <1>7, <1>13, <3>1, LinkedIsBurst
    <3>3. /\ ~Burst(p, f) => Classes(Done \union {f}) = Classes(Done) \union {{f}}
          /\ Burst(p, f) => Classes(Done \union {f}) =
                {G \union (IF G \intersect {p} = {} THEN {} ELSE {f}): G \in Classes(Done)}
      BY <1>1, <1>7, <1>12, <1>13, <3>1, ClassesWithTheNext
    <3>4. CASE Burst(p, f)
      <4>1. joins = {p}
        BY <3>1, <3>2, <3>4
      <4>2. groups = {G \union (IF G \intersect {p} = {} THEN {} ELSE {f}): G \in pass.groups}
        BY <4>1
      <4> QED  BY <1>15, <3>3, <3>4, <4>2
    <3>5. CASE ~Burst(p, f)
      <4>1. joins = {}
        BY <3>1, <3>2, <3>5
      <4> QED  BY <1>15, <3>3, <3>5, <4>1
    <3> QED  BY <3>4, <3>5
  <2> QED  BY <2>1, <2>2
<1> HIDE DEF groups
<1>17. DoneAreGrouped'
  <2>1. PICK D: D = Done \union {f}
    OBVIOUS
  <2> QED  BY <1>4, <1>11, <1>16, <2>1, GroupedNext
<1> QED  BY <1>14, <1>17

LEMMA GroupsStep ==
    ASSUME GroupsInvariant, [GroupingNext]_groupingVars PROVE GroupsInvariant'
<1>1. pass \in Passes
  BY DEF GroupsInvariant, FactsInv, GroupingBase
<1>2. FactsInv' /\ PassIsTrue'
  BY FactsStep, PassStep DEF GroupsInvariant
<1>3. DoneAreFirst' /\ DoneAreGrouped'
  <2>1. CASE UNCHANGED groupingVars
    <3>1. shots' = shots /\ pass' = pass /\ mixed' = mixed
      BY <2>1 DEF groupingVars
    <3>2. DoneAreFirst'
      BY <3>1 DEF GroupsInvariant, DoneAreFirst, Undisturbed, Done, Comparing, Earlier
    <3>3. \A f, g: Together(f, g)' <=> Together(f, g)
      BY <3>1, TogetherStays
    <3>4. {{g \in Done': Together(f, g)'}: f \in Done'} = {{g \in Done: Together(f, g)}: f \in Done}
      BY <3>1, <3>3 DEF Done
    <3>5. (Undisturbed' <=> Undisturbed) /\ (Comparing' <=> Comparing)
      BY <3>1 DEF Undisturbed, Comparing
    <3>6. DoneAreGrouped'
      BY <3>1, <3>4, <3>5 DEF GroupsInvariant, DoneAreGrouped
    <3> QED  BY <3>2, <3>6
  <2>2. CASE LoadTimes
    BY <2>2, PassLoadTimes DEF GroupsInvariant
  <2>3. CASE ReadBatch
    BY <1>1, <2>3, GroupsStay DEF ReadBatch, GroupingNext, LoadTimes, Passes
  <2>4. CASE ReadSingle
    <3>1. /\ pass'.left = pass.left /\ pass'.previous = pass.previous
          /\ pass'.groups = pass.groups /\ pass'.at = pass.at /\ pass.at = "read"
      BY <1>1, <2>4 DEF ReadSingle, Passes
    <3> QED  BY <2>4, <3>1, GroupsStay DEF GroupingNext, LoadTimes
  <2>5. CASE StoreTimes \/ LoadHashes
    BY <2>5, GroupsBegin
  <2>6. CASE Hash
    <3>1. PICK f \in Photos: ComputeHash(f)
      BY <1>1, <2>6, HashIsOfAPhoto
    <3>2. /\ pass'.left = pass.left /\ pass'.previous = pass.previous
          /\ pass'.groups = pass.groups /\ pass'.at = pass.at /\ pass.at = "compare"
      BY <1>1, <2>6, <3>1 DEF ComputeHash, Passes, Hash
    <3> QED  BY <2>6, <3>2, GroupsStay DEF GroupingNext, LoadTimes
  <2>7. CASE Compare
    BY <2>7, GroupsCompare
  <2>8. CASE StoreHashes
    BY <1>1, <2>8, GroupsStay DEF StoreHashes, GroupingNext, LoadTimes, Passes
  <2>9. CASE ReplacePhoto
    BY <1>1, <2>9 DEF ReplacePhoto, DoneAreFirst, DoneAreGrouped, Undisturbed, Passes
  <2> QED
    BY <2>1, <2>2, <2>3, <2>4, <2>5, <2>6, <2>7, <2>8, <2>9 DEF GroupingNext
<1> QED  BY <1>2, <1>3 DEF GroupsInvariant

(* A run in which nothing failed and nothing was replaced makes the groups *)
(* of the definition, for every set of photos and whatever earlier runs    *)
(* left in the caches (Grouper.group).                                     *)
THEOREM GroupsAreTrue == GroupingSpec => []GroupsByDefinition
<1>1. GroupingInit => GroupsInvariant
  BY FactsStart, PassStart DEF GroupsInvariant
<1>2. GroupsInvariant => GroupsByDefinition
  <2>1. SUFFICES ASSUME GroupsInvariant, pass.at = "over", pass.clean, mixed = {}
                 PROVE  pass.groups = TrueGroups
    BY DEF GroupsByDefinition
  <2>2. Done = Photos
    BY <2>1 DEF GroupsInvariant, DoneAreGrouped, Undisturbed, Done
  <2> QED  BY <2>1, <2>2 DEF GroupsInvariant, DoneAreGrouped, Undisturbed, Comparing, TrueGroups
<1> QED  BY <1>1, <1>2, GroupsStep, PTL DEF GroupingSpec

-----------------------------------------------------------------------------
(* Selection.                                                              *)


JudgedQuality == [f \in Shoot |-> Quality(judgedBy[f], f)]

(* The row keeps the quality, or, before the photo is finalized, the       *)
(* decision is the quality still.                                          *)
QualityIsStored == \A f \in Shoot: StoredQuality(f) = Quality(judgedBy[f], f)

Follows(f) ==
    /\ settled[f] = "covered" => rows[f].decision = Selected(JudgedQuality, Mates(f), TRUE, f)
    /\ settled[f] = "plain" => rows[f].decision = JudgedQuality[f]

SelectionInv == SelectionTypeOK /\ QualityIsStored /\ SelectionFollowsQuality

LEMMA FollowsEach == SelectionFollowsQuality <=> \A f \in Shoot: Follows(f)
  BY DEF SelectionFollowsQuality, Follows, JudgedQuality

LEMMA QualityType ==
    ASSUME NEW p, NEW f PROVE Quality(p, f) \in Decisions
  BY DEF Quality, Decisions

LEMMA SelectedType ==
    ASSUME NEW q, NEW G, NEW on, NEW f, q[f] \in Decisions
    PROVE  Selected(q, G, on, f) \in Decisions
  BY DEF Selected, Decisions

LEMMA MatesProperties ==
    ASSUME SelectionTypeOK, NEW f \in Shoot
    PROVE  /\ f \in Mates(f) /\ Mates(f) \subseteq Shoot
           /\ \A g \in Mates(f): f \in Mates(g)
  BY DEF Mates

LEMMA SelectedPlain ==
    ASSUME NEW q, NEW G, NEW f PROVE Selected(q, G, FALSE, f) = q[f]
  BY DEF Selected

LEMMA QualityStays ==
    ASSUME measured' = measured PROVE \A p, f: Quality(p, f)' = Quality(p, f)
  BY DEF Quality

(* A photo keeps following its quality where its group and what was judged *)
(* of it are left alone.                                                   *)
LEMMA FollowsStays ==
    ASSUME SelectionTypeOK, measured' = measured, NEW f \in Shoot, Follows(f),
           Mates(f)' = Mates(f),
           \A g \in Mates(f): rows'[g] = rows[g] /\ judgedBy'[g] = judgedBy[g],
           settled'[f] \in {"no", settled[f]}
    PROVE  Follows(f)'
<1>1. PICK q: q = JudgedQuality
  OBVIOUS
<1>2. PICK r: r = JudgedQuality'
  OBVIOUS
<1>3. PICK G: G = Mates(f)
  OBVIOUS
<1>4. f \in G /\ G \subseteq Shoot
  BY <1>3, MatesProperties
<1>5. \A g \in G: q[g] = r[g]
  <2>1. ASSUME NEW g \in G PROVE q[g] = r[g]
    <3>1. q[g] = Quality(judgedBy[g], g)
      BY <1>1, <1>4 DEF JudgedQuality
    <3>2. r[g] = Quality(judgedBy[g], g)'
      BY <1>2, <1>4 DEF JudgedQuality
    <3>3. judgedBy'[g] = judgedBy[g]
      BY <1>3
    <3>4. Quality(judgedBy[g], g)' = Quality(judgedBy[g], g)
      BY <3>3 DEF Quality
    <3> QED  BY <3>1, <3>2, <3>4
  <2> QED  BY <2>1
<1>6. Selected(q, G, TRUE, f) = Selected(r, G, TRUE, f)
  <2>1. (\A g \in G: q[g] # "keep") <=> (\A g \in G: r[g] # "keep")
    BY <1>5
  <2>2. q[f] = r[f]
    BY <1>4, <1>5
  <2> QED  BY <2>1, <2>2 DEF Selected
<1>8. Selected(JudgedQuality, Mates(f), TRUE, f)' = Selected(r, G, TRUE, f)
  <2>1. Mates(f)' = G
    BY <1>3
  <2> QED  BY <1>2, <2>1 DEF Selected, Better
<1>9. rows'[f] = rows[f]
  BY <1>3, <1>4
<1>10. settled'[f] = "covered" => rows'[f].decision = Selected(r, G, TRUE, f)
  BY <1>1, <1>3, <1>6, <1>9 DEF Follows
<1>11. settled'[f] = "plain" => rows'[f].decision = r[f]
  BY <1>1, <1>4, <1>5, <1>9 DEF Follows
<1> QED  BY <1>2, <1>8, <1>10, <1>11 DEF Follows

-----------------------------------------------------------------------------
(* The initial states, and each step.                                      *)

LEMMA ScoredRowType ==
    ASSUME NEW f PROVE /\ ScoredRow(f) \in Row /\ ScoredRow(f).quality = "none"
                       /\ ScoredRow(f).group = NoGroup
                       /\ ScoredRow(f).decision = Quality(Judge(f), f)
  BY QualityType DEF ScoredRow, Row, NoGroup

LEMMA JudgeType ==
    ASSUME policy \in Policies, NEW f PROVE Judge(f) \in Policies \union {Screening}
  BY DEF Judge

LEMMA SelectionStart ==
    ASSUME SelectionInit PROVE SelectionInv
<1> USE DEF SelectionInit
<1>1. \A f \in Shoot: rows[f] = ScoredRow(f) /\ judgedBy[f] = Judge(f) /\ settled[f] = "no"
  OBVIOUS
<1>2. SelectionTypeOK
  BY ScoredRowType, JudgeType, SelectionAssumption DEF SelectionTypeOK
<1>3. QualityIsStored
  BY <1>1, ScoredRowType DEF QualityIsStored, StoredQuality
<1>4. \A f \in Shoot: Follows(f)
  BY <1>1 DEF Follows
<1> QED  BY <1>2, <1>3, <1>4, FollowsEach DEF SelectionInv

LEMMA UnsettledMember ==
    ASSUME NEW T, NEW f PROVE f \in Unsettled(T) <=> \E t \in T: f \in Mates(t)
  BY DEF Unsettled

LEMMA FollowsEachNext ==
    ASSUME \A f \in Shoot: Follows(f)' PROVE SelectionFollowsQuality'
  BY DEF SelectionFollowsQuality, Follows, JudgedQuality

LEMMA SelectionScore ==
    ASSUME SelectionInv, NEW f \in Shoot, Score(f) PROVE SelectionInv'
<1> USE DEF SelectionInv
<1>1. /\ rows \in [Shoot -> Row] /\ settled \in [Shoot -> {"no", "covered", "plain"}]
      /\ judgedBy \in [Shoot -> Policies \union {Screening}] /\ policy \in Policies
  BY DEF SelectionTypeOK
<1>2. /\ rows' = [rows EXCEPT ![f] = ScoredRow(f)]
      /\ judgedBy' = [judgedBy EXCEPT ![f] = Judge(f)]
      /\ settled' = [g \in Shoot |-> IF g \in Unsettled({f}) THEN "no" ELSE settled[g]]
      /\ UNCHANGED <<measured, policy, coverage>>
  BY DEF Score, Settle
<1>3. SelectionTypeOK'
  <2>1. rounds' \in 0..MaxRounds
    BY SelectionAssumption DEF Score, Round, SelectionTypeOK
  <2>2. /\ rows' \in [Shoot -> Row] /\ judgedBy' \in [Shoot -> Policies \union {Screening}]
        /\ settled' \in [Shoot -> {"no", "covered", "plain"}]
    BY <1>1, <1>2, ScoredRowType, JudgeType
  <2> QED  BY <1>2, <2>1, <2>2 DEF SelectionTypeOK
<1>4. ASSUME NEW g \in Shoot PROVE StoredQuality(g)' = Quality(judgedBy[g], g)'
  <2>1. CASE g = f
    <3>1. rows'[g] = ScoredRow(f) /\ judgedBy'[g] = Judge(f)
      BY <1>1, <1>2, <2>1
    <3>2. Quality(Judge(f), f) = Quality(judgedBy[g], g)'
      BY <1>2, <2>1, <3>1 DEF Quality
    <3> QED  BY <3>1, <3>2, ScoredRowType DEF StoredQuality
  <2>2. CASE g # f
    <3>1. rows'[g] = rows[g] /\ judgedBy'[g] = judgedBy[g]
      BY <1>1, <1>2, <2>2
    <3> QED  BY <1>2, <3>1 DEF StoredQuality, Quality, QualityIsStored
  <2> QED  BY <2>1, <2>2
<1>5. ASSUME NEW g \in Shoot PROVE Follows(g)'
  <2>1. CASE g \in Unsettled({f})
    BY <1>2, <2>1 DEF Follows
  <2>2. CASE g \notin Unsettled({f})
    <3>1. g \notin Mates(f) /\ f \notin Mates(g) /\ g # f
      BY <2>2, UnsettledMember, MatesProperties
    <3>2. \A h \in Shoot \ {f}: rows'[h] = rows[h] /\ judgedBy'[h] = judgedBy[h]
      BY <1>1, <1>2
    <3>3. Mates(g)' = Mates(g)
      <4>1. rows'[f].group = NoGroup /\ rows'[g] = rows[g]
        BY <1>1, <1>2, <3>1, ScoredRowType
      <4> QED  BY <3>1, <3>2, <4>1 DEF Mates
    <3>4. \A h \in Mates(g): rows'[h] = rows[h] /\ judgedBy'[h] = judgedBy[h]
      BY <3>1, <3>2, MatesProperties
    <3>5. settled'[g] = settled[g]
      BY <1>2, <2>2
    <3> QED  BY <1>2, <3>3, <3>4, <3>5, FollowsStays, FollowsEach
  <2> QED  BY <2>1, <2>2
<1> QED  BY <1>3, <1>4, <1>5, FollowsEachNext DEF QualityIsStored

LEMMA SelectionConfigure ==
    ASSUME SelectionInv, Configure PROVE SelectionInv'
<1>1. UNCHANGED <<measured, rows, judgedBy, settled>>
  BY DEF Configure
<1>2. SelectionTypeOK'
  BY <1>1, SelectionAssumption DEF SelectionInv, SelectionTypeOK, Configure, Round
<1>3. QualityIsStored'
  BY <1>1 DEF SelectionInv, QualityIsStored, StoredQuality, Quality
<1>4. ASSUME NEW f \in Shoot PROVE Follows(f)'
  <2>1. Mates(f)' = Mates(f)
    BY <1>1 DEF Mates
  <2> QED  BY <1>1, <2>1, FollowsStays, FollowsEach DEF SelectionInv
<1> QED  BY <1>2, <1>3, <1>4, FollowsEachNext DEF SelectionInv

LEMMA RowOf ==
    ASSUME NEW G \in SUBSET Shoot, NEW a \in Decisions, NEW d \in Decisions
    PROVE  [group |-> G, quality |-> a, decision |-> d] \in Row
  BY DEF Row

LEMMA SelectionFinalize ==
    ASSUME SelectionInv, NEW G \in SUBSET Shoot, Finalize(G) PROVE SelectionInv'
<1> USE DEF SelectionInv
<1>1. /\ rows \in [Shoot -> Row] /\ settled \in [Shoot -> {"no", "covered", "plain"}]
      /\ judgedBy \in [Shoot -> Policies \union {Screening}] /\ coverage \in BOOLEAN
  BY DEF SelectionTypeOK
<1>2. UNCHANGED <<measured, policy, coverage, judgedBy>>
  BY DEF Finalize
<1>3. PICK q: q = JudgedQuality
  OBVIOUS
<1>4. [f \in Shoot |-> StoredQuality(f)] = q
  BY <1>3 DEF QualityIsStored, JudgedQuality
<1>5. PICK members \in (SUBSET G) \ {{}}: \E written \in SUBSET members:
         /\ rows' = [f \in Shoot |->
               IF f \in written
               THEN [group |-> G, quality |-> q[f], decision |-> Selected(q, members, coverage, f)]
               ELSE rows[f]]
         /\ Settle(members \union {f \in Shoot: rows[f].group = G},
                   IF {f \in Shoot: rows'[f].group = G} = members /\ written = members
                   THEN written ELSE {},
                   IF coverage THEN "covered" ELSE "plain")
  BY <1>4 DEF Finalize
<1>6. PICK written \in SUBSET members:
         /\ rows' = [f \in Shoot |->
               IF f \in written
               THEN [group |-> G, quality |-> q[f], decision |-> Selected(q, members, coverage, f)]
               ELSE rows[f]]
         /\ Settle(members \union {f \in Shoot: rows[f].group = G},
                   IF {f \in Shoot: rows'[f].group = G} = members /\ written = members
                   THEN written ELSE {},
                   IF coverage THEN "covered" ELSE "plain")
  BY <1>5
<1> DEFINE touched == members \union {f \in Shoot: rows[f].group = G}
           whole == IF {f \in Shoot: rows'[f].group = G} = members /\ written = members
                    THEN written ELSE {}
           how == IF coverage THEN "covered" ELSE "plain"
<1>7. settled' = [f \in Shoot |-> IF f \in whole THEN how
                                  ELSE IF f \in Unsettled(touched) THEN "no" ELSE settled[f]]
  BY <1>6 DEF Settle
<1>8. /\ members \subseteq Shoot /\ written \subseteq members /\ members # {} /\ G # NoGroup
      /\ members \subseteq G
  BY DEF NoGroup
<1>9. \A f \in Shoot: q[f] \in Decisions /\ q[f] = Quality(judgedBy[f], f)
  BY <1>3, QualityType DEF JudgedQuality
<1>10. ASSUME NEW f \in written
       PROVE  /\ rows'[f].group = G /\ rows'[f].quality = q[f]
              /\ rows'[f].decision = Selected(q, members, coverage, f)
              /\ rows'[f] \in Row
  <2>1. PICK d: d = Selected(q, members, coverage, f)
    OBVIOUS
  <2>2. rows'[f] = [group |-> G, quality |-> q[f], decision |-> d]
    BY <1>6, <1>8, <2>1
  <2>3. d \in Decisions /\ q[f] \in Decisions
    BY <1>8, <1>9, <2>1, SelectedType
  <2> QED  BY <2>1, <2>2, <2>3, RowOf
<1>11. \A f \in Shoot \ written: rows'[f] = rows[f]
  BY <1>6
<1>12. SelectionTypeOK'
  <2>1. rounds' \in 0..MaxRounds
    BY SelectionAssumption DEF Finalize, Round, SelectionTypeOK
  <2>2. rows' \in [Shoot -> Row]
    <3>1. \A f \in Shoot: rows'[f] \in Row
      BY <1>1, <1>10, <1>11
    <3>2. rows' = [f \in Shoot |-> rows'[f]]
      BY <1>6
    <3> QED  BY <3>1, <3>2
  <2>3. settled' \in [Shoot -> {"no", "covered", "plain"}]
    BY <1>1, <1>7
  <2> QED  BY <1>2, <2>1, <2>2, <2>3 DEF SelectionTypeOK
<1>13. QualityIsStored'
  <2>1. ASSUME NEW f \in Shoot PROVE StoredQuality(f)' = Quality(judgedBy[f], f)
    <3>1. CASE f \in written
      BY <1>9, <1>10, <3>1 DEF StoredQuality, Decisions
    <3>2. CASE f \notin written
      BY <1>11, <3>2 DEF StoredQuality, QualityIsStored
    <3> QED  BY <3>1, <3>2
  <2> QED  BY <1>2, <2>1 DEF QualityIsStored, Quality
<1>14. JudgedQuality' = q
  BY <1>2, <1>3 DEF JudgedQuality, Quality
<1>15. ASSUME NEW f \in Shoot PROVE Follows(f)'
  <2>1. CASE f \in whole
    <3>1. /\ {g \in Shoot: rows'[g].group = G} = members /\ written = members /\ f \in written
      BY <2>1
    <3>2. Mates(f)' = members
      BY <1>8, <1>10, <3>1 DEF Mates
    <3>3. rows'[f].decision = Selected(q, members, coverage, f) /\ settled'[f] = how
      BY <1>7, <1>10, <2>1, <3>1
    <3>5. CASE coverage
      <4>1. coverage = TRUE
        BY <1>1, <3>5
      <4>2. rows'[f].decision = Selected(JudgedQuality, Mates(f), TRUE, f)'
        BY <1>2, <1>14, <3>2, <3>3, <4>1 DEF Selected, Better
      <4>3. settled'[f] = "covered"
        BY <3>3, <3>5
      <4> QED  BY <4>2, <4>3 DEF Follows
    <3>6. CASE ~coverage
      <4>0. coverage = FALSE
        BY <1>1, <3>6
      <4>1. rows'[f].decision = q[f]
        BY <3>3, <4>0, SelectedPlain
      <4> QED  BY <1>14, <3>3, <3>6, <4>1 DEF Follows
    <3> QED  BY <3>5, <3>6
  <2>2. CASE f \notin whole /\ f \in Unsettled(touched)
    BY <1>7, <2>2 DEF Follows
  <2>3. CASE f \notin whole /\ f \notin Unsettled(touched)
    <3>1. \A t \in touched: f \notin Mates(t)
      BY <2>3, UnsettledMember
    <3>2. f \notin members /\ rows[f].group # G
      BY <1>8, <3>1, MatesProperties
    <3>3. \A g \in Mates(f): g \in Shoot /\ g \notin written
      BY <1>8, <3>1, MatesProperties
    <3>4. \A g \in Mates(f): rows'[g] = rows[g]
      BY <1>11, <3>3
    <3>5. Mates(f)' = Mates(f)
      <4>1. rows'[f] = rows[f]
        BY <1>8, <1>11, <3>2
      <4>2. CASE rows[f].group = NoGroup
        BY <4>1, <4>2 DEF Mates
      <4>3. CASE rows[f].group # NoGroup
        <5>1. ASSUME NEW g \in written
              PROVE  rows'[g].group # rows[f].group /\ rows[g].group # rows[f].group
          <6>1. rows'[g].group # rows[f].group
            BY <1>10, <3>2
          <6>2. g \in Shoot /\ g \notin Mates(f)
            BY <1>8, <3>3
          <6> QED  BY <4>3, <6>1, <6>2 DEF Mates
        <5>2. \A g \in Shoot: rows'[g].group = rows[f].group <=> rows[g].group = rows[f].group
          BY <1>11, <5>1
        <5> QED  BY <4>1, <4>3, <5>2 DEF Mates
      <4> QED  BY <4>2, <4>3
    <3>6. settled'[f] = settled[f]
      BY <1>7, <2>3
    <3> QED  BY <1>2, <3>4, <3>5, <3>6, FollowsStays, FollowsEach
  <2> QED  BY <2>1, <2>2, <2>3
<1> QED  BY <1>12, <1>13, <1>15, FollowsEachNext

LEMMA SelectionRescore ==
    ASSUME SelectionInv, NEW scenes, Rescore(scenes) PROVE SelectionInv'
<1> USE DEF SelectionInv
<1>1. /\ rows \in [Shoot -> Row] /\ settled \in [Shoot -> {"no", "covered", "plain"}]
      /\ judgedBy \in [Shoot -> Policies \union {Screening}]
      /\ coverage \in BOOLEAN /\ policy \in Policies
  BY DEF SelectionTypeOK
<1>2. UNCHANGED <<measured, policy, coverage>>
  BY DEF Rescore
<1>3. PICK chosen: chosen = {f \in Shoot: SceneOf[f] \in scenes}
  OBVIOUS
<1>4. PICK touched: touched = IF coverage THEN Unsettled(chosen) ELSE chosen
  OBVIOUS
<1>5. PICK q: q = [f \in Shoot |-> IF f \in chosen THEN Quality(policy, f) ELSE StoredQuality(f)]
  OBVIOUS
<1>6. /\ rows' = [f \in Shoot |->
            IF f \in touched
            THEN [rows[f] EXCEPT !.quality = q[f], !.decision = Selected(q, Mates(f), coverage, f)]
            ELSE rows[f]]
      /\ judgedBy' = [f \in Shoot |-> IF f \in chosen THEN policy ELSE judgedBy[f]]
      /\ Settle(touched, touched, IF coverage THEN "covered" ELSE "plain")
  BY <1>3, <1>4, <1>5 DEF Rescore
<1>7. settled' = [f \in Shoot |-> IF f \in touched THEN (IF coverage THEN "covered" ELSE "plain")
                                  ELSE IF f \in Unsettled(touched) THEN "no" ELSE settled[f]]
  BY <1>6 DEF Settle
<1>8. /\ chosen \subseteq Shoot /\ chosen \subseteq touched /\ touched \subseteq Shoot
      /\ touched \subseteq Unsettled(touched)
  BY <1>3, <1>4, MatesProperties DEF Unsettled
<1>9. \A f \in Shoot: q[f] \in Decisions
  BY <1>5, QualityType DEF QualityIsStored
<1>10. \A f \in Shoot: q[f] = Quality(judgedBy[f], f)'
  <2>1. ASSUME NEW f \in Shoot PROVE q[f] = Quality(judgedBy[f], f)'
    <3>1. CASE f \in chosen
      <4>1. judgedBy'[f] = policy /\ q[f] = Quality(policy, f)
        BY <1>5, <1>6, <3>1
      <4> QED  BY <1>2, <4>1 DEF Quality
    <3>2. CASE f \notin chosen
      <4>1. judgedBy'[f] = judgedBy[f] /\ q[f] = Quality(judgedBy[f], f)
        BY <1>5, <1>6, <3>2 DEF QualityIsStored
      <4> QED  BY <1>2, <4>1 DEF Quality
    <3> QED  BY <3>1, <3>2
  <2> QED  BY <2>1
<1>11. ASSUME NEW f \in touched
       PROVE  /\ rows'[f].quality = q[f] /\ rows'[f].group = rows[f].group
              /\ rows'[f].decision = Selected(q, Mates(f), coverage, f)
              /\ rows'[f] \in Row
  <2>1. PICK d: d = Selected(q, Mates(f), coverage, f)
    OBVIOUS
  <2>2. rows'[f] = [rows[f] EXCEPT !.quality = q[f], !.decision = d]
    BY <1>6, <1>8, <2>1
  <2>3. rows[f] \in Row /\ q[f] \in Decisions /\ d \in Decisions
    BY <1>1, <1>8, <1>9, <2>1, SelectedType
  <2>4. rows'[f] = [group |-> rows[f].group, quality |-> q[f], decision |-> d]
    BY <2>2, <2>3 DEF Row
  <2>5. rows[f].group \in SUBSET Shoot
    BY <2>3 DEF Row
  <2> QED  BY <2>1, <2>3, <2>4, <2>5, RowOf
<1>12. \A f \in Shoot \ touched: rows'[f] = rows[f] /\ judgedBy'[f] = judgedBy[f]
  BY <1>6, <1>8
<1>13. SelectionTypeOK'
  <2>1. rounds' \in 0..MaxRounds
    <3>1. rounds < MaxRounds /\ rounds' = rounds + 1
      BY DEF Rescore, Round
    <3> QED  BY <3>1, SelectionAssumption DEF SelectionTypeOK
  <2>2. rows' \in [Shoot -> Row]
    <3>1. \A f \in Shoot: rows'[f] \in Row
      BY <1>1, <1>11, <1>12
    <3>2. rows' = [f \in Shoot |-> rows'[f]]
      BY <1>6
    <3> QED  BY <3>1, <3>2
  <2>3. settled' \in [Shoot -> {"no", "covered", "plain"}]
    BY <1>1, <1>7
  <2>4. judgedBy' \in [Shoot -> Policies \union {Screening}]
    BY <1>1, <1>6
  <2> QED  BY <1>2, <2>1, <2>2, <2>3, <2>4 DEF SelectionTypeOK
<1>14. QualityIsStored'
  <2>1. ASSUME NEW f \in Shoot PROVE StoredQuality(f)' = q[f]
    <3>1. CASE f \in touched
      BY <1>9, <1>11, <3>1 DEF StoredQuality, Decisions
    <3>2. CASE f \notin touched
      <4>1. q[f] = StoredQuality(f)
        BY <1>5, <1>8, <3>2
      <4> QED  BY <1>12, <3>2, <4>1 DEF StoredQuality
    <3> QED  BY <3>1, <3>2
  <2> QED  BY <1>10, <2>1 DEF QualityIsStored
<1>15. \A f \in Shoot: rows'[f].group = rows[f].group
  BY <1>11, <1>12
<1>16. \A f \in Shoot: Mates(f)' = Mates(f)
  BY <1>15 DEF Mates
<1>17. JudgedQuality' = [f \in Shoot |-> Quality(judgedBy[f], f)']
  BY DEF JudgedQuality
<1>18. \A f \in Shoot: JudgedQuality'[f] = q[f]
  BY <1>10, <1>17
<1>19. JudgedQuality' = q
  <2>1. q = [f \in Shoot |-> q[f]]
    BY <1>5
  <2>2. [f \in Shoot |-> Quality(judgedBy[f], f)'] = [f \in Shoot |-> q[f]]
    BY <1>10
  <2> QED  BY <1>17, <2>1, <2>2
<1>20. ASSUME NEW f \in Shoot PROVE Follows(f)'
  <2>1. CASE f \in touched
    <3>1. settled'[f] = (IF coverage THEN "covered" ELSE "plain")
      BY <1>7, <2>1
    <3>2. rows'[f].decision = Selected(q, Mates(f), coverage, f)
      BY <1>11, <2>1
    <3>3. CASE coverage
      <4>1. rows'[f].decision = Selected(JudgedQuality, Mates(f), TRUE, f)'
        <5>1. rows'[f].decision = Selected(q, Mates(f), TRUE, f)
          BY <1>1, <3>2, <3>3
        <5>2. Mates(f)' = Mates(f)
          BY <1>16
        <5> QED  BY <1>2, <1>19, <5>1, <5>2 DEF Selected, Better
      <4> QED  BY <3>1, <3>3, <4>1 DEF Follows
    <3>4. CASE ~coverage
      <4>0. coverage = FALSE
        BY <1>1, <3>4
      <4>1. rows'[f].decision = q[f]
        BY <3>2, <4>0, SelectedPlain
      <4> QED  BY <1>19, <3>1, <3>4, <4>1 DEF Follows
    <3> QED  BY <3>3, <3>4
  <2>2. CASE f \notin touched /\ f \in Unsettled(touched)
    BY <1>7, <2>2 DEF Follows
  <2>3. CASE f \notin Unsettled(touched)
    <3>1. \A t \in touched: f \notin Mates(t)
      BY <2>3, UnsettledMember
    <3>2. \A g \in Mates(f): g \in Shoot /\ g \notin touched
      BY <1>8, <3>1, MatesProperties
    <3>3. \A g \in Mates(f): rows'[g] = rows[g] /\ judgedBy'[g] = judgedBy[g]
      BY <1>12, <3>2
    <3>4. settled'[f] = settled[f]
      BY <1>7, <1>8, <2>3
    <3> QED  BY <1>2, <1>16, <3>3, <3>4, FollowsStays, FollowsEach
  <2> QED  BY <2>1, <2>2, <2>3
<1> QED  BY <1>13, <1>14, <1>20, FollowsEachNext

LEMMA SelectionStep ==
    ASSUME SelectionInv, [SelectionNext]_selectionVars PROVE SelectionInv'
<1>1. CASE UNCHANGED selectionVars
  <2>1. UNCHANGED <<measured, rows, policy, coverage, rounds, judgedBy, settled>>
    BY <1>1 DEF selectionVars
  <2>2. SelectionTypeOK' /\ QualityIsStored'
    BY <2>1 DEF SelectionInv, SelectionTypeOK, QualityIsStored, StoredQuality, Quality
  <2>3. ASSUME NEW f \in Shoot PROVE Follows(f)'
    <3>1. Mates(f)' = Mates(f)
      BY <2>1 DEF Mates
    <3> QED  BY <2>1, <3>1, FollowsStays, FollowsEach DEF SelectionInv
  <2> QED  BY <2>2, <2>3, FollowsEachNext DEF SelectionInv
<1>2. CASE \E P \in Partitions: \E G \in P: Finalize(G)
  <2>1. PICK P \in Partitions: \E G \in P: Finalize(G)
    BY <1>2
  <2>2. PICK G \in P: Finalize(G)
    BY <2>1
  <2>3. G \in SUBSET Shoot
    BY <2>1, <2>2, SelectionAssumption
  <2> QED  BY <2>2, <2>3, SelectionFinalize
<1>3. CASE \E f \in Shoot: Score(f)
  BY <1>3, SelectionScore
<1>4. CASE Rescore({SceneOf[f]: f \in Shoot}) \/ \E f \in Shoot: Rescore({SceneOf[f]})
  BY <1>4, SelectionRescore
<1>5. CASE Configure
  BY <1>5, SelectionConfigure
<1> QED  BY <1>1, <1>2, <1>3, <1>4, <1>5 DEF SelectionNext

(* Rows, decisions and the record of who judged them keep their types.     *)
THEOREM SelectionTypeCorrect == SelectionSpec => []SelectionTypeOK
<1>1. SelectionInv => SelectionTypeOK
  BY DEF SelectionInv
<1> QED  BY <1>1, SelectionStart, SelectionStep, PTL DEF SelectionSpec

(* Selection can be replayed: where a group was last selected as a whole,  *)
(* its decisions are those of the stored quality, whatever earlier runs,   *)
(* partial writes, regroupings and rescores of single scenes did           *)
(* (apply_group_best_candidate_review, RescoreService.run).                *)
THEOREM SelectionReplays == SelectionSpec => []SelectionFollowsQuality
<1>1. SelectionInv => SelectionFollowsQuality
  BY DEF SelectionInv
<1> QED  BY <1>1, SelectionStart, SelectionStep, PTL DEF SelectionSpec

(* The quality that coverage and scene-wise rescores start from is never   *)
(* lost under a selection: it is that of the policy that last judged it.   *)
THEOREM QualityIsKept == SelectionSpec => []QualityIsStored
<1>1. SelectionInv => QualityIsStored
  BY DEF SelectionInv
<1> QED  BY <1>1, SelectionStart, SelectionStep, PTL DEF SelectionSpec

(* The caches and the groups together, as the runs check them: for every   *)
(* number of photos, every gap and every threshold (Grouper.group).        *)
THEOREM GroupsAlwaysHold == GroupingSpec => []GroupsHold
<1>1. CachedFactsHold /\ GroupsByDefinition => GroupsHold
  BY DEF GroupsHold
<1> QED  BY <1>1, CachesAreTrue, GroupsAreTrue, PTL

-----------------------------------------------------------------------------
(* ScorePolicy: rescore and run                                            *)

(* calibrate_signals_for_rescore, under any settings.                      *)
RecalibratedBy(sig, scene, s) ==
    [sig EXCEPT !.effective = IF sig.raw = None THEN None
                              ELSE Calibrated(sig.raw, scene, "", 0, s)]

(* The row keeps the signals of its last run, and its summary is that run's *)
(* or the one a rescore made of them.                                      *)
PolicyInv ==
    /\ verdict = [summary |-> verdict.summary, signals |-> Signals(seen, scored),
                   scene |-> Scene(seen, scored)]
    /\ \/ judged = scored /\ verdict.summary = Judgement(seen, scored)
       \/ verdict.summary = Summary(RecalibratedBy(verdict.signals, verdict.scene, judged),
                                    verdict.scene, judged)

(* Pixels, by the parts of the settings it reads.                          *)
PixelsBy(m, w, f) ==
    LET cpu == {d \in {"exposure", "sharpness"}: m.cpu[d] # None}
        mean == Rounded(Total([d \in cpu |-> m.cpu[d] * w[d]]), Total([d \in cpu |-> w[d]]))
        caps == {f[d]: d \in {e \in cpu: m.cpu[e] < f[e]}}
    IN IF cpu = {} THEN 0
       ELSE CHOOSE x \in caps \union {mean}: \A y \in caps \union {mean}: x <= y

(* The pixels are judged by the weights and the floors alone.              *)
LEMMA PixelsAreOfWeights ==
    ASSUME NEW m, NEW s PROVE Pixels(m, s) = PixelsBy(m, s.weight, s.floor)
  BY DEF Pixels, PixelsBy

(* What a photo's measurements come to depends on the settings that decide *)
(* what is measured, but for the calibrated score.                         *)
LEMMA SameMeasuring ==
    ASSUME NEW m, NEW s, NEW t, Measuring(s) = Measuring(t)
    PROVE  /\ s.measure = t.measure /\ s.guard = t.guard /\ s.vision = t.vision
           /\ s.portrait = t.portrait /\ s.screening = t.screening
           /\ Stage(m, s) = Stage(m, t) /\ Vision(m, s) = Vision(m, t)
           /\ Scene(m, s) = Scene(m, t)
           /\ Technical(m, s) = Technical(m, t)
           /\ FocusIntegrity(m, s) = FocusIntegrity(m, t)
<1>1. /\ s.measure = t.measure /\ s.guard = t.guard /\ s.vision = t.vision
      /\ s.portrait = t.portrait /\ s.screening = t.screening /\ s.tier1 = t.tier1
      /\ s.tier2 = t.tier2 /\ s.weight = t.weight /\ s.floor = t.floor
  BY DEF Measuring
<1>2. Pixels(m, s) = Pixels(m, t)
  BY <1>1, PixelsAreOfWeights
<1>3. Stage(m, s) = Stage(m, t)
  BY <1>1, <1>2 DEF Stage
<1>4. Vision(m, s) = Vision(m, t)
  BY <1>1, <1>3 DEF Vision
<1>5. Scene(m, s) = Scene(m, t)
  BY <1>4 DEF Scene
<1>6. Clarity(m, s) = Clarity(m, t) /\ Exposure(m, s) = Exposure(m, t)
  BY <1>4 DEF Clarity, Exposure
<1>7. FocusIntegrity(m, s) = FocusIntegrity(m, t)
  BY <1>1, <1>3, <1>4, <1>6 DEF FocusIntegrity
<1>8. ClarityProxy(m, s) = ClarityProxy(m, t)
  BY <1>6, <1>7 DEF ClarityProxy
<1>9. Technical(m, s) = Technical(m, t)
  BY <1>6, <1>7, <1>8 DEF Technical
<1> QED  BY <1>1, <1>3, <1>4, <1>5, <1>7, <1>9

(* Where a run does not calibrate by the object it detects, the detection  *)
(* makes no difference.                                                    *)
LEMMA DetectionAside ==
    ASSUME NEW raw, NEW scene, NEW target, NEW confidence, NEW s,
           Profile(scene, target, confidence, s) # target
    PROVE  Calibrated(raw, scene, "", 0, s) = Calibrated(raw, scene, target, confidence, s)
<1>1. ~Labelled("", s)
  BY DEF Labelled
<1>2. Profile(scene, "", 0, s) = Profile(scene, target, confidence, s)
  BY <1>1 DEF Profile
<1> QED  BY <1>2 DEF Calibrated

(* Calibrating the stored signals again gives those that a run under these *)
(* settings would have found.                                              *)
LEMMA RecalibratedAreFound ==
    ASSUME NEW m, NEW s, NEW t, Measuring(s) = Measuring(t),
           Profile(m.scene, m.target, m.confidence, s) # m.target
    PROVE  RecalibratedBy(Signals(m, t), Scene(m, t), s) = Signals(m, s)
<1> DEFINE learned == Vision(m, t) /\ m.learned # None
           sig == Signals(m, t)
<1>1. /\ s.measure = t.measure /\ s.vision = t.vision
      /\ s.portrait = t.portrait /\ s.screening = t.screening
      /\ Stage(m, s) = Stage(m, t) /\ Vision(m, s) = Vision(m, t)
      /\ Technical(m, s) = Technical(m, t) /\ FocusIntegrity(m, s) = FocusIntegrity(m, t)
  BY SameMeasuring
<1>2. sig.raw = IF learned THEN m.learned ELSE None
  BY DEF Signals
<1>3. (IF sig.raw = None THEN None ELSE Calibrated(sig.raw, Scene(m, t), "", 0, s))
      = IF learned THEN Calibrated(m.learned, m.scene, m.target, m.confidence, s) ELSE None
  <2>1. CASE learned
    <3>1. Scene(m, t) = m.scene
      BY <2>1 DEF Scene
    <3>2. Calibrated(m.learned, m.scene, "", 0, s)
          = Calibrated(m.learned, m.scene, m.target, m.confidence, s)
      BY DetectionAside
    <3> QED  BY <1>2, <2>1, <3>1, <3>2
  <2>2. CASE ~learned
    BY <1>2, <2>2
  <2> QED  BY <2>1, <2>2
<1>4. [d \in Dims |-> IF Vision(m, s) THEN m.dims[d] ELSE None]
      = [d \in Dims |-> IF Vision(m, t) THEN m.dims[d] ELSE None]
  BY <1>1
<1>5. /\ Signals(m, s).technical = sig.technical /\ Signals(m, s).subject = sig.subject
      /\ Signals(m, s).prior = sig.prior /\ Signals(m, s).portrait = sig.portrait
      /\ Signals(m, s).dims = sig.dims /\ Signals(m, s).raw = sig.raw
  BY <1>1, <1>4, Zenon DEF Signals
<1>6. Signals(m, s).effective
      = IF learned THEN Calibrated(m.learned, m.scene, m.target, m.confidence, s) ELSE None
  BY <1>1 DEF Signals
<1>7. RecalibratedBy(sig, Scene(m, t), s)
      = [sig EXCEPT !.effective = Signals(m, s).effective]
  BY <1>3, <1>6 DEF RecalibratedBy
<1>8. \A u \in {s, t}: Signals(m, u) =
         [technical |-> Signals(m, u).technical, subject |-> Signals(m, u).subject,
          prior |-> Signals(m, u).prior, portrait |-> Signals(m, u).portrait,
          dims |-> Signals(m, u).dims, raw |-> Signals(m, u).raw,
          effective |-> Signals(m, u).effective]
  BY DEF Signals
<1> HIDE DEF sig
<1>9. sig = [technical |-> sig.technical, subject |-> sig.subject,
          prior |-> sig.prior, portrait |-> sig.portrait,
          dims |-> sig.dims, raw |-> sig.raw, effective |-> sig.effective]
  BY <1>8 DEF sig
<1>10. Signals(m, s) = [technical |-> sig.technical, subject |-> sig.subject,
          prior |-> sig.prior, portrait |-> sig.portrait,
          dims |-> sig.dims, raw |-> sig.raw, effective |-> Signals(m, s).effective]
  BY <1>5, <1>8
<1>11. [sig EXCEPT !.effective = Signals(m, s).effective] = Signals(m, s)
  BY <1>9, <1>10
<1> QED  BY <1>7, <1>11 DEF sig

(* The invariant gives the property.                                       *)
LEMMA PolicyInvJudges ==
    ASSUME PolicyInv PROVE RescoreIsARun
<1> SUFFICES ASSUME Measuring(judged) = Measuring(scored), Stage(seen, judged) = "full",
                    Profile(seen.scene, seen.target, seen.confidence, judged) # seen.target
             PROVE  verdict.summary = Judgement(seen, judged)
  BY DEF RescoreIsARun
<1>1. CASE judged = scored /\ verdict.summary = Judgement(seen, scored)
  BY <1>1
<1>2. CASE verdict.summary = Summary(RecalibratedBy(verdict.signals, verdict.scene, judged),
                                     verdict.scene, judged)
  <2>1. RecalibratedBy(verdict.signals, verdict.scene, judged) = Signals(seen, judged)
    BY RecalibratedAreFound DEF PolicyInv
  <2>2. verdict.scene = Scene(seen, judged)
    BY SameMeasuring DEF PolicyInv
  <2>3. Judgement(seen, judged) = Summary(Signals(seen, judged), Scene(seen, judged), judged)
    BY DEF Judgement
  <2> QED  BY <1>2, <2>1, <2>2, <2>3
<1> QED  BY <1>1, <1>2 DEF PolicyInv

(* The first run.                                                          *)
LEMMA PolicyStart == PolicyInit => PolicyInv
  BY DEF PolicyInit, PolicyInv, Found

(* Every step keeps the invariant.                                         *)
LEMMA PolicyStep ==
    ASSUME PolicyInv, [PolicyNext]_policyVars PROVE PolicyInv'
<1>1. CASE ScorePhoto
  <2>1. /\ scored' = settings /\ judged' = settings /\ seen' = seen
        /\ verdict' = Found(seen, settings)
    BY <1>1 DEF ScorePhoto
  <2>2. verdict' = [summary |-> Judgement(seen, settings), signals |-> Signals(seen, settings),
                    scene |-> Scene(seen, settings)]
    BY <2>1 DEF Found
  <2>3. /\ verdict' = [summary |-> verdict'.summary, signals |-> Signals(seen, settings),
                      scene |-> Scene(seen, settings)]
        /\ verdict'.summary = Judgement(seen, settings)
    BY <2>2
  <2> QED  BY <2>1, <2>3 DEF PolicyInv
<1>2. CASE RescorePhoto
  <2>1. /\ verdict' = [verdict EXCEPT !.summary =
                         Summary(Recalibrated(verdict.signals, verdict.scene), verdict.scene, settings)]
        /\ judged' = settings /\ seen' = seen /\ scored' = scored
    BY <1>2 DEF RescorePhoto
  <2>2. Recalibrated(verdict.signals, verdict.scene)
        = RecalibratedBy(verdict.signals, verdict.scene, settings)
    BY DEF Recalibrated, RecalibratedBy
  <2>3. /\ verdict'.signals = verdict.signals /\ verdict'.scene = verdict.scene
        /\ verdict' = [summary |-> verdict'.summary, signals |-> verdict.signals,
                       scene |-> verdict.scene]
        /\ verdict'.summary = Summary(RecalibratedBy(verdict.signals, verdict.scene, settings),
                                      verdict.scene, settings)
    BY <2>1, <2>2 DEF PolicyInv
  <2>4. verdict.signals = Signals(seen, scored) /\ verdict.scene = Scene(seen, scored)
    BY DEF PolicyInv
  <2> QED  BY <2>1, <2>3, <2>4 DEF PolicyInv
<1>3. CASE ChangeSettings
  BY <1>3 DEF ChangeSettings, PolicyInv
<1>4. CASE UNCHANGED policyVars
  BY <1>4 DEF policyVars, PolicyInv
<1> QED  BY <1>1, <1>2, <1>3, <1>4 DEF PolicyNext

(* A rescore judges as a run under the same settings would have.           *)
THEOREM RescoresAreRuns == PolicySpec => []RescoreIsARun
  BY PolicyStart, PolicyStep, PolicyInvJudges, PTL DEF PolicySpec

-----------------------------------------------------------------------------
(* Decisions follow from what was measured, in every behaviour of scoring, *)
(* selection and rescore (rescore_service.py, layered_decision.py).        *)
THEOREM DecisionsAlwaysHold == DecisionsSpec => []DecisionsHold
<1>1. RescoreIsARun /\ SelectionFollowsQuality => DecisionsHold
  BY DEF DecisionsHold
<1> QED  BY <1>1, RescoresAreRuns, SelectionReplays, PTL DEF DecisionsSpec
=============================================================================
