---------------------------- MODULE RecordProofs ----------------------------
(***************************************************************************)
(* RecordsHold, for every value of the constants: what the library, the    *)
(* score reviews, the label store and the two benchmarks have on record is *)
(* what was found, whatever ran at the same time, failed or died.  Each    *)
(* component has an inductive invariant of its own; the conjunction of     *)
(* their specifications implies the conjunction of what they promise.      *)
(***************************************************************************)
EXTENDS Records, ServiceProofs

-----------------------------------------------------------------------------
(* WebLibrary: the index                                                   *)

\* What a scan under way has found; undisturbed it is what is there now.
Found == {p \in RootHolds[home]: There(p)}
ScanKnows(v) ==
    /\ {"at", "still", "found", "scan"} \subseteq DOMAIN visit[v]
    /\ visit[v].found \subseteq RootHolds[home]
    /\ visit[v].still => visit[v].found = Found
ListKnows(v) ==
    /\ {"at", "still", "times", "scan"} \subseteq DOMAIN visit[v]
    /\ DOMAIN visit[v].times \subseteq RootHolds[home]
    /\ visit[v].still =>
         /\ DOMAIN visit[v].times = Found
         /\ \A p \in Found: visit[v].times[p] = shelved[p].time
VisitKnows(v) ==
    /\ "at" \in DOMAIN visit[v]
    /\ visit[v].at = "scanned" => ScanKnows(v)
    /\ visit[v].at = "listed" => ListKnows(v)
IndexInv ==
    /\ home \in Roots /\ DOMAIN visit = Visitors
    /\ \A p \in Shelf: library[p].root = "" => library[p].scan = 0
    /\ IndexIsAScan
    /\ \A v \in Visitors: VisitKnows(v)

\* A row of the index.
LEMMA RowFields ==
    ASSUME NEW row, NEW root, NEW scan, NEW time,
           row = [root |-> root, scan |-> scan, time |-> time]
    PROVE  row.root = root /\ row.scan = scan /\ row.time = time
OBVIOUS

LEMMA IndexStart == LibraryInit => IndexInv
<1> SUFFICES ASSUME LibraryInit PROVE IndexInv
  OBVIOUS
<1>1. home \in Roots /\ home # "" /\ RootHolds[home] \subseteq Shelf
  BY LibraryAssumption DEF LibraryInit, Roots
<1>2. DOMAIN visit = Visitors /\ \A v \in Visitors: visit[v] = [at |-> "idle"]
  BY DEF LibraryInit, AtRest
<1>3. \A v \in Visitors: VisitKnows(v)
  BY <1>2 DEF VisitKnows
<1>4. shelved \in [Shelf -> [content: {0, 1}, time: {1}]]
  BY DEF LibraryInit
<1>5. agrees <=> \A p \in RootHolds[home]: There(p) <=> library[p].root = home
  BY DEF LibraryInit
<1>6. \/ library = [p \in Shelf |-> NotIndexed]
      \/ library = [p \in Shelf |-> IF There(p) /\ p \in RootHolds[home]
                                    THEN [root |-> home, scan |-> 0, time |-> 1] ELSE NotIndexed]
  BY DEF LibraryInit
<1>7. ASSUME NEW p \in Shelf
      PROVE  /\ library[p].scan = 0
             /\ \/ library[p].root = ""
                \/ /\ There(p) /\ p \in RootHolds[home]
                   /\ library[p].root = home /\ library[p].time = 1
  <2>1. PICK row, root: row = library[p] /\ root = home
    OBVIOUS
  <2>2. \/ row = [root |-> "", scan |-> 0, time |-> 0]
        \/ /\ There(p) /\ p \in RootHolds[home]
           /\ row = [root |-> root, scan |-> 0, time |-> 1]
    BY <1>6, <2>1 DEF NotIndexed
  <2>3. \/ row.root = "" /\ row.scan = 0
        \/ /\ There(p) /\ p \in RootHolds[home]
           /\ row.root = root /\ row.scan = 0 /\ row.time = 1
    BY <2>2, RowFields
  <2> QED  BY <2>1, <2>3
<1>8. \A p \in Shelf: library[p].root = "" => library[p].scan = 0
  BY <1>7
<1>9. IndexIsAScan
  <2>1. \A p \in Shelf: library[p].root # "" => p \in RootHolds[library[p].root]
    BY <1>7
  <2>2. \A p, q \in Shelf: library[p].root = library[q].root => library[p].scan = library[q].scan
    BY <1>1, <1>7
  <2>3. \A p \in Shelf: shelved[p].time = 1
    BY <1>4
  <2>4. ASSUME agrees, NEW p \in RootHolds[home]
        PROVE  IF There(p) THEN library[p].root = home /\ library[p].time = shelved[p].time
               ELSE library[p].root # home
    <3>1. There(p) <=> library[p].root = home
      BY <1>5, <2>4
    <3>2. p \in Shelf
      BY <1>1
    <3>3. library[p].root = home => library[p].time = 1
      BY <1>1, <1>7, <3>2
    <3> QED  BY <2>3, <3>1, <3>2, <3>3
  <2> QED  BY <2>1, <2>2, <2>4 DEF IndexIsAScan
<1> QED  BY <1>1, <1>2, <1>3, <1>8, <1>9 DEF IndexInv

\* A request that does not touch the index, beside others that go on or are
\* disturbed in what they read.
LEMMA IndexStays ==
    ASSUME IndexInv, UNCHANGED <<shelved, library, home, agrees>>, DOMAIN visit' = Visitors,
           \A v \in Visitors: \/ visit'[v] = visit[v]
                              \/ VisitKnows(v)'
    PROVE  IndexInv'
<1>1. ASSUME NEW v \in Visitors, visit'[v] = visit[v] PROVE VisitKnows(v)'
  <2>1. VisitKnows(v)
    BY DEF IndexInv
  <2>2. Found' = Found
    BY DEF Found, There
  <2> QED  BY <1>1, <2>1, <2>2 DEF VisitKnows, ScanKnows, ListKnows
<1> QED  BY <1>1 DEF IndexInv, IndexIsAScan, There

\* A request that scans nothing leaves the index alone.
LEMMA IndexServes ==
    ASSUME IndexInv, NEW v \in Visitors, NEW state, Serves(v, state), VisitKnows(v)',
           UNCHANGED <<shelved, library, home, agrees>>
    PROVE  IndexInv'
<1>1. DOMAIN visit' = Visitors /\ \A w \in Visitors \ {v}: visit'[w] = visit[w]
  BY DEF Serves, IndexInv
<1> QED  BY <1>1, IndexStays

\* Whatever is neither a scan nor a list knows nothing of the directory.
LEMMA IndexIgnores ==
    ASSUME IndexInv, NEW v \in Visitors, NEW state, Serves(v, state),
           "at" \in DOMAIN state, state.at \notin {"scanned", "listed"},
           UNCHANGED <<shelved, library, home, agrees>>
    PROVE  IndexInv'
<1>1. visit'[v] = state
  BY DEF Serves, IndexInv
<1>2. VisitKnows(v)'
  BY <1>1 DEF VisitKnows
<1> QED  BY <1>2, IndexServes

\* A scan begins: what it finds is there.
LEMMA ScanFolderIndex ==
    ASSUME IndexInv, NEW v \in Visitors, ScanFolder(v) PROVE IndexInv'
<1>1. PICK state: state = [at |-> "scanned", scan |-> scans + 1, still |-> TRUE,
                           found |-> {p \in RootHolds[home]: There(p)}]
  OBVIOUS
<1>2. Serves(v, state) /\ UNCHANGED <<shelved, library, home, agrees>>
  BY <1>1 DEF ScanFolder
<1>3. visit'[v] = state
  BY <1>2 DEF Serves, IndexInv
<1>4. VisitKnows(v)'
  BY <1>1, <1>2, <1>3 DEF VisitKnows, ScanKnows, Found, There
<1> QED  BY <1>2, <1>4, IndexServes

\* It reads the status of the files still there.
LEMMA StatFilesIndex ==
    ASSUME IndexInv, NEW v \in Visitors, StatFiles(v) PROVE IndexInv'
<1>0. ScanKnows(v)
  BY DEF StatFiles, IndexInv, VisitKnows
<1>1. PICK remains: remains = {p \in visit[v].found: There(p)}
  OBVIOUS
<1>2. PICK times: times = [p \in remains |-> shelved[p].time]
  OBVIOUS
<1>3. PICK state: state = [at |-> "listed", scan |-> visit[v].scan, still |-> visit[v].still,
                           times |-> times]
  OBVIOUS
<1>4. Serves(v, state) /\ UNCHANGED <<shelved, library, home, agrees>>
  BY <1>1, <1>2, <1>3 DEF StatFiles
<1>5. visit'[v] = state
  BY <1>4 DEF Serves, IndexInv
<1>6. remains \subseteq RootHolds[home] /\ (visit[v].still => remains = Found)
  BY <1>0, <1>1 DEF ScanKnows, Found
<1>7. DOMAIN times = remains /\ \A p \in remains: times[p] = shelved[p].time
  BY <1>2
<1>8. Found' = Found
  BY <1>4 DEF Found, There
<1>9. VisitKnows(v)'
  BY <1>3, <1>4, <1>5, <1>6, <1>7, <1>8 DEF VisitKnows, ListKnows
<1> QED  BY <1>4, <1>9, IndexServes

\* One transaction makes the index the scan's: other roots lose what it takes over.
LEMMA CommitIndexIndex ==
    ASSUME IndexInv, NEW v \in Visitors, CommitIndex(v) PROVE IndexInv'
<1>0. ListKnows(v) /\ UNCHANGED <<shelved, home>> /\ agrees' = visit[v].still
  BY DEF CommitIndex, IndexInv, VisitKnows
<1>1. PICK times, scan: times = visit[v].times /\ scan = visit[v].scan
  OBVIOUS
<1>2. library' = [p \in Shelf |->
                    IF p \in DOMAIN times THEN [root |-> home, scan |-> scan, time |-> times[p]]
                    ELSE IF library[p].root = home THEN NotIndexed ELSE library[p]]
  BY <1>1 DEF CommitIndex, FilledIndex
<1>3. home \in Roots /\ home # "" /\ RootHolds[home] \subseteq Shelf
  BY LibraryAssumption DEF IndexInv, Roots
<1>4. DOMAIN times \subseteq RootHolds[home]
  BY <1>0, <1>1 DEF ListKnows
<1>5. ASSUME NEW p \in Shelf
      PROVE  \/ /\ p \in DOMAIN times
                /\ library'[p].root = home /\ library'[p].scan = scan /\ library'[p].time = times[p]
             \/ p \notin DOMAIN times /\ library'[p].root = "" /\ library'[p].scan = 0
             \/ p \notin DOMAIN times /\ library[p].root # home /\ library'[p] = library[p]
  <2>1. CASE p \in DOMAIN times
    <3>1. PICK row, root, time: row = library'[p] /\ root = home /\ time = times[p]
      OBVIOUS
    <3>2. row = [root |-> root, scan |-> scan, time |-> time]
      BY <1>2, <2>1, <3>1
    <3>3. row.root = root /\ row.scan = scan /\ row.time = time
      BY <3>2, RowFields
    <3> QED  BY <2>1, <3>1, <3>3
  <2>2. CASE p \notin DOMAIN times /\ library[p].root = home
    <3>1. PICK row: row = library'[p]
      OBVIOUS
    <3>2. row = [root |-> "", scan |-> 0, time |-> 0]
      BY <1>2, <2>2, <3>1 DEF NotIndexed
    <3>3. row.root = "" /\ row.scan = 0
      BY <3>2, RowFields
    <3> QED  BY <2>2, <3>1, <3>3
  <2>3. CASE p \notin DOMAIN times /\ library[p].root # home
    BY <1>2, <2>3
  <2> QED  BY <2>1, <2>2, <2>3
<1>6. \A p \in Shelf: library'[p].root = "" => library'[p].scan = 0
  BY <1>3, <1>5 DEF IndexInv
<1>7. IndexIsAScan'
  <2>1. \A p \in Shelf: library'[p].root # "" => p \in RootHolds[library'[p].root]
    BY <1>4, <1>5 DEF IndexInv, IndexIsAScan
  <2>2. \A p, q \in Shelf: library'[p].root = library'[q].root => library'[p].scan = library'[q].scan
    BY <1>3, <1>5 DEF IndexInv, IndexIsAScan
  <2>3. ASSUME agrees', NEW p \in RootHolds[home]
        PROVE  IF There(p) THEN library'[p].root = home /\ library'[p].time = shelved[p].time
               ELSE library'[p].root # home
    <3>1. DOMAIN times = Found /\ \A q \in Found: times[q] = shelved[q].time
      BY <1>0, <1>1, <2>3 DEF ListKnows
    <3>2. p \in Shelf /\ (There(p) <=> p \in DOMAIN times)
      BY <1>3, <3>1 DEF Found
    <3> QED  BY <1>3, <1>5, <3>1, <3>2
  <2> QED  BY <1>0, <2>1, <2>2, <2>3 DEF IndexIsAScan, There
<1>8. visit' = [w \in Visitors |-> IF w = v THEN AtRest
                    ELSE IF visit[w].at \in {"counted", "answered"}
                    THEN [visit[w] EXCEPT !.still = FALSE] ELSE visit[w]]
  BY DEF CommitIndex
<1>9. ASSUME NEW w \in Visitors PROVE VisitKnows(w)'
  <2>1. VisitKnows(w)
    BY DEF IndexInv
  <2>2. CASE w = v
    BY <1>8, <2>2 DEF AtRest, VisitKnows
  <2>3. CASE w # v /\ visit[w].at \in {"counted", "answered"}
    <3>1. visit'[w] = [visit[w] EXCEPT !.still = FALSE]
      BY <1>8, <2>3
    <3>2. "at" \in DOMAIN visit'[w] /\ visit'[w].at = visit[w].at
      BY <2>1, <3>1 DEF VisitKnows
    <3> QED  BY <2>3, <3>2 DEF VisitKnows
  <2>4. CASE w # v /\ visit[w].at \notin {"counted", "answered"}
    BY <1>0, <1>8, <2>1, <2>4 DEF VisitKnows, ScanKnows, ListKnows, Found, There
  <2> QED  BY <2>2, <2>3, <2>4
<1> QED  BY <1>0, <1>6, <1>7, <1>8, <1>9 DEF IndexInv

\* Rows of score jobs do not touch the index.
LEMMA JobScoresIndex == ASSUME IndexInv, JobScores PROVE IndexInv'
<1>1. /\ UNCHANGED <<shelved, library, home, agrees>>
      /\ visit' = [v \in Visitors |-> IF visit[v].at \in {"counted", "answered"}
                                      THEN [visit[v] EXCEPT !.still = FALSE] ELSE visit[v]]
  BY DEF JobScores
<1>2. ASSUME NEW v \in Visitors, visit'[v] # visit[v] PROVE VisitKnows(v)'
  <2>1. visit[v].at \in {"counted", "answered"} /\ visit'[v] = [visit[v] EXCEPT !.still = FALSE]
    BY <1>1, <1>2
  <2>2. "at" \in DOMAIN visit[v]
    BY DEF IndexInv, VisitKnows
  <2>3. "at" \in DOMAIN visit'[v] /\ visit'[v].at = visit[v].at
    BY <2>1, <2>2
  <2> QED  BY <2>1, <2>3 DEF VisitKnows
<1> QED  BY <1>1, <1>2, IndexStays

\* A change of the directory ends the agreement and disturbs every scan under way.
LEMMA ChangeFolderIndex == ASSUME IndexInv, NEW p \in Shelf, ChangeFolder(p) PROVE IndexInv'
<1>1. /\ UNCHANGED <<library, home>> /\ agrees' = FALSE
      /\ visit' = [v \in Visitors |->
              IF visit[v].at \in {"scanned", "listed"} THEN [visit[v] EXCEPT !.still = FALSE]
              ELSE IF Making(v, p) THEN [visit[v] EXCEPT !.sound = FALSE] ELSE visit[v]]
  BY DEF ChangeFolder
<1>2. ASSUME NEW v \in Visitors PROVE VisitKnows(v)'
  <2>1. VisitKnows(v)
    BY DEF IndexInv
  <2>2. CASE visit[v].at \in {"scanned", "listed"}
    <3>1. visit'[v] = [visit[v] EXCEPT !.still = FALSE]
      BY <1>1, <2>2
    <3>2. "still" \in DOMAIN visit[v] /\ "at" \in DOMAIN visit[v]
      BY <2>1, <2>2 DEF VisitKnows, ScanKnows, ListKnows
    <3>3. ~visit'[v].still /\ visit'[v].at = visit[v].at /\ DOMAIN visit'[v] = DOMAIN visit[v]
      BY <3>1, <3>2
    <3>4. /\ "found" \in DOMAIN visit[v] => visit'[v].found = visit[v].found
          /\ "times" \in DOMAIN visit[v] => visit'[v].times = visit[v].times
      BY <3>1
    <3> QED  BY <1>1, <2>1, <2>2, <3>3, <3>4 DEF VisitKnows, ScanKnows, ListKnows
  <2>3. CASE visit[v].at \notin {"scanned", "listed"} /\ Making(v, p)
    <3>1. visit'[v] = [visit[v] EXCEPT !.sound = FALSE]
      BY <1>1, <2>3
    <3>2. "at" \in DOMAIN visit'[v] /\ visit'[v].at = visit[v].at
      BY <2>1, <3>1 DEF VisitKnows
    <3> QED  BY <2>3, <3>2 DEF VisitKnows
  <2>4. CASE visit[v].at \notin {"scanned", "listed"} /\ ~Making(v, p)
    BY <1>1, <2>1, <2>4 DEF VisitKnows
  <2> QED  BY <2>2, <2>3, <2>4
<1> QED  BY <1>1, <1>2 DEF IndexInv, IndexIsAScan

\* A restart ends every request and may look at another root.
LEMMA RestartServiceIndex ==
    ASSUME IndexInv, NEW root \in Roots, RestartService(root) PROVE IndexInv'
<1>1. /\ UNCHANGED <<shelved, library>> /\ home' = root
      /\ visit' = [v \in Visitors |-> [at |-> "idle"]]
      /\ agrees' <=> (agrees /\ root = home)
  BY DEF RestartService, AtRest
<1>2. \A v \in Visitors: VisitKnows(v)'
  BY <1>1 DEF VisitKnows
<1> QED  BY <1>1, <1>2 DEF IndexInv, IndexIsAScan, There

\* Pages and summaries read only.
LEMMA OtherVisitsIndex ==
    ASSUME IndexInv, NEW v \in Visitors,
           \/ CountItems(v) \/ ReadPage(v) \/ CountIndexed(v) \/ ReadTotals(v) \/ EndVisit(v)
           \/ AskThumbnail(v)
    PROVE  IndexInv'
<1>1. UNCHANGED <<shelved, library, home, agrees>>
  BY DEF CountItems, ReadPage, CountIndexed, ReadTotals, EndVisit, AskThumbnail
<1>2. CASE CountItems(v)
  <2>1. PICK query: Serves(v, [at |-> "counted", still |-> TRUE, query |-> query,
                               total |-> Cardinality(Matching(query))])
    BY <1>2 DEF CountItems
  <2>2. PICK state: state = [at |-> "counted", still |-> TRUE, query |-> query,
                             total |-> Cardinality(Matching(query))]
    OBVIOUS
  <2> QED  BY <1>1, <2>1, <2>2, IndexIgnores
<1>3. CASE ReadPage(v)
  <2>1. PICK state: state = [at |-> "answered", still |-> visit[v].still, query |-> visit[v].query,
                  total |-> visit[v].total, items |-> Page(visit[v].query)]
    OBVIOUS
  <2> QED  BY <1>1, <1>3, <2>1, IndexIgnores DEF ReadPage
<1>4. CASE CountIndexed(v)
  <2>1. PICK state: state = [at |-> "counted", still |-> TRUE,
                             indexed |-> Cardinality(Indexed(library))]
    OBVIOUS
  <2> QED  BY <1>1, <1>4, <2>1, IndexIgnores DEF CountIndexed
<1>5. CASE ReadTotals(v)
  <2>1. PICK state: state = [at |-> "answered", still |-> visit[v].still,
                             indexed |-> visit[v].indexed, totals |-> Totals]
    OBVIOUS
  <2> QED  BY <1>1, <1>5, <2>1, IndexIgnores DEF ReadTotals
<1>6. CASE EndVisit(v)
  <2>1. PICK state: state = AtRest
    OBVIOUS
  <2> QED  BY <1>1, <1>6, <2>1, IndexIgnores DEF EndVisit, Leaves, AtRest
<1>7. CASE AskThumbnail(v)
  <2>1. PICK p: Serves(v, [at |-> "decode", photo |-> p])
    BY <1>7 DEF AskThumbnail
  <2>2. PICK state: state = [at |-> "decode", photo |-> p]
    OBVIOUS
  <2> QED  BY <1>1, <2>1, <2>2, IndexIgnores
<1> QED  BY <1>2, <1>3, <1>4, <1>5, <1>6, <1>7

\* Neither do thumbnails touch the index.
LEMMA ThumbVisitsIndex ==
    ASSUME IndexInv, NEW v \in Visitors, Decode(v) \/ FillFrame(v) \/ PublishThumb(v)
    PROVE  IndexInv'
<1>1. UNCHANGED <<shelved, library, home, agrees>>
  BY DEF Decode, FillFrame, PublishThumb
<1>2. CASE Decode(v)
  <2>1. CASE Leaves(v)
    <3>1. PICK state: state = AtRest
      OBVIOUS
    <3> QED  BY <1>1, <2>1, <3>1, IndexIgnores DEF Leaves, AtRest
  <2>2. CASE ~Leaves(v)
    <3>1. PICK p, i, taken, alone:
             visit' = [w \in Visitors |->
                  IF w = v THEN [at |-> "fill", photo |-> p, handle |-> i,
                                 taken |-> taken, sound |-> alone]
                  ELSE IF Making(w, p) THEN [visit[w] EXCEPT !.sound = FALSE] ELSE visit[w]]
      BY <1>2, <2>2 DEF Decode
    <3>2. ASSUME NEW w \in Visitors, visit'[w] # visit[w] PROVE VisitKnows(w)'
      <4>1. CASE w = v
        BY <3>1, <4>1 DEF VisitKnows
      <4>2. CASE w # v
        <5>1. Making(w, p) /\ visit'[w] = [visit[w] EXCEPT !.sound = FALSE]
          BY <3>1, <3>2, <4>2
        <5>2. "at" \in DOMAIN visit[w]
          BY DEF IndexInv, VisitKnows
        <5>3. "at" \in DOMAIN visit'[w] /\ visit'[w].at = visit[w].at
          BY <5>1, <5>2
        <5> QED  BY <5>1, <5>3 DEF VisitKnows, Making
      <4> QED  BY <4>1, <4>2
    <3> QED  BY <1>1, <3>1, <3>2, IndexStays
  <2> QED  BY <2>1, <2>2
<1>3. CASE FillFrame(v)
  <2>1. visit' = [visit EXCEPT ![v].at = "publish"]
    BY <1>3 DEF FillFrame
  <2>2. "at" \in DOMAIN visit[v]
    BY DEF IndexInv, VisitKnows
  <2>3. visit'[v] = [visit[v] EXCEPT !.at = "publish"]
    BY <2>1 DEF IndexInv
  <2>4. VisitKnows(v)'
    BY <2>2, <2>3 DEF VisitKnows
  <2>5. DOMAIN visit' = Visitors /\ \A w \in Visitors \ {v}: visit'[w] = visit[w]
    BY <2>1 DEF IndexInv
  <2> QED  BY <1>1, <2>4, <2>5, IndexStays
<1>4. CASE PublishThumb(v)
  <2>1. PICK state: state = AtRest
    OBVIOUS
  <2> QED  BY <1>1, <1>4, <2>1, IndexIgnores DEF PublishThumb, Leaves, AtRest
<1> QED  BY <1>2, <1>3, <1>4

\* Every step keeps the invariant of the index.
LEMMA IndexKeeps == IndexInv /\ [LibraryNext]_libraryVars => IndexInv'
<1> SUFFICES ASSUME IndexInv, [LibraryNext]_libraryVars PROVE IndexInv'
  OBVIOUS
<1>1. CASE UNCHANGED libraryVars
  <2>1. UNCHANGED <<shelved, library, home, agrees, visit>>
    BY <1>1 DEF libraryVars
  <2> QED  BY <2>1, IndexStays DEF IndexInv
<1>2. CASE ShelfNext
  BY <1>2, ScanFolderIndex, StatFilesIndex, CommitIndexIndex, OtherVisitsIndex, JobScoresIndex
     DEF ShelfNext
<1>3. CASE ThumbNext
  BY <1>3, OtherVisitsIndex, ThumbVisitsIndex DEF ThumbNext
<1>4. CASE AroundNext
  BY <1>4, ChangeFolderIndex, RestartServiceIndex DEF AroundNext
<1> QED  BY <1>1, <1>2, <1>3, <1>4 DEF LibraryNext

-----------------------------------------------------------------------------
(* WebLibrary: the thumbnails                                              *)

\* A request that makes a thumbnail has a descriptor of its own.
VisitMakes(v) ==
    /\ "at" \in DOMAIN visit[v]
    /\ visit[v].at = "decode" => visit[v].photo \in Shelf
    /\ visit[v].at \in {"fill", "publish"} =>
         /\ {"photo", "handle", "taken", "sound"} \subseteq DOMAIN visit[v]
         /\ visit[v].photo \in Shelf /\ visit[v].handle \in Frames \ {NoFrame}
ThumbShape ==
    /\ DOMAIN visit = Visitors /\ clock \in Int
    /\ DOMAIN shelved = Shelf /\ DOMAIN thumb = Shelf /\ DOMAIN scratch = Shelf
    /\ DOMAIN frame = Shelf
    /\ \A p \in Shelf:
         /\ scratch[p] \in Frames /\ {"inode", "sound"} \subseteq DOMAIN thumb[p]
         /\ DOMAIN frame[p] = Frames /\ \A i \in Frames: frame[p][i].time \in Int
         /\ thumb[p].inode \in Frames
         /\ thumb[p].inode # NoFrame => thumb[p].inode # scratch[p]

\* An undisturbed thumbnail in the making is alone and shows its photo.
Undisturbed(v, p) ==
    /\ There(p) /\ visit[v].taken = shelved[p].content
    /\ scratch[p] = visit[v].handle
    /\ \A w \in Visitors \ {v}: ~Making(w, p)
    /\ visit[v].at = "publish" => frame[p][visit[v].handle].shows = visit[v].taken
MakesSoundly(v) == \A p \in Shelf: Making(v, p) /\ visit[v].sound => Undisturbed(v, p)

\* Nobody writes to the inode of a thumbnail that was made undisturbed.
NobodyWritesIt(p) ==
    thumb[p].sound /\ thumb[p].inode # NoFrame =>
        \A v \in Visitors: Making(v, p) => visit[v].handle # thumb[p].inode
ThumbShows(p) ==
    There(p) /\ thumb[p].sound /\ Cached(p) => frame[p][thumb[p].inode].shows = shelved[p].content
ThumbInv ==
    /\ ThumbShape
    /\ \A v \in Visitors: VisitMakes(v) /\ MakesSoundly(v)
    /\ \A p \in Shelf: NobodyWritesIt(p) /\ ThumbShows(p)

\* The inodes are numbers, and one stands for none.
LEMMA FrameFacts == NoFrame \in Frames /\ Frames \subseteq Int
<1>1. Cardinality(Visitors) \in Nat
  BY LibraryAssumption, FS_CardinalityType
<1> QED  BY <1>1 DEF Frames, NoFrame

\* There is always an inode left for the temporary name.
LEMMA FreeFrameFree ==
    ASSUME ThumbInv, NEW p \in Shelf, NEW u \in Visitors, scratch[p] = NoFrame
    PROVE  /\ FreeFrame(p) \in Frames \ {NoFrame} /\ FreeFrame(p) # thumb[p].inode
           /\ \A v \in Visitors: Making(v, p) => visit[v].handle # FreeFrame(p)
<1> DEFINE handles == {visit[v].handle: v \in Visitors}
           taken == handles \union {thumb[p].inode}
<1>1. IsFiniteSet(Visitors) /\ Cardinality(Visitors) \in Nat
  BY LibraryAssumption, FS_CardinalityType
<1>2. IsFiniteSet(handles) /\ Cardinality(handles) <= Cardinality(Visitors)
  <2>1. PICK g: g = [v \in Visitors |-> visit[v].handle]
    OBVIOUS
  <2>2. /\ IsFiniteSet({g[v]: v \in Visitors})
        /\ Cardinality({g[v]: v \in Visitors}) <= Cardinality(Visitors)
    BY <1>1, FewValues
  <2>3. handles = {g[v]: v \in Visitors}
    BY <2>1
  <2> QED  BY <2>2, <2>3
<1>3. IsFiniteSet(taken) /\ Cardinality(taken) <= Cardinality(Visitors) + 1
  <2>1. Cardinality(handles) \in Nat
    BY <1>2, FS_CardinalityType
  <2>2. PICK i: i = thumb[p].inode
    OBVIOUS
  <2> HIDE DEF handles
  <2>3. /\ IsFiniteSet(handles \union {i})
        /\ Cardinality(handles \union {i}) =
              IF i \in handles THEN Cardinality(handles) ELSE Cardinality(handles) + 1
    BY <1>2, FS_AddElement
  <2> QED  BY <1>1, <1>2, <2>1, <2>2, <2>3
<1>4. PICK n \in Nat: n = Cardinality(Visitors) + 2
  BY <1>1
<1>5. IsFiniteSet(1..n) /\ Cardinality(1..n) = n
  <2>1. 1 \in Int /\ n \in Int
    OBVIOUS
  <2> HIDE DEF handles, taken
  <2>2. /\ IsFiniteSet(1..n)
        /\ Cardinality(1..n) = IF 1 > n THEN 0 ELSE n - 1 + 1
    BY <2>1, FS_Interval
  <2> QED  BY <2>2
<1>6. PICK i \in 1..n: i \notin taken
  <2> HIDE DEF taken
  <2> SUFFICES ASSUME 1..n \subseteq taken PROVE FALSE
    OBVIOUS
  <2>1. Cardinality(1..n) <= Cardinality(taken)
    BY <1>3, FS_Subset
  <2>2. Cardinality(taken) \in Nat
    BY <1>3, FS_CardinalityType
  <2> QED  BY <1>1, <1>3, <1>4, <1>5, <2>1, <2>2
<1>7. i \in Frames \ {NoFrame}
  BY <1>1, <1>4 DEF Frames, NoFrame
<1>8. i \notin {thumb[p].inode, scratch[p]} /\ \A v \in Visitors: Making(v, p) => visit[v].handle # i
  BY <1>6, <1>7
<1> HIDE DEF taken, handles
<1> QED  BY <1>7, <1>8 DEF FreeFrame

LEMMA ThumbStart == LibraryInit => ThumbInv
<1> SUFFICES ASSUME LibraryInit PROVE ThumbInv
  OBVIOUS
<1>1. \A v \in Visitors: visit[v] = [at |-> "idle"]
  BY DEF LibraryInit, AtRest
<1>2. ASSUME NEW v \in Visitors PROVE VisitMakes(v) /\ MakesSoundly(v)
  BY <1>1 DEF VisitMakes, MakesSoundly, Making
<1>3. ASSUME NEW p \in Shelf
      PROVE  /\ thumb[p].inode = NoFrame /\ {"inode", "sound"} \subseteq DOMAIN thumb[p]
             /\ scratch[p] = NoFrame
             /\ DOMAIN frame[p] = Frames /\ \A i \in Frames: frame[p][i].time \in Int
  BY DEF LibraryInit
<1>4. ThumbShape
  <2>1. DOMAIN shelved = Shelf
    BY DEF LibraryInit
  <2>2. /\ DOMAIN visit = Visitors /\ clock \in Int /\ DOMAIN thumb = Shelf
        /\ DOMAIN scratch = Shelf /\ DOMAIN frame = Shelf
    BY DEF LibraryInit
  <2> QED  BY <1>3, <2>1, <2>2, FrameFacts DEF ThumbShape
<1>5. ASSUME NEW p \in Shelf PROVE NobodyWritesIt(p) /\ ThumbShows(p)
  BY <1>3 DEF NobodyWritesIt, ThumbShows, Cached
<1> QED  BY <1>2, <1>4, <1>5 DEF ThumbInv

\* Who makes no thumbnail disturbs none.
LEMMA ThumbStays ==
    ASSUME ThumbInv, UNCHANGED <<shelved, clock, thumb, scratch, frame>>, DOMAIN visit' = Visitors,
           \A v \in Visitors: \/ visit'[v] = visit[v]
                              \/ /\ "at" \in DOMAIN visit'[v]
                                 /\ visit'[v].at \notin {"decode", "fill", "publish"}
                              \/ /\ "at" \in DOMAIN visit'[v]
                                 /\ visit'[v].at = "decode" /\ visit'[v].photo \in Shelf
    PROVE  ThumbInv'
<1>1. ThumbShape'
  BY DEF ThumbInv, ThumbShape
<1>2. \A v \in Visitors: visit'[v].at \in {"fill", "publish"} => visit'[v] = visit[v]
  OBVIOUS
<1>3. \A v \in Visitors, p \in Shelf: Making(v, p)' => Making(v, p) /\ visit'[v] = visit[v]
  BY <1>2 DEF Making
<1>4. ASSUME NEW v \in Visitors PROVE VisitMakes(v)'
  BY DEF ThumbInv, VisitMakes
<1>5. ASSUME NEW v \in Visitors PROVE MakesSoundly(v)'
  <2> SUFFICES ASSUME NEW p \in Shelf, Making(v, p)', visit'[v].sound PROVE Undisturbed(v, p)'
    BY DEF MakesSoundly
  <2>1. Undisturbed(v, p) /\ visit'[v] = visit[v]
    BY <1>3 DEF ThumbInv, MakesSoundly
  <2> QED  BY <1>3, <2>1 DEF Undisturbed, There
<1>6. ASSUME NEW p \in Shelf PROVE NobodyWritesIt(p)' /\ ThumbShows(p)'
  <2>1. NobodyWritesIt(p) /\ ThumbShows(p)
    BY DEF ThumbInv
  <2>2. NobodyWritesIt(p)'
    BY <1>3, <2>1 DEF NobodyWritesIt
  <2>3. ThumbShows(p)'
    BY <2>1 DEF ThumbShows, There, Cached
  <2> QED  BY <2>2, <2>3
<1> QED  BY <1>1, <1>4, <1>5, <1>6 DEF ThumbInv

\* A request that makes no thumbnail disturbs none.
LEMMA ThumbServes ==
    ASSUME ThumbInv, NEW v \in Visitors, NEW state, Serves(v, state),
           "at" \in DOMAIN state,
           \/ state.at \notin {"decode", "fill", "publish"}
           \/ state.at = "decode" /\ state.photo \in Shelf,
           UNCHANGED <<shelved, clock, thumb, scratch, frame>>
    PROVE  ThumbInv'
<1>1. DOMAIN visit' = Visitors /\ visit'[v] = state /\ \A w \in Visitors \ {v}: visit'[w] = visit[w]
  BY DEF Serves, ThumbInv, ThumbShape
<1> QED  BY <1>1, ThumbStays

\* A request whose answer is disturbed makes no thumbnail.
LEMMA ThumbDisturbs ==
    ASSUME ThumbInv, UNCHANGED <<shelved, clock, thumb, scratch, frame>>, DOMAIN visit' = Visitors,
           \A v \in Visitors: \/ visit'[v] = visit[v]
                              \/ visit'[v] = [at |-> "idle"]
                              \/ /\ visit[v].at \notin {"decode", "fill", "publish"}
                                 /\ visit'[v] = [visit[v] EXCEPT !.still = FALSE]
    PROVE  ThumbInv'
<1>1. ASSUME NEW v \in Visitors, visit'[v] # visit[v]
      PROVE  "at" \in DOMAIN visit'[v] /\ visit'[v].at \notin {"decode", "fill", "publish"}
  <2>1. "at" \in DOMAIN visit[v]
    BY DEF ThumbInv, VisitMakes
  <2>2. CASE visit'[v] = [at |-> "idle"]
    BY <2>2
  <2>3. CASE /\ visit[v].at \notin {"decode", "fill", "publish"}
             /\ visit'[v] = [visit[v] EXCEPT !.still = FALSE]
    <3>1. "at" \in DOMAIN visit'[v] /\ visit'[v].at = visit[v].at
      BY <2>1, <2>3
    <3> QED  BY <2>3, <3>1
  <2> QED  BY <1>1, <2>2, <2>3
<1> QED  BY <1>1, ThumbStays

\* Pages, refreshes and score rows do not touch thumbnails.
LEMMA ShelfThumb == ASSUME ThumbInv, ShelfNext PROVE ThumbInv'
<1>0. UNCHANGED <<shelved, clock, thumb, scratch, frame>>
  BY DEF ShelfNext, ScanFolder, StatFiles, CommitIndex, CountItems, ReadPage, CountIndexed,
         ReadTotals, EndVisit, JobScores
<1>1. ASSUME NEW v \in Visitors, ScanFolder(v) PROVE ThumbInv'
  <2>1. PICK state: state = [at |-> "scanned", scan |-> scans + 1, still |-> TRUE,
                             found |-> {p \in RootHolds[home]: There(p)}]
    OBVIOUS
  <2> QED  BY <1>0, <1>1, <2>1, ThumbServes DEF ScanFolder
<1>2. ASSUME NEW v \in Visitors, StatFiles(v) PROVE ThumbInv'
  <2>1. PICK times: times = [p \in {q \in visit[v].found: There(q)} |-> shelved[p].time]
    OBVIOUS
  <2>2. PICK state: state = [at |-> "listed", scan |-> visit[v].scan, still |-> visit[v].still,
                             times |-> times]
    OBVIOUS
  <2> QED  BY <1>0, <1>2, <2>1, <2>2, ThumbServes DEF StatFiles
<1>3. ASSUME NEW v \in Visitors, CommitIndex(v) PROVE ThumbInv'
  <2>1. visit' = [w \in Visitors |-> IF w = v THEN AtRest
                    ELSE IF visit[w].at \in {"counted", "answered"}
                    THEN [visit[w] EXCEPT !.still = FALSE] ELSE visit[w]]
    BY <1>3 DEF CommitIndex
  <2> QED  BY <1>0, <2>1, ThumbDisturbs DEF AtRest
<1>4. ASSUME JobScores PROVE ThumbInv'
  <2>1. visit' = [v \in Visitors |-> IF visit[v].at \in {"counted", "answered"}
                                     THEN [visit[v] EXCEPT !.still = FALSE] ELSE visit[v]]
    BY <1>4 DEF JobScores
  <2> QED  BY <1>0, <2>1, ThumbDisturbs
<1>5. ASSUME NEW v \in Visitors, CountItems(v) PROVE ThumbInv'
  <2>1. PICK query: Serves(v, [at |-> "counted", still |-> TRUE, query |-> query,
                               total |-> Cardinality(Matching(query))])
    BY <1>5 DEF CountItems
  <2>2. PICK state: state = [at |-> "counted", still |-> TRUE, query |-> query,
                             total |-> Cardinality(Matching(query))]
    OBVIOUS
  <2> QED  BY <1>0, <2>1, <2>2, ThumbServes
<1>6. ASSUME NEW v \in Visitors, ReadPage(v) PROVE ThumbInv'
  <2>1. PICK state: state = [at |-> "answered", still |-> visit[v].still, query |-> visit[v].query,
                  total |-> visit[v].total, items |-> Page(visit[v].query)]
    OBVIOUS
  <2> QED  BY <1>0, <1>6, <2>1, ThumbServes DEF ReadPage
<1>7. ASSUME NEW v \in Visitors, CountIndexed(v) PROVE ThumbInv'
  <2>1. PICK state: state = [at |-> "counted", still |-> TRUE,
                             indexed |-> Cardinality(Indexed(library))]
    OBVIOUS
  <2> QED  BY <1>0, <1>7, <2>1, ThumbServes DEF CountIndexed
<1>8. ASSUME NEW v \in Visitors, ReadTotals(v) PROVE ThumbInv'
  <2>1. PICK state: state = [at |-> "answered", still |-> visit[v].still,
                             indexed |-> visit[v].indexed, totals |-> Totals]
    OBVIOUS
  <2> QED  BY <1>0, <1>8, <2>1, ThumbServes DEF ReadTotals
<1>9. ASSUME NEW v \in Visitors, EndVisit(v) PROVE ThumbInv'
  <2>1. PICK state: state = AtRest
    OBVIOUS
  <2> QED  BY <1>0, <1>9, <2>1, ThumbServes DEF EndVisit, Leaves, AtRest
<1> QED  BY <1>1, <1>2, <1>3, <1>4, <1>5, <1>6, <1>7, <1>8, <1>9 DEF ShelfNext

\* A request for a photo in the index.
LEMMA AskThumbnailThumb ==
    ASSUME ThumbInv, NEW v \in Visitors, AskThumbnail(v) PROVE ThumbInv'
<1>1. PICK p \in Indexed(library): Serves(v, [at |-> "decode", photo |-> p])
  BY DEF AskThumbnail
<1>2. PICK state: state = [at |-> "decode", photo |-> p]
  OBVIOUS
<1>3. p \in Shelf
  BY DEF Indexed
<1>4. Serves(v, state) /\ UNCHANGED <<shelved, clock, thumb, scratch, frame>>
  BY <1>1, <1>2 DEF AskThumbnail
<1>5. "at" \in DOMAIN state /\ state.at = "decode" /\ state.photo \in Shelf
  BY <1>2, <1>3
<1> QED  BY <1>4, <1>5, ThumbServes

\* Opening the temporary name disturbs whoever was filling it.
LEMMA DecodeThumb ==
    ASSUME ThumbInv, NEW v \in Visitors, Decode(v) PROVE ThumbInv'
<1>0. UNCHANGED <<shelved, clock, thumb>> /\ visit[v].at = "decode"
  BY DEF Decode
<1>1. PICK p: p = visit[v].photo
  OBVIOUS
<1>2. p \in Shelf
  BY <1>0, <1>1 DEF ThumbInv, VisitMakes
<1>3. PICK i: i = IF scratch[p] = NoFrame THEN FreeFrame(p) ELSE scratch[p]
  OBVIOUS
<1>4. PICK alone \in BOOLEAN: alone <=> \A w \in Visitors \ {v}: ~Making(w, p)
  OBVIOUS
<1>5. /\ i \in Frames \ {NoFrame} /\ thumb[p].inode # i
      /\ scratch[p] = NoFrame => \A w \in Visitors: Making(w, p) => visit[w].handle # i
  BY <1>2, <1>3, FreeFrameFree DEF ThumbInv, ThumbShape
<1>6. CASE Leaves(v) /\ UNCHANGED <<scratch, frame>>
  <2>1. PICK state: state = AtRest
    OBVIOUS
  <2> QED  BY <1>0, <1>6, <2>1, ThumbServes DEF Leaves, AtRest
<1>7. CASE /\ There(p)
           /\ scratch' = [scratch EXCEPT ![p] = i]
           /\ frame' = [frame EXCEPT ![p][i] = [shows |-> 0, time |-> clock]]
           /\ visit' = [w \in Visitors |->
                  IF w = v THEN [at |-> "fill", photo |-> p, handle |-> i,
                                 taken |-> shelved[p].content, sound |-> alone]
                  ELSE IF Making(w, p) THEN [visit[w] EXCEPT !.sound = FALSE] ELSE visit[w]]
  <2>1. PICK state: state = [at |-> "fill", photo |-> p, handle |-> i,
                             taken |-> shelved[p].content, sound |-> alone]
    OBVIOUS
  <2>2. /\ DOMAIN state = {"at", "photo", "handle", "taken", "sound"}
        /\ state.at = "fill" /\ state.photo = p /\ state.handle = i
        /\ state.taken = shelved[p].content /\ state.sound = alone
    BY <2>1
  <2>3. visit'[v] = state /\ DOMAIN visit' = Visitors
    BY <1>7, <2>1
  <2>4. ASSUME NEW w \in Visitors \ {v}, Making(w, p)
        PROVE  /\ visit'[w].at = visit[w].at /\ visit'[w].photo = visit[w].photo
               /\ visit'[w].handle = visit[w].handle /\ ~visit'[w].sound
               /\ DOMAIN visit'[w] = DOMAIN visit[w]
    <3>1. visit'[w] = [visit[w] EXCEPT !.sound = FALSE]
      BY <1>7, <2>4
    <3>2. {"at", "photo", "handle", "taken", "sound"} \subseteq DOMAIN visit[w]
      BY <2>4 DEF ThumbInv, VisitMakes, Making
    <3> QED  BY <3>1, <3>2
  <2>5. ASSUME NEW w \in Visitors \ {v}, ~Making(w, p) PROVE visit'[w] = visit[w]
    BY <1>7, <2>5
  <2>6. /\ DOMAIN scratch' = Shelf /\ scratch'[p] = i
        /\ \A q \in Shelf \ {p}: scratch'[q] = scratch[q]
    BY <1>2, <1>7 DEF ThumbInv, ThumbShape
  <2>7. /\ DOMAIN frame' = Shelf /\ DOMAIN frame'[p] = Frames
        /\ frame'[p][i] = [shows |-> 0, time |-> clock]
        /\ \A j \in Frames \ {i}: frame'[p][j] = frame[p][j]
        /\ \A q \in Shelf \ {p}: frame'[q] = frame[q]
    BY <1>2, <1>5, <1>7 DEF ThumbInv, ThumbShape
  <2>8. \A w \in Visitors \ {v}, q \in Shelf: Making(w, q)' <=> Making(w, q)
    BY <2>4, <2>5 DEF Making
  <2>9. \A q \in Shelf: ~Making(v, q) /\ (Making(v, q)' => q = p)
    BY <1>0, <2>2, <2>3 DEF Making
  <2>10. ThumbShape'
    <3>1. frame'[p][i].time \in Int
      BY <2>7 DEF ThumbInv, ThumbShape
    <3> QED  BY <1>0, <1>2, <1>5, <2>3, <2>6, <2>7, <3>1 DEF ThumbInv, ThumbShape
  <2>11. ASSUME NEW w \in Visitors PROVE VisitMakes(w)'
    <3>1. CASE w = v
      BY <1>2, <1>5, <2>2, <2>3, <3>1 DEF VisitMakes
    <3>2. CASE w # v /\ Making(w, p)
      BY <2>4, <3>2 DEF ThumbInv, VisitMakes, Making
    <3>3. CASE w # v /\ ~Making(w, p)
      BY <2>5, <3>3 DEF ThumbInv, VisitMakes
    <3> QED  BY <3>1, <3>2, <3>3
  <2>12. ASSUME NEW w \in Visitors PROVE MakesSoundly(w)'
    <3> SUFFICES ASSUME NEW q \in Shelf, Making(w, q)', visit'[w].sound PROVE Undisturbed(w, q)'
      BY DEF MakesSoundly
    <3>1. CASE w = v
      <4>1. q = p /\ alone
        BY <2>2, <2>3, <2>9, <3>1
      <4>2. \A o \in Visitors \ {v}: ~Making(o, p)'
        BY <1>2, <1>4, <2>8, <4>1
      <4> QED  BY <1>0, <1>7, <2>2, <2>3, <2>6, <3>1, <4>1, <4>2 DEF Undisturbed, There
    <3>2. CASE w # v
      <4>1. Making(w, q) /\ ~Making(w, p)
        BY <2>4, <2>8, <3>2
      <4>2. q # p /\ visit'[w] = visit[w] /\ Undisturbed(w, q)
        BY <2>5, <3>2, <4>1 DEF ThumbInv, MakesSoundly
      <4>3. \A o \in Visitors \ {w}: ~Making(o, q)'
        BY <2>8, <2>9, <4>2 DEF Undisturbed
      <4> QED  BY <1>0, <2>6, <2>7, <4>2, <4>3 DEF Undisturbed, There
    <3> QED  BY <3>1, <3>2
  <2>13. ASSUME NEW q \in Shelf PROVE NobodyWritesIt(q)'
    <3> SUFFICES ASSUME thumb[q].sound, thumb[q].inode # NoFrame,
                        NEW w \in Visitors, Making(w, q)'
                 PROVE  visit'[w].handle # thumb[q].inode
      BY <1>0 DEF NobodyWritesIt
    <3>1. CASE w = v
      BY <1>5, <2>2, <2>3, <2>9, <3>1
    <3>2. CASE w # v
      BY <2>4, <2>5, <2>8, <3>2 DEF ThumbInv, NobodyWritesIt
    <3> QED  BY <3>1, <3>2
  <2>14. ASSUME NEW q \in Shelf PROVE ThumbShows(q)'
    <3>1. thumb[q].inode \in Frames /\ ThumbShows(q)
      BY DEF ThumbInv, ThumbShape
    <3>2. frame'[q][thumb[q].inode] = frame[q][thumb[q].inode]
      BY <1>5, <2>7, <3>1
    <3> QED  BY <1>0, <3>1, <3>2 DEF ThumbShows, There, Cached
  <2> QED  BY <2>10, <2>11, <2>12, <2>13, <2>14 DEF ThumbInv
<1> QED  BY <1>1, <1>3, <1>4, <1>6, <1>7 DEF Decode

\* Filling an inode changes no thumbnail that was made undisturbed.
LEMMA FillFrameThumb ==
    ASSUME ThumbInv, NEW v \in Visitors, FillFrame(v) PROVE ThumbInv'
<1>0. UNCHANGED <<shelved, clock, thumb, scratch>> /\ visit[v].at = "fill"
  BY DEF FillFrame
<1>1. PICK p, i: p = visit[v].photo /\ i = visit[v].handle
  OBVIOUS
<1>2. p \in Shelf /\ i \in Frames \ {NoFrame} /\ Making(v, p)
      /\ {"at", "photo", "handle", "taken", "sound"} \subseteq DOMAIN visit[v]
  BY <1>0, <1>1 DEF ThumbInv, VisitMakes, Making
<1>3. PICK new: new = [shows |-> visit[v].taken, time |-> clock]
  OBVIOUS
<1>4. frame' = [frame EXCEPT ![p][i] = new] /\ visit' = [visit EXCEPT ![v].at = "publish"]
  BY <1>1, <1>3 DEF FillFrame
<1>5. /\ DOMAIN frame' = Shelf /\ DOMAIN frame'[p] = Frames
      /\ frame'[p][i] = new /\ new.time = clock /\ new.shows = visit[v].taken
      /\ \A j \in Frames \ {i}: frame'[p][j] = frame[p][j]
      /\ \A q \in Shelf \ {p}: frame'[q] = frame[q]
  BY <1>2, <1>3, <1>4 DEF ThumbInv, ThumbShape
<1>6. DOMAIN visit' = Visitors /\ \A w \in Visitors \ {v}: visit'[w] = visit[w]
  BY <1>4 DEF ThumbInv, ThumbShape
<1>7. visit'[v] = [visit[v] EXCEPT !.at = "publish"]
  BY <1>4 DEF ThumbInv, ThumbShape
<1>8. /\ visit'[v].at = "publish" /\ visit'[v].photo = p /\ visit'[v].handle = i
      /\ visit'[v].taken = visit[v].taken /\ visit'[v].sound = visit[v].sound
      /\ DOMAIN visit'[v] = DOMAIN visit[v]
  BY <1>1, <1>2, <1>7
<1>9. \A w \in Visitors, q \in Shelf: Making(w, q)' <=> Making(w, q)
  BY <1>0, <1>1, <1>6, <1>8 DEF Making
<1>10. ThumbShape'
  BY <1>0, <1>2, <1>5, <1>6 DEF ThumbInv, ThumbShape
<1>11. ASSUME NEW w \in Visitors PROVE VisitMakes(w)'
  BY <1>2, <1>6, <1>8 DEF ThumbInv, VisitMakes
<1>12. ASSUME NEW w \in Visitors PROVE MakesSoundly(w)'
  <2> SUFFICES ASSUME NEW q \in Shelf, Making(w, q)', visit'[w].sound PROVE Undisturbed(w, q)'
    BY DEF MakesSoundly
  <2>1. Making(w, q) /\ visit[w].sound
    BY <1>6, <1>8, <1>9
  <2>2. Undisturbed(w, q)
    BY <2>1 DEF ThumbInv, MakesSoundly
  <2>3. \A o \in Visitors \ {w}: ~Making(o, q)'
    BY <1>9, <2>2 DEF Undisturbed
  <2>4. CASE w = v
    <3>1. q = p
      BY <1>1, <2>1, <2>4 DEF Making
    <3> QED  BY <1>0, <1>1, <1>5, <1>8, <2>2, <2>3, <2>4, <3>1 DEF Undisturbed, There
  <2>5. CASE w # v
    <3>1. q # p
      BY <1>2, <2>2, <2>5 DEF Undisturbed
    <3> QED  BY <1>0, <1>5, <1>6, <2>2, <2>3, <2>5, <3>1 DEF Undisturbed, There
  <2> QED  BY <2>4, <2>5
<1>13. ASSUME NEW q \in Shelf PROVE NobodyWritesIt(q)'
  BY <1>0, <1>1, <1>6, <1>8, <1>9 DEF ThumbInv, NobodyWritesIt
<1>14. ASSUME NEW q \in Shelf PROVE ThumbShows(q)'
  <2> SUFFICES ASSUME There(q), thumb[q].sound, Cached(q)'
               PROVE  frame'[q][thumb[q].inode].shows = shelved[q].content
    BY <1>0 DEF ThumbShows, There
  <2>1. thumb[q].inode \in Frames /\ thumb[q].inode # NoFrame /\ ThumbShows(q)
    BY <1>0 DEF ThumbInv, ThumbShape, Cached
  <2>2. q = p => thumb[q].inode # i
    BY <1>1, <1>2, <2>1 DEF ThumbInv, NobodyWritesIt
  <2>3. frame'[q][thumb[q].inode] = frame[q][thumb[q].inode]
    BY <1>5, <2>1, <2>2
  <2> QED  BY <1>0, <2>1, <2>3 DEF ThumbShows, Cached
<1> QED  BY <1>10, <1>11, <1>12, <1>13, <1>14 DEF ThumbInv

\* The rename publishes what an undisturbed request has filled.
LEMMA PublishThumbThumb ==
    ASSUME ThumbInv, NEW v \in Visitors, PublishThumb(v) PROVE ThumbInv'
<1>0. UNCHANGED <<shelved, clock, frame>> /\ visit[v].at = "publish" /\ Leaves(v)
  BY DEF PublishThumb
<1>1. PICK p: p = visit[v].photo
  OBVIOUS
<1>2. p \in Shelf /\ Making(v, p) /\ visit[v].handle \in Frames \ {NoFrame}
  BY <1>0, <1>1 DEF ThumbInv, VisitMakes, Making
<1>3. CASE scratch[p] = NoFrame
  <2>1. UNCHANGED <<shelved, clock, thumb, scratch, frame>>
    BY <1>0, <1>1, <1>3 DEF PublishThumb
  <2>2. PICK state: state = AtRest
    OBVIOUS
  <2> QED  BY <1>0, <2>1, <2>2, ThumbServes DEF Leaves, AtRest
<1>4. CASE scratch[p] # NoFrame
  <2>1. PICK i, sound: i = scratch[p] /\ sound = visit[v].sound
    OBVIOUS
  <2>2. PICK new: new = [inode |-> i, sound |-> sound]
    OBVIOUS
  <2>3. /\ thumb' = [thumb EXCEPT ![p] = new] /\ scratch' = [scratch EXCEPT ![p] = NoFrame]
        /\ new.inode = i /\ (new.sound <=> sound) /\ DOMAIN new = {"inode", "sound"}
    BY <1>1, <1>4, <2>1, <2>2 DEF PublishThumb
  <2>4. /\ DOMAIN thumb' = Shelf /\ thumb'[p] = new
        /\ \A q \in Shelf \ {p}: thumb'[q] = thumb[q]
        /\ DOMAIN scratch' = Shelf /\ scratch'[p] = NoFrame
        /\ \A q \in Shelf \ {p}: scratch'[q] = scratch[q]
    BY <1>2, <2>3 DEF ThumbInv, ThumbShape
  <2>5. /\ DOMAIN visit' = Visitors /\ visit'[v] = [at |-> "idle"]
        /\ \A w \in Visitors \ {v}: visit'[w] = visit[w]
    BY <1>0 DEF Leaves, Serves, AtRest, ThumbInv, ThumbShape
  <2>6. i \in Frames /\ i # NoFrame
    BY <1>2, <1>4, <2>1 DEF ThumbInv, ThumbShape
  <2>7. /\ \A w \in Visitors \ {v}, q \in Shelf: Making(w, q)' <=> Making(w, q)
        /\ \A q \in Shelf: ~Making(v, q)'
    BY <2>5 DEF Making
  <2>8. ThumbShape'
    BY <1>0, <1>2, <2>3, <2>4, <2>5, <2>6, FrameFacts DEF ThumbInv, ThumbShape
  <2>9. ASSUME NEW w \in Visitors PROVE VisitMakes(w)'
    BY <2>5 DEF ThumbInv, VisitMakes
  <2>10. ASSUME NEW w \in Visitors PROVE MakesSoundly(w)'
    <3> SUFFICES ASSUME NEW q \in Shelf, Making(w, q)', visit'[w].sound PROVE Undisturbed(w, q)'
      BY DEF MakesSoundly
    <3>1. w # v /\ Making(w, q) /\ visit'[w] = visit[w]
      BY <2>5, <2>7
    <3>2. Undisturbed(w, q)
      BY <3>1 DEF ThumbInv, MakesSoundly
    <3>3. q # p
      BY <1>2, <3>1, <3>2 DEF Undisturbed
    <3>4. \A o \in Visitors \ {w}: ~Making(o, q)'
      BY <2>7, <3>2 DEF Undisturbed
    <3> QED  BY <1>0, <2>4, <3>1, <3>2, <3>3, <3>4 DEF Undisturbed, There
  <2>11. sound => Undisturbed(v, p)
    BY <1>2, <2>1 DEF ThumbInv, MakesSoundly
  <2>12. ASSUME NEW q \in Shelf PROVE NobodyWritesIt(q)'
    <3>1. CASE q # p
      BY <2>4, <2>5, <2>7, <3>1 DEF ThumbInv, NobodyWritesIt
    <3>2. CASE q = p
      BY <1>2, <2>3, <2>4, <2>7, <2>11, <3>2 DEF NobodyWritesIt, Undisturbed
    <3> QED  BY <3>1, <3>2
  <2>13. ASSUME NEW q \in Shelf PROVE ThumbShows(q)'
    <3>1. CASE q # p
      BY <1>0, <2>4, <3>1 DEF ThumbInv, ThumbShows, There, Cached
    <3>2. CASE q = p
      <4>1. sound => frame[p][i].shows = shelved[p].content
        BY <1>0, <2>1, <2>11 DEF Undisturbed
      <4> QED  BY <1>0, <2>3, <2>4, <3>2, <4>1 DEF ThumbShows
    <3> QED  BY <3>1, <3>2
  <2> QED  BY <2>8, <2>9, <2>10, <2>12, <2>13 DEF ThumbInv
<1> QED  BY <1>3, <1>4

\* A change of the photo makes its thumbnail old, or unsound when the photo is older.
LEMMA ChangeFolderThumb ==
    ASSUME ThumbInv, NEW p \in Shelf, ChangeFolder(p) PROVE ThumbInv'
<1>0. PICK time \in {clock + 1, 1}: \E made:
         /\ shelved' = [shelved EXCEPT ![p] = [content |-> made, time |-> time]]
         /\ visit' = [v \in Visitors |->
              IF visit[v].at \in {"scanned", "listed"} THEN [visit[v] EXCEPT !.still = FALSE]
              ELSE IF Making(v, p) THEN [visit[v] EXCEPT !.sound = FALSE] ELSE visit[v]]
         /\ thumb' = [thumb EXCEPT ![p].sound =
              @ /\ (thumb[p].inode # NoFrame => time > frame[p][thumb[p].inode].time)]
  BY DEF ChangeFolder
<1>1. PICK made:
         /\ shelved' = [shelved EXCEPT ![p] = [content |-> made, time |-> time]]
         /\ visit' = [v \in Visitors |->
              IF visit[v].at \in {"scanned", "listed"} THEN [visit[v] EXCEPT !.still = FALSE]
              ELSE IF Making(v, p) THEN [visit[v] EXCEPT !.sound = FALSE] ELSE visit[v]]
         /\ thumb' = [thumb EXCEPT ![p].sound =
              @ /\ (thumb[p].inode # NoFrame => time > frame[p][thumb[p].inode].time)]
  BY <1>0
<1>2. UNCHANGED <<scratch, frame>> /\ clock' = clock + 1
  BY DEF ChangeFolder
<1>3. clock \in Int /\ clock' \in Int /\ time \in Int
  BY <1>1, <1>2 DEF ThumbInv, ThumbShape
<1>4. /\ DOMAIN shelved' = Shelf /\ \A q \in Shelf \ {p}: shelved'[q] = shelved[q]
      /\ shelved'[p] = [content |-> made, time |-> time]
  BY <1>1 DEF ThumbInv, ThumbShape
<1>5. /\ DOMAIN thumb' = Shelf /\ \A q \in Shelf \ {p}: thumb'[q] = thumb[q]
      /\ thumb'[p].inode = thumb[p].inode /\ DOMAIN thumb'[p] = DOMAIN thumb[p]
      /\ thumb'[p].sound => /\ thumb[p].sound
                            /\ thumb[p].inode # NoFrame => time > frame[p][thumb[p].inode].time
  BY <1>1 DEF ThumbInv, ThumbShape
<1>6. ASSUME NEW v \in Visitors
      PROVE  /\ "at" \in DOMAIN visit'[v] /\ visit'[v].at = visit[v].at
             /\ Making(v, p) =>
                  /\ DOMAIN visit'[v] = DOMAIN visit[v] /\ ~visit'[v].sound
                  /\ visit'[v].photo = p /\ visit'[v].handle = visit[v].handle
             /\ visit[v].at \in {"decode", "fill", "publish"} /\ ~Making(v, p) => visit'[v] = visit[v]
  <2>0. VisitMakes(v)
    BY DEF ThumbInv
  <2>1. CASE visit[v].at \in {"scanned", "listed"}
    <3>1. visit'[v] = [visit[v] EXCEPT !.still = FALSE]
      BY <1>1, <2>1
    <3> QED  BY <2>0, <2>1, <3>1 DEF VisitMakes, Making
  <2>2. CASE Making(v, p)
    <3>1. visit'[v] = [visit[v] EXCEPT !.sound = FALSE]
      BY <1>1, <2>2 DEF Making
    <3>2. {"at", "photo", "handle", "sound"} \subseteq DOMAIN visit[v] /\ visit[v].photo = p
      BY <2>0, <2>2 DEF VisitMakes, Making
    <3> QED  BY <2>2, <3>1, <3>2
  <2>3. CASE visit[v].at \notin {"scanned", "listed"} /\ ~Making(v, p)
    <3>1. visit'[v] = visit[v]
      BY <1>1, <2>3
    <3> QED  BY <2>0, <2>3, <3>1 DEF VisitMakes
  <2> QED  BY <2>1, <2>2, <2>3
<1>7. DOMAIN visit' = Visitors
  BY <1>1
<1>8. \A v \in Visitors, q \in Shelf: Making(v, q)' <=> Making(v, q)
  BY <1>6 DEF Making
<1>9. ThumbShape'
  BY <1>2, <1>3, <1>4, <1>5, <1>7 DEF ThumbInv, ThumbShape
<1>10. ASSUME NEW v \in Visitors PROVE VisitMakes(v)'
  BY <1>6 DEF ThumbInv, VisitMakes, Making
<1>11. ASSUME NEW v \in Visitors PROVE MakesSoundly(v)'
  <2> SUFFICES ASSUME NEW q \in Shelf, Making(v, q)', visit'[v].sound PROVE Undisturbed(v, q)'
    BY DEF MakesSoundly
  <2>1. Making(v, q) /\ ~Making(v, p)
    BY <1>6, <1>8
  <2>2. q # p /\ visit'[v] = visit[v]
    BY <1>6, <2>1 DEF Making
  <2>3. Undisturbed(v, q)
    BY <2>1, <2>2 DEF ThumbInv, MakesSoundly
  <2>4. \A o \in Visitors \ {v}: ~Making(o, q)'
    BY <1>8, <2>3 DEF Undisturbed
  <2> QED  BY <1>2, <1>4, <2>2, <2>3, <2>4 DEF Undisturbed, There
<1>12. ASSUME NEW q \in Shelf PROVE NobodyWritesIt(q)'
  <2> SUFFICES ASSUME thumb'[q].sound, thumb'[q].inode # NoFrame,
                      NEW v \in Visitors, Making(v, q)'
               PROVE  visit'[v].handle # thumb'[q].inode
    BY DEF NobodyWritesIt
  <2>1. thumb[q].sound /\ thumb'[q].inode = thumb[q].inode /\ Making(v, q)
    BY <1>5, <1>8
  <2>2. visit[v].handle # thumb[q].inode
    BY <2>1 DEF ThumbInv, NobodyWritesIt
  <2>3. visit'[v].handle = visit[v].handle
    BY <1>6, <2>1 DEF Making
  <2> QED  BY <2>1, <2>2, <2>3
<1>13. ASSUME NEW q \in Shelf PROVE ThumbShows(q)'
  <2>1. CASE q # p
    BY <1>2, <1>4, <1>5, <2>1 DEF ThumbInv, ThumbShows, There, Cached
  <2>2. CASE q = p
    <3> SUFFICES ASSUME thumb'[p].sound, Cached(p)' PROVE FALSE
      BY <2>2 DEF ThumbShows
    <3>1. PICK i: i = thumb[p].inode
      OBVIOUS
    <3>2. thumb'[p].inode = i /\ i # NoFrame /\ time > frame[p][i].time
      BY <1>5, <3>1 DEF Cached
    <3>3. frame[p][i].time \in Int
      BY <3>1 DEF ThumbInv, ThumbShape
    <3>4. frame[p][i].time >= time
      BY <1>2, <1>4, <3>2 DEF Cached
    <3> QED  BY <1>3, <3>2, <3>3, <3>4
  <2> QED  BY <2>1, <2>2
<1> QED  BY <1>9, <1>10, <1>11, <1>12, <1>13 DEF ThumbInv

\* Every step keeps the invariant of the thumbnails.
LEMMA ThumbKeeps == ThumbInv /\ [LibraryNext]_libraryVars => ThumbInv'
<1> SUFFICES ASSUME ThumbInv, [LibraryNext]_libraryVars PROVE ThumbInv'
  OBVIOUS
<1>1. CASE UNCHANGED libraryVars
  <2>1. UNCHANGED <<shelved, clock, thumb, scratch, frame, visit>>
    BY <1>1 DEF libraryVars
  <2> QED  BY <2>1, ThumbStays DEF ThumbInv, ThumbShape
<1>2. CASE ThumbNext
  BY <1>2, AskThumbnailThumb, DecodeThumb, FillFrameThumb, PublishThumbThumb DEF ThumbNext
<1>3. ASSUME NEW root \in Roots, RestartService(root) PROVE ThumbInv'
  <2>1. /\ UNCHANGED <<shelved, clock, thumb, scratch, frame>>
        /\ visit' = [v \in Visitors |-> [at |-> "idle"]]
    BY <1>3 DEF RestartService, AtRest
  <2> QED  BY <2>1, ThumbDisturbs
<1>4. CASE AroundNext
  BY <1>3, <1>4, ChangeFolderThumb DEF AroundNext
<1> QED  BY <1>1, <1>2, <1>4, ShelfThumb DEF LibraryNext

-----------------------------------------------------------------------------
(* WebLibrary: pages and totals                                            *)

\* The rows of the jobs: one that failed has no score, and no job started before an
\* earlier one.
NoLabel == ""
ScoreRows ==
    [photo: Shelf, score: Marks \union {NoScore}, label: Labels \union {NoLabel},
     failed: BOOLEAN, started: Nat]
RowsKnown ==
    /\ marked \in Seq(ScoreRows)
    /\ \A i \in DOMAIN marked: marked[i].failed => marked[i].score = NoScore
    /\ \A i, j \in DOMAIN marked: i <= j => marked[i].started <= marked[j].started
TimesKnown ==
    /\ clock \in Nat /\ DOMAIN shelved = Shelf
    /\ \A p \in Shelf: shelved[p].time \in Nat /\ library[p].time \in Nat

\* What an answer under way tells of the database, as long as that stays as it is.
Telling(v) ==
    visit[v].at \in {"counted", "answered"} =>
      /\ {"at", "still"} \subseteq DOMAIN visit[v]
      /\ "indexed" \in DOMAIN visit[v] => "query" \notin DOMAIN visit[v]
      /\ visit[v].still =>
           IF "query" \in DOMAIN visit[v]
           THEN /\ visit[v].query \in AskedFor
                /\ visit[v].total = Cardinality(Matching(visit[v].query))
                /\ visit[v].at = "answered" => visit[v].items = Page(visit[v].query)
           ELSE /\ visit[v].indexed = Cardinality(Indexed(library))
                /\ visit[v].at = "answered" => visit[v].totals = Totals
Timed(v) == visit[v].at = "listed" => \A p \in DOMAIN visit[v].times: visit[v].times[p] \in Nat
ListInv ==
    /\ RowsKnown /\ TimesKnown
    /\ \A v \in Visitors: Telling(v) /\ Timed(v)

\* A set of places has a last one.
LEMMA LastOf ==
    ASSUME NEW n \in Nat, NEW T, T \subseteq 1..n, T # {}
    PROVE  \E m \in T: \A k \in T: k <= m
<1>1. PICK B: B = {m \in Nat: \A k \in T: k <= m}
  OBVIOUS
<1>2. n \in B /\ B \subseteq Nat
  BY <1>1
<1>3. PICK m \in B: \A k \in B: m <= k
  BY <1>2, LeastNatural
<1>4. m \in Nat /\ \A k \in T: k <= m
  BY <1>1
<1>5. m \in T
  <2> SUFFICES ASSUME m \notin T PROVE FALSE
    OBVIOUS
  <2>1. \A k \in T: k <= m - 1
    BY <1>4
  <2>2. m - 1 \in Nat
    <3>1. PICK k \in T: k \in 1..n
      OBVIOUS
    <3>2. 1 <= k /\ k <= m - 1
      BY <2>1, <3>1
    <3> QED  BY <1>4, <3>1, <3>2
  <2>3. m - 1 \in B
    BY <1>1, <2>1, <2>2
  <2> QED  BY <1>3, <1>4, <2>3
<1> QED  BY <1>4, <1>5

\* The row that is read is the last one written.
LEMMA LatestIsLast ==
    ASSUME RowsKnown, NEW p \in Shelf, RowsOfPhoto(p) # {}
    PROVE  LatestRow(p) \in RowsOfPhoto(p) /\ \A i \in RowsOfPhoto(p): i <= LatestRow(p)
<1>1. PICK n \in Nat: n = Len(marked) /\ DOMAIN marked = 1..n
  BY DEF RowsKnown
<1>2. RowsOfPhoto(p) \subseteq 1..n
  BY <1>1 DEF RowsOfPhoto
<1>3. PICK m \in RowsOfPhoto(p): \A k \in RowsOfPhoto(p): k <= m
  BY <1>2, LastOf
<1>4. ASSUME NEW i \in 1..n PROVE marked[i].started \in Nat
  <2>1. marked \in Seq(ScoreRows) /\ i \in DOMAIN marked
    BY <1>1 DEF RowsKnown
  <2>2. marked[i] \in ScoreRows
    BY <2>1
  <2> QED  BY <2>2 DEF ScoreRows
<1> DEFINE latest(i) == \A j \in RowsOfPhoto(p):
                          \/ marked[j].started < marked[i].started
                          \/ marked[j].started = marked[i].started /\ j <= i
<1>5. latest(m)
  <2> SUFFICES ASSUME NEW j \in RowsOfPhoto(p)
               PROVE  \/ marked[j].started < marked[m].started
                      \/ marked[j].started = marked[m].started /\ j <= m
    OBVIOUS
  <2>1. j <= m /\ marked[j].started <= marked[m].started
    BY <1>1, <1>2, <1>3 DEF RowsKnown
  <2> QED  BY <1>2, <1>4, <2>1
<1>6. LatestRow(p) \in RowsOfPhoto(p) /\ latest(LatestRow(p))
  <2>1. \E i \in RowsOfPhoto(p): latest(i)
    BY <1>5
  <2> QED  BY <2>1, Zenon DEF LatestRow
<1>7. PICK c \in RowsOfPhoto(p): c = LatestRow(p)
  BY <1>6
<1>8. ASSUME NEW j \in RowsOfPhoto(p) PROVE j <= c
  <2> SUFFICES ASSUME c < j PROVE FALSE
    BY <1>2
  <2>1. marked[c].started <= marked[j].started
    BY <1>1, <1>2 DEF RowsKnown
  <2>2. \/ marked[j].started < marked[c].started
        \/ marked[j].started = marked[c].started /\ j <= c
    BY <1>6, <1>7
  <2> QED  BY <1>2, <1>4, <2>1, <2>2
<1> QED  BY <1>7, <1>8

\* A photo's score is a number, and none when its last job failed.
LEMMA ScoreIs ==
    ASSUME RowsKnown, NEW p \in Shelf
    PROVE  /\ ScoreRow(p).score \in Nat
           /\ ScoreRow(p).failed => ScoreRow(p).score = NoScore
<1>1. CASE RowsOfPhoto(p) = {}
  BY <1>1 DEF ScoreRow, NoScore
<1>2. CASE RowsOfPhoto(p) # {}
  <2>1. PICK i \in DOMAIN marked: i = LatestRow(p)
    BY <1>2, LatestIsLast DEF RowsOfPhoto
  <2>2. ScoreRow(p) = marked[i]
    BY <1>2, <2>1 DEF ScoreRow
  <2>3. marked[i] \in ScoreRows /\ (marked[i].failed => marked[i].score = NoScore)
    BY DEF RowsKnown
  <2>4. marked[i].score \in Nat
    <3>1. marked[i].score \in Marks \union {NoScore}
      BY <2>3 DEF ScoreRows
    <3>2. Marks \subseteq Nat /\ NoScore \in Nat
      BY LibraryAssumption DEF NoScore
    <3> QED  BY <3>1, <3>2
  <2> QED  BY <2>2, <2>3, <2>4
<1> QED  BY <1>1, <1>2

\* The order of a query, as pairs.
Sorting(query) == {pq \in Shelf \X Shelf: Precedes(pq[1], pq[2], query.order)}

LEMMA SortingPairs ==
    ASSUME NEW query, NEW p \in Shelf, NEW q \in Shelf
    PROVE  <<p, q>> \in Sorting(query) <=> Precedes(p, q, query.order)
BY DEF Sorting

LEMMA MatchingFinite ==
    ASSUME NEW query
    PROVE  Matching(query) \subseteq Shelf /\ IsFiniteSet(Matching(query))
<1>1. Matching(query) \subseteq Shelf
  BY DEF Matching, Indexed
<1> QED  BY <1>1, LibraryAssumption, FS_Subset

\* Whatever is asked for, no two photos share a place.
LEMMA QueriesRank ==
    ASSUME RowsKnown, TimesKnown, NEW query PROVE Ranked(Matching(query), Sorting(query))
<1>1. PICK s: s = [p \in Shelf |-> ScoreRow(p).score]
  OBVIOUS
<1>2. PICK t: t = [p \in Shelf |-> library[p].time]
  OBVIOUS
<1>3. \A p \in Shelf: p \in Nat /\ s[p] \in Nat /\ t[p] \in Nat
  BY <1>1, <1>2, ScoreIs, LibraryAssumption DEF TimesKnown
<1>4. PICK order: order = query.order
  OBVIOUS
<1>5. PICK before: before = Sorting(query)
  OBVIOUS
<1>6. ASSUME NEW p \in Shelf, NEW q \in Shelf
      PROVE  <<p, q>> \in before <=>
               IF order = "score_desc" THEN s[p] > s[q] \/ (s[p] = s[q] /\ p < q)
               ELSE IF order = "score_asc"
               THEN \/ s[p] # 0 /\ s[q] # 0 /\ s[p] < s[q]
                    \/ s[p] # 0 /\ s[q] = 0
                    \/ s[p] = s[q] /\ p < q
               ELSE IF order = "newest" THEN t[p] > t[q] \/ (t[p] = t[q] /\ p < q)
               ELSE p < q
  <2>1. <<p, q>> \in before <=> Precedes(p, q, order)
    BY <1>4, <1>5, SortingPairs
  <2>2. Precedes(p, q, order) <=>
           CASE order = "score_desc" -> s[p] > s[q] \/ (s[p] = s[q] /\ p < q)
             [] order = "score_asc" ->
                  \/ s[p] # 0 /\ s[q] # 0 /\ s[p] < s[q]
                  \/ s[p] # 0 /\ s[q] = 0
                  \/ s[p] = s[q] /\ p < q
             [] order = "newest" -> t[p] > t[q] \/ (t[p] = t[q] /\ p < q)
             [] OTHER -> p < q
    BY <1>1, <1>2 DEF Precedes, NoScore
  <2> QED  BY <2>1, <2>2
<1>7. ASSUME NEW S, S \subseteq Shelf PROVE Ranked(S, before)
  <2>1. CASE order = "score_desc"
    BY <1>3, <1>6, <1>7, <2>1 DEF Ranked
  <2>2. CASE order = "score_asc"
    BY <1>3, <1>6, <1>7, <2>2 DEF Ranked
  <2>3. CASE order = "newest"
    BY <1>3, <1>6, <1>7, <2>3 DEF Ranked
  <2>4. CASE order \notin {"score_desc", "score_asc", "newest"}
    BY <1>3, <1>6, <1>7, <2>4 DEF Ranked
  <2> QED  BY <2>1, <2>2, <2>3, <2>4
<1> QED  BY <1>5, <1>7, MatchingFinite

\* What a page holds, by the photos' places.
Place(p, query) == Cardinality({o \in Matching(query): Precedes(o, p, query.order)})

LEMMA PlaceIs ==
    ASSUME NEW query, NEW p \in Matching(query)
    PROVE  Place(p, query) = Cardinality(Preceding(Matching(query), Sorting(query), p))
<1>1. {o \in Matching(query): Precedes(o, p, query.order)} = Preceding(Matching(query), Sorting(query), p)
  BY MatchingFinite, SortingPairs DEF Preceding
<1> QED  BY <1>1 DEF Place

LEMMA PageHolds ==
    ASSUME RowsKnown, TimesKnown, NEW query \in AskedFor, NEW items, items = Page(query),
           NEW before, before = (query.page - 1) * query.size
    PROVE  /\ \A p \in Matching(query):
                Place(p, query) \in before..(before + query.size - 1) =>
                   Place(p, query) - before < Len(items) /\ items[Place(p, query) - before + 1] = p
           /\ \A i \in DOMAIN items:
                items[i] \in Matching(query) /\ Place(items[i], query) = before + i - 1
<1>1. query.page \in Nat \ {0} /\ query.size \in Nat \ {0}
  BY LibraryAssumption DEF Queries
<1>2. PICK size \in Nat \ {0}: size = query.size
  BY <1>1
<1>3. before \in Nat /\ query.page * query.size = before + size
  BY <1>1, <1>2
<1>4. PICK M: M = Matching(query)
  OBVIOUS
<1>5. PICK n \in Nat: n = Cardinality(M)
  BY <1>4, MatchingFinite, FS_CardinalityType
<1>6. PICK all: all = Ordered(M, Sorting(query))
  OBVIOUS
<1>7. PICK place: place = [p \in M |-> Place(p, query)]
  OBVIOUS
<1>8. \A p \in M: place[p] = Cardinality(Preceding(M, Sorting(query), p))
  BY <1>4, <1>7, PlaceIs
<1>9. /\ DOMAIN all = 1..n
      /\ \A i \in 1..n: all[i] \in M /\ place[all[i]] = i - 1
      /\ \A p \in M: place[p] \in 0..(n - 1)
      /\ \A p, q \in M: place[p] = place[q] => p = q
  <2>1. Ranked(M, Sorting(query)) /\ IsFiniteSet(M)
    BY <1>4, QueriesRank, MatchingFinite
  <2> QED  BY <1>5, <1>6, <1>8, <2>1, SortedLists
<1>10. all = [i \in 1..n |-> all[i]]
  BY <1>5, <1>6 DEF Ordered
<1>11. all \in Seq(M) /\ Len(all) = n
  BY <1>9, <1>10
<1>12. PICK last \in Nat: last = IF before + size < n THEN before + size ELSE n
  BY <1>3
<1>13. items = SubSeq(all, before + 1, last)
  <2>1. items = SubSeq(all, query.page * query.size - query.size + 1,
                       IF query.page * query.size < Len(all) THEN query.page * query.size ELSE Len(all))
    BY <1>4, <1>6 DEF Page, InOrder, Sorting
  <2>2. /\ query.page * query.size - query.size + 1 = before + 1
        /\ (IF query.page * query.size < Len(all) THEN query.page * query.size ELSE Len(all)) = last
    <3>1. PICK bound: bound = query.page * query.size
      OBVIOUS
    <3>2. bound = before + size /\ Len(all) = n
      BY <1>3, <1>11, <3>1
    <3> QED  BY <1>2, <1>3, <1>12, <3>1, <3>2
  <2> QED  BY <2>1, <2>2
<1>14. /\ Len(items) = IF before + 1 <= last THEN last - before ELSE 0
       /\ DOMAIN items = 1..Len(items)
       /\ \A i \in 1..(last - before): items[i] = all[before + i]
  <2>1. before + 1 \in Int /\ last \in Int /\ \A i \in (before + 1)..last: all[i] \in M
    BY <1>3, <1>9, <1>12
  <2>2. /\ items \in Seq(M)
        /\ Len(items) = IF before + 1 <= last THEN last - (before + 1) + 1 ELSE 0
        /\ \A i \in 1..(last - (before + 1) + 1): items[i] = all[(before + 1) + i - 1]
    BY <1>13, <2>1, SubSeqProperties
  <2>3. DOMAIN items = 1..Len(items)
    BY <2>2
  <2>4. last - (before + 1) + 1 = last - before
    BY <1>3
  <2>5. ASSUME NEW i \in 1..(last - before) PROVE items[i] = all[before + i]
    <3>1. items[i] = all[(before + 1) + i - 1]
      BY <2>2, <2>4
    <3>2. (before + 1) + i - 1 = before + i
      BY <1>3
    <3> QED  BY <3>1, <3>2
  <2> QED  BY <2>2, <2>3, <2>4, <2>5
<1>15. ASSUME NEW p \in M, place[p] \in before..(before + size - 1)
       PROVE  place[p] - before < Len(items) /\ items[place[p] - before + 1] = p
  <2>1. PICK r \in Nat: r = place[p]
    BY <1>9
  <2>2. r < n /\ r < before + size /\ before <= r
    BY <1>2, <1>3, <1>9, <1>15, <2>1
  <2>3. r < last /\ before + 1 <= last /\ r - before < Len(items)
    BY <1>3, <1>12, <1>14, <2>2
  <2>4. r - before + 1 \in 1..(last - before) /\ before + (r - before + 1) = r + 1
    BY <1>3, <2>2, <2>3
  <2>5. items[r - before + 1] = all[r + 1]
    BY <1>14, <2>4
  <2>6. r + 1 \in 1..n
    BY <2>2
  <2>7. all[r + 1] \in M /\ place[all[r + 1]] = r
    BY <1>9, <2>6
  <2>8. all[r + 1] = p
    BY <1>9, <2>1, <2>7
  <2> QED  BY <2>1, <2>3, <2>5, <2>8
<1>16. ASSUME NEW i \in DOMAIN items PROVE items[i] \in M /\ place[items[i]] = before + i - 1
  <2>1. before + 1 <= last /\ i \in 1..(last - before)
    BY <1>3, <1>14
  <2>2. PICK k \in 1..n: k = before + i
    BY <1>3, <1>12, <2>1
  <2>3. items[i] = all[k] /\ k - 1 = before + i - 1
    BY <1>3, <1>14, <2>1, <2>2
  <2>4. all[k] \in M /\ place[all[k]] = k - 1
    BY <1>9
  <2> QED  BY <2>3, <2>4
<1> QED  BY <1>2, <1>4, <1>7, <1>15, <1>16

\* The summary adds up.
LEMMA TotalsAddUp ==
    ASSUME RowsKnown
    PROVE  /\ Totals.scored + Totals.errors <= Totals.records
           /\ Totals.records <= Cardinality(Indexed(library))
<1>1. PICK R, A, B: /\ R = ScoreRecords
                    /\ A = {p \in R: ScoreRow(p).score # NoScore}
                    /\ B = {p \in R: ScoreRow(p).failed}
  OBVIOUS
<1>2. /\ Totals.records = Cardinality(R) /\ Totals.scored = Cardinality(A)
      /\ Totals.errors = Cardinality(B)
  BY <1>1 DEF Totals
<1>3. R \subseteq Indexed(library) /\ Indexed(library) \subseteq Shelf
  BY <1>1 DEF ScoreRecords, Indexed
<1>4. A \subseteq R /\ B \subseteq R
  BY <1>1
<1>5. A \cap B = {}
  BY <1>1, <1>3, ScoreIs
<1>6. IsFiniteSet(Indexed(library)) /\ IsFiniteSet(R) /\ IsFiniteSet(A) /\ IsFiniteSet(B)
  BY <1>3, <1>4, LibraryAssumption, FS_Subset
<1>7. Cardinality(R) <= Cardinality(Indexed(library))
  BY <1>3, <1>6, FS_Subset
<1>8. Cardinality(A) + Cardinality(B) <= Cardinality(R)
  <2>1. A \cup B \subseteq R
    BY <1>4
  <2>2. Cardinality(A \cup B) <= Cardinality(R)
    BY <1>6, <2>1, FS_Subset
  <2>3. Cardinality(A \cup B) = Cardinality(A) + Cardinality(B) - Cardinality(A \cap B)
    BY <1>6, FS_Union
  <2>4. Cardinality(A \cap B) = 0
    BY <1>5, FS_EmptySet
  <2>5. Cardinality(A) \in Nat /\ Cardinality(B) \in Nat
    BY <1>6, FS_CardinalityType
  <2> QED  BY <2>2, <2>3, <2>4, <2>5
<1> QED  BY <1>2, <1>7, <1>8

\* The invariant gives the property.
LEMMA ListInvAddsUp == ListInv => ListingsAddUp
<1> SUFFICES ASSUME ListInv PROVE ListingsAddUp
  OBVIOUS
<1>1. ASSUME NEW p \in Shelf, NEW i \in RowsOfPhoto(p) PROVE i <= LatestRow(p)
  BY <1>1, LatestIsLast DEF ListInv
<1>2. ASSUME NEW v \in Visitors, visit[v].at = "answered" /\ visit[v].still,
             "query" \in DOMAIN visit[v]
      PROVE  LET q == visit[v].query
                 items == visit[v].items
                 before == (q.page - 1) * q.size
                 place(p) == Cardinality({o \in Matching(q): Precedes(o, p, q.order)})
             IN /\ visit[v].total = Cardinality(Matching(q))
                /\ \A p \in Matching(q):
                     place(p) \in before..(before + q.size - 1) =>
                        place(p) - before < Len(items) /\ items[place(p) - before + 1] = p
                /\ \A i \in DOMAIN items: items[i] \in Matching(q) /\ place(items[i]) = before + i - 1
  <2>1. Telling(v)
    BY DEF ListInv
  <2>2. PICK q: q = visit[v].query
    OBVIOUS
  <2>3. PICK items: items = visit[v].items
    OBVIOUS
  <2>4. PICK before: before = (q.page - 1) * q.size
    OBVIOUS
  <2>5. q \in AskedFor /\ visit[v].total = Cardinality(Matching(q)) /\ items = Page(q)
    BY <1>2, <2>1, <2>2, <2>3 DEF Telling
  <2>6. /\ \A p \in Matching(q):
                Place(p, q) \in before..(before + q.size - 1) =>
                   Place(p, q) - before < Len(items) /\ items[Place(p, q) - before + 1] = p
        /\ \A i \in DOMAIN items: items[i] \in Matching(q) /\ Place(items[i], q) = before + i - 1
    BY <2>4, <2>5, PageHolds DEF ListInv
  <2> QED  BY <2>2, <2>3, <2>4, <2>5, <2>6 DEF Place
<1>3. ASSUME NEW v \in Visitors, visit[v].at = "answered" /\ visit[v].still,
             "query" \notin DOMAIN visit[v]
      PROVE  /\ visit[v].totals.scored + visit[v].totals.errors <= visit[v].totals.records
             /\ visit[v].totals.records <= visit[v].indexed
  <2>1. Telling(v)
    BY DEF ListInv
  <2>2. visit[v].totals = Totals /\ visit[v].indexed = Cardinality(Indexed(library))
    BY <1>3, <2>1 DEF Telling
  <2> QED  BY <2>2, TotalsAddUp DEF ListInv
<1> QED  BY <1>1, <1>2, <1>3 DEF ListingsAddUp

\* What is read depends on the index, the rows and the root alone.
LEMMA SameAnswers ==
    ASSUME UNCHANGED <<library, marked, home>>
    PROVE  /\ \A query: Matching(query)' = Matching(query) /\ Page(query)' = Page(query)
           /\ Indexed(library)' = Indexed(library) /\ Totals' = Totals
<1>1. \A p: RowsOfPhoto(p)' = RowsOfPhoto(p)
  BY DEF RowsOfPhoto
<1>2. \A p: LatestRow(p)' = LatestRow(p)
  BY <1>1 DEF LatestRow
<1>3. \A p: ScoreRow(p)' = ScoreRow(p)
  BY <1>1, <1>2 DEF ScoreRow
<1>4. Indexed(library)' = Indexed(library)
  BY DEF Indexed
<1>5. ASSUME NEW query PROVE Matching(query)' = Matching(query)
  <2>1. \A p: Matches(p, query)' <=> Matches(p, query)
    BY <1>3 DEF Matches
  <2> QED  BY <1>4, <2>1 DEF Matching
<1>6. ASSUME NEW query PROVE Page(query)' = Page(query)
  <2>1. \A p, q: Precedes(p, q, query.order)' <=> Precedes(p, q, query.order)
    BY <1>3 DEF Precedes
  <2>2. Sorting(query)' = Sorting(query)
    BY <2>1 DEF Sorting
  <2>3. InOrder(query) = Ordered(Matching(query), Sorting(query))
    BY DEF InOrder, Sorting
  <2>4. InOrder(query)' = Ordered(Matching(query)', Sorting(query)')
    BY DEF InOrder, Sorting
  <2>5. InOrder(query)' = InOrder(query)
    BY <1>5, <2>2, <2>3, <2>4
  <2> QED  BY <2>5 DEF Page
<1>7. Totals' = Totals
  <2>1. ScoreRecords' = ScoreRecords
    BY <1>1, <1>4 DEF ScoreRecords
  <2> QED  BY <1>3, <2>1 DEF Totals
<1> QED  BY <1>4, <1>5, <1>6, <1>7

LEMMA ListStart == LibraryInit => ListInv
<1> SUFFICES ASSUME LibraryInit PROVE ListInv
  OBVIOUS
<1>1. \A v \in Visitors: visit[v] = [at |-> "idle"]
  BY DEF LibraryInit, AtRest
<1>2. \A v \in Visitors: Telling(v) /\ Timed(v)
  BY <1>1 DEF Telling, Timed
<1>3. RowsKnown
  <2>1. marked = <<>>
    BY DEF LibraryInit
  <2> QED  BY <2>1 DEF RowsKnown
<1>4. TimesKnown
  <2>1. clock = 1 /\ shelved \in [Shelf -> [content: {0, 1}, time: {1}]]
    BY DEF LibraryInit
  <2>2. ASSUME NEW p \in Shelf PROVE library[p].time \in Nat
    <3>1. \/ library = [q \in Shelf |-> NotIndexed]
          \/ library = [q \in Shelf |-> IF There(q) /\ q \in RootHolds[home]
                                    THEN [root |-> home, scan |-> 0, time |-> 1] ELSE NotIndexed]
      BY DEF LibraryInit
    <3>0. PICK none: none = ""
      OBVIOUS
    <3>2. PICK root: root = home
      OBVIOUS
    <3>3. library[p] = [root |-> none, scan |-> 0, time |-> 0] \/ library[p] = [root |-> root, scan |-> 0, time |-> 1]
      BY <3>0, <3>1, <3>2 DEF NotIndexed
    <3> QED  BY <3>3
  <2> QED  BY <2>1, <2>2 DEF TimesKnown
<1> QED  BY <1>2, <1>3, <1>4 DEF ListInv

\* As long as the database stays, so does what is told of it.
LEMMA ListStays ==
    ASSUME ListInv, UNCHANGED <<library, marked, home>>, TimesKnown',
           \A v \in Visitors: \/ visit'[v] = visit[v]
                              \/ visit'[v].at \notin {"counted", "answered", "listed"}
                              \/ Telling(v)' /\ Timed(v)'
    PROVE  ListInv'
<1>1. RowsKnown'
  BY DEF ListInv, RowsKnown
<1>2. ASSUME NEW v \in Visitors PROVE Telling(v)' /\ Timed(v)'
  <2>1. Telling(v) /\ Timed(v)
    BY DEF ListInv
  <2>2. CASE visit'[v] = visit[v]
    BY <2>1, <2>2, SameAnswers DEF Telling, Timed
  <2>3. CASE visit'[v].at \notin {"counted", "answered", "listed"}
    BY <2>3 DEF Telling, Timed
  <2> QED  BY <2>2, <2>3
<1> QED  BY <1>1, <1>2 DEF ListInv

\* A request that reads the database or answers.
LEMMA ListServes ==
    ASSUME IndexInv, ListInv, NEW v \in Visitors, NEW state, Serves(v, state),
           UNCHANGED <<library, marked, home, shelved, clock>>,
           visit'[v] = state =>
              state.at \notin {"counted", "answered", "listed"} \/ (Telling(v)' /\ Timed(v)')
    PROVE  ListInv'
<1>1. visit'[v] = state /\ \A w \in Visitors \ {v}: visit'[w] = visit[w]
  BY DEF Serves, IndexInv
<1>2. TimesKnown'
  BY DEF ListInv, TimesKnown
<1> QED  BY <1>1, <1>2, ListStays

\* A request that reads no answer.
LEMMA ListIgnores ==
    ASSUME IndexInv, ListInv, NEW v \in Visitors, NEW state, Serves(v, state),
           UNCHANGED <<library, marked, home, shelved, clock>>,
           state.at \notin {"counted", "answered", "listed"}
    PROVE  ListInv'
BY ListServes

\* Pages and summaries are counted and read.
LEMMA AnswersList ==
    ASSUME IndexInv, ListInv, NEW v \in Visitors,
           CountItems(v) \/ ReadPage(v) \/ CountIndexed(v) \/ ReadTotals(v)
    PROVE  ListInv'
<1>0. UNCHANGED <<library, marked, home, shelved, clock>>
  BY DEF CountItems, ReadPage, CountIndexed, ReadTotals
<1>1. /\ \A query: Matching(query)' = Matching(query) /\ Page(query)' = Page(query)
      /\ Indexed(library)' = Indexed(library) /\ Totals' = Totals
  BY <1>0, SameAnswers
<1>2. Telling(v)
  BY DEF ListInv
<1>3. CASE CountItems(v)
  <2>1. PICK query \in AskedFor: Serves(v, [at |-> "counted", still |-> TRUE, query |-> query,
                               total |-> Cardinality(Matching(query))])
    BY <1>3 DEF CountItems
  <2>2. PICK total: total = Cardinality(Matching(query))
    OBVIOUS
  <2>3. PICK state: state = [at |-> "counted", still |-> TRUE, query |-> query, total |-> total]
    OBVIOUS
  <2>4. visit'[v] = state => Telling(v)' /\ Timed(v)'
    BY <1>1, <2>2, <2>3 DEF Telling, Timed
  <2>5. Serves(v, state)
    BY <2>1, <2>2, <2>3
  <2> QED  BY <1>0, <2>4, <2>5, ListServes
<1>4. CASE ReadPage(v)
  <2>1. PICK still, query, total, items:
           /\ still = visit[v].still /\ query = visit[v].query /\ total = visit[v].total
           /\ items = Page(visit[v].query)
    OBVIOUS
  <2>2. PICK state: state = [at |-> "answered", still |-> still, query |-> query,
                             total |-> total, items |-> items]
    OBVIOUS
  <2>3. Serves(v, state) /\ visit[v].at = "counted" /\ "query" \in DOMAIN visit[v]
    BY <1>4, <2>1, <2>2 DEF ReadPage
  <2>4. still => query \in AskedFor /\ total = Cardinality(Matching(query)) /\ items = Page(query)
    BY <1>2, <2>1, <2>3 DEF Telling
  <2>5. visit'[v] = state => Telling(v)' /\ Timed(v)'
    BY <1>1, <2>2, <2>4 DEF Telling, Timed
  <2> QED  BY <1>0, <2>3, <2>5, ListServes
<1>5. CASE CountIndexed(v)
  <2>1. PICK indexed: indexed = Cardinality(Indexed(library))
    OBVIOUS
  <2>2. PICK state: state = [at |-> "counted", still |-> TRUE, indexed |-> indexed]
    OBVIOUS
  <2>3. Serves(v, state)
    BY <1>5, <2>1, <2>2 DEF CountIndexed
  <2>4. visit'[v] = state => Telling(v)' /\ Timed(v)'
    BY <1>1, <2>1, <2>2 DEF Telling, Timed
  <2> QED  BY <1>0, <2>3, <2>4, ListServes
<1>6. CASE ReadTotals(v)
  <2>1. PICK still, indexed, totals:
           still = visit[v].still /\ indexed = visit[v].indexed /\ totals = Totals
    OBVIOUS
  <2>2. PICK state: state = [at |-> "answered", still |-> still, indexed |-> indexed, totals |-> totals]
    OBVIOUS
  <2>3. Serves(v, state) /\ visit[v].at = "counted" /\ "indexed" \in DOMAIN visit[v]
    BY <1>6, <2>1, <2>2 DEF ReadTotals
  <2>4. still => indexed = Cardinality(Indexed(library)) /\ totals = Totals
    BY <1>2, <2>1, <2>3 DEF Telling
  <2>5. visit'[v] = state => Telling(v)' /\ Timed(v)'
    BY <1>1, <2>2, <2>4 DEF Telling, Timed
  <2> QED  BY <1>0, <2>3, <2>5, ListServes
<1> QED  BY <1>3, <1>4, <1>5, <1>6

\* A maker starts.
LEMMA DecodeList ==
    ASSUME IndexInv, ListInv, NEW v \in Visitors, Decode(v), ~Leaves(v) PROVE ListInv'
<1>1. PICK p: p = visit[v].photo
  OBVIOUS
<1>2. PICK i: i = IF scratch[p] = NoFrame THEN FreeFrame(p) ELSE scratch[p]
  OBVIOUS
<1>3. PICK taken: taken = shelved[p].content
  OBVIOUS
<1>4. PICK alone: alone = \A w \in Visitors \ {v}: ~Making(w, p)
  OBVIOUS
<1>5. visit' = [w \in Visitors |->
              IF w = v THEN [at |-> "fill", photo |-> p, handle |-> i,
                             taken |-> taken, sound |-> alone]
              ELSE IF Making(w, p) THEN [visit[w] EXCEPT !.sound = FALSE] ELSE visit[w]]
  BY <1>1, <1>2, <1>3, <1>4 DEF Decode
<1>6. ASSUME NEW w \in Visitors, visit'[w] # visit[w]
      PROVE  visit'[w].at \notin {"counted", "answered", "listed"}
  <2>1. CASE w = v
    BY <1>5, <2>1
  <2>2. CASE w # v
    <3>1. Making(w, p) /\ visit'[w] = [visit[w] EXCEPT !.sound = FALSE]
      BY <1>5, <1>6, <2>2
    <3>2. "at" \in DOMAIN visit[w]
      BY DEF IndexInv, VisitKnows
    <3> QED  BY <3>1, <3>2 DEF Making
  <2> QED  BY <2>1, <2>2
<1>7. UNCHANGED <<library, marked, home, shelved, clock>>
  BY DEF Decode
<1>8. TimesKnown'
  BY <1>7 DEF ListInv, TimesKnown
<1> QED  BY <1>7, <1>8, <1>6, ListStays

\* Scans, ends of answers and thumbnails.
LEMMA OthersList ==
    ASSUME IndexInv, ListInv, NEW v \in Visitors,
           ScanFolder(v) \/ EndVisit(v) \/ AskThumbnail(v) \/ Decode(v) \/ FillFrame(v) \/ PublishThumb(v)
    PROVE  ListInv'
<1>0. UNCHANGED <<library, marked, home, shelved, clock>>
  BY DEF ScanFolder, EndVisit, AskThumbnail, Decode, FillFrame, PublishThumb
<1>1. CASE ScanFolder(v)
  <2>1. PICK state: state = [at |-> "scanned", scan |-> scans + 1, still |-> TRUE,
                             found |-> {p \in RootHolds[home]: There(p)}]
    OBVIOUS
  <2> QED  BY <1>0, <1>1, <2>1, ListIgnores DEF ScanFolder
<1>2. CASE EndVisit(v) \/ PublishThumb(v) \/ Leaves(v)
  <2>1. PICK state: state = AtRest
    OBVIOUS
  <2> QED  BY <1>0, <1>2, <2>1, ListIgnores DEF EndVisit, PublishThumb, Leaves, AtRest
<1>3. CASE AskThumbnail(v)
  <2>1. PICK p: Serves(v, [at |-> "decode", photo |-> p])
    BY <1>3 DEF AskThumbnail
  <2>2. PICK state: state = [at |-> "decode", photo |-> p]
    OBVIOUS
  <2> QED  BY <1>0, <2>1, <2>2, ListIgnores
<1>4. TimesKnown'
  BY <1>0 DEF ListInv, TimesKnown
<1>6. CASE FillFrame(v)
  <2>1. visit' = [visit EXCEPT ![v].at = "publish"]
    BY <1>6 DEF FillFrame
  <2>2. visit'[v] = [visit[v] EXCEPT !.at = "publish"] /\ "at" \in DOMAIN visit[v]
    BY <2>1 DEF IndexInv, VisitKnows
  <2>3. visit'[v].at = "publish" /\ \A w \in Visitors \ {v}: visit'[w] = visit[w]
    BY <2>1, <2>2 DEF IndexInv
  <2> QED  BY <1>0, <1>4, <2>3, ListStays
<1>5. CASE Decode(v) /\ ~Leaves(v)
  BY <1>5, DecodeList
<1> QED  BY <1>1, <1>2, <1>3, <1>5, <1>6

\* The status of the files.
LEMMA StatFilesList ==
    ASSUME IndexInv, ListInv, NEW v \in Visitors, StatFiles(v) PROVE ListInv'
<1>1. PICK remains: remains = {p \in visit[v].found: There(p)}
  OBVIOUS
<1>2. PICK times: times = [p \in remains |-> shelved[p].time]
  OBVIOUS
<1>3. PICK scan, still: scan = visit[v].scan /\ still = visit[v].still
  OBVIOUS
<1>4. PICK state: state = [at |-> "listed", scan |-> scan, still |-> still, times |-> times]
  OBVIOUS
<1>5. Serves(v, state) /\ UNCHANGED <<shelved, clock, library, marked, home>>
  BY <1>1, <1>2, <1>3, <1>4 DEF StatFiles
<1>6. remains \subseteq Shelf
  <2>1. ScanKnows(v)
    BY DEF StatFiles, IndexInv, VisitKnows
  <2> QED  BY <1>1, <2>1, LibraryAssumption DEF ScanKnows, IndexInv, Roots
<1>7. \A p \in remains: times[p] \in Nat
  BY <1>2, <1>6 DEF ListInv, TimesKnown
<1>8. visit'[v] = state => Telling(v)' /\ Timed(v)'
  BY <1>2, <1>4, <1>7 DEF Telling, Timed
<1> QED  BY <1>5, <1>8, ListServes

\* An answer under way is disturbed by whoever writes the database.
DisturbsAnswers ==
    \A v \in Visitors: IF visit[v].at \in {"counted", "answered"}
                       THEN visit'[v] = [visit[v] EXCEPT !.still = FALSE]
                       ELSE visit'[v] = visit[v] \/ visit'[v].at = "idle"
LEMMA ListDisturbed ==
    ASSUME IndexInv, ListInv, DisturbsAnswers, NEW v \in Visitors
    PROVE  Telling(v)' /\ Timed(v)'
<1>1. Telling(v) /\ Timed(v)
  BY DEF ListInv
<1>2. CASE visit[v].at \in {"counted", "answered"}
  <2>1. visit'[v] = [visit[v] EXCEPT !.still = FALSE] /\ {"at", "still"} \subseteq DOMAIN visit[v]
    BY <1>1, <1>2 DEF Telling, DisturbsAnswers
  <2>2. /\ ~visit'[v].still /\ visit'[v].at = visit[v].at
        /\ DOMAIN visit'[v] = DOMAIN visit[v]
    BY <2>1
  <2> QED  BY <1>1, <1>2, <2>1, <2>2 DEF Telling, Timed
<1>3. CASE visit[v].at \notin {"counted", "answered"}
  <2>1. CASE visit'[v] = visit[v]
    BY <1>1, <1>3, <2>1 DEF Telling, Timed
  <2>2. CASE visit'[v].at = "idle"
    BY <2>2 DEF Telling, Timed
  <2> QED  BY <1>3, <2>1, <2>2 DEF DisturbsAnswers
<1> QED  BY <1>2, <1>3

\* A refresh is committed.
LEMMA CommitIndexList ==
    ASSUME IndexInv, ListInv, NEW v \in Visitors, CommitIndex(v) PROVE ListInv'
<1>1. DisturbsAnswers
  <2>1. visit' = [w \in Visitors |-> IF w = v THEN AtRest
                    ELSE IF visit[w].at \in {"counted", "answered"}
                    THEN [visit[w] EXCEPT !.still = FALSE] ELSE visit[w]]
        /\ visit[v].at = "listed"
    BY DEF CommitIndex
  <2> QED  BY <2>1 DEF DisturbsAnswers, AtRest
<1>2. RowsKnown'
  BY DEF CommitIndex, ListInv, RowsKnown
<1>3. TimesKnown'
  <2>1. PICK times, scan: times = visit[v].times /\ scan = visit[v].scan
    OBVIOUS
  <2>2. library' = [p \in Shelf |->
                    IF p \in DOMAIN times THEN [root |-> home, scan |-> scan, time |-> times[p]]
                    ELSE IF library[p].root = home THEN NotIndexed ELSE library[p]]
    BY <2>1 DEF CommitIndex, FilledIndex
  <2>3. \A p \in DOMAIN times: times[p] \in Nat
    BY <2>1 DEF CommitIndex, ListInv, Timed
  <2>4. ASSUME NEW p \in Shelf PROVE library'[p].time \in Nat
    <3>1. CASE p \in DOMAIN times
      <4>1. PICK root: root = home
        OBVIOUS
      <4>3. PICK time: time = times[p]
        OBVIOUS
      <4>2. library'[p] = [root |-> root, scan |-> scan, time |-> time]
        BY <2>2, <3>1, <4>1, <4>3
      <4> QED  BY <2>3, <3>1, <4>2, <4>3
    <3>2. CASE p \notin DOMAIN times /\ library[p].root = home
      <4>1. PICK none: none = ""
        OBVIOUS
      <4>2. library'[p] = [root |-> none, scan |-> 0, time |-> 0]
        BY <2>2, <3>2, <4>1 DEF NotIndexed
      <4> QED  BY <4>2
    <3>3. CASE p \notin DOMAIN times /\ library[p].root # home
      <4>1. library'[p] = library[p]
        BY <2>2, <3>3
      <4> QED  BY <4>1 DEF ListInv, TimesKnown
    <3> QED  BY <3>1, <3>2, <3>3
  <2> QED  BY <2>4 DEF CommitIndex, ListInv, TimesKnown
<1> QED  BY <1>1, <1>2, <1>3, ListDisturbed DEF ListInv

\* A job writes one row more.
LEMMA JobScoresList ==
    ASSUME IndexInv, ListInv, JobScores PROVE ListInv'
<1>1. DisturbsAnswers
  <2>1. visit' = [v \in Visitors |-> IF visit[v].at \in {"counted", "answered"}
                                     THEN [visit[v] EXCEPT !.still = FALSE] ELSE visit[v]]
    BY DEF JobScores
  <2> QED  BY <2>1 DEF DisturbsAnswers
<1>2. TimesKnown'
  BY DEF JobScores, ListInv, TimesKnown
<1>3. RowsKnown'
  <2>1. PICK p \in Shelf, later \in {0, 1}, score \in Marks \union {NoScore}, label \in Labels:
         marked' = Append(marked,
            [photo |-> p, score |-> score, label |-> IF score = NoScore THEN "" ELSE label,
             failed |-> score = NoScore,
             started |-> IF marked = <<>> THEN 1 ELSE marked[Len(marked)].started + later])
    BY DEF JobScores
  <2>2. PICK shown \in Labels \union {NoLabel}: shown = IF score = NoScore THEN NoLabel ELSE label
    OBVIOUS
  <2>3. PICK n \in Nat: n = Len(marked) /\ DOMAIN marked = 1..n
    <3>1. marked \in Seq(ScoreRows)
      BY DEF ListInv, RowsKnown
    <3> QED  BY <3>1
  <2>0. \A i \in 1..n: marked[i].started \in Nat
    <3>1. marked \in Seq(ScoreRows)
      BY DEF ListInv, RowsKnown
    <3>2. \A i \in 1..n: marked[i] \in ScoreRows
      BY <2>3, <3>1
    <3> QED  BY <3>2 DEF ScoreRows
  <2>4. /\ marked \in Seq(ScoreRows)
        /\ \A i \in 1..n: marked[i].started \in Nat
        /\ \A i, j \in 1..n: i <= j => marked[i].started <= marked[j].started
        /\ \A i \in 1..n: marked[i].failed => marked[i].score = NoScore
    BY <2>0, <2>3 DEF ListInv, RowsKnown
  <2>5. PICK began \in Nat: began = IF marked = <<>> THEN 1 ELSE marked[Len(marked)].started + later
    BY <2>3, <2>4
  <2>6. \A i \in 1..n: marked[i].started <= began
    BY <2>3, <2>4, <2>5
  <2>7. PICK failed \in BOOLEAN: failed <=> score = NoScore
    OBVIOUS
  <2>8. PICK row: row = [photo |-> p, score |-> score, label |-> shown, failed |-> failed, started |-> began]
    OBVIOUS
  <2>9. marked' = Append(marked, row)
    BY <2>1, <2>2, <2>5, <2>7, <2>8 DEF NoLabel
  <2>10. row \in ScoreRows /\ row.started = began /\ (row.failed => row.score = NoScore)
    BY <2>7, <2>8 DEF ScoreRows
  <2>11. /\ marked' \in Seq(ScoreRows) /\ DOMAIN marked' = 1..(n + 1)
         /\ marked'[n + 1] = row /\ \A i \in 1..n: marked'[i] = marked[i]
    BY <2>3, <2>4, <2>9, <2>10
  <2>12. ASSUME NEW i \in 1..(n + 1), NEW j \in 1..(n + 1), i <= j
         PROVE  marked'[i].started <= marked'[j].started
    <3>1. CASE j \in 1..n
      BY <2>4, <2>11, <2>12, <3>1
    <3>2. CASE j = n + 1 /\ i \in 1..n
      BY <2>6, <2>10, <2>11, <3>2
    <3>3. CASE j = n + 1 /\ i = n + 1
      BY <2>10, <2>11, <3>3
    <3> QED  BY <2>12, <3>1, <3>2, <3>3
  <2>13. \A i \in 1..(n + 1): marked'[i].failed => marked'[i].score = NoScore
    <3>1. \A i \in 1..(n + 1): i \in 1..n \/ i = n + 1
      OBVIOUS
    <3> QED  BY <2>4, <2>10, <2>11, <3>1
  <2> QED  BY <2>11, <2>12, <2>13 DEF RowsKnown
<1> QED  BY <1>1, <1>2, <1>3, ListDisturbed DEF ListInv

\* The directory changes, the database does not.
LEMMA ChangeFolderList ==
    ASSUME IndexInv, ListInv, NEW p \in Shelf, ChangeFolder(p) PROVE ListInv'
<1>1. /\ UNCHANGED <<library, marked, home>> /\ clock' = clock + 1
      /\ visit' = [v \in Visitors |->
              IF visit[v].at \in {"scanned", "listed"} THEN [visit[v] EXCEPT !.still = FALSE]
              ELSE IF Making(v, p) THEN [visit[v] EXCEPT !.sound = FALSE] ELSE visit[v]]
  BY DEF ChangeFolder
<1>2. TimesKnown'
  <2>1. PICK time \in {clock + 1, 1}: \E made:
           shelved' = [shelved EXCEPT ![p] = [content |-> made, time |-> time]]
    BY DEF ChangeFolder
  <2>2. PICK made: shelved' = [shelved EXCEPT ![p] = [content |-> made, time |-> time]]
    BY <2>1
  <2>3. clock \in Nat /\ time \in Nat /\ clock' \in Nat
    BY <1>1 DEF ListInv, TimesKnown
  <2>4. /\ DOMAIN shelved' = Shelf /\ \A q \in Shelf \ {p}: shelved'[q] = shelved[q]
        /\ shelved'[p] = [content |-> made, time |-> time]
    BY <2>2 DEF ListInv, TimesKnown
  <2> QED  BY <1>1, <2>3, <2>4 DEF ListInv, TimesKnown
<1>3. ASSUME NEW v \in Visitors, visit'[v] # visit[v]
      PROVE  visit'[v].at \notin {"counted", "answered", "listed"} \/ (Telling(v)' /\ Timed(v)')
  <2>0. VisitKnows(v) /\ Timed(v)
    BY DEF IndexInv, ListInv
  <2>1. CASE visit[v].at \in {"scanned", "listed"}
    <3>1. visit'[v] = [visit[v] EXCEPT !.still = FALSE]
      BY <1>1, <2>1
    <3>2. visit'[v].at = visit[v].at
          /\ ("times" \in DOMAIN visit[v] => visit'[v].times = visit[v].times)
      BY <2>0, <3>1 DEF VisitKnows
    <3>3. visit[v].at = "listed" => "times" \in DOMAIN visit[v]
      BY <2>0 DEF VisitKnows, ListKnows
    <3> QED  BY <2>0, <2>1, <3>2, <3>3 DEF Telling, Timed
  <2>2. CASE visit[v].at \notin {"scanned", "listed"}
    <3>1. Making(v, p) /\ visit'[v] = [visit[v] EXCEPT !.sound = FALSE]
      BY <1>1, <1>3, <2>2
    <3> QED  BY <2>0, <3>1 DEF VisitKnows, Making
  <2> QED  BY <2>1, <2>2
<1> QED  BY <1>1, <1>2, <1>3, ListStays

LEMMA RestartServiceList ==
    ASSUME IndexInv, ListInv, NEW root \in Roots, RestartService(root) PROVE ListInv'
<1>1. UNCHANGED <<shelved, clock, library, marked>>
      /\ visit' = [v \in Visitors |-> [at |-> "idle"]]
  BY DEF RestartService, AtRest
<1>2. \A v \in Visitors: Telling(v)' /\ Timed(v)'
  BY <1>1 DEF Telling, Timed
<1>3. RowsKnown' /\ TimesKnown'
  BY <1>1 DEF ListInv, RowsKnown, TimesKnown
<1> QED  BY <1>2, <1>3 DEF ListInv

\* Every step keeps the invariant of pages and totals.
LEMMA ListKeeps == IndexInv /\ ListInv /\ [LibraryNext]_libraryVars => ListInv'
<1> SUFFICES ASSUME IndexInv, ListInv, [LibraryNext]_libraryVars PROVE ListInv'
  OBVIOUS
<1>1. CASE UNCHANGED libraryVars
  <2>1. UNCHANGED <<library, marked, home, shelved, clock, visit>>
    BY <1>1 DEF libraryVars
  <2>2. TimesKnown'
    BY <2>1 DEF ListInv, TimesKnown
  <2> QED  BY <2>1, <2>2, ListStays
<1>2. CASE ShelfNext
  BY <1>2, OthersList, StatFilesList, CommitIndexList, AnswersList, JobScoresList DEF ShelfNext
<1>3. CASE ThumbNext
  BY <1>3, OthersList DEF ThumbNext
<1>4. CASE AroundNext
  BY <1>4, ChangeFolderList, RestartServiceList DEF AroundNext
<1> QED  BY <1>1, <1>2, <1>3, <1>4 DEF LibraryNext

-----------------------------------------------------------------------------
(* WebLibrary: both                                                        *)

(* Whichever refreshes and requests run at once, photos come and go and    *)
(* services are started, the index is what one scan found, an undisturbed  *)
(* thumbnail shows its photo, and an answer that no writer disturbed is    *)
(* the page that was asked for, or adds up (WebLibraryRepository,          *)
(* _thumbnail of web_service.py).                                          *)
THEOREM LibraryAlwaysShows == LibrarySpec => [](IndexIsAScan /\ ThumbnailsShow /\ ListingsAddUp)
<1>1. LibraryInit => IndexInv /\ ThumbInv /\ ListInv
  BY IndexStart, ThumbStart, ListStart
<1>2. (IndexInv /\ ThumbInv /\ ListInv) /\ [LibraryNext]_libraryVars
         => (IndexInv /\ ThumbInv /\ ListInv)'
  BY IndexKeeps, ThumbKeeps, ListKeeps
<1>3. IndexInv /\ ThumbInv /\ ListInv => IndexIsAScan /\ ThumbnailsShow /\ ListingsAddUp
  BY ListInvAddsUp DEF IndexInv, ThumbInv, ThumbShows, ThumbnailsShow
<1> QED  BY <1>1, <1>2, <1>3, PTL DEF LibrarySpec

-----------------------------------------------------------------------------
(* ScoreAudit                                                              *)

\* The rows that a report of a kind tells of.
Held(kind, j) == IF kind = "pinned" THEN jobs[j].rows ELSE ScoredRows(jobs[j].rows)

\* It tells of jobs that are over, what the database says of them.
TellsOf(report, k) ==
    /\ report.of[k] \in JobIds /\ jobs[report.of[k]].status \in TerminalJobs
    /\ report.cohorts[k].rows = RowFacts(Held(report.kind, report.of[k]))
Tells(o, report) ==
    /\ report.by \in Readers /\ report.kind \in {"pinned", "latest"}
    /\ DOMAIN report.cohorts = DOMAIN report.of
    /\ \A k \in DOMAIN report.of:
         TellsOf(report, k) /\ (report.kind = "pinned" => ~Related(o, jobs[report.of[k]].root))
    /\ ~Related(o, Requested)

\* How far a reader has come.
Publishes(r) ==
    /\ reader[r].output \in Outputs
    /\ Tells(reader[r].output, reader[r].report)
    /\ reader[r].report.kind = "pinned" /\ reader[r].report.by = r
Reviews(r) ==
    /\ reader[r].output \in Outputs /\ ~Related(reader[r].output, Requested)
    /\ reader[r].of \in JobIds /\ jobs[reader[r].of].status \in TerminalJobs
    /\ reader[r].at = "payloads" => reader[r].rows = ScoredRows(jobs[reader[r].of].rows)
Published(r) ==
    /\ reader[r].output \in Outputs /\ reports[reader[r].output] # Nobody
    /\ reader[r].kind = "pinned" => \/ reports[reader[r].output].by = r
                                    \/ reports[reader[r].output].kind = "latest"
ReaderKnows(r) ==
    /\ reader[r].at = "publish" => Publishes(r)
    /\ reader[r].at \in {"rows", "payloads"} => Reviews(r)
    /\ reader[r].at = "published" => Published(r)
AuditInv ==
    /\ DOMAIN jobs = JobIds /\ DOMAIN reader = Readers /\ DOMAIN reports = Outputs
    /\ \A r \in Readers: ReaderKnows(r)
    /\ \A o \in Outputs: reports[o] # Nobody => Tells(o, reports[o])

LEMMA AuditStart == AuditInit => AuditInv
<1> SUFFICES ASSUME AuditInit PROVE AuditInv
  OBVIOUS
<1>1. DOMAIN jobs = JobIds
  BY DEF AuditInit
<1>2. /\ DOMAIN reader = Readers /\ \A r \in Readers: reader[r].at = "idle"
      /\ DOMAIN reports = Outputs /\ \A o \in Outputs: reports[o] = Nobody
  BY DEF AuditInit, ReaderIdle
<1> QED  BY <1>1, <1>2 DEF AuditInv, ReaderKnows

\* As long as the jobs that are over stay as they are, so does what was told.
LEMMA ToldStays ==
    ASSUME NEW o, NEW report, Tells(o, report),
           \A j \in JobIds: jobs[j].status \in TerminalJobs => jobs'[j] = jobs[j]
    PROVE  Tells(o, report)'
<1>1. ASSUME NEW k \in DOMAIN report.of
      PROVE  /\ TellsOf(report, k)'
             /\ report.kind = "pinned" => ~Related(o, jobs'[report.of[k]].root)
  <2>1. TellsOf(report, k) /\ (report.kind = "pinned" => ~Related(o, jobs[report.of[k]].root))
    BY DEF Tells
  <2>2. jobs'[report.of[k]] = jobs[report.of[k]]
    BY <2>1 DEF TellsOf
  <2> QED  BY <2>1, <2>2 DEF TellsOf, Held
<1> QED  BY <1>1 DEF Tells

\* What a reader knows stays true as long as jobs that are over and its report stay.
LEMMA ReaderStays ==
    ASSUME AuditInv, NEW r \in Readers, reader'[r] = reader[r],
           \A j \in JobIds: jobs[j].status \in TerminalJobs => jobs'[j] = jobs[j],
           \A o \in Outputs: \/ reports'[o] = reports[o]
                             \/ reports[o] = Nobody /\ reports'[o] # Nobody
                             \/ reports'[o] # Nobody /\ reports'[o].kind = "latest"
    PROVE  ReaderKnows(r)'
<1>1. ReaderKnows(r)
  BY DEF AuditInv
<1>2. ASSUME reader[r].at = "publish" PROVE Publishes(r)'
  <2>1. PICK o, report: o = reader[r].output /\ report = reader[r].report
    OBVIOUS
  <2>2. Tells(o, report)
    BY <1>1, <1>2, <2>1 DEF ReaderKnows, Publishes
  <2>3. Tells(o, report)'
    BY <2>2, ToldStays
  <2> QED  BY <1>1, <1>2, <2>1, <2>3 DEF ReaderKnows, Publishes
<1>3. ASSUME reader[r].at \in {"rows", "payloads"} PROVE Reviews(r)'
  BY <1>1, <1>3 DEF ReaderKnows, Reviews
<1>4. ASSUME reader[r].at = "published" PROVE Published(r)'
  BY <1>1, <1>4 DEF ReaderKnows, Published
<1> QED  BY <1>2, <1>3, <1>4 DEF ReaderKnows

\* A run writes only to jobs that are not over.
LEMMA RunWritesKeeps ==
    ASSUME AuditInv, NEW j \in JobIds, RunWrites(j)
    PROVE  AuditInv'
<1>1. /\ UNCHANGED <<reader, reports>>
      /\ DOMAIN jobs' = JobIds
      /\ \A i \in JobIds: jobs[i].status \in TerminalJobs => jobs'[i] = jobs[i]
  BY DEF RunWrites, AuditInv, TerminalJobs
<1>2. \A r \in Readers: ReaderKnows(r)'
  BY <1>1, ReaderStays
<1>3. ASSUME NEW o \in Outputs, reports'[o] # Nobody PROVE Tells(o, reports[o])'
  <2>1. PICK report: report = reports[o]
    OBVIOUS
  <2>2. Tells(o, report)
    BY <1>1, <1>3, <2>1 DEF AuditInv
  <2>3. Tells(o, report)'
    BY <1>1, <2>2, ToldStays
  <2>4. reports'[o] = report
    BY <1>1, <2>1
  <2> QED  BY <2>3, <2>4
<1> QED  BY <1>1, <1>2, <1>3 DEF AuditInv

\* A reader that goes on while the jobs and the reports stay as they are.
LEMMA ReaderGoesOn ==
    ASSUME AuditInv, NEW r \in Readers, NEW state, Reads(r, state), ReaderKnows(r)',
           UNCHANGED <<jobs, reports>>
    PROVE  AuditInv'
<1>1. DOMAIN reader' = Readers /\ \A q \in Readers \ {r}: reader'[q] = reader[q]
  BY DEF Reads, AuditInv
<1>2. \A q \in Readers \ {r}: ReaderKnows(q)'
  BY <1>1, ReaderStays
<1>3. ASSUME NEW o \in Outputs, reports'[o] # Nobody PROVE Tells(o, reports[o])'
  <2>1. PICK report: report = reports[o]
    OBVIOUS
  <2>2. Tells(o, report)
    BY <1>3, <2>1 DEF AuditInv
  <2>3. Tells(o, report)'
    BY <2>2, ToldStays
  <2>4. reports'[o] = report
    BY <2>1
  <2> QED  BY <2>3, <2>4
<1> QED  BY <1>1, <1>2, <1>3 DEF AuditInv

\* A cohort tells the rows it was made from.
LEMMA CohortKeepsRows == ASSUME NEW rows PROVE Cohort(rows).rows = rows
BY DEF Cohort

\* A pinned review reads jobs that are over, in one transaction.
LEMMA AskPinnedKeeps ==
    ASSUME AuditInv, NEW r \in Readers, AskPinned(r)
    PROVE  AuditInv'
<1>0. UNCHANGED <<jobs, reports>>
  BY DEF AskPinned
<1> DEFINE rows(j) == RowFacts(jobs[j].rows)
<1>1. PICK o \in Outputs, a \in JobIds, b \in JobIds, n \in Sampled:
         /\ Reviewable(jobs[a]) /\ Reviewable(jobs[b])
         /\ Isolated(o, {Requested, jobs[a].root, jobs[b].root})
         /\ Reads(r, [at |-> "publish", output |-> o, report |-> PinnedReport(r, a, b, n)])
  BY DEF AskPinned
<1>2. PICK report: report = PinnedReport(r, a, b, n)
  OBVIOUS
<1>3. /\ report.by = r /\ report.kind = "pinned"
      /\ report.of = IF a = b THEN <<a>> ELSE <<a, b>>
      /\ report.cohorts = IF a = b THEN <<Cohort(rows(a))>> ELSE <<Cohort(rows(a)), Cohort(rows(b))>>
  BY <1>2 DEF PinnedReport
<1>4. PICK state: state = [at |-> "publish", output |-> o, report |-> report]
  OBVIOUS
<1>5. Reads(r, state) /\ state.at = "publish" /\ state.output = o /\ state.report = report
  BY <1>1, <1>2, <1>4
<1>6. Cohort(rows(a)).rows = rows(a) /\ Cohort(rows(b)).rows = rows(b)
  <2> HIDE DEF rows
  <2> QED  BY CohortKeepsRows
<1>7. Tells(o, report)
  <2>1. DOMAIN report.of = DOMAIN report.cohorts
    BY <1>3
  <2>2. ASSUME NEW k \in DOMAIN report.of
        PROVE  TellsOf(report, k) /\ ~Related(o, jobs[report.of[k]].root)
    <3>1. \/ report.of[k] = a /\ report.cohorts[k].rows = rows(a)
          \/ report.of[k] = b /\ report.cohorts[k].rows = rows(b)
      BY <1>3, <1>6
    <3>2. jobs[a].status \in TerminalJobs /\ jobs[b].status \in TerminalJobs
      BY <1>1 DEF Reviewable
    <3>3. ~Related(o, jobs[a].root) /\ ~Related(o, jobs[b].root)
      BY <1>1 DEF Isolated
    <3> QED  BY <1>3, <3>1, <3>2, <3>3 DEF TellsOf, Held, RowFacts
  <2>3. ~Related(o, Requested)
    BY <1>1 DEF Isolated
  <2> QED  BY <1>3, <2>1, <2>2, <2>3 DEF Tells
<1>8. Tells(o, report)'
  BY <1>0, <1>7, ToldStays
<1>9. reader'[r] = state
  BY <1>5 DEF Reads, AuditInv
<1>10. ReaderKnows(r)'
  BY <1>3, <1>5, <1>8, <1>9 DEF ReaderKnows, Publishes
<1> QED  BY <1>0, <1>5, <1>10, ReaderGoesOn

\* A pinned report is written only where nothing is yet.
LEMMA PublishPinnedKeeps ==
    ASSUME AuditInv, NEW r \in Readers, PublishPinned(r)
    PROVE  AuditInv'
<1>0. jobs' = jobs /\ reader[r].at = "publish"
  BY DEF PublishPinned
<1>1. PICK o: o = reader[r].output
  OBVIOUS
<1>2. PICK report: report = reader[r].report
  OBVIOUS
<1>3. o \in Outputs /\ Tells(o, report) /\ report.kind = "pinned" /\ report.by = r
  BY <1>0, <1>1, <1>2 DEF AuditInv, ReaderKnows, Publishes
<1>4. CASE reports[o] = Nobody
  <2>1. /\ reports' = [reports EXCEPT ![o] = report]
        /\ reader' = [reader EXCEPT ![r] = [at |-> "published", kind |-> "pinned", output |-> o]]
    BY <1>1, <1>2, <1>4 DEF PublishPinned, Reads
  <2>2. /\ DOMAIN reports' = Outputs /\ reports'[o] = report
        /\ \A q \in Outputs \ {o}: reports'[q] = reports[q]
    BY <1>3, <2>1 DEF AuditInv
  <2>3. /\ DOMAIN reader' = Readers
        /\ reader'[r] = [at |-> "published", kind |-> "pinned", output |-> o]
        /\ \A q \in Readers \ {r}: reader'[q] = reader[q]
    BY <2>1 DEF AuditInv
  <2>4. report # Nobody
    BY <1>3, AuditAssumption DEF Nobody
  <2>5. ASSUME NEW q \in Readers \ {r} PROVE ReaderKnows(q)'
    BY <1>0, <1>4, <2>2, <2>3, <2>4, ReaderStays
  <2>6. ReaderKnows(r)'
    BY <1>3, <2>2, <2>3, <2>4 DEF ReaderKnows, Published
  <2>7. ASSUME NEW q \in Outputs, reports'[q] # Nobody PROVE Tells(q, reports[q])'
    <3>1. PICK told: told = reports'[q]
      OBVIOUS
    <3>2. Tells(q, told)
      BY <1>3, <2>2, <2>7, <3>1 DEF AuditInv
    <3>3. Tells(q, told)'
      BY <1>0, <3>2, ToldStays
    <3> QED  BY <3>1, <3>3
  <2> QED  BY <1>0, <2>2, <2>3, <2>5, <2>6, <2>7 DEF AuditInv
<1>5. CASE reports[o] # Nobody
  <2>1. UNCHANGED <<jobs, reports>> /\ Reads(r, [at |-> "failed"])
    BY <1>0, <1>1, <1>5 DEF PublishPinned
  <2>2. reader'[r] = [at |-> "failed"]
    BY <2>1 DEF Reads, AuditInv
  <2>3. ReaderKnows(r)'
    BY <2>2 DEF ReaderKnows
  <2> QED  BY <2>1, <2>3, ReaderGoesOn
<1> QED  BY <1>4, <1>5

\* The latest job is chosen.
LEMMA AskLatestKeeps ==
    ASSUME AuditInv, NEW r \in Readers, AskLatest(r)
    PROVE  AuditInv'
<1>1. PICK o \in Outputs, n \in Sampled, j \in JobIds:
         /\ ~Related(o, Requested)
         /\ jobs[j].status = "finished"
         /\ Reads(r, [at |-> "rows", output |-> o, limit |-> n, of |-> j])
  BY DEF AskLatest
<1>2. UNCHANGED <<jobs, reports>>
  BY DEF AskLatest
<1>3. reader'[r] = [at |-> "rows", output |-> o, limit |-> n, of |-> j]
  BY <1>1 DEF Reads, AuditInv
<1>4. ReaderKnows(r)'
  BY <1>1, <1>2, <1>3 DEF ReaderKnows, Reviews, TerminalJobs
<1> QED  BY <1>1, <1>2, <1>4, ReaderGoesOn

\* Its scored rows are read by a later statement.
LEMMA LatestRowsKeeps ==
    ASSUME AuditInv, NEW r \in Readers, LatestRows(r)
    PROVE  AuditInv'
<1>1. UNCHANGED <<jobs, reports>> /\ Reviews(r)
  BY DEF LatestRows, AuditInv, ReaderKnows
<1>2. PICK rows: rows = ScoredRows(jobs[reader[r].of].rows)
  OBVIOUS
<1>3. PICK state: /\ Reads(r, state)
                  /\ \/ state = [at |-> "payloads", output |-> reader[r].output,
                                 limit |-> reader[r].limit, of |-> reader[r].of, rows |-> rows]
                     \/ state = [at |-> "failed"]
  BY <1>2 DEF LatestRows
<1>4. reader'[r] = state
  BY <1>3 DEF Reads, AuditInv
<1>5. ReaderKnows(r)'
  BY <1>1, <1>2, <1>3, <1>4 DEF ReaderKnows, Reviews
<1> QED  BY <1>1, <1>3, <1>5, ReaderGoesOn

\* The report is written over an earlier one.
LEMMA LatestReportKeeps ==
    ASSUME AuditInv, NEW r \in Readers, LatestReport(r)
    PROVE  AuditInv'
<1>0. jobs' = jobs /\ reader[r].at = "payloads" /\ Reviews(r)
  BY DEF LatestReport, AuditInv, ReaderKnows
<1>1. PICK o, j, stored: o = reader[r].output /\ j = reader[r].of /\ stored = ScoredRows(jobs[j].rows)
  OBVIOUS
<1>2. o \in Outputs /\ ~Related(o, Requested) /\ j \in JobIds
      /\ jobs[j].status \in TerminalJobs /\ reader[r].rows = stored
  BY <1>0, <1>1 DEF Reviews
<1>3. PICK facts: facts = [i \in DOMAIN reader[r].rows |-> RowFact(stored[i])]
  OBVIOUS
<1>4. facts = RowFacts(stored)
  BY <1>2, <1>3 DEF RowFacts
<1>5. PICK report: report = [by |-> r, kind |-> "latest", of |-> <<j>>, limit |-> reader[r].limit,
                             cohorts |-> <<Cohort(facts)>>, compared |-> <<>>,
                             sample |-> Samplings(facts, reader[r].limit)]
  OBVIOUS
<1>6. /\ reports' = [reports EXCEPT ![o] = report]
      /\ Reads(r, [at |-> "published", kind |-> "latest", output |-> o])
  BY <1>1, <1>3, <1>5 DEF LatestReport
<1>7. /\ report.by = r /\ report.kind = "latest" /\ report.of = <<j>>
      /\ report.cohorts = <<Cohort(facts)>>
  BY <1>5
<1>8. Cohort(facts).rows = facts
  BY CohortKeepsRows
<1>9. Tells(o, report)
  BY <1>1, <1>2, <1>4, <1>7, <1>8 DEF Tells, TellsOf, Held
<1>10. /\ DOMAIN reports' = Outputs /\ reports'[o] = report
       /\ \A q \in Outputs \ {o}: reports'[q] = reports[q]
  BY <1>2, <1>6 DEF AuditInv
<1>11. /\ DOMAIN reader' = Readers
       /\ reader'[r] = [at |-> "published", kind |-> "latest", output |-> o]
       /\ \A q \in Readers \ {r}: reader'[q] = reader[q]
  BY <1>6 DEF Reads, AuditInv
<1>12. report # Nobody
  BY <1>7, AuditAssumption DEF Nobody
<1>13. ASSUME NEW q \in Readers \ {r} PROVE ReaderKnows(q)'
  BY <1>0, <1>7, <1>10, <1>11, <1>12, ReaderStays
<1>14. ReaderKnows(r)'
  BY <1>2, <1>10, <1>11, <1>12 DEF ReaderKnows, Published
<1>15. ASSUME NEW q \in Outputs, reports'[q] # Nobody PROVE Tells(q, reports[q])'
  <2>1. PICK told: told = reports'[q]
    OBVIOUS
  <2>2. Tells(q, told)
    BY <1>9, <1>10, <1>15, <2>1 DEF AuditInv
  <2>3. Tells(q, told)'
    BY <1>0, <2>2, ToldStays
  <2> QED  BY <2>1, <2>3
<1> QED  BY <1>0, <1>10, <1>11, <1>13, <1>14, <1>15 DEF AuditInv

(* What reviews have told stays true (score_review.py,                     *)
(* persisted_score_audit.py).                                              *)
THEOREM ReviewsAlwaysTrue == AuditSpec => []AuditInv
<1>1. AuditInv /\ [AuditNext]_auditVars => AuditInv'
  <2> SUFFICES ASSUME AuditInv, [AuditNext]_auditVars PROVE AuditInv'
    OBVIOUS
  <2>1. CASE UNCHANGED auditVars
    BY <2>1 DEF auditVars, AuditInv, ReaderKnows, Publishes, Reviews, Published, Tells, TellsOf,
                Held
  <2>2. CASE AuditNext
    BY <2>2, RunWritesKeeps, AskPinnedKeeps, PublishPinnedKeeps, AskLatestKeeps, LatestRowsKeeps,
       LatestReportKeeps DEF AuditNext
  <2> QED  BY <2>1, <2>2
<1> QED  BY <1>1, AuditStart, PTL DEF AuditSpec

LEMMA AuditInvTells == AuditInv => ReportsAreFinal /\ PinnedReportStays
<1> SUFFICES ASSUME AuditInv PROVE ReportsAreFinal /\ PinnedReportStays
  OBVIOUS
<1>1. ReportsAreFinal
  BY DEF AuditInv, ReportsAreFinal, Tells, TellsOf, Held, RowFacts
<1>2. PinnedReportStays
  BY DEF AuditInv, PinnedReportStays, ReaderKnows, Published
<1> QED  BY <1>1, <1>2

-----------------------------------------------------------------------------
(* Sums                                                                    *)

\* A factor that is positive leaves the sign alone.
LEMMA SignOfFactor ==
    ASSUME NEW k \in Int, NEW t \in Int, k > 0, k * t >= 0
    PROVE  t >= 0
<1> SUFFICES ASSUME t < 0 PROVE FALSE
  OBVIOUS
<1>1. k * t < 0
  OBVIOUS
<1> QED  BY <1>1

\* A square is not negative.
LEMMA SquareIsNatural == \A a \in Int: a * a \in Int /\ a * a >= 0
  OBVIOUS

\* One more value keeps the mean of the squares above the square of the mean.
LEMMA OneMoreValue ==
    ASSUME NEW k \in Nat, NEW q \in Int, NEW s \in Int, NEW x \in Int,
           k * q - s * s >= 0, k = 0 => q = 0 /\ s = 0
    PROVE  (k + 1) * (q + x * x) - (s + x) * (s + x) >= 0
<1> DEFINE t == q + k * (x * x) - 2 * (s * x)
<1>1. (k + 1) * (q + x * x) - (s + x) * (s + x) = (k * q - s * s) + t
  OBVIOUS
<1>2. k * t = (k * q - s * s) + (k * x - s) * (k * x - s)
  OBVIOUS
<1>3. t \in Int /\ k * x - s \in Int
  OBVIOUS
<1>4. t >= 0
  <2>1. CASE k = 0
    BY <2>1
  <2>2. CASE k > 0
    <3>1. (k * x - s) * (k * x - s) >= 0
      BY <1>3, SquareIsNatural
    <3> HIDE DEF t
    <3>2. k * t >= 0
      BY <1>2, <3>1
    <3> QED  BY <1>3, <2>2, <3>2, SignOfFactor
  <2> QED  BY <2>1, <2>2
<1> HIDE DEF t
<1> QED  BY <1>1, <1>3, <1>4

\* The sum of the squares, n times, is at least the square of the sum.
LEMMA SquaresSpread ==
    ASSUME NEW n \in Nat, NEW x \in [1..n -> Int]
    PROVE  n * Addition([i \in 1..n |-> x[i] * x[i]]) - Addition(x) * Addition(x) >= 0
<1>1. PICK squares \in [1..n -> Int]: squares = [i \in 1..n |-> x[i] * x[i]]
  <2>1. \A i \in 1..n: x[i] * x[i] \in Int
    BY SquareIsNatural
  <2>2. [i \in 1..n |-> x[i] * x[i]] \in [1..n -> Int]
    BY <2>1
  <2> QED  BY <2>2
<1>2. PICK s \in [0..n -> Int]:
        s[0] = 0 /\ (\A i \in 1..n: s[i] = s[i - 1] + x[i]) /\ Addition(x) = s[n]
  BY AdditionSteps
<1>3. PICK q \in [0..n -> Int]:
        q[0] = 0 /\ (\A i \in 1..n: q[i] = q[i - 1] + squares[i]) /\ Addition(squares) = q[n]
  BY AdditionSteps
<1> DEFINE P == {i \in 0..n: i * q[i] - s[i] * s[i] >= 0}
<1>4. 0 \in P
  BY <1>2, <1>3
<1>5. ASSUME NEW i \in 1..n, i - 1 \in P PROVE i \in P
  <2>1. PICK k \in Nat: k = i - 1
    OBVIOUS
  <2>2. q[k] \in Int /\ s[k] \in Int /\ x[i] \in Int
    BY <2>1
  <2>3. k * q[k] - s[k] * s[k] >= 0 /\ (k = 0 => q[k] = 0 /\ s[k] = 0)
    BY <1>2, <1>3, <1>5, <2>1
  <2>4. (k + 1) * (q[k] + x[i] * x[i]) - (s[k] + x[i]) * (s[k] + x[i]) >= 0
    BY <2>2, <2>3, OneMoreValue
  <2>5. i = k + 1 /\ q[i] = q[k] + x[i] * x[i] /\ s[i] = s[k] + x[i]
    BY <1>1, <1>2, <1>3, <2>1
  <2> QED  BY <2>4, <2>5
<1>6. \A i \in 0..n: i \in P
  <2> HIDE DEF P
  <2> QED  BY <1>4, <1>5, SetInduction
<1>7. n * q[n] - s[n] * s[n] >= 0
  BY <1>6
<1> QED  BY <1>1, <1>2, <1>3, <1>7

-----------------------------------------------------------------------------
(* AestheticLabels                                                         *)

\* The part that a photo's path gives it at a percentage.
Side(path, percent) == IF HashBucket[path] < percent THEN "holdout" ELSE "train"

\* What gave a label its part: a label file, or its path at a percentage used.
Sided(l, split) == l.path \in used.told \/ \E q \in used.percents: Side(l.path, q) = split

\* Labels that can be fitted.
Numbered(known) == IsFiniteSet(known) /\ \A l \in known: l.raw \in Int /\ l.human \in Int

\* What a fitted calibration is.
Usable(f) ==
    /\ f.unit > 0
    /\ 4 * f.slope >= f.unit /\ f.slope <= 4 * f.unit
    /\ f.offset \in (-5 * f.unit)..(5 * f.unit)
    /\ Cardinality(f.of) >= FewestLabels

LabelInv ==
    /\ LabelTypeOK
    /\ Numbered(labels) /\ Numbered(exported)
    /\ \A l \in labels: Sided(l, l.split)
    /\ \A l \in exported: Sided(l, "train")
    /\ \A t \in DOMAIN fitted: fitted[t].status = "fitted" =>
         /\ Usable(fitted[t])
         /\ \A l \in fitted[t].of: Sided(l, "train")

\* A calibration is fitted to the labels it was given.
LEMMA FittedTo ==
    ASSUME NEW known, Fit(known).status = "fitted"
    PROVE  Fit(known).of = known
<1>1. Fit(known) = Fitted(known)
  BY DEF Fit
<1> QED  BY <1>1 DEF Fitted

\* A clipped value lies between the limits.
LEMMA ClipBounds ==
    ASSUME NEW value \in Int, NEW least \in Int, NEW most \in Int, least <= most
    PROVE  Clip(value, least, most) \in least..most
<1> QED  BY DEF Clip

\* The pairs of a fit as a list.
LEMMA PairsListed ==
    ASSUME NEW known, IsFiniteSet(known)
    PROVE  \E n \in Nat: /\ Listed(known) \in [1..n -> known]
                         /\ Len(Listed(known)) = n
<1>1. PICK n \in Nat: n = Cardinality(known)
  BY FS_CardinalityType
<1>2. \E list \in [1..Cardinality(known) -> known]: \A i, j \in DOMAIN list: list[i] = list[j] => i = j
  BY FiniteSetListed
<1>3. Listed(known) \in [1..Cardinality(known) -> known]
  BY <1>2, Zenon DEF Listed
<1>4. Listed(known) \in [1..n -> known]
  BY <1>1, <1>3
<1>5. Listed(known) \in Seq(known)
  BY <1>4, SeqDef
<1>6. Len(Listed(known)) = n
  <2>1. Len(Listed(known)) \in Nat /\ DOMAIN Listed(known) = 1..Len(Listed(known))
    BY <1>5, LenProperties
  <2> QED  BY <1>4, <2>1
<1> QED  BY <1>4, <1>6

\* The line through some pairs is one over a denominator that is not negative.
LEMMA LineOfPairs ==
    ASSUME NEW known, Numbered(known), NEW n \in Nat, NEW pairs \in [1..n -> known], Len(pairs) = n
    PROVE  /\ \E d \in Nat: LeastSquares(pairs).unit = 2 * d
           /\ LeastSquares(pairs).slope \in Int /\ LeastSquares(pairs).offset \in Int
<1>0. PivotScore \in Int
  BY LabelAssumption
<1> DEFINE xs == [i \in 1..n |-> pairs[i].raw - PivotScore]
           ys == [i \in 1..n |-> pairs[i].human - PivotScore]
<1>1. xs \in [1..n -> Int] /\ ys \in [1..n -> Int]
  <2>1. \A i \in 1..n: pairs[i].raw - PivotScore \in Int /\ pairs[i].human - PivotScore \in Int
    BY <1>0 DEF Numbered
  <2> QED  BY <2>1
<1>2. PICK x \in [1..n -> Int], y \in [1..n -> Int]: x = xs /\ y = ys
  BY <1>1
<1>3. PICK squares \in [1..n -> Int], products \in [1..n -> Int]:
        squares = [i \in 1..n |-> x[i] * x[i]] /\ products = [i \in 1..n |-> x[i] * y[i]]
  <2>1. \A i \in 1..n: x[i] * x[i] \in Int /\ x[i] * y[i] \in Int
    OBVIOUS
  <2>2. /\ [i \in 1..n |-> x[i] * x[i]] \in [1..n -> Int]
        /\ [i \in 1..n |-> x[i] * y[i]] \in [1..n -> Int]
    BY <2>1
  <2> QED  BY <2>2
<1>4. PICK sx \in Int, sy \in Int, sxx \in Int, sxy \in Int:
        /\ sx = Addition(x) /\ sy = Addition(y)
        /\ sxx = Addition(squares) /\ sxy = Addition(products)
  <2>1. Addition(x) \in Int /\ Addition(y) \in Int
    BY AdditionInt
  <2>2. Addition(squares) \in Int /\ Addition(products) \in Int
    BY AdditionInt
  <2> QED  BY <2>1, <2>2
<1>5. /\ LeastSquares(pairs).unit = 2 * (n * sxx - sx * sx)
      /\ LeastSquares(pairs).slope = 2 * (n * sxy - sx * sy)
      /\ LeastSquares(pairs).offset = 2 * (sy * sxx - sx * sxy)
  <2>1. /\ x = [i \in 1..Len(pairs) |-> pairs[i].raw - PivotScore]
        /\ y = [i \in 1..Len(pairs) |-> pairs[i].human - PivotScore]
        /\ squares = [i \in 1..Len(pairs) |-> x[i] * x[i]]
        /\ products = [i \in 1..Len(pairs) |-> x[i] * y[i]]
    BY <1>2, <1>3
  <2>2. LeastSquares(pairs) =
          [unit |-> 2 * (Len(pairs) * sxx - sx * sx), slope |-> 2 * (Len(pairs) * sxy - sx * sy),
           offset |-> 2 * (sy * sxx - sx * sxy)]
    BY <1>4, <2>1, Zenon DEF LeastSquares
  <2> QED  BY <2>2
<1>6. n * sxx - sx * sx >= 0
  BY <1>3, <1>4, SquaresSpread
<1>7. n * sxx - sx * sx \in Nat
  BY <1>6
<1>8. LeastSquares(pairs).slope \in Int
  BY <1>5
<1>9. LeastSquares(pairs).offset \in Int
  <2>1. sy * sxx \in Int /\ sx * sxy \in Int
    OBVIOUS
  <2> QED  BY <1>5, <2>1
<1> QED  BY <1>5, <1>7, <1>8, <1>9

\* A fit that is accepted has a denominator: without one, all predictions would be
\* the same, and no better than before.
LEMMA FittedIsUsable ==
    ASSUME NEW known, Numbered(known), Fit(known).status = "fitted"
    PROVE  Usable(Fit(known))
<1>1. Fit(known) = Fitted(known) /\ ~(Cardinality(known) < FewestLabels)
  BY DEF Fit
<1>a. PICK pairs: pairs = Listed(known)
  OBVIOUS
<1>2. PICK n \in Nat: pairs = Listed(known) /\ pairs \in [1..n -> known] /\ Len(pairs) = n
  BY <1>a, PairsListed DEF Numbered
<1>3. PICK line: line = LeastSquares(pairs)
  OBVIOUS
<1>4. PICK d \in Nat: line.unit = 2 * d
  BY <1>2, <1>3, LineOfPairs
<1>5. line.slope \in Int /\ line.offset \in Int
  BY <1>2, <1>3, LineOfPairs
<1>6. PICK unit \in Nat: unit = line.unit /\ unit = 2 * d /\ unit \div 2 = d
  BY <1>4
<1>7. PICK slope \in d..(3 * d): slope = Clip(line.slope, unit \div 2, 3 * (unit \div 2))
  <2>1. d \in Int /\ 3 * d \in Int /\ d <= 3 * d
    OBVIOUS
  <2>2. Clip(line.slope, d, 3 * d) \in d..(3 * d)
    BY <1>5, <2>1, ClipBounds
  <2> QED  BY <1>6, <2>2
<1>8. PICK offset \in (-2 * unit)..(2 * unit): offset = Clip(line.offset, -2 * unit, 2 * unit)
  <2>1. -2 * unit \in Int /\ 2 * unit \in Int /\ -2 * unit <= 2 * unit
    BY <1>6
  <2> QED  BY <1>5, <2>1, ClipBounds
<1>9. PICK human, before, after:
        /\ human = [i \in 1..n |-> unit * pairs[i].human]
        /\ before = [i \in 1..n |-> unit * pairs[i].raw]
        /\ after = [i \in 1..n |->
                    Clip(unit * PivotScore + slope * (pairs[i].raw - PivotScore) + offset,
                         unit, 10 * unit)]
  OBVIOUS
<1>10. Fitted(known) =
         IF SquaredError(after, human) < SquaredError(before, human)
         THEN [status |-> "fitted", unit |-> unit, slope |-> slope, offset |-> offset, of |-> known]
         ELSE [status |-> "no_improvement"]
  BY <1>2, <1>3, <1>6, <1>7, <1>8, <1>9, Zenon DEF Fitted
<1>11. SquaredError(after, human) < SquaredError(before, human)
  BY <1>1, <1>10
<1>12. Fit(known) =
         [status |-> "fitted", unit |-> unit, slope |-> slope, offset |-> offset, of |-> known]
  BY <1>1, <1>10, <1>11
<1>13. unit > 0
  <2> SUFFICES ASSUME unit = 0 PROVE FALSE
    OBVIOUS
  <2>1. d = 0 /\ slope = 0 /\ offset = 0
    BY <1>6
  <2>2. ASSUME NEW i \in 1..n PROVE human[i] = 0 /\ before[i] = 0 /\ after[i] = 0
    <3>1. pairs[i].human \in Int /\ pairs[i].raw \in Int /\ PivotScore \in Int
      <4>1. pairs[i] \in known
        BY <1>2
      <4> QED  BY <4>1, LabelAssumption DEF Numbered
    <3>2. unit * pairs[i].human = 0 /\ unit * pairs[i].raw = 0
      BY <3>1
    <3>3. unit * PivotScore + slope * (pairs[i].raw - PivotScore) + offset = 0
      BY <2>1, <3>1
    <3>4. Clip(0, unit, 10 * unit) = 0
      BY DEF Clip
    <3> QED  BY <1>9, <3>2, <3>3, <3>4
  <2>3. after = before
    BY <1>9, <2>2
  <2>4. SquaredError(after, human) \in Int
    <3>1. PICK none \in [1..n -> Int]: none = [i \in 1..n |-> 0]
      <4>1. [i \in 1..n |-> 0] \in [1..n -> Int]
        OBVIOUS
      <4> QED  BY <4>1
    <3>2. none = [i \in DOMAIN human |-> (after[i] - human[i]) * (after[i] - human[i])]
      BY <1>9, <2>2, <3>1
    <3>3. Addition(none) \in Int
      BY AdditionInt
    <3> QED  BY <3>2, <3>3 DEF SquaredError
  <2> QED  BY <1>11, <2>3, <2>4
<1>14. FewestLabels \in Nat /\ Cardinality(known) \in Nat
  BY LabelAssumption, FS_CardinalityType DEF Numbered
<1>15. Cardinality(known) >= FewestLabels
  BY <1>1, <1>14
<1>16. /\ 4 * slope >= unit /\ slope <= 4 * unit
       /\ offset \in (-5 * unit)..(5 * unit)
  BY <1>6
<1> QED  BY <1>12, <1>13, <1>15, <1>16 DEF Usable

LEMMA LabelStart == LabelInit => LabelInv
<1> SUFFICES ASSUME LabelInit PROVE LabelInv
  OBVIOUS
<1>1. 0 \in 0..MaxImports
  BY LabelAssumption
<1>2. DOMAIN fitted = {}
  BY DEF LabelInit
<1>3. Numbered(labels) /\ Numbered(exported)
  BY FS_EmptySet DEF LabelInit, Numbered
<1> QED  BY <1>1, <1>2, <1>3 DEF LabelInit, LabelInv, LabelTypeOK

\* A row of a label file that was accepted.
LEMMA RowOfFile ==
    ASSUME NEW sheet \in LabelFiles, NEW i \in DOMAIN sheet, NEW percent \in 0..50, GoodItem(sheet[i])
    PROVE  /\ LabelRow(sheet[i], percent).path = sheet[i].path
           /\ LabelRow(sheet[i], percent).path \in DOMAIN HashBucket
           /\ LabelRow(sheet[i], percent).raw \in 1..10
           /\ LabelRow(sheet[i], percent).human \in 1..10
           /\ LabelRow(sheet[i], percent).split \in {"train", "holdout"}
           /\ sheet[i].split = "" =>
                LabelRow(sheet[i], percent).split = Side(sheet[i].path, percent)
<1>1. sheet[i].path \in DOMAIN HashBucket
  BY LabelAssumption
<1> QED  BY <1>1 DEF GoodItem, InRange, LabelRow, PartOf, Side

\* An import replaces the labels of its paths, each with its part.
LEMMA ImportKeeps == LabelInv /\ Import => LabelInv'
<1> SUFFICES ASSUME LabelInv, Import PROVE LabelInv'
  OBVIOUS
<1>0. imports' \in 0..MaxImports /\ UNCHANGED <<exported, fitted>>
  <2>1. imports < MaxImports /\ imports' = imports + 1 /\ UNCHANGED <<exported, fitted>>
    BY DEF Import
  <2>2. imports \in 0..MaxImports /\ MaxImports \in Nat
    BY LabelAssumption DEF LabelInv, LabelTypeOK
  <2> QED  BY <2>1, <2>2
<1>1. PICK sheet \in LabelFiles, percent \in Percents:
         IF percent \notin 0..50 \/ \E i \in DOMAIN sheet: ~GoodItem(sheet[i])
         THEN UNCHANGED <<labels, used>>
         ELSE LET rows == [i \in DOMAIN sheet |-> LabelRow(sheet[i], percent)]
                  last == {rows[i]: i \in {j \in DOMAIN rows:
                              \A k \in DOMAIN rows: k > j => rows[k].path # rows[j].path}}
              IN /\ labels' = {l \in labels: \A row \in last: row.path # l.path} \union last
                 /\ used' = [percents |-> used.percents \union {percent},
                             told |-> used.told \union
                                {sheet[i].path: i \in {j \in DOMAIN sheet: sheet[j].split # ""}}]
  BY DEF Import
<1>2. CASE percent \notin 0..50 \/ \E i \in DOMAIN sheet: ~GoodItem(sheet[i])
  BY <1>0, <1>1, <1>2 DEF LabelInv, LabelTypeOK, Sided
<1>3. CASE percent \in 0..50 /\ \A i \in DOMAIN sheet: GoodItem(sheet[i])
  <2> DEFINE rows == [i \in DOMAIN sheet |-> LabelRow(sheet[i], percent)]
             latest == {j \in DOMAIN rows: \A k \in DOMAIN rows: k > j => rows[k].path # rows[j].path}
             last == {rows[i]: i \in latest}
             tells == {sheet[i].path: i \in {j \in DOMAIN sheet: sheet[j].split # ""}}
  <2>1. /\ labels' = {l \in labels: \A row \in last: row.path # l.path} \union last
        /\ used' = [percents |-> used.percents \union {percent}, told |-> used.told \union tells]
    BY <1>1, <1>3
  <2>2. DOMAIN rows = DOMAIN sheet /\ \A i \in DOMAIN sheet: rows[i] = LabelRow(sheet[i], percent)
    OBVIOUS
  <2>3. ASSUME NEW i \in DOMAIN sheet
        PROVE  /\ rows[i].path \in DOMAIN HashBucket /\ rows[i].path = sheet[i].path
               /\ rows[i].raw \in 1..10 /\ rows[i].human \in 1..10
               /\ rows[i].split \in {"train", "holdout"}
               /\ \/ rows[i].path \in tells
                  \/ rows[i].split = Side(rows[i].path, percent)
    <3>1. /\ rows[i].path = sheet[i].path /\ rows[i].path \in DOMAIN HashBucket
          /\ rows[i].raw \in 1..10 /\ rows[i].human \in 1..10
          /\ rows[i].split \in {"train", "holdout"}
          /\ sheet[i].split = "" => rows[i].split = Side(sheet[i].path, percent)
      <4>1. GoodItem(sheet[i]) /\ rows[i] = LabelRow(sheet[i], percent)
        BY <1>3, <2>2
      <4> HIDE DEF rows
      <4> QED  BY <1>3, <4>1, RowOfFile
    <3>2. sheet[i].split # "" => sheet[i].path \in tells
      OBVIOUS
    <3> HIDE DEF rows, tells
    <3> QED  BY <3>1, <3>2
  <2>4. DOMAIN sheet \subseteq Nat
    BY LabelAssumption
  <2>5. used'.percents = used.percents \union {percent} /\ used'.told = used.told \union tells
    BY <2>1
  <2>6. ASSUME NEW l \in last PROVE \E i \in latest: l = rows[i]
    OBVIOUS
  <2>7. latest \subseteq DOMAIN sheet
    BY <2>2
  <2>8. ASSUME NEW i \in latest, NEW j \in latest, rows[i].path = rows[j].path PROVE i = j
    <3>1. i \in Nat /\ j \in Nat
      BY <2>4, <2>7
    <3>2. ~(j > i) /\ ~(i > j)
      BY <2>8
    <3> QED  BY <3>1, <3>2
  <2> HIDE DEF rows, last, tells, latest
  <2>9. ASSUME NEW l, NEW split, Sided(l, split) PROVE Sided(l, split)'
    BY <2>5, <2>9 DEF Sided
  <2>10. ASSUME NEW l \in last
         PROVE  /\ l.path \in DOMAIN HashBucket /\ l.raw \in 1..10 /\ l.human \in 1..10
                /\ l.split \in {"train", "holdout"} /\ Sided(l, l.split)'
    BY <2>3, <2>5, <2>6, <2>7 DEF Sided
  <2>11. \A l, k \in last: l.path = k.path => l = k
    BY <2>6, <2>8
  <2>12. LabelTypeOK'
    <3>1. \A l \in labels': /\ l.path \in DOMAIN HashBucket
                            /\ l.raw \in 1..10 /\ l.human \in 1..10
                            /\ l.split \in {"train", "holdout"}
      BY <2>1, <2>10 DEF LabelInv, LabelTypeOK
    <3>2. \A l, k \in labels': l.path = k.path => l = k
      BY <2>1, <2>11 DEF LabelInv, LabelTypeOK
    <3>3. used'.percents \subseteq 0..50
      BY <1>3, <2>5 DEF LabelInv, LabelTypeOK
    <3> QED  BY <1>0, <3>1, <3>2, <3>3 DEF LabelTypeOK
  <2>13. \A l \in labels': Sided(l, l.split)'
    <3> SUFFICES ASSUME NEW l \in labels' PROVE Sided(l, l.split)'
      OBVIOUS
    <3>1. CASE l \in last
      BY <2>10, <3>1
    <3>2. CASE l \in labels
      <4>1. PICK split: split = l.split
        OBVIOUS
      <4>2. Sided(l, split)
        BY <3>2, <4>1 DEF LabelInv
      <4>3. Sided(l, split)'
        BY <2>9, <4>2
      <4> QED  BY <4>1, <4>3
    <3> QED  BY <2>1, <3>1, <3>2
  <2>14. \A l \in exported': Sided(l, "train")'
    BY <1>0, <2>9 DEF LabelInv
  <2>15. \A t \in DOMAIN fitted': fitted'[t].status = "fitted" =>
            /\ Usable(fitted'[t])
            /\ \A l \in fitted'[t].of: Sided(l, "train")'
    BY <1>0, <2>9 DEF LabelInv
  <2>16. Numbered(labels)'
    <3>1. IsFiniteSet(latest)
      <4>1. PICK n \in Nat: DOMAIN sheet = 1..n
        BY LabelAssumption
      <4>2. 1 \in Int /\ n \in Int
        OBVIOUS
      <4>3. IsFiniteSet(1..n)
        BY <4>2, FS_Interval
      <4> QED  BY <2>7, <4>1, <4>3, FS_Subset
    <3>2. IsFiniteSet({rows[i]: i \in latest})
      BY <3>1, FewValues
    <3>3. IsFiniteSet(last)
      BY <3>2 DEF last
    <3>4. IsFiniteSet(labels)
      BY DEF LabelInv, Numbered
    <3>5. IsFiniteSet(labels \union last)
      BY <3>3, <3>4, FS_Union
    <3>6. labels' \subseteq labels \union last
      BY <2>1
    <3>7. IsFiniteSet(labels')
      BY <3>5, <3>6, FS_Subset
    <3>8. \A l \in labels': l.raw \in 1..10 /\ l.human \in 1..10
      BY <2>12 DEF LabelTypeOK
    <3> QED  BY <3>7, <3>8 DEF Numbered
  <2>17. Numbered(exported)'
    BY <1>0 DEF LabelInv, Numbered
  <2> QED  BY <2>12, <2>13, <2>14, <2>15, <2>16, <2>17 DEF LabelInv
<1> QED  BY <1>2, <1>3

\* An export holds labels of the training part only.
LEMMA ExportKeeps == LabelInv /\ ExportTraining => LabelInv'
<1> SUFFICES ASSUME LabelInv, ExportTraining PROVE LabelInv'
  OBVIOUS
<1>1. UNCHANGED <<labels, fitted, used, imports>> /\ exported' = {l \in labels: l.split = "train"}
  BY DEF ExportTraining
<1>2. LabelTypeOK'
  BY <1>1 DEF LabelInv, LabelTypeOK
<1>3. Numbered(labels)'
  BY <1>1 DEF LabelInv, Numbered
<1>4. Numbered(exported)'
  <2>1. exported' \subseteq labels /\ IsFiniteSet(labels)
    BY <1>1 DEF LabelInv, Numbered
  <2>2. IsFiniteSet(exported')
    BY <2>1, FS_Subset
  <2> QED  BY <2>1, <2>2 DEF LabelInv, Numbered
<1> QED  BY <1>1, <1>2, <1>3, <1>4 DEF LabelInv, Sided

\* A fit takes what was exported, whatever was imported since.
LEMMA FitKeeps == LabelInv /\ FitCalibration => LabelInv'
<1> SUFFICES ASSUME LabelInv, FitCalibration PROVE LabelInv'
  OBVIOUS
<1>1. /\ UNCHANGED <<labels, exported, used, imports>>
      /\ fitted' = [t \in {l.target: l \in exported} |-> Fit({l \in exported: l.target = t})]
  BY DEF FitCalibration
<1>2. LabelTypeOK'
  BY <1>1 DEF LabelInv, LabelTypeOK
<1>3. ASSUME NEW t \in DOMAIN fitted', fitted'[t].status = "fitted"
      PROVE  Usable(fitted'[t]) /\ \A l \in fitted'[t].of: Sided(l, "train")'
  <2>1. PICK known: known = {k \in exported: k.target = t}
    OBVIOUS
  <2>2. fitted'[t] = Fit(known)
    BY <1>1, <1>3, <2>1
  <2>3. fitted'[t].of = known
    BY <1>3, <2>2, FittedTo
  <2>4. Numbered(known)
    <3>1. known \subseteq exported /\ IsFiniteSet(exported)
      BY <2>1 DEF LabelInv, Numbered
    <3>2. IsFiniteSet(known)
      BY <3>1, FS_Subset
    <3> QED  BY <3>1, <3>2 DEF LabelInv, Numbered
  <2>5. Usable(fitted'[t])
    BY <1>3, <2>2, <2>4, FittedIsUsable
  <2> QED  BY <1>1, <2>1, <2>3, <2>5 DEF LabelInv, Sided
<1>4. Numbered(labels)' /\ Numbered(exported)'
  BY <1>1 DEF LabelInv, Numbered
<1> QED  BY <1>1, <1>2, <1>3, <1>4 DEF LabelInv, Sided

(* The invariant of the label store (aesthetic_label_store.py:100-190,     *)
(* aesthetic_calibration_service.py).                                      *)
THEOREM LabelsAlways == LabelSpec => []LabelInv
<1>1. LabelInv /\ [LabelNext]_labelVars => LabelInv'
  <2> SUFFICES ASSUME LabelInv, [LabelNext]_labelVars PROVE LabelInv'
    OBVIOUS
  <2>1. CASE UNCHANGED labelVars
    BY <2>1 DEF labelVars, LabelInv, LabelTypeOK, Sided, Numbered, Usable
  <2> QED  BY <2>1, ImportKeeps, ExportKeeps, FitKeeps DEF LabelNext
<1> QED  BY <1>1, LabelStart, PTL DEF LabelSpec

\* With one percentage a label has one part, whichever label file it came from.
LEMMA LabelInvHides == LabelInv => HoldoutUnseen
<1> SUFFICES ASSUME LabelInv, Cardinality(used.percents) <= 1,
                    NEW t \in DOMAIN fitted, fitted[t].status = "fitted",
                    NEW l \in fitted[t].of, l.path \notin used.told,
                    NEW k \in labels, k.path = l.path
             PROVE  k.split = "train"
  BY DEF HoldoutUnseen
<1>1. PICK q \in used.percents: Side(l.path, q) = "train"
  BY DEF LabelInv, Sided
<1>2. PICK p \in used.percents: Side(k.path, p) = k.split
  BY DEF LabelInv, Sided
<1>3. p = q
  <2> SUFFICES ASSUME p # q PROVE FALSE
    OBVIOUS
  <2>1. used.percents \subseteq 0..50
    BY DEF LabelInv, LabelTypeOK
  <2>2. IsFiniteSet(used.percents)
    <3>1. IsFiniteSet(0..50)
      <4>1. 0 \in Int /\ 50 \in Int
        OBVIOUS
      <4>2. /\ IsFiniteSet(0..50)
            /\ Cardinality(0..50) = IF 0 > 50 THEN 0 ELSE 50 - 0 + 1
        BY <4>1, FS_Interval
      <4> QED  BY <4>2
    <3> QED  BY <2>1, <3>1, FS_Subset
  <2>3. IsFiniteSet({p}) /\ Cardinality({p}) = 1
    BY FS_Singleton
  <2>4. PICK one: one = {p}
    OBVIOUS
  <2>5. Cardinality({p, q}) = 2
    <3>1. /\ IsFiniteSet(one \union {q})
          /\ Cardinality(one \union {q}) =
                IF q \in one THEN Cardinality(one) ELSE Cardinality(one) + 1
      BY <2>3, <2>4, FS_AddElement
    <3>2. q \notin one /\ Cardinality(one) = 1 /\ one \union {q} = {p, q}
      BY <2>3, <2>4
    <3> QED  BY <3>1, <3>2
  <2>6. Cardinality({p, q}) <= Cardinality(used.percents)
    BY <2>2, FS_Subset
  <2>7. Cardinality(used.percents) \in Nat
    BY <2>2, FS_CardinalityType
  <2> QED  BY <2>5, <2>6, <2>7
<1> QED  BY <1>1, <1>2, <1>3 DEF Side

LEMMA LabelInvFits == LabelInv => FitIsUsable
BY DEF LabelInv, Usable, FitIsUsable

-----------------------------------------------------------------------------
(* LocalBenchmark                                                          *)

\* Every repetition has scored what the models said in it.
LocalBenchInv ==
    \/ /\ trialrun = [at |-> "start"]
       /\ fresh = <<>>
    \/ trialrun = [at |-> "refused"]
    \/ trialrun \in [at: {"repeat"}, manifest: Manifests, results: {fresh}]
    \/ trialrun.at = "reported" /\ (trialrun.stable <=> StableScores(fresh))

\* Every repetition adds what the models said.
LEMMA LocalBenchKeeps == LocalBenchInv /\ [LocalBenchNext]_localBenchVars => LocalBenchInv'
<1> SUFFICES ASSUME LocalBenchInv, [LocalBenchNext]_localBenchVars PROVE LocalBenchInv'
  OBVIOUS
<1>1. CASE LoadManifest
  <2>1. PICK m \in Manifests:
            trialrun' = IF GoodManifest(m)
                        THEN [at |-> "repeat", manifest |-> m, results |-> <<>>]
                        ELSE [at |-> "refused"]
    BY <1>1 DEF LoadManifest
  <2>2. fresh = <<>> /\ fresh' = fresh
    BY <1>1 DEF LoadManifest, LocalBenchInv
  <2> QED  BY <2>1, <2>2 DEF LocalBenchInv
<1>2. CASE Repetition
  <2>1. trialrun \in [at: {"repeat"}, manifest: Manifests, results: {fresh}]
    BY <1>2 DEF Repetition, LocalBenchInv
  <2>2. PICK said \in [ItemIds(trialrun.manifest) -> Answers]:
            /\ trialrun' = [trialrun EXCEPT !.results = Append(@, [id \in DOMAIN said |->
                              IF id \in DOMAIN CachesAfter THEN CachesAfter[id] ELSE said[id]])]
            /\ fresh' = Append(fresh, said)
    BY <1>2 DEF Repetition
  <2>3. DOMAIN CachesAfter = {}
    BY DEF CachesAfter
  <2>4. PICK told: told = [id \in DOMAIN said |->
                              IF id \in DOMAIN CachesAfter THEN CachesAfter[id] ELSE said[id]]
    OBVIOUS
  <2>5. told = said
    BY <2>3, <2>4
  <2>6. trialrun' = [trialrun EXCEPT !.results = Append(fresh, said)]
    BY <2>1, <2>2, <2>4, <2>5
  <2>7. trialrun' \in [at: {"repeat"}, manifest: Manifests, results: {fresh'}]
    BY <2>1, <2>2, <2>6
  <2> QED  BY <2>7 DEF LocalBenchInv
<1>3. CASE ReportBenchmark
  <2>1. trialrun \in [at: {"repeat"}, manifest: Manifests, results: {fresh}] /\ fresh' = fresh
    BY <1>3 DEF ReportBenchmark, LocalBenchInv
  <2>2. trialrun'.at = "reported" /\ (trialrun'.stable <=> StableScores(trialrun.results))
    BY <1>3 DEF ReportBenchmark
  <2>3. trialrun'.stable <=> StableScores(fresh)' 
    BY <2>1, <2>2 DEF StableScores, Told
  <2> QED  BY <2>2, <2>3 DEF LocalBenchInv
<1>4. CASE UNCHANGED localBenchVars
  <2>1. trialrun' = trialrun /\ fresh' = fresh
    BY <1>4 DEF localBenchVars
  <2>2. StableScores(fresh)' <=> StableScores(fresh)
    BY <2>1 DEF StableScores, Told
  <2> QED  BY <2>1, <2>2 DEF LocalBenchInv
<1> QED  BY <1>1, <1>2, <1>3, <1>4 DEF LocalBenchNext

\* What the models said of the manifest's photos in one repetition.
RepetitionsOf(m) == [ItemIds(m) -> Answers]

\* The metrics of the report are those of the first repetition.
MetricsAreOf(m, results) ==
    /\ trialrun.metrics.groups = GroupTopOne(m, results)
    /\ trialrun.metrics.pairs = Pairwise(m, ScoreOf(results))
    /\ trialrun.metrics.rejects = Recall(m, ScoreOf(results), RejectBelow)
MetricsInv ==
    /\ trialrun.at \in {"repeat", "reported"} =>
         /\ trialrun.manifest \in Manifests /\ GoodManifest(trialrun.manifest)
         /\ fresh \in Seq(RepetitionsOf(trialrun.manifest))
    /\ trialrun.at = "reported" => fresh # <<>> /\ MetricsAreOf(trialrun.manifest, fresh[1])

LEMMA MetricsAre ==
    ASSUME NEW m, NEW results
    PROVE  /\ MetricsOf(m, results).groups = GroupTopOne(m, results)
           /\ MetricsOf(m, results).pairs = Pairwise(m, ScoreOf(results))
           /\ MetricsOf(m, results).rejects = Recall(m, ScoreOf(results), RejectBelow)
<1>1. PICK groups: groups = GroupTopOne(m, results)
  OBVIOUS
<1>2. PICK pairs: pairs = Pairwise(m, ScoreOf(results))
  OBVIOUS
<1>3. PICK rejects: rejects = Recall(m, ScoreOf(results), RejectBelow)
  OBVIOUS
<1>4. PICK scenes, other, faces, separation, prior, quality, aesthetic, embedding:
         MetricsOf(m, results) =
           [groups |-> groups, pairs |-> pairs, rejects |-> rejects, scenes |-> scenes,
            other |-> other, faces |-> faces, separation |-> separation, prior |-> prior,
            quality |-> quality, aesthetic |-> aesthetic, embedding |-> embedding]
  BY <1>1, <1>2, <1>3, Zenon DEF MetricsOf
<1> QED  BY <1>1, <1>2, <1>3, <1>4

LEMMA ItemsKnown ==
    ASSUME NEW m \in Manifests
    PROVE  IsFiniteSet(ItemIds(m)) /\ ItemIds(m) \subseteq Int
<1>1. PICK id: id = [i \in DOMAIN m.items |-> m.items[i].id]
  OBVIOUS
<1>2. ItemIds(m) = {id[i]: i \in DOMAIN m.items}
  BY <1>1 DEF ItemIds
<1>3. ItemIds(m) \subseteq Int
  BY LocalBenchmarkAssumption DEF ItemIds
<1>4. PICK S: S = DOMAIN m.items /\ IsFiniteSet(S)
  BY LocalBenchmarkAssumption
<1>5. IsFiniteSet({id[i]: i \in S})
  BY <1>4, FewValues
<1> QED  BY <1>2, <1>3, <1>4, <1>5

\* A group's leader is a photo of the group that no other one of it surpasses.
LEMMA ForemostLeads ==
    ASSUME NEW m \in Manifests, NEW results \in RepetitionsOf(m), NEW g,
           NEW member \in ItemIds(m), ItemOf(m, member).group = g
    PROVE  /\ Foremost(m, results, g) \in ItemIds(m)
           /\ ItemOf(m, Foremost(m, results, g)).group = g
           /\ \A o \in ItemIds(m): ItemOf(m, o).group = g =>
                 \/ results[o].score < results[Foremost(m, results, g)].score
                 \/ /\ results[o].score = results[Foremost(m, results, g)].score
                    /\ o <= Foremost(m, results, g)
<1>1. PICK score: score = [id \in ItemIds(m) |-> results[id].score]
  OBVIOUS
<1>2. PICK M: M = {id \in ItemIds(m): ItemOf(m, id).group = g}
  OBVIOUS
<1>3. PICK before: before = {pq \in M \X M: \/ score[pq[1]] > score[pq[2]]
                                            \/ score[pq[1]] = score[pq[2]] /\ pq[1] > pq[2]}
  OBVIOUS
<1>4. M \subseteq Int /\ IsFiniteSet(M) /\ member \in M
  BY <1>2, ItemsKnown, FS_Subset
<1>5. \A id \in M: score[id] \in Int
  BY <1>1, <1>2, LocalBenchmarkAssumption DEF RepetitionsOf
<1>6. \A p, q \in M: <<p, q>> \in before <=> score[p] > score[q] \/ (score[p] = score[q] /\ p > q)
  BY <1>3
<1>7. Ranked(M, before)
  BY <1>4, <1>5, <1>6 DEF Ranked
<1>8. PICK n \in Nat: n = Cardinality(M)
  BY <1>4, FS_CardinalityType
<1>9. n >= 1
  BY <1>4, <1>8, FS_EmptySet
<1>10. PICK first \in M: Cardinality(Preceding(M, before, first)) = 0
  <2>1. PICK list: list = Ordered(M, before)
    OBVIOUS
  <2>2. \A i \in 1..n: list[i] \in M /\ Cardinality(Preceding(M, before, list[i])) = i - 1
    BY <1>4, <1>7, <1>8, <2>1, SortedLists
  <2> QED  BY <1>9, <2>2
<1>11. ASSUME NEW o \in M PROVE <<o, first>> \notin before
  <2>1. PICK P: P = Preceding(M, before, first)
    OBVIOUS
  <2>2. IsFiniteSet(P)
    BY <1>4, <2>1, FS_Subset DEF Preceding
  <2>3. P = {}
    BY <1>10, <2>1, <2>2, FS_EmptySet
  <2> QED  BY <2>1, <2>3 DEF Preceding
<1> DEFINE Tops(id) ==
      /\ ItemOf(m, id).group = g
      /\ \A o \in ItemIds(m): ItemOf(m, o).group = g =>
           \/ results[o].score < results[id].score
           \/ results[o].score = results[id].score /\ o <= id
<1>12. first \in ItemIds(m) /\ Tops(first)
  <2>1. first \in ItemIds(m) /\ ItemOf(m, first).group = g
    BY <1>2
  <2>2. ASSUME NEW o \in ItemIds(m), ItemOf(m, o).group = g
        PROVE  \/ results[o].score < results[first].score
               \/ results[o].score = results[first].score /\ o <= first
    <3>1. o \in M
      BY <1>2, <2>2
    <3>2. ~(score[o] > score[first]) /\ ~(score[o] = score[first] /\ o > first)
      BY <1>6, <1>11, <3>1
    <3>3. score[o] < score[first] \/ (score[o] = score[first] /\ o <= first)
      BY <1>4, <1>5, <3>1, <3>2
    <3> QED  BY <1>1, <2>1, <3>3
  <2> QED  BY <2>1, <2>2
<1>13. Foremost(m, results, g) \in ItemIds(m) /\ Tops(Foremost(m, results, g))
  BY <1>12, Zenon DEF Foremost
<1> QED  BY <1>13

\* A share of everything is everything.
LEMMA AllOfThem ==
    ASSUME NEW S, IsFiniteSet(S), NEW T, T \subseteq S
    PROVE  /\ Cardinality(S) \in Nat /\ Cardinality(T) \in 0..Cardinality(S)
           /\ Cardinality(S) > 0 <=> S # {}
           /\ Cardinality(T) = Cardinality(S) => T = S
BY FS_Subset, FS_CardinalityType, FS_EmptySet

LEMMA RatioIs ==
    ASSUME NEW hits, NEW total
    PROVE  /\ RatioOf(hits, total).total = total
           /\ total # 0 => RatioOf(hits, total).hits = hits
BY DEF RatioOf, NotMeasured

\* The preferred photo that wins every pair leads; nobody wins over a leader.
LEMMA WinnersLead ==
    ASSUME NEW m \in Manifests, GoodManifest(m), NEW results \in RepetitionsOf(m),
           NEW g \in DOMAIN m.preferred
    PROVE  /\ (\A o \in ItemIds(m): ItemOf(m, o).group = g /\ o # m.preferred[g] =>
                   results[m.preferred[g]].score > results[o].score)
                => Foremost(m, results, g) = m.preferred[g]
           /\ Foremost(m, results, g) = m.preferred[g] =>
                \A o \in ItemIds(m): ItemOf(m, o).group = g =>
                   ~(results[o].score > results[m.preferred[g]].score)
<1>1. PICK chosen \in ItemIds(m): chosen = m.preferred[g] /\ ItemOf(m, chosen).group = g
  BY DEF GoodManifest
<1>2. PICK first \in ItemIds(m): first = Foremost(m, results, g)
  BY <1>1, ForemostLeads
<1>3. /\ ItemOf(m, first).group = g
      /\ \A o \in ItemIds(m): ItemOf(m, o).group = g =>
            \/ results[o].score < results[first].score
            \/ results[o].score = results[first].score /\ o <= first
  BY <1>1, <1>2, ForemostLeads
<1>4. \A o \in ItemIds(m): results[o].score \in Int
  BY LocalBenchmarkAssumption DEF RepetitionsOf
<1>5. ASSUME \A o \in ItemIds(m): ItemOf(m, o).group = g /\ o # chosen =>
                results[chosen].score > results[o].score
      PROVE  first = chosen
  <2> SUFFICES ASSUME first # chosen PROVE FALSE
    OBVIOUS
  <2>1. results[chosen].score > results[first].score
    BY <1>3, <1>5
  <2>2. results[chosen].score < results[first].score \/ results[chosen].score = results[first].score
    BY <1>1, <1>3
  <2> QED  BY <1>4, <2>1, <2>2
<1>6. ASSUME first = chosen, NEW o \in ItemIds(m), ItemOf(m, o).group = g
      PROVE  ~(results[o].score > results[chosen].score)
  BY <1>3, <1>4, <1>6
<1> QED  BY <1>1, <1>2, <1>5, <1>6

\* The metrics of one repetition agree.
LEMMA MetricsOfOne ==
    ASSUME NEW m \in Manifests, GoodManifest(m), NEW told \in RepetitionsOf(m),
           NEW all, all = Cardinality(DOMAIN m.pairs),
           NEW groups, groups = GroupTopOne(m, told),
           NEW pairs, pairs = Pairwise(m, ScoreOf(told)),
           NEW rejects, rejects = Recall(m, ScoreOf(told), RejectBelow)
    PROVE  /\ all > 0 => pairs.hits \in 0..all
           /\ all > 0 /\ pairs.hits = all /\ DOMAIN m.preferred # {} =>
                ((\A g \in DOMAIN m.preferred: Opponents(m, g) = Rivals(m, g))
                    => groups.hits = groups.total)
           /\ \A g \in DOMAIN m.preferred: Foremost(m, told, g) = m.preferred[g] =>
                \A i \in DOMAIN m.pairs: m.pairs[i][2] = m.preferred[g]
                     /\ ItemOf(m, m.pairs[i][1]).group = g => ~Wins(ScoreOf(told), m.pairs[i])
           /\ ToReject(m) # {} => rejects.recall.hits + rejects.missed = Cardinality(ToReject(m))
<1>1. PICK score: score = ScoreOf(told) /\ score = [id \in ItemIds(m) |-> told[id].score]
  BY DEF ScoreOf, RepetitionsOf
<1>2. \A id \in ItemIds(m): score[id] \in Int /\ score[id] = told[id].score
  BY <1>1, LocalBenchmarkAssumption DEF RepetitionsOf
<1>3. PICK P: P = DOMAIN m.pairs /\ IsFiniteSet(P)
  BY LocalBenchmarkAssumption
<1>4. PICK won: won = {i \in P: Wins(score, m.pairs[i])}
  OBVIOUS
<1>5. pairs = RatioOf(Cardinality(won), all)
  BY <1>1, <1>3, <1>4 DEF Pairwise, Share
<1>6. all \in Nat /\ Cardinality(won) \in 0..all /\ (Cardinality(won) = all => won = P)
  BY <1>3, <1>4, AllOfThem
<1>7. all > 0 => pairs.hits = Cardinality(won)
  BY <1>5, <1>6, RatioIs
<1>8. \A i \in P: {m.pairs[i][1], m.pairs[i][2]} \subseteq ItemIds(m)
  BY <1>3 DEF GoodManifest
<1>9. PICK F: F = DOMAIN m.preferred /\ IsFiniteSet(F)
  BY LocalBenchmarkAssumption
<1>10. PICK led: led = {g \in F: Foremost(m, told, g) = m.preferred[g]}
  OBVIOUS
<1>11. groups = RatioOf(Cardinality(led), Cardinality(F))
  BY <1>9, <1>10 DEF GroupTopOne, Share
<1>12. ASSUME NEW g \in F, all > 0, pairs.hits = all,
              Opponents(m, g) = Rivals(m, g)
       PROVE  Foremost(m, told, g) = m.preferred[g]
  <2>1. won = P
    BY <1>6, <1>7, <1>12
  <2>2. m.preferred[g] \in ItemIds(m)
    BY <1>9 DEF GoodManifest
  <2>3. ASSUME NEW o \in ItemIds(m), ItemOf(m, o).group = g, o # m.preferred[g]
        PROVE  told[m.preferred[g]].score > told[o].score
    <3>1. PICK i \in P: m.pairs[i][1] = m.preferred[g] /\ m.pairs[i][2] = o
      <4>1. o \in Opponents(m, g)
        BY <1>12, <2>3 DEF Rivals
      <4> QED  BY <1>3, <4>1 DEF Opponents
    <3>2. Wins(score, m.pairs[i])
      BY <1>4, <2>1
    <3>3. score[m.preferred[g]] > score[o]
      BY <3>1, <3>2 DEF Wins
    <3> QED  BY <1>2, <2>2, <3>3
  <2> QED  BY <1>9, <2>3, WinnersLead
<1>13. ASSUME F # {}, led = F PROVE groups.hits = groups.total
  <2>1. PICK n \in Nat: n = Cardinality(F) /\ n # 0
    BY <1>9, <1>13, AllOfThem
  <2>2. groups = RatioOf(n, n)
    BY <1>11, <1>13, <2>1
  <2> QED  BY <2>1, <2>2, RatioIs
<1>14. ASSUME NEW g \in F, Foremost(m, told, g) = m.preferred[g], NEW i \in P,
              m.pairs[i][2] = m.preferred[g], ItemOf(m, m.pairs[i][1]).group = g
       PROVE  ~Wins(score, m.pairs[i])
  <2>1. PICK o \in ItemIds(m): o = m.pairs[i][1]
    BY <1>8
  <2>2. ~(told[o].score > told[m.preferred[g]].score)
    BY <1>9, <1>14, <2>1, WinnersLead
  <2>3. m.preferred[g] \in ItemIds(m)
    BY <1>9 DEF GoodManifest
  <2>4. ~(score[o] > score[m.preferred[g]])
    BY <1>2, <2>2, <2>3
  <2> QED  BY <1>14, <2>1, <2>4 DEF Wins
<1>15. ASSUME ToReject(m) # {}
       PROVE  rejects.recall.hits + rejects.missed = Cardinality(ToReject(m))
  <2>1. PICK R: R = ToReject(m) /\ R # {}
    BY <1>15
  <2>2. PICK A, B: A = {id \in R: score[id] < RejectBelow} /\ B = {id \in R: score[id] >= RejectBelow}
    OBVIOUS
  <2>3. PICK recall: recall = RatioOf(Cardinality(A), Cardinality(R))
    OBVIOUS
  <2>4. PICK lost: lost = Cardinality(B)
    OBVIOUS
  <2>5. rejects = [recall |-> recall, missed |-> lost]
    BY <1>1, <2>1, <2>2, <2>3, <2>4 DEF Recall, Share
  <2>6. R \subseteq ItemIds(m) /\ IsFiniteSet(R)
    <3>1. R \subseteq ItemIds(m)
      BY <2>1 DEF ToReject
    <3> QED  BY <3>1, ItemsKnown, FS_Subset
  <2>7. A \cup B = R /\ A \cap B = {} /\ IsFiniteSet(A) /\ IsFiniteSet(B)
    <3>1. A \subseteq R /\ B \subseteq R /\ A \cap B = {} /\ R \subseteq A \cup B
      BY <1>2, <2>2, <2>6, LocalBenchmarkAssumption
    <3> QED  BY <2>6, <3>1, FS_Subset
  <2>8. Cardinality(R) = Cardinality(A) + Cardinality(B)
    <3>1. Cardinality(A \cup B) = Cardinality(A) + Cardinality(B) - Cardinality(A \cap B)
      BY <2>7, FS_Union
    <3>2. Cardinality(A \cap B) = 0
      BY <2>7, FS_EmptySet
    <3>3. PICK a \in Nat, b \in Nat: a = Cardinality(A) /\ b = Cardinality(B)
      BY <2>7, FS_CardinalityType
    <3>4. Cardinality(A \cup B) = a + b - 0
      BY <3>1, <3>2, <3>3
    <3>5. a + b - 0 = a + b
      BY <3>3
    <3> QED  BY <2>7, <3>3, <3>4, <3>5
  <2>9. Cardinality(R) # 0
    BY <2>1, <2>6, AllOfThem
  <2>10. recall.hits = Cardinality(A)
    BY <2>3, <2>9, RatioIs
  <2> QED  BY <2>1, <2>4, <2>5, <2>8, <2>10
<1>16. ASSUME \A g \in F:
                 Opponents(m, g) = Rivals(m, g),
              all > 0, pairs.hits = all, F # {}
       PROVE  groups.hits = groups.total
  <2>1. \A g \in F: Foremost(m, told, g) = m.preferred[g]
    BY <1>12, <1>16
  <2> QED  BY <1>10, <1>13, <1>16, <2>1
<1> QED  BY <1>1, <1>3, <1>6, <1>7, <1>9, <1>14, <1>15, <1>16

LEMMA MetricsInvAgree == MetricsInv => MetricsAgree
<1> SUFFICES ASSUME MetricsInv, trialrun.at = "reported" PROVE MetricsAgree
  BY DEF MetricsAgree
<1>1. PICK m \in Manifests: m = trialrun.manifest /\ GoodManifest(m)
  BY DEF MetricsInv
<1>2. fresh \in Seq(RepetitionsOf(m)) /\ fresh # <<>> /\ MetricsAreOf(m, fresh[1])
  BY <1>1 DEF MetricsInv
<1>3. PICK told \in RepetitionsOf(m): told = fresh[1]
  BY <1>2
<1>4. PICK all: all = Cardinality(DOMAIN m.pairs)
  OBVIOUS
<1>5. PICK groups: groups = trialrun.metrics.groups /\ groups = GroupTopOne(m, told)
  BY <1>2, <1>3 DEF MetricsAreOf
<1>6. PICK pairs: pairs = trialrun.metrics.pairs /\ pairs = Pairwise(m, ScoreOf(told))
  BY <1>2, <1>3 DEF MetricsAreOf
<1>7. PICK rejects: rejects = trialrun.metrics.rejects /\ rejects = Recall(m, ScoreOf(told), RejectBelow)
  BY <1>2, <1>3 DEF MetricsAreOf
<1>8. /\ all > 0 => pairs.hits \in 0..all
      /\ all > 0 /\ pairs.hits = all /\ DOMAIN m.preferred # {} =>
           ((\A g \in DOMAIN m.preferred: Opponents(m, g) = Rivals(m, g))
               => groups.hits = groups.total)
      /\ \A g \in DOMAIN m.preferred: Foremost(m, told, g) = m.preferred[g] =>
           \A i \in DOMAIN m.pairs: m.pairs[i][2] = m.preferred[g]
                /\ ItemOf(m, m.pairs[i][1]).group = g => ~Wins(ScoreOf(told), m.pairs[i])
      /\ ToReject(m) # {} => rejects.recall.hits + rejects.missed = Cardinality(ToReject(m))
  BY <1>1, <1>4, <1>5, <1>6, <1>7, MetricsOfOne
<1>9. trialrun.manifest = m /\ fresh[1] = told /\ Cardinality(DOMAIN trialrun.manifest.pairs) = all
  BY <1>1, <1>3, <1>4
<1>10. trialrun.metrics.groups = groups /\ trialrun.metrics.pairs = pairs
       /\ trialrun.metrics.rejects = rejects
  BY <1>5, <1>6, <1>7
<1> QED  BY <1>8, <1>9, <1>10 DEF MetricsAgree

LEMMA MetricsKeep ==
    LocalBenchInv /\ MetricsInv /\ [LocalBenchNext]_localBenchVars => MetricsInv'
<1> SUFFICES ASSUME LocalBenchInv, MetricsInv, [LocalBenchNext]_localBenchVars PROVE MetricsInv'
  OBVIOUS
<1>1. CASE LoadManifest
  <2>1. PICK m \in Manifests:
            trialrun' = IF GoodManifest(m)
                        THEN [at |-> "repeat", manifest |-> m, results |-> <<>>]
                        ELSE [at |-> "refused"]
    BY <1>1 DEF LoadManifest
  <2>2. fresh' = <<>>
    BY <1>1 DEF LoadManifest, LocalBenchInv
  <2>3. CASE GoodManifest(m)
    <3>1. trialrun' = [at |-> "repeat", manifest |-> m, results |-> <<>>]
      BY <2>1, <2>3
    <3> QED  BY <2>2, <2>3, <3>1 DEF MetricsInv
  <2>4. CASE ~GoodManifest(m)
    BY <2>1, <2>4 DEF MetricsInv
  <2> QED  BY <2>3, <2>4
<1>2. CASE Repetition
  <2>0. PICK said \in RepetitionsOf(trialrun.manifest): \E told:
            /\ trialrun' = [trialrun EXCEPT !.results = Append(@, told)]
            /\ fresh' = Append(fresh, said)
    BY <1>2, Zenon DEF Repetition, RepetitionsOf
  <2>1. PICK told: /\ trialrun' = [trialrun EXCEPT !.results = Append(@, told)]
                   /\ fresh' = Append(fresh, said)
    BY <2>0
  <2>2. trialrun.at = "repeat" /\ trialrun'.at = "repeat" /\ trialrun'.manifest = trialrun.manifest
    <3>1. trialrun \in [at: {"repeat"}, manifest: Manifests, results: {fresh}]
      BY <1>2 DEF Repetition, LocalBenchInv
    <3> QED  BY <2>1, <3>1
  <2>3. PICK m: m = trialrun.manifest
    OBVIOUS
  <2>4. m \in Manifests /\ GoodManifest(m) /\ fresh \in Seq(RepetitionsOf(m))
    BY <2>2, <2>3 DEF MetricsInv
  <2>5. fresh' \in Seq(RepetitionsOf(m))
    BY <2>0, <2>1, <2>3, <2>4
  <2> QED  BY <2>2, <2>3, <2>4, <2>5 DEF MetricsInv
<1>3. CASE ReportBenchmark
  <2>1. trialrun \in [at: {"repeat"}, manifest: Manifests, results: {fresh}] /\ fresh' = fresh
    BY <1>3 DEF ReportBenchmark, LocalBenchInv
  <2>2. PICK m: m = trialrun.manifest
    OBVIOUS
  <2>3. m \in Manifests /\ GoodManifest(m) /\ fresh \in Seq(RepetitionsOf(m))
    BY <2>1, <2>2 DEF MetricsInv
  <2>4. fresh # <<>>
    <3>1. Len(fresh) = Repetitions
      BY <1>3, <2>1 DEF ReportBenchmark
    <3> QED  BY <3>1, LocalBenchmarkAssumption
  <2>5. PICK metrics: metrics = MetricsOf(m, fresh[1])
    OBVIOUS
  <2>6. PICK stable: stable = StableScores(trialrun.results)
    OBVIOUS
  <2>7. trialrun' = [at |-> "reported", manifest |-> m, stable |-> stable, metrics |-> metrics]
    BY <1>3, <2>1, <2>2, <2>5, <2>6 DEF ReportBenchmark
  <2>8. trialrun'.at = "reported" /\ trialrun'.manifest = m /\ trialrun'.metrics = metrics
    BY <2>7
  <2>9. MetricsAreOf(m, fresh[1])'
    <3>1. PICK told: told = fresh[1] /\ told = fresh'[1]
      BY <2>1
    <3>2. /\ metrics.groups = GroupTopOne(m, told)
          /\ metrics.pairs = Pairwise(m, ScoreOf(told))
          /\ metrics.rejects = Recall(m, ScoreOf(told), RejectBelow)
      BY <2>5, <3>1, MetricsAre
    <3> QED  BY <2>8, <3>1, <3>2 DEF MetricsAreOf
  <2> QED  BY <2>1, <2>3, <2>4, <2>8, <2>9 DEF MetricsInv
<1>4. CASE UNCHANGED localBenchVars
  BY <1>4 DEF localBenchVars, MetricsInv, MetricsAreOf
<1> QED  BY <1>1, <1>2, <1>3, <1>4 DEF LocalBenchNext

(* The caches are emptied before every repetition, so that what a          *)
(* repetition scored is what the models said in it, and the metrics        *)
(* reported are those of the first (local_benchmark_service.py:121-142).   *)
THEOREM RepetitionsAlwaysFresh == LocalBenchSpec => [](LocalBenchInv /\ MetricsInv)
<1>1. LocalBenchInit => LocalBenchInv /\ MetricsInv
  BY DEF LocalBenchInit, LocalBenchInv, MetricsInv
<1>2. (LocalBenchInv /\ MetricsInv) /\ [LocalBenchNext]_localBenchVars
         => (LocalBenchInv /\ MetricsInv)'
  BY LocalBenchKeeps, MetricsKeep
<1> QED  BY <1>1, <1>2, PTL DEF LocalBenchSpec

LEMMA LocalBenchInvRepeats == LocalBenchInv => StableMeansRepeated
<1> SUFFICES ASSUME LocalBenchInv, trialrun.at = "reported", trialrun.stable
             PROVE  \A r \in DOMAIN fresh: Told(fresh[r]) = Told(fresh[1])
  BY DEF StableMeansRepeated
<1>1. trialrun.stable <=> StableScores(fresh)
  BY DEF LocalBenchInv
<1> QED  BY <1>1 DEF StableScores

-----------------------------------------------------------------------------
(* OMLXBenchmark: the ranks of results                                     *)

RankKeys == Int \X Int \X Int

\* Ranks compare place by place.
LEMMA OutranksIs ==
    ASSUME NEW k \in RankKeys, NEW l \in RankKeys
    PROVE  Outranks(k, l) <=> \/ k[1] > l[1]
                              \/ k[1] = l[1] /\ k[2] > l[2]
                              \/ k[1] = l[1] /\ k[2] = l[2] /\ k[3] > l[3]
<1>1. DOMAIN k = 1..3 /\ 1..(1 - 1) = {} /\ 1..(2 - 1) = {1} /\ 1..(3 - 1) = {1, 2}
  BY DEF RankKeys
<1>2. ASSUME Outranks(k, l)
      PROVE  \/ k[1] > l[1]
             \/ k[1] = l[1] /\ k[2] > l[2]
             \/ k[1] = l[1] /\ k[2] = l[2] /\ k[3] > l[3]
  <2>1. PICK i \in 1..3: k[i] > l[i] /\ \A j \in 1..(i - 1): k[j] = l[j]
    BY <1>1, <1>2 DEF Outranks
  <2>2. i = 1 \/ i = 2 \/ i = 3
    OBVIOUS
  <2> QED  BY <1>1, <2>1, <2>2
<1>3. ASSUME k[1] > l[1] PROVE Outranks(k, l)
  BY <1>1, <1>3 DEF Outranks
<1>4. ASSUME k[1] = l[1], k[2] > l[2] PROVE Outranks(k, l)
  BY <1>1, <1>4 DEF Outranks
<1>5. ASSUME k[1] = l[1], k[2] = l[2], k[3] > l[3] PROVE Outranks(k, l)
  BY <1>1, <1>5 DEF Outranks
<1> QED  BY <1>2, <1>3, <1>4, <1>5

\* Of three keys: who outranks one that is not outranked by a third outranks
\* that, and is not outranked by whom the first does not outrank.
LEMMA OutranksOrders ==
    ASSUME NEW k \in RankKeys, NEW l \in RankKeys, NEW m \in RankKeys
    PROVE  /\ ~Outranks(k, k)
           /\ Outranks(k, l) => ~Outranks(l, k)
           /\ Outranks(k, l) /\ ~Outranks(m, l) => Outranks(k, m)
           /\ ~Outranks(l, k) /\ Outranks(l, m) => Outranks(k, m)
<1>1. k[1] \in Int /\ k[2] \in Int /\ k[3] \in Int /\ l[1] \in Int /\ l[2] \in Int /\ l[3] \in Int
      /\ m[1] \in Int /\ m[2] \in Int /\ m[3] \in Int
  BY DEF RankKeys
<1> QED  BY <1>1, OutranksIs

\* The results of a run, with keys that can be compared.
Keyed(results) ==
    \E n \in Nat: DOMAIN results = 1..n /\ \A i \in 1..n: results[i].key \in RankKeys

\* Whoever leads among the first n results of a model.
LeadsOf(results, n, i) ==
    \A j \in 1..n: results[j].model = results[i].model =>
        /\ ~Outranks(results[j].key, results[i].key)
        /\ j < i => Outranks(results[i].key, results[j].key)

\* Every model that was tried has one result that leads.
LEMMA LeaderExists ==
    ASSUME NEW results, Keyed(results), NEW i0 \in DOMAIN results
    PROVE  \E i \in DOMAIN results: results[i].model = results[i0].model /\ Leads(results, i)
<1>1. PICK n \in Nat: DOMAIN results = 1..n /\ \A i \in 1..n: results[i].key \in RankKeys
  BY DEF Keyed
<1>2. PICK m: m = results[i0].model
  OBVIOUS
<1> DEFINE Of(k) == {i \in 1..k: results[i].model = m}
           Led(k) == Of(k) # {} => \E i \in Of(k): LeadsOf(results, k, i)
           P == {k \in 0..n: Led(k)}
<1>3. 0 \in P
  OBVIOUS
<1>4. ASSUME NEW k \in 1..n, k - 1 \in P PROVE k \in P
  <2>1. 1..k = (1..(k - 1)) \union {k} /\ k \in Nat /\ k \notin 1..(k - 1)
    OBVIOUS
  <2>2. CASE results[k].model # m
    <3>1. Of(k) = Of(k - 1)
      BY <2>1, <2>2
    <3>2. ASSUME NEW i \in Of(k), LeadsOf(results, k - 1, i) PROVE LeadsOf(results, k, i)
      BY <2>1, <2>2, <3>2 DEF LeadsOf
    <3> QED  BY <1>4, <3>1, <3>2
  <2>3. CASE results[k].model = m /\ Of(k - 1) = {}
    <3>1. k \in Of(k) /\ Of(k) = {k}
      BY <2>1, <2>3
    <3>2. LeadsOf(results, k, k)
      <4> SUFFICES ASSUME NEW j \in 1..k, results[j].model = results[k].model
                   PROVE  /\ ~Outranks(results[j].key, results[k].key)
                          /\ j < k => Outranks(results[k].key, results[j].key)
        BY DEF LeadsOf
      <4>1. j = k
        BY <2>3, <3>1
      <4> QED  BY <1>1, <4>1, OutranksOrders
    <3> QED  BY <3>1, <3>2
  <2>4. CASE results[k].model = m /\ Of(k - 1) # {}
    <3>1. PICK i \in Of(k - 1): LeadsOf(results, k - 1, i)
      BY <1>4, <2>4
    <3>2. i \in 1..(k - 1) /\ results[i].model = m /\ i \in Of(k) /\ k \in Of(k)
      BY <2>1, <2>4
    <3>3. CASE Outranks(results[k].key, results[i].key)
      <4> SUFFICES ASSUME NEW j \in 1..k, results[j].model = results[k].model
                   PROVE  /\ ~Outranks(results[j].key, results[k].key)
                          /\ j < k => Outranks(results[k].key, results[j].key)
        BY <3>2 DEF LeadsOf
      <4>1. CASE j = k
        BY <1>1, <4>1, OutranksOrders
      <4>2. CASE j # k
        <5>1. j \in 1..(k - 1) /\ ~Outranks(results[j].key, results[i].key)
          BY <2>1, <2>4, <3>1, <3>2, <4>2 DEF LeadsOf
        <5>2. results[j].key \in RankKeys /\ results[i].key \in RankKeys /\ results[k].key \in RankKeys
          BY <1>1, <3>2, <5>1
        <5>3. PICK a, b, c: a = results[k].key /\ b = results[i].key /\ c = results[j].key
          OBVIOUS
        <5>4. Outranks(a, b) /\ ~Outranks(c, b) => Outranks(a, c) /\ ~Outranks(c, a)
          BY <5>2, <5>3, OutranksOrders
        <5> QED  BY <3>3, <5>1, <5>3, <5>4
      <4> QED  BY <4>1, <4>2
    <3>4. CASE ~Outranks(results[k].key, results[i].key)
      <4>1. LeadsOf(results, k, i)
        <5> SUFFICES ASSUME NEW j \in 1..k, results[j].model = results[i].model
                     PROVE  /\ ~Outranks(results[j].key, results[i].key)
                            /\ j < i => Outranks(results[i].key, results[j].key)
          BY DEF LeadsOf
        <5>1. CASE j = k
          BY <3>2, <3>4, <5>1
        <5>2. CASE j # k
          BY <2>1, <3>1, <5>2 DEF LeadsOf
        <5> QED  BY <5>1, <5>2
      <4> QED  BY <3>2, <4>1
    <3> QED  BY <3>3, <3>4
  <2> QED  BY <2>2, <2>3, <2>4
<1>5. \A k \in 0..n: k \in P
  <2> HIDE DEF P
  <2> QED  BY <1>3, <1>4, SetInduction
<1>6. i0 \in Of(n) /\ n \in P
  BY <1>1, <1>2, <1>5
<1>7. PICK i \in Of(n): LeadsOf(results, n, i)
  BY <1>6
<1> QED  BY <1>1, <1>2, <1>7 DEF Leads, LeadsOf

\* What is reported for a model is one of its results, and none outranks it.
LEMMA BestLeads ==
    ASSUME NEW results, Keyed(results), NEW i \in DOMAIN results
    PROVE  /\ results[i].model \in DOMAIN BestByModel(results)
           /\ \E k \in DOMAIN results:
                /\ BestByModel(results)[results[i].model] = results[k]
                /\ results[k].model = results[i].model
                /\ ~Outranks(results[i].key, results[k].key)
<1>1. PICK m: m = results[i].model
  OBVIOUS
<1> DEFINE k == CHOOSE j \in DOMAIN results: results[j].model = m /\ Leads(results, j)
<1>2. k \in DOMAIN results /\ results[k].model = m /\ Leads(results, k)
  BY <1>1, LeaderExists
<1>3. BestByModel(results)[m] = results[k] /\ m \in DOMAIN BestByModel(results)
  BY <1>1 DEF BestByModel
<1> HIDE DEF k
<1>4. ~Outranks(results[i].key, results[k].key)
  BY <1>1, <1>2 DEF Leads
<1> QED  BY <1>1, <1>2, <1>3, <1>4

\* What is reported for a model is one of its results.
LEMMA BestIsMeasured ==
    ASSUME NEW results, Keyed(results), NEW m \in DOMAIN BestByModel(results)
    PROVE  \E k \in DOMAIN results: BestByModel(results)[m] = results[k]
<1>1. PICK i \in DOMAIN results: results[i].model = m
  BY DEF BestByModel
<1> QED  BY <1>1, BestLeads

-----------------------------------------------------------------------------
(* OMLXBenchmark: keys are integers                                        *)

\* A rounded mean is an integer.
LEMMA MeanInt ==
    ASSUME NEW total \in Int, NEW n \in Nat \ {0}
    PROVE  Mean(total, n) \in Int
<1>1. 2 * total + n \in Int /\ 2 * n \in Int /\ 2 * n > 0
  OBVIOUS
<1> QED  BY <1>1 DEF Mean

\* Attempts that can be counted and added up.
Attempts(tries, n) ==
    /\ tries = [i \in 1..n |-> tries[i]]
    /\ \A i \in 1..n: tries[i].latency \in Int /\ tries[i].quality \in Int

\* Rates and means are integers.
LEMMA SummarisedInt ==
    ASSUME NEW n \in Nat, NEW tries, Attempts(tries, n), NEW at \in SUBSET (1..n)
    PROVE  /\ Summarised(tries, at).schema \in Int
           /\ Summarised(tries, at).latency \in Int
           /\ Summarised(tries, at).quality \in Int
<1>1. DOMAIN tries = 1..n
  BY DEF Attempts
<1>2. \A S \in SUBSET at: Cardinality(S) \in Nat
  <2> TAKE S \in SUBSET at
  <2>1. 1 \in Int /\ n \in Int
    OBVIOUS
  <2>2. IsFiniteSet(1..n)
    BY <2>1, FS_Interval
  <2>3. S \subseteq 1..n
    OBVIOUS
  <2> QED  BY <2>2, <2>3, FS_Subset, FS_CardinalityType
<1>3. PICK c: c = Cardinality(at)
  OBVIOUS
<1>4. c \in Nat
  BY <1>2, <1>3
<1>5. CASE c = 0
  BY <1>3, <1>5 DEF Summarised
<1>6. CASE c # 0
  <2>1. PICK lat: lat = [i \in 1..n |-> IF i \in at THEN tries[i].latency ELSE 0]
    OBVIOUS
  <2>2. PICK qua: qua = [i \in 1..n |-> IF i \in at THEN tries[i].quality ELSE 0]
    OBVIOUS
  <2>3. lat \in [1..n -> Int] /\ qua \in [1..n -> Int]
    BY <2>1, <2>2 DEF Attempts
  <2>4. Addition(lat) \in Int /\ Addition(qua) \in Int
    BY <2>3, AdditionInt
  <2>5. PICK good: good = {i \in at: tries[i].schema}
    OBVIOUS
  <2>6. Cardinality(good) \in Nat
    BY <1>2, <2>5
  <2>7. [i \in DOMAIN tries |-> IF i \in at THEN [j \in at |-> tries[j].latency][i] ELSE 0] = lat
    BY <1>1, <2>1
  <2>8. [i \in DOMAIN tries |-> IF i \in at THEN [j \in at |-> tries[j].quality][i] ELSE 0] = qua
    BY <1>1, <2>2
  <2>9. PICK a, b, d: /\ a = 10000 * Cardinality(good) /\ b = 100 * Addition(lat)
                      /\ d = 100 * Addition(qua)
    OBVIOUS
  <2>10. a \in Int /\ b \in Int /\ d \in Int
    BY <2>4, <2>6, <2>9
  <2>11. Mean(a, c) \in Int /\ Mean(b, c) \in Int /\ Mean(d, c) \in Int
    BY <1>4, <1>6, <2>10, MeanInt
  <2>12. /\ Summarised(tries, at).schema = Mean(10000 * Cardinality({i \in at: tries[i].schema}), c)
         /\ Summarised(tries, at).latency =
              Mean(100 * Addition([i \in DOMAIN tries |->
                     IF i \in at THEN [j \in at |-> tries[j].latency][i] ELSE 0]), c)
         /\ Summarised(tries, at).quality =
              Mean(100 * Addition([i \in DOMAIN tries |->
                     IF i \in at THEN [j \in at |-> tries[j].quality][i] ELSE 0]), c)
    BY <1>3, <1>6 DEF Summarised
  <2> QED  BY <2>5, <2>7, <2>8, <2>9, <2>11, <2>12
<1> QED  BY <1>5, <1>6

\* So the keys of either mode can be compared.
LEMMA KeysInt ==
    ASSUME NEW n \in Nat, NEW tries, Attempts(tries, n)
    PROVE  SingleKey(tries) \in RankKeys /\ BatchKey(tries) \in RankKeys
<1>1. DOMAIN tries = 1..n
  BY DEF Attempts
<1>2. ASSUME NEW at \in SUBSET (1..n)
      PROVE  /\ Summarised(tries, at).schema \in Int /\ Summarised(tries, at).latency \in Int
             /\ Summarised(tries, at).quality \in Int
  BY SummarisedInt
<1>3. ASSUME NEW task
      PROVE  /\ OfTask(tries, task).schema \in Int /\ OfTask(tries, task).latency \in Int
             /\ OfTask(tries, task).quality \in Int
  <2>1. PICK at: at = {i \in DOMAIN tries: tries[i].task = task}
    OBVIOUS
  <2>2. at \in SUBSET (1..n)
    BY <1>1, <2>1
  <2> QED  BY <1>2, <2>1, <2>2 DEF OfTask
<1>4. SingleKey(tries) \in RankKeys
  <2>1. PICK a, b, c, d, e: /\ a = OfTask(tries, "fast").schema /\ b = OfTask(tries, "full").schema
                            /\ c = OfTask(tries, "post").schema /\ d = OfTask(tries, "full").latency
                            /\ e = OfTask(tries, "post").quality
    OBVIOUS
  <2>2. a \in Int /\ b \in Int /\ c \in Int /\ d \in Int /\ e \in Int
    BY <1>3, <2>1
  <2>3. SingleKey(tries) = <<a + b + c, -d, e>>
    BY <2>1 DEF SingleKey
  <2> QED  BY <2>2, <2>3 DEF RankKeys
<1>5. Len(tries) = n
  <2>1. PICK S: S = {tries[i]: i \in 1..n}
    OBVIOUS
  <2>2. tries \in [1..n -> S]
    BY <2>1 DEF Attempts
  <2>3. tries \in Seq(S)
    BY <2>2, SeqDef
  <2>4. Len(tries) \in Nat /\ DOMAIN tries = 1..Len(tries)
    BY <2>3, LenProperties
  <2> QED  BY <1>1, <2>4
<1>6. BatchKey(tries) \in RankKeys
  <2>1. 2..n \in SUBSET (1..n)
    OBVIOUS
  <2>2. PICK a, b, c: /\ a = Summarised(tries, DOMAIN tries).schema
                      /\ b = Summarised(tries, DOMAIN tries).latency
                      /\ c = IF n > 1 THEN Summarised(tries, 2..n).latency ELSE b
    OBVIOUS
  <2>3. a \in Int /\ b \in Int /\ c \in Int
    BY <1>1, <1>2, <2>1, <2>2
  <2>4. BatchKey(tries) = <<a, -b, -c>>
    BY <1>5, <2>2 DEF BatchKey
  <2> QED  BY <2>3, <2>4 DEF RankKeys
<1> QED  BY <1>4, <1>6

\* An attempt has a latency and a quality.
LEMMA TriedInt ==
    ASSUME NEW task, NEW reply \in BenchReplies
    PROVE  Tried(task, reply).latency \in Int /\ Tried(task, reply).quality \in Int
<1>1. Tried(task, reply).latency = reply.latency /\ reply.latency \in Nat
  BY BenchAssumption DEF Tried
<1>2. PostQuality(reply.post) \in Int
  BY DEF PostQuality
<1>3. Tried(task, reply).quality \in {PostQuality(reply.post), 0}
  BY DEF Tried
<1> QED  BY <1>1, <1>2, <1>3

\* A trial has finitely many tasks.
LEMMA TasksCount ==
    ASSUME NEW b, b.repeats \in Nat, b.samples \in Nat
    PROVE  \E n \in Nat: DOMAIN TrialTasks(b) = 1..n
<1>1. CASE b.mode = "single_fixture"
  <2>1. 3 * b.repeats \in Nat /\ DOMAIN TrialTasks(b) = 1..(3 * b.repeats)
    BY <1>1 DEF TrialTasks
  <2> QED  BY <2>1
<1>2. CASE b.mode # "single_fixture"
  <2>1. DOMAIN TrialTasks(b) = 1..b.samples
    BY <1>2 DEF TrialTasks
  <2> QED  BY <2>1
<1> QED  BY <1>1, <1>2

\* A run has finitely many trials.
LEMMA AllTrialsCount == AllTrials \in Nat
<1>1. Len(BenchModels) \in Nat /\ Len(Trials) \in Nat
  BY BenchAssumption, LenProperties
<1> QED  BY <1>1 DEF AllTrials

\* The results of a run can be ranked.
LEMMA ResultsKeyed ==
    ASSUME NEW b, b.repeats \in Nat, b.samples \in Nat,
           NEW replies \in [1..AllTrials -> [DOMAIN TrialTasks(b) -> BenchReplies]]
    PROVE  Keyed([t \in 1..AllTrials |-> TrialResult(b, t,
                    [i \in DOMAIN TrialTasks(b) |-> Tried(TrialTasks(b)[i], replies[t][i])])])
<1>1. PICK n \in Nat: DOMAIN TrialTasks(b) = 1..n
  BY TasksCount
<1>2. PICK tasks: tasks = TrialTasks(b)
  OBVIOUS
<1>3. DOMAIN tasks = 1..n
  BY <1>1, <1>2
<1> DEFINE tries(t) == [i \in DOMAIN tasks |-> Tried(tasks[i], replies[t][i])]
<1>4. ASSUME NEW t \in 1..AllTrials
      PROVE  TrialResult(b, t, tries(t)).key \in RankKeys
  <2>1. PICK made: made = tries(t)
    OBVIOUS
  <2>2. ASSUME NEW i \in 1..n PROVE made[i].latency \in Int /\ made[i].quality \in Int
    <3>1. made[i] = Tried(tasks[i], replies[t][i]) /\ replies[t][i] \in BenchReplies
      BY <1>2, <1>3, <2>1
    <3>2. PICK reply \in BenchReplies: reply = replies[t][i]
      BY <3>1
    <3>3. PICK task: task = tasks[i]
      OBVIOUS
    <3> QED  BY <3>1, <3>2, <3>3, TriedInt
  <2>3. made = [i \in 1..n |-> made[i]]
    BY <1>3, <2>1
  <2>4. Attempts(made, n)
    BY <2>2, <2>3 DEF Attempts
  <2>5. SingleKey(made) \in RankKeys /\ BatchKey(made) \in RankKeys
    BY <2>4, KeysInt
  <2>6. TrialResult(b, t, made).key \in {SingleKey(made), BatchKey(made)}
    BY DEF TrialResult
  <2> HIDE DEF tries
  <2> QED  BY <2>1, <2>5, <2>6
<1>5. PICK results: results = [t \in 1..AllTrials |-> TrialResult(b, t, tries(t))]
  OBVIOUS
<1>6. DOMAIN results = 1..AllTrials /\ \A t \in 1..AllTrials: results[t].key \in RankKeys
  BY <1>4, <1>5
<1>7. Keyed(results)
  BY <1>6, AllTrialsCount DEF Keyed
<1> QED  BY <1>2, <1>5, <1>7

-----------------------------------------------------------------------------
(* OMLXBenchmark: the inductive invariant                                  *)

BenchFields ==
    {"pc", "mode", "repeats", "samples", "support", "results", "winners", "read", "published",
     "crossed"}
BenchShape ==
    /\ DOMAIN bench = BenchRuns /\ DOMAIN best = {"text", "entries"}
    /\ \A r \in BenchRuns:
          /\ DOMAIN bench[r] = BenchFields
          /\ bench[r].repeats \in Nat /\ bench[r].samples \in Nat /\ Keyed(bench[r].results)

\* How far a run has come.
BenchStage(r) ==
    /\ bench[r].published => /\ bench[r].pc \notin {"start", "trying", "report"}
                             /\ bench[r].winners = BestByModel(bench[r].results)
    /\ bench[r].pc \in {"read", "rewrite", "writing", "done"} => bench[r].published
    /\ bench[r].crossed => bench[r].published /\ bench[r].pc # "read"

\* An entry is a result of a run that has reported it.
Measured(entry, mode) ==
    \E r \in BenchRuns:
        /\ bench[r].published /\ bench[r].mode = mode
        /\ \E i \in DOMAIN bench[r].results: bench[r].results[i] = entry
AllMeasured(entries) == \A e \in DOMAIN entries: Measured(entries[e], e[2])
EntriesAreMeasured ==
    /\ AllMeasured(best.entries)
    /\ \A r \in BenchRuns: Updating(r) => AllMeasured(bench[r].read)

\* Updates that did not meet followed each other.
OneUpdates ==
    ~Crossed =>
        /\ \A r, q \in BenchRuns: Updating(r) /\ Updating(q) => r = q
        /\ \A r \in BenchRuns: Updating(r) => bench[r].read = best.entries

\* The entries hold one for every result of a kind, which it does not outrank.
OnFile(entries, mode, result) ==
    /\ <<result.model, mode>> \in DOMAIN entries
    /\ ~Outranks(result.key, entries[<<result.model, mode>>].key)
NotOutranked ==
    ~Crossed => \A r \in BenchRuns: bench[r].pc = "done" =>
        \A i \in DOMAIN bench[r].results: OnFile(best.entries, bench[r].mode, bench[r].results[i])
TornIsExplained ==
    best.text = "torn" =>
        \E r \in BenchRuns: bench[r].pc \in {"writing", "dead"} /\ bench[r].published
BenchInv ==
    /\ BenchShape /\ \A r \in BenchRuns: BenchStage(r)
    /\ EntriesAreMeasured /\ OneUpdates /\ NotOutranked /\ TornIsExplained

LEMMA BenchStart0 == BenchInit => BenchInv
<1> SUFFICES ASSUME BenchInit PROVE BenchInv
  OBVIOUS
<1>1. ASSUME NEW r \in BenchRuns
      PROVE  /\ DOMAIN bench[r] = BenchFields
             /\ bench[r].pc = "start" /\ bench[r].repeats = 1 /\ bench[r].samples = 1
             /\ bench[r].results = <<>> /\ ~bench[r].published /\ ~bench[r].crossed
  <2>1. bench[r] = BenchIdle
    BY DEF BenchInit
  <2> QED  BY <2>1 DEF BenchIdle, BenchFields
<1>2. DOMAIN bench = BenchRuns
  BY DEF BenchInit
<1>3. DOMAIN best = {"text", "entries"} /\ best.text = "absent" /\ DOMAIN best.entries = {}
  BY DEF BenchInit, NoEntries
<1>4. Keyed(<<>>)
  <2>1. DOMAIN <<>> = 1..0 /\ 1..0 = {} /\ 0 \in Nat
    OBVIOUS
  <2> QED  BY <2>1 DEF Keyed
<1>5. BenchShape
  BY <1>1, <1>2, <1>3, <1>4 DEF BenchShape
<1>6. \A r \in BenchRuns: BenchStage(r)
  BY <1>1 DEF BenchStage
<1>7. EntriesAreMeasured
  BY <1>1, <1>3 DEF EntriesAreMeasured, AllMeasured, Updating
<1>8. OneUpdates /\ NotOutranked
  BY <1>1 DEF OneUpdates, NotOutranked, Updating
<1>9. TornIsExplained
  BY <1>3 DEF TornIsExplained
<1> QED  BY <1>5, <1>6, <1>7, <1>8, <1>9 DEF BenchInv

-----------------------------------------------------------------------------
(* OMLXBenchmark: the steps                                                *)

\* What a run has reported stays.
Reported(r) ==
    bench[r].published =>
        /\ bench'[r].published /\ bench'[r].mode = bench[r].mode
        /\ bench'[r].results = bench[r].results /\ bench'[r].winners = bench[r].winners

\* Entries stay measured as long as reported runs stay as they are.
LEMMA MeasuredStays ==
    ASSUME NEW entries, AllMeasured(entries), \A r \in BenchRuns: Reported(r)
    PROVE  AllMeasured(entries)'
<1> SUFFICES ASSUME NEW e \in DOMAIN entries PROVE Measured(entries[e], e[2])'
  BY DEF AllMeasured
<1>1. PICK r \in BenchRuns:
        /\ bench[r].published /\ bench[r].mode = e[2]
        /\ \E i \in DOMAIN bench[r].results: bench[r].results[i] = entries[e]
  BY DEF AllMeasured, Measured
<1>2. /\ bench'[r].published /\ bench'[r].mode = bench[r].mode
      /\ bench'[r].results = bench[r].results
  BY <1>1 DEF Reported
<1> QED  BY <1>1, <1>2 DEF Measured

\* Entries on file can be ranked.
LEMMA MeasuredKeys ==
    ASSUME BenchShape, NEW entries, AllMeasured(entries), NEW e \in DOMAIN entries
    PROVE  entries[e].key \in RankKeys
<1>1. PICK r \in BenchRuns: \E i \in DOMAIN bench[r].results: bench[r].results[i] = entries[e]
  BY DEF AllMeasured, Measured
<1>2. PICK i \in DOMAIN bench[r].results: bench[r].results[i] = entries[e]
  BY <1>1
<1>3. Keyed(bench[r].results)
  BY DEF BenchShape
<1> QED  BY <1>2, <1>3 DEF Keyed

\* A step of one run that neither reads nor replaces what is on file.
LEMMA RunMoves ==
    ASSUME BenchInv, NEW r \in BenchRuns,
           BenchShape', \A q \in BenchRuns \ {r}: bench'[q] = bench[q],
           best'.entries = best.entries,
           BenchStage(r)', Reported(r),
           bench[r].crossed => bench'[r].crossed,
           Updating(r)' => Updating(r) /\ bench'[r].read = bench[r].read,
           bench'[r].pc # "done",
           TornIsExplained'
    PROVE  BenchInv'
<1>1. \A q \in BenchRuns: Reported(q)
  BY DEF Reported
<1>2. \A q \in BenchRuns: BenchStage(q)'
  BY DEF BenchInv, BenchStage
<1>3. \A q \in BenchRuns: Updating(q)' => Updating(q) /\ bench'[q].read = bench[q].read
  BY DEF Updating
<1>4. EntriesAreMeasured'
  <2>1. AllMeasured(best.entries)'
    <3>1. PICK entries: entries = best.entries
      OBVIOUS
    <3>2. AllMeasured(entries)'
      BY <1>1, <3>1, MeasuredStays DEF BenchInv, EntriesAreMeasured
    <3> QED  BY <3>1, <3>2 DEF AllMeasured
  <2>2. ASSUME NEW q \in BenchRuns, Updating(q)' PROVE AllMeasured(bench[q].read)'
    <3>1. PICK entries: entries = bench[q].read
      OBVIOUS
    <3>2. AllMeasured(entries)'
      BY <1>1, <1>3, <2>2, <3>1, MeasuredStays DEF BenchInv, EntriesAreMeasured
    <3>3. bench'[q].read = entries
      BY <1>3, <2>2, <3>1
    <3> QED  BY <3>2, <3>3 DEF AllMeasured
  <2> QED  BY <2>1, <2>2 DEF EntriesAreMeasured
<1>5. ~Crossed' => ~Crossed
  BY DEF Crossed
<1>6. OneUpdates'
  BY <1>3, <1>5 DEF BenchInv, OneUpdates
<1>7. NotOutranked'
  <2> SUFFICES ASSUME ~Crossed', NEW q \in BenchRuns, bench'[q].pc = "done",
                      NEW i \in DOMAIN bench'[q].results
               PROVE  OnFile(best.entries, bench[q].mode, bench[q].results[i])'
    BY DEF NotOutranked
  <2>1. q # r /\ bench'[q] = bench[q]
    OBVIOUS
  <2>2. OnFile(best.entries, bench[q].mode, bench[q].results[i])
    BY <1>5, <2>1 DEF BenchInv, NotOutranked
  <2> QED  BY <2>1, <2>2 DEF OnFile
<1> QED  BY <1>2, <1>4, <1>6, <1>7 DEF BenchInv

\* A step that only moves a run on.
LEMMA GoesFacts ==
    ASSUME BenchInv, NEW r \in BenchRuns, NEW pc, Goes(r, pc)
    PROVE  /\ DOMAIN bench' = BenchRuns
           /\ \A q \in BenchRuns \ {r}: bench'[q] = bench[q]
           /\ DOMAIN bench'[r] = BenchFields
           /\ bench'[r].pc = pc
           /\ bench'[r].mode = bench[r].mode /\ bench'[r].repeats = bench[r].repeats
           /\ bench'[r].samples = bench[r].samples /\ bench'[r].results = bench[r].results
           /\ bench'[r].winners = bench[r].winners /\ bench'[r].read = bench[r].read
           /\ bench'[r].published = bench[r].published
           /\ bench'[r].crossed = bench[r].crossed
<1>1. bench' = [bench EXCEPT ![r].pc = pc]
  BY DEF Goes
<1>2. DOMAIN bench = BenchRuns /\ DOMAIN bench[r] = BenchFields
  BY DEF BenchInv, BenchShape
<1>3. bench'[r] = [bench[r] EXCEPT !.pc = pc]
  BY <1>1, <1>2
<1>4. DOMAIN bench' = BenchRuns /\ \A q \in BenchRuns \ {r}: bench'[q] = bench[q]
  BY <1>1, <1>2
<1> QED  BY <1>2, <1>3, <1>4 DEF BenchFields

\* A run ends, dies or empties the file.
LEMMA RunGoes ==
    ASSUME BenchInv, NEW r \in BenchRuns, NEW pc \in {"failed", "dead", "writing"}, Goes(r, pc),
           pc = "failed" => bench[r].pc \in {"start", "trying", "read"},
           pc = "dead" => bench[r].pc \in {"read", "rewrite", "writing"},
           pc = "writing" => bench[r].pc = "rewrite",
           DOMAIN best' = {"text", "entries"}, best'.entries = best.entries,
           best'.text = best.text \/ pc = "writing"
    PROVE  BenchInv'
<1>1. /\ DOMAIN bench' = BenchRuns
      /\ \A q \in BenchRuns \ {r}: bench'[q] = bench[q]
      /\ DOMAIN bench'[r] = BenchFields
      /\ bench'[r].pc = pc
      /\ bench'[r].mode = bench[r].mode /\ bench'[r].repeats = bench[r].repeats
      /\ bench'[r].samples = bench[r].samples /\ bench'[r].results = bench[r].results
      /\ bench'[r].winners = bench[r].winners /\ bench'[r].read = bench[r].read
      /\ bench'[r].published = bench[r].published
      /\ bench'[r].crossed = bench[r].crossed
  BY GoesFacts
<1>2. BenchShape'
  BY <1>1 DEF BenchInv, BenchShape
<1>3. BenchStage(r)
  BY DEF BenchInv
<1>4. BenchStage(r)'
  BY <1>1, <1>3 DEF BenchStage
<1>5. TornIsExplained'
  <2> SUFFICES ASSUME best'.text = "torn"
               PROVE  \E q \in BenchRuns: bench'[q].pc \in {"writing", "dead"} /\ bench'[q].published
    BY DEF TornIsExplained
  <2>1. CASE pc = "writing"
    BY <1>1, <1>3, <2>1 DEF BenchStage
  <2>2. CASE pc # "writing"
    <3>1. PICK q \in BenchRuns: bench[q].pc \in {"writing", "dead"} /\ bench[q].published
      BY <2>2 DEF BenchInv, TornIsExplained
    <3>2. q = r => pc = "dead"
      BY <2>2, <3>1
    <3> QED  BY <1>1, <3>1, <3>2
  <2> QED  BY <2>1, <2>2
<1>6. Reported(r)
  BY <1>1 DEF Reported
<1>7. Updating(r)' => Updating(r) /\ bench'[r].read = bench[r].read
  BY <1>1 DEF Updating
<1> QED  BY <1>1, <1>2, <1>4, <1>5, <1>6, <1>7, RunMoves


\* A request is accepted or refused.
LEMMA StartKeeps ==
    ASSUME BenchInv, NEW r \in BenchRuns, BenchStart(r)
    PROVE  BenchInv'
<1>1. bench[r].pc = "start" /\ best' = best /\ DOMAIN best = {"text", "entries"}
  BY DEF BenchStart, BenchInv, BenchShape
<1>2. CASE Goes(r, "failed")
  BY <1>1, <1>2, RunGoes
<1>3. CASE ~Goes(r, "failed")
  <2>1. PICK mode \in Modes: \E repeats \in BenchRepeats, size \in SampleSets, s \in Supports:
          bench' = [bench EXCEPT ![r] =
             [@ EXCEPT !.pc = "trying", !.mode = mode, !.repeats = repeats, !.support = s,
                       !.samples = IF mode = "single_fixture" THEN 1
                                   ELSE IF size < MostSamples THEN size ELSE MostSamples]]
    BY <1>3 DEF BenchStart
  <2>2. PICK repeats \in BenchRepeats: \E size \in SampleSets, s \in Supports:
          bench' = [bench EXCEPT ![r] =
             [@ EXCEPT !.pc = "trying", !.mode = mode, !.repeats = repeats, !.support = s,
                       !.samples = IF mode = "single_fixture" THEN 1
                                   ELSE IF size < MostSamples THEN size ELSE MostSamples]]
    BY <2>1
  <2>3. PICK size \in SampleSets: \E s \in Supports:
          bench' = [bench EXCEPT ![r] =
             [@ EXCEPT !.pc = "trying", !.mode = mode, !.repeats = repeats, !.support = s,
                       !.samples = IF mode = "single_fixture" THEN 1
                                   ELSE IF size < MostSamples THEN size ELSE MostSamples]]
    BY <2>2
  <2>4. PICK samples: samples = IF mode = "single_fixture" THEN 1
                                ELSE IF size < MostSamples THEN size ELSE MostSamples
    OBVIOUS
  <2>5. PICK s \in Supports:
          bench' = [bench EXCEPT ![r] =
             [@ EXCEPT !.pc = "trying", !.mode = mode, !.repeats = repeats, !.support = s,
                       !.samples = samples]]
    BY <2>3, <2>4
  <2>6. samples \in Nat /\ repeats \in Nat
    BY <2>4, BenchAssumption
  <2>7. DOMAIN bench = BenchRuns /\ DOMAIN bench[r] = BenchFields
    BY DEF BenchInv, BenchShape
  <2>8. bench'[r] = [bench[r] EXCEPT !.pc = "trying", !.mode = mode, !.repeats = repeats,
                                     !.support = s, !.samples = samples]
    BY <2>5, <2>7
  <2>9. DOMAIN bench' = BenchRuns /\ \A q \in BenchRuns \ {r}: bench'[q] = bench[q]
    BY <2>5, <2>7
  <2>10. /\ DOMAIN bench'[r] = BenchFields /\ bench'[r].pc = "trying"
         /\ bench'[r].repeats = repeats /\ bench'[r].samples = samples
         /\ bench'[r].results = bench[r].results /\ bench'[r].published = bench[r].published
         /\ bench'[r].crossed = bench[r].crossed
    BY <2>7, <2>8 DEF BenchFields
  <2>11. ~bench[r].published /\ ~bench[r].crossed
    BY <1>1 DEF BenchInv, BenchStage
  <2>12. BenchShape'
    BY <1>1, <2>6, <2>9, <2>10 DEF BenchInv, BenchShape
  <2>13. BenchStage(r)'
    BY <2>10, <2>11 DEF BenchStage
  <2>14. TornIsExplained'
    BY <1>1, <2>9 DEF BenchInv, TornIsExplained
  <2>15. Reported(r)
    BY <2>11 DEF Reported
  <2>16. ~Updating(r)'
    BY <2>10 DEF Updating
  <2> QED  BY <1>1, <2>9, <2>10, <2>11, <2>12, <2>13, <2>14, <2>15, <2>16, RunMoves
<1> QED  BY <1>2, <1>3

\* All trials of a run.
LEMMA TrialsKeep ==
    ASSUME BenchInv, NEW r \in BenchRuns, BenchTrials(r)
    PROVE  BenchInv'
<1>1. bench[r].pc = "trying" /\ best' = best /\ DOMAIN best = {"text", "entries"}
  BY DEF BenchTrials, BenchInv, BenchShape
<1>2. DOMAIN bench = BenchRuns /\ DOMAIN bench[r] = BenchFields
      /\ bench[r].repeats \in Nat /\ bench[r].samples \in Nat
  BY DEF BenchInv, BenchShape
<1>3. PICK replies \in [1..AllTrials -> [DOMAIN TrialTasks(bench[r]) -> BenchReplies]]:
        bench' = [bench EXCEPT ![r] =
              [@ EXCEPT !.pc = "report",
                        !.results = [t \in 1..AllTrials |-> TrialResult(bench[r], t,
                           [i \in DOMAIN TrialTasks(bench[r]) |->
                               Tried(TrialTasks(bench[r])[i], replies[t][i])])]]]
  BY DEF BenchTrials
<1>4. PICK b: b = bench[r]
  OBVIOUS
<1>5. PICK results: results = [t \in 1..AllTrials |-> TrialResult(b, t,
                    [i \in DOMAIN TrialTasks(b) |-> Tried(TrialTasks(b)[i], replies[t][i])])]
  OBVIOUS
<1>6. Keyed(results)
  <2>1. b.repeats \in Nat /\ b.samples \in Nat
        /\ replies \in [1..AllTrials -> [DOMAIN TrialTasks(b) -> BenchReplies]]
    BY <1>2, <1>3, <1>4
  <2> QED  BY <1>5, <2>1, ResultsKeyed
<1>7. bench' = [bench EXCEPT ![r] = [@ EXCEPT !.pc = "report", !.results = results]]
  BY <1>3, <1>4, <1>5
<1>71. bench'[r] = [bench[r] EXCEPT !.pc = "report", !.results = results]
  BY <1>2, <1>7
<1>8. DOMAIN bench' = BenchRuns /\ \A q \in BenchRuns \ {r}: bench'[q] = bench[q]
  BY <1>2, <1>7
<1>9. /\ DOMAIN bench'[r] = BenchFields /\ bench'[r].pc = "report"
      /\ bench'[r].repeats = bench[r].repeats /\ bench'[r].samples = bench[r].samples
      /\ bench'[r].results = results /\ bench'[r].published = bench[r].published
      /\ bench'[r].crossed = bench[r].crossed
  BY <1>2, <1>71 DEF BenchFields
<1>10. ~bench[r].published /\ ~bench[r].crossed
  BY <1>1 DEF BenchInv, BenchStage
<1>11. BenchShape'
  BY <1>1, <1>2, <1>6, <1>8, <1>9 DEF BenchInv, BenchShape
<1>12. BenchStage(r)'
  BY <1>9, <1>10 DEF BenchStage
<1>13. TornIsExplained'
  BY <1>1, <1>8 DEF BenchInv, TornIsExplained
<1>14. Reported(r)
  BY <1>10 DEF Reported
<1>15. ~Updating(r)'
  BY <1>9 DEF Updating
<1> QED  BY <1>1, <1>8, <1>9, <1>10, <1>11, <1>12, <1>13, <1>14, <1>15, RunMoves

\* The summary is written before the best candidates are read.
LEMMA ReportKeeps ==
    ASSUME BenchInv, NEW r \in BenchRuns, BenchReport(r)
    PROVE  BenchInv'
<1>1. bench[r].pc = "report" /\ best' = best /\ DOMAIN best = {"text", "entries"}
  BY DEF BenchReport, BenchInv, BenchShape
<1>2. DOMAIN bench = BenchRuns /\ DOMAIN bench[r] = BenchFields
  BY DEF BenchInv, BenchShape
<1>3. PICK results: results = bench[r].results
  OBVIOUS
<1>4. PICK winners: winners = BestByModel(results)
  OBVIOUS
<1>5. bench' = [bench EXCEPT ![r] = [@ EXCEPT !.pc = "read", !.published = TRUE,
                                              !.winners = winners]]
  BY <1>2, <1>3, <1>4 DEF BenchReport
<1>6. bench'[r] = [bench[r] EXCEPT !.pc = "read", !.published = TRUE, !.winners = winners]
  BY <1>2, <1>5
<1>7. DOMAIN bench' = BenchRuns /\ \A q \in BenchRuns \ {r}: bench'[q] = bench[q]
  BY <1>2, <1>5
<1>8. /\ DOMAIN bench'[r] = BenchFields /\ bench'[r].pc = "read"
      /\ bench'[r].repeats = bench[r].repeats /\ bench'[r].samples = bench[r].samples
      /\ bench'[r].results = results /\ bench'[r].published = TRUE
      /\ bench'[r].crossed = bench[r].crossed /\ bench'[r].winners = winners
  BY <1>2, <1>3, <1>6 DEF BenchFields
<1>9. ~bench[r].published /\ ~bench[r].crossed
  BY <1>1 DEF BenchInv, BenchStage
<1>10. BenchShape'
  BY <1>1, <1>3, <1>7, <1>8 DEF BenchInv, BenchShape
<1>11. BenchStage(r)'
  BY <1>4, <1>8, <1>9 DEF BenchStage
<1>12. TornIsExplained'
  BY <1>1, <1>7 DEF BenchInv, TornIsExplained
<1>13. Reported(r)
  BY <1>9 DEF Reported
<1>14. ~Updating(r)'
  BY <1>8 DEF Updating
<1> QED  BY <1>1, <1>7, <1>8, <1>9, <1>10, <1>11, <1>12, <1>13, <1>14, RunMoves

\* An update reads the file: the others it meets are noted.
LEMMA ReadKeeps ==
    ASSUME BenchInv, NEW r \in BenchRuns, ReadBest(r)
    PROVE  BenchInv'
<1>1. bench[r].pc = "read" /\ best' = best /\ DOMAIN best = {"text", "entries"}
  BY DEF ReadBest, BenchInv, BenchShape
<1>2. CASE best.text = "torn"
  <2>1. Goes(r, "failed")
    BY <1>2 DEF ReadBest
  <2> QED  BY <1>1, <2>1, RunGoes
<1>3. CASE best.text # "torn"
  <2>1. bench' = [q \in BenchRuns |->
              IF q = r
              THEN [bench[r] EXCEPT !.pc = "rewrite", !.read = best.entries,
                                    !.crossed = \E o \in BenchRuns \ {r}: Updating(o)]
              ELSE [bench[q] EXCEPT !.crossed = @ \/ Updating(q)]]
    BY <1>3 DEF ReadBest
  <2>2. DOMAIN bench = BenchRuns /\ \A q \in BenchRuns: DOMAIN bench[q] = BenchFields
    BY DEF BenchInv, BenchShape
  <2>3. DOMAIN bench' = BenchRuns
    BY <2>1
  <2>4. bench'[r] = [bench[r] EXCEPT !.pc = "rewrite", !.read = best.entries,
                                     !.crossed = \E o \in BenchRuns \ {r}: Updating(o)]
    BY <2>1
  <2>5. /\ DOMAIN bench'[r] = BenchFields
        /\ bench'[r].pc = "rewrite" /\ bench'[r].read = best.entries
        /\ bench'[r].crossed <=> \E o \in BenchRuns \ {r}: Updating(o)
        /\ bench'[r].mode = bench[r].mode /\ bench'[r].repeats = bench[r].repeats
        /\ bench'[r].samples = bench[r].samples /\ bench'[r].results = bench[r].results
        /\ bench'[r].winners = bench[r].winners /\ bench'[r].published = bench[r].published
    BY <2>2, <2>4 DEF BenchFields
  <2>6. ASSUME NEW q \in BenchRuns \ {r}
        PROVE  /\ DOMAIN bench'[q] = BenchFields
               /\ bench'[q].pc = bench[q].pc /\ bench'[q].read = bench[q].read
               /\ bench'[q].crossed <=> bench[q].crossed \/ Updating(q)
               /\ bench'[q].mode = bench[q].mode /\ bench'[q].repeats = bench[q].repeats
               /\ bench'[q].samples = bench[q].samples /\ bench'[q].results = bench[q].results
               /\ bench'[q].winners = bench[q].winners /\ bench'[q].published = bench[q].published
    <3>1. bench'[q] = [bench[q] EXCEPT !.crossed = @ \/ Updating(q)]
      BY <2>1
    <3> QED  BY <2>2, <3>1 DEF BenchFields
  <2>7. BenchShape'
    <3> SUFFICES ASSUME NEW q \in BenchRuns
                 PROVE  /\ DOMAIN bench'[q] = BenchFields /\ bench'[q].repeats \in Nat
                        /\ bench'[q].samples \in Nat /\ Keyed(bench'[q].results)
      BY <1>1, <2>3 DEF BenchShape
    <3>1. bench[q].repeats \in Nat /\ bench[q].samples \in Nat /\ Keyed(bench[q].results)
      BY DEF BenchInv, BenchShape
    <3> QED  BY <2>5, <2>6, <3>1
  <2>8. ASSUME NEW q \in BenchRuns PROVE BenchStage(q)'
    <3>1. BenchStage(q)
      BY DEF BenchInv
    <3>2. CASE q = r
      BY <1>1, <2>5, <3>1, <3>2 DEF BenchStage
    <3>3. CASE q # r
      BY <2>6, <3>1, <3>3 DEF BenchStage, Updating
    <3> QED  BY <3>2, <3>3
  <2>9. \A q \in BenchRuns: Reported(q)
    BY <2>5, <2>6 DEF Reported
  <2>10. \A q \in BenchRuns \ {r}: Updating(q)' <=> Updating(q)
    BY <2>6 DEF Updating
  <2>11. EntriesAreMeasured'
    <3>1. PICK entries: entries = best.entries
      OBVIOUS
    <3>2. AllMeasured(entries)'
      BY <2>9, <3>1, MeasuredStays DEF BenchInv, EntriesAreMeasured
    <3>3. ASSUME NEW q \in BenchRuns, Updating(q)' PROVE AllMeasured(bench[q].read)'
      <4>1. CASE q = r
        <5>1. bench'[q].read = entries
          BY <2>5, <3>1, <4>1
        <5> QED  BY <3>2, <5>1 DEF AllMeasured
      <4>2. CASE q # r
        <5>1. PICK read: read = bench[q].read
          OBVIOUS
        <5>2. AllMeasured(read)'
          BY <2>9, <2>10, <3>3, <4>2, <5>1, MeasuredStays DEF BenchInv, EntriesAreMeasured
        <5>3. bench'[q].read = read
          BY <2>6, <4>2, <5>1
        <5> QED  BY <5>2, <5>3 DEF AllMeasured
      <4> QED  BY <4>1, <4>2
    <3>4. best'.entries = entries
      BY <1>1, <3>1
    <3>5. AllMeasured(best.entries)'
      BY <3>2, <3>4 DEF AllMeasured
    <3> QED  BY <3>3, <3>5 DEF EntriesAreMeasured
  <2>12. ASSUME ~Crossed' PROVE ~Crossed /\ \A q \in BenchRuns: Updating(q)' => q = r
    <3>1. \A q \in BenchRuns: ~bench'[q].crossed
      BY <2>12 DEF Crossed
    <3>2. \A q \in BenchRuns \ {r}: ~bench[q].crossed /\ ~Updating(q)
      BY <2>6, <3>1
    <3>3. ~bench[r].crossed
      BY <1>1 DEF BenchInv, BenchStage
    <3> QED  BY <2>10, <3>2, <3>3 DEF Crossed
  <2>13. OneUpdates'
    BY <1>1, <2>5, <2>12 DEF OneUpdates
  <2>14. NotOutranked'
    <3> SUFFICES ASSUME ~Crossed', NEW q \in BenchRuns, bench'[q].pc = "done",
                        NEW i \in DOMAIN bench'[q].results
                 PROVE  OnFile(best.entries, bench[q].mode, bench[q].results[i])'
      BY DEF NotOutranked
    <3>1. q # r
      BY <2>5
    <3>2. bench[q].pc = "done" /\ bench'[q].results = bench[q].results
          /\ bench'[q].mode = bench[q].mode
      BY <2>6, <3>1
    <3>3. OnFile(best.entries, bench[q].mode, bench[q].results[i])
      BY <2>12, <3>2 DEF BenchInv, NotOutranked
    <3> QED  BY <1>1, <3>2, <3>3 DEF OnFile
  <2>15. TornIsExplained'
    BY <1>1, <1>3 DEF TornIsExplained
  <2> QED  BY <2>7, <2>8, <2>11, <2>13, <2>14, <2>15 DEF BenchInv
<1> QED  BY <1>2, <1>3


\* The file is emptied, the entries are in memory.
LEMMA EmptiedKeeps ==
    ASSUME BenchInv, NEW r \in BenchRuns, Emptied(r)
    PROVE  BenchInv'
<1>1. /\ bench[r].pc = "rewrite" /\ Goes(r, "writing")
      /\ best' = [best EXCEPT !.text = "torn"] /\ DOMAIN best = {"text", "entries"}
  BY DEF Emptied, BenchInv, BenchShape
<1>2. DOMAIN best' = {"text", "entries"} /\ best'.entries = best.entries
  BY <1>1
<1> QED  BY <1>1, <1>2, RunGoes

\* A run dies before, between or after the two writes of the file.
LEMMA DeathKeeps ==
    ASSUME BenchInv, NEW r \in BenchRuns, BenchDies(r)
    PROVE  BenchInv'
<1>1. /\ bench[r].pc \in {"read", "rewrite", "writing"} /\ Goes(r, "dead")
      /\ best' = best /\ DOMAIN best = {"text", "entries"}
  BY DEF BenchDies, BenchInv, BenchShape
<1> QED  BY <1>1, RunGoes

\* A sample cannot be decoded.
LEMMA UnreadableKeeps ==
    ASSUME BenchInv, NEW r \in BenchRuns, SampleUnreadable(r)
    PROVE  BenchInv'
<1>1. /\ bench[r].pc = "trying" /\ Goes(r, "failed")
      /\ best' = best /\ DOMAIN best = {"text", "entries"}
  BY DEF SampleUnreadable, BenchInv, BenchShape
<1> QED  BY <1>1, RunGoes

\* Merging takes every entry from the file or from the run, and what is on
\* file for a result only gets better.
LEMMA MergedKeeps ==
    ASSUME NEW read, NEW winners, NEW mode,
           \A e \in DOMAIN read: read[e].key \in RankKeys,
           \A m \in DOMAIN winners: winners[m].key \in RankKeys
    PROVE  /\ \A e \in DOMAIN Merged(read, winners, mode):
                 \/ e \in DOMAIN read /\ Merged(read, winners, mode)[e] = read[e]
                 \/ \E m \in DOMAIN winners:
                      e = <<m, mode>> /\ Merged(read, winners, mode)[e] = winners[m]
           /\ \A kind, result: result.key \in RankKeys /\ OnFile(read, kind, result) =>
                 OnFile(Merged(read, winners, mode), kind, result)
           /\ \A result: result.key \in RankKeys /\ result.model \in DOMAIN winners
                         /\ ~Outranks(result.key, winners[result.model].key) =>
                 OnFile(Merged(read, winners, mode), mode, result)
<1>1. PICK mine: mine = {<<m, mode>>: m \in DOMAIN winners}
  OBVIOUS
<1>2. PICK merged: merged = Merged(read, winners, mode)
  OBVIOUS
<1>3. DOMAIN merged = DOMAIN read \union mine
  BY <1>1, <1>2 DEF Merged
<1>4. ASSUME NEW m \in DOMAIN winners,
             <<m, mode>> \notin DOMAIN read \/ Outranks(winners[m].key, read[<<m, mode>>].key)
      PROVE  <<m, mode>> \in DOMAIN merged /\ merged[<<m, mode>>] = winners[m]
  <2>1. PICK e: e = <<m, mode>>
    OBVIOUS
  <2>2. e \in mine /\ e[1] = m
    BY <1>1, <2>1
  <2> QED  BY <1>1, <1>2, <1>3, <1>4, <2>1, <2>2 DEF Merged
<1>5. ASSUME NEW m \in DOMAIN winners, <<m, mode>> \in DOMAIN read,
             ~Outranks(winners[m].key, read[<<m, mode>>].key)
      PROVE  <<m, mode>> \in DOMAIN merged /\ merged[<<m, mode>>] = read[<<m, mode>>]
  <2>1. PICK e: e = <<m, mode>>
    OBVIOUS
  <2>2. e \in mine /\ e[1] = m
    BY <1>1, <2>1
  <2> QED  BY <1>1, <1>2, <1>3, <1>5, <2>1, <2>2 DEF Merged
<1>6. ASSUME NEW e \in DOMAIN read, e \notin mine PROVE e \in DOMAIN merged /\ merged[e] = read[e]
  BY <1>1, <1>2, <1>3, <1>6 DEF Merged
<1>7. ASSUME NEW e \in DOMAIN merged
      PROVE  \/ e \in DOMAIN read /\ merged[e] = read[e]
             \/ \E m \in DOMAIN winners: e = <<m, mode>> /\ merged[e] = winners[m]
  <2>1. CASE e \notin mine
    BY <1>3, <1>6, <2>1
  <2>2. CASE e \in mine
    <3>1. PICK m \in DOMAIN winners: e = <<m, mode>>
      BY <1>1, <2>2
    <3> QED  BY <1>4, <1>5, <3>1
  <2> QED  BY <2>1, <2>2
<1>8. ASSUME NEW kind, NEW result, result.key \in RankKeys, OnFile(read, kind, result)
      PROVE  OnFile(merged, kind, result)
  <2>1. PICK e: e = <<result.model, kind>>
    OBVIOUS
  <2>2. e \in DOMAIN read /\ ~Outranks(result.key, read[e].key)
    BY <1>8, <2>1 DEF OnFile
  <2>3. e \in DOMAIN merged /\ ~Outranks(result.key, merged[e].key)
    <3>1. CASE merged[e] = read[e]
      BY <1>3, <2>2, <3>1
    <3>2. CASE merged[e] # read[e]
      <4>1. e \in mine
        BY <1>6, <2>2, <3>2
      <4>2. PICK m \in DOMAIN winners: e = <<m, mode>>
        BY <1>1, <4>1
      <4>3. Outranks(winners[m].key, read[e].key)
        BY <1>5, <2>2, <3>2, <4>2
      <4>4. merged[e] = winners[m] /\ e \in DOMAIN merged
        BY <1>4, <4>2, <4>3
      <4>5. PICK k, l, n: k = winners[m].key /\ l = read[e].key /\ n = result.key
        OBVIOUS
      <4>6. k \in RankKeys /\ l \in RankKeys /\ n \in RankKeys
        BY <1>8, <2>2, <4>5
      <4>7. Outranks(k, l) /\ ~Outranks(n, l)
        BY <2>2, <4>3, <4>5
      <4>8. ~Outranks(n, k)
        BY <4>6, <4>7, OutranksOrders
      <4> QED  BY <4>4, <4>5, <4>8
    <3> QED  BY <3>1, <3>2
  <2> QED  BY <2>1, <2>3 DEF OnFile
<1>9. ASSUME NEW result, result.key \in RankKeys, result.model \in DOMAIN winners,
             ~Outranks(result.key, winners[result.model].key)
      PROVE  OnFile(merged, mode, result)
  <2>1. PICK m \in DOMAIN winners: m = result.model
    BY <1>9
  <2>2. PICK e: e = <<m, mode>>
    OBVIOUS
  <2>3. CASE e \notin DOMAIN read \/ Outranks(winners[m].key, read[e].key)
    <3>1. e \in DOMAIN merged /\ merged[e] = winners[m]
      BY <1>4, <2>2, <2>3
    <3> QED  BY <1>9, <2>1, <2>2, <3>1 DEF OnFile
  <2>4. CASE e \in DOMAIN read /\ ~Outranks(winners[m].key, read[e].key)
    <3>1. e \in DOMAIN merged /\ merged[e] = read[e]
      BY <1>5, <2>2, <2>4
    <3>2. PICK k, l, n: k = winners[m].key /\ l = read[e].key /\ n = result.key
      OBVIOUS
    <3>3. k \in RankKeys /\ l \in RankKeys /\ n \in RankKeys
      BY <1>9, <2>4, <3>2
    <3>4. ~Outranks(n, k) /\ ~Outranks(k, l)
      BY <1>9, <2>1, <2>4, <3>2
    <3>5. ~Outranks(n, l)
      BY <3>3, <3>4, OutranksOrders
    <3> QED  BY <2>1, <2>2, <3>1, <3>2, <3>5 DEF OnFile
  <2> QED  BY <2>3, <2>4
<1> QED  BY <1>2, <1>7, <1>8, <1>9

\* The merged entries are written: what no other update met replaces what it read.
LEMMA WriteKeeps ==
    ASSUME BenchInv, NEW r \in BenchRuns, WriteBest(r)
    PROVE  BenchInv'
<1>1. /\ bench[r].pc = "writing" /\ Goes(r, "done")
      /\ best' = [text |-> "whole",
                  entries |-> Merged(bench[r].read, bench[r].winners, bench[r].mode)]
  BY DEF WriteBest
<1>2. BenchStage(r) /\ bench[r].published
  BY <1>1 DEF BenchInv, BenchStage
<1>3. PICK read: read = bench[r].read
  OBVIOUS
<1>4. PICK results: results = bench[r].results
  OBVIOUS
<1>5. PICK winners: winners = BestByModel(results)
  OBVIOUS
<1>6. PICK mode: mode = bench[r].mode
  OBVIOUS
<1>7. PICK merged: merged = Merged(read, winners, mode)
  OBVIOUS
<1>8. best'.entries = merged /\ best'.text = "whole" /\ DOMAIN best' = {"text", "entries"}
  <2>1. bench[r].winners = winners
    BY <1>2, <1>4, <1>5 DEF BenchStage
  <2> QED  BY <1>1, <1>3, <1>6, <1>7, <2>1
<1>9. /\ DOMAIN bench' = BenchRuns
      /\ \A q \in BenchRuns \ {r}: bench'[q] = bench[q]
      /\ DOMAIN bench'[r] = BenchFields
      /\ bench'[r].pc = "done"
      /\ bench'[r].mode = bench[r].mode /\ bench'[r].repeats = bench[r].repeats
      /\ bench'[r].samples = bench[r].samples /\ bench'[r].results = bench[r].results
      /\ bench'[r].winners = bench[r].winners /\ bench'[r].read = bench[r].read
      /\ bench'[r].published = bench[r].published
      /\ bench'[r].crossed = bench[r].crossed
  BY <1>1, GoesFacts
<1>10. AllMeasured(read) /\ Updating(r)
  BY <1>1, <1>3 DEF BenchInv, EntriesAreMeasured, Updating
<1>11. \A e \in DOMAIN read: read[e].key \in RankKeys
  BY <1>10, MeasuredKeys DEF BenchInv
<1>12. Keyed(results)
  BY <1>4 DEF BenchInv, BenchShape
<1>13. ASSUME NEW m \in DOMAIN winners
       PROVE  winners[m].key \in RankKeys /\ \E k \in DOMAIN results: winners[m] = results[k]
  <2>1. PICK k \in DOMAIN results: winners[m] = results[k]
    BY <1>5, <1>12, BestIsMeasured
  <2> QED  BY <1>12, <2>1 DEF Keyed
<1>14. /\ \A e \in DOMAIN merged:
             \/ e \in DOMAIN read /\ merged[e] = read[e]
             \/ \E m \in DOMAIN winners: e = <<m, mode>> /\ merged[e] = winners[m]
       /\ \A kind, result: result.key \in RankKeys /\ OnFile(read, kind, result) =>
             OnFile(merged, kind, result)
       /\ \A result: result.key \in RankKeys /\ result.model \in DOMAIN winners
                     /\ ~Outranks(result.key, winners[result.model].key) =>
             OnFile(merged, mode, result)
  BY <1>7, <1>11, <1>13, MergedKeeps
<1>15. BenchShape'
  BY <1>8, <1>9 DEF BenchInv, BenchShape
<1>16. \A q \in BenchRuns: BenchStage(q)'
  <2>1. BenchStage(r)'
    BY <1>2, <1>9 DEF BenchStage
  <2>2. ASSUME NEW q \in BenchRuns \ {r} PROVE BenchStage(q)'
    BY <1>9 DEF BenchInv, BenchStage
  <2> QED  BY <2>1, <2>2
<1>17. \A q \in BenchRuns: Reported(q)
  BY <1>9 DEF Reported
<1>18. \A q \in BenchRuns: Updating(q)' => q # r /\ Updating(q) /\ bench'[q].read = bench[q].read
  BY <1>9 DEF Updating
<1>19. EntriesAreMeasured'
  <2>1. ASSUME NEW e \in DOMAIN merged PROVE Measured(merged[e], e[2])'
    <3>1. CASE e \in DOMAIN read /\ merged[e] = read[e]
      <4>1. AllMeasured(read)'
        BY <1>10, <1>17, MeasuredStays
      <4> QED  BY <3>1, <4>1 DEF AllMeasured
    <3>2. CASE \E m \in DOMAIN winners: e = <<m, mode>> /\ merged[e] = winners[m]
      <4>1. PICK m \in DOMAIN winners: e = <<m, mode>> /\ merged[e] = winners[m]
        BY <3>2
      <4>2. PICK k \in DOMAIN results: winners[m] = results[k]
        BY <1>13
      <4>3. e[2] = mode /\ bench'[r].published /\ bench'[r].mode = mode
            /\ bench'[r].results = results
        BY <1>2, <1>4, <1>6, <1>9, <4>1
      <4> QED  BY <4>1, <4>2, <4>3 DEF Measured
    <3> QED  BY <1>14, <3>1, <3>2
  <2>2. AllMeasured(best.entries)'
    BY <1>8, <2>1 DEF AllMeasured
  <2>3. ASSUME NEW q \in BenchRuns, Updating(q)' PROVE AllMeasured(bench[q].read)'
    <3>1. PICK entries: entries = bench[q].read
      OBVIOUS
    <3>2. AllMeasured(entries)'
      BY <1>17, <1>18, <2>3, <3>1, MeasuredStays DEF BenchInv, EntriesAreMeasured
    <3>3. bench'[q].read = entries
      BY <1>18, <2>3, <3>1
    <3> QED  BY <3>2, <3>3 DEF AllMeasured
  <2> QED  BY <2>2, <2>3 DEF EntriesAreMeasured
<1>20. ASSUME ~Crossed' PROVE ~Crossed
  <2>1. \A q \in BenchRuns: ~bench'[q].crossed
    BY <1>20 DEF Crossed
  <2> QED  BY <1>9, <2>1 DEF Crossed
<1>21. OneUpdates'
  <2> SUFFICES ASSUME ~Crossed' PROVE \A q \in BenchRuns: ~Updating(q)'
    BY DEF OneUpdates
  <2>1. \A q \in BenchRuns: Updating(q) => q = r
    BY <1>10, <1>20 DEF BenchInv, OneUpdates
  <2> QED  BY <1>18, <2>1
<1>22. NotOutranked'
  <2> SUFFICES ASSUME ~Crossed', NEW q \in BenchRuns, bench'[q].pc = "done",
                      NEW i \in DOMAIN bench'[q].results
               PROVE  OnFile(best.entries, bench[q].mode, bench[q].results[i])'
    BY DEF NotOutranked
  <2>1. PICK result: result = bench'[q].results[i]
    OBVIOUS
  <2>2. result.key \in RankKeys
    <3>1. Keyed(bench'[q].results)
      BY <1>15 DEF BenchShape
    <3> QED  BY <2>1, <3>1 DEF Keyed
  <2>3. CASE q = r
    <3>1. i \in DOMAIN results /\ result = results[i] /\ bench'[q].mode = mode
      BY <1>4, <1>6, <1>9, <2>1, <2>3
    <3>2. /\ result.model \in DOMAIN winners
          /\ \E k \in DOMAIN results:
               /\ winners[result.model] = results[k]
               /\ ~Outranks(result.key, results[k].key)
      BY <1>5, <1>12, <3>1, BestLeads
    <3>3. ~Outranks(result.key, winners[result.model].key)
      BY <3>2
    <3>4. OnFile(merged, mode, result)
      BY <1>14, <2>2, <3>2, <3>3
    <3> QED  BY <1>8, <2>1, <3>1, <3>4 DEF OnFile
  <2>4. CASE q # r
    <3>1. bench[q].pc = "done" /\ bench'[q].results = bench[q].results
          /\ bench'[q].mode = bench[q].mode
      BY <1>9, <2>4
    <3>2. PICK kind: kind = bench[q].mode
      OBVIOUS
    <3>3. OnFile(best.entries, kind, result)
      BY <1>20, <2>1, <3>1, <3>2 DEF BenchInv, NotOutranked
    <3>4. best.entries = read
      BY <1>3, <1>10, <1>20 DEF BenchInv, OneUpdates
    <3>5. OnFile(read, kind, result)
      BY <3>3, <3>4
    <3>6. OnFile(merged, kind, result)
      BY <1>14, <2>2, <3>5
    <3> QED  BY <1>8, <2>1, <3>1, <3>2, <3>6 DEF OnFile
  <2> QED  BY <2>3, <2>4
<1>23. TornIsExplained'
  BY <1>8 DEF TornIsExplained
<1> QED  BY <1>15, <1>16, <1>19, <1>21, <1>22, <1>23 DEF BenchInv

\* The best candidates are results that were reported, and unless updates met
\* none is outranked by what a finished run found.
THEOREM BestAlwaysMeasured == BenchSpec => []BenchInv
<1>1. BenchInit => BenchInv
  BY BenchStart0
<1>2. BenchInv /\ [BenchNext]_benchVars => BenchInv'
  <2> SUFFICES ASSUME BenchInv, [BenchNext]_benchVars PROVE BenchInv'
    OBVIOUS
  <2>1. CASE UNCHANGED benchVars
    BY <2>1 DEF benchVars, BenchInv, BenchShape, BenchStage, EntriesAreMeasured, AllMeasured,
                Measured, OneUpdates, NotOutranked, OnFile, TornIsExplained, Updating, Crossed
  <2>2. CASE BenchNext
    <3>1. PICK r \in BenchRuns:
             \/ BenchStart(r) \/ BenchTrials(r) \/ SampleUnreadable(r)
             \/ BenchReport(r) \/ ReadBest(r) \/ Emptied(r) \/ WriteBest(r)
             \/ BenchDies(r)
      BY <2>2 DEF BenchNext
    <3> QED  BY <3>1, StartKeeps, TrialsKeep, UnreadableKeeps, ReportKeeps, ReadKeeps,
                EmptiedKeeps, WriteKeeps, DeathKeeps
  <2> QED  BY <2>1, <2>2
<1> QED  BY <1>1, <1>2, PTL DEF BenchSpec

LEMMA BenchInvKeepsBest == BenchInv => BestOnFile
<1> SUFFICES ASSUME BenchInv PROVE BestOnFile
  OBVIOUS
<1>1. ASSUME NEW r \in BenchRuns, bench[r].pc = "done", ~Crossed,
             NEW i \in DOMAIN bench[r].results
      PROVE  LET mine == bench[r].results[i]
                 onFile == <<mine.model, bench[r].mode>>
             IN onFile \in DOMAIN best.entries /\ ~Outranks(mine.key, best.entries[onFile].key)
  BY <1>1 DEF BenchInv, NotOutranked, OnFile
<1>2. ASSUME NEW e \in DOMAIN best.entries
      PROVE  \E r \in BenchRuns:
         /\ bench[r].published /\ bench[r].mode = e[2]
         /\ \E i \in DOMAIN bench[r].results: bench[r].results[i] = best.entries[e]
  BY DEF BenchInv, EntriesAreMeasured, AllMeasured, Measured
<1>3. best.text = "torn" =>
         \E r \in BenchRuns: bench[r].pc \in {"writing", "dead"} /\ bench[r].published
  BY DEF BenchInv, TornIsExplained
<1> QED  BY <1>1, <1>2, <1>3 DEF BestOnFile

-----------------------------------------------------------------------------
(* OMLXBenchmark: rates and counts                                         *)

\* A rounded mean is next to the ratio.
LEMMA MeanBounds ==
    ASSUME NEW total \in Int, NEW n \in Nat \ {0}
    PROVE  /\ Mean(total, n) \in Int
           /\ 2 * (n * Mean(total, n)) <= 2 * total + n
           /\ 2 * total + n < 2 * (n * Mean(total, n)) + 2 * n
<1>1. PICK a \in Int, b \in Int: a = 2 * total + n /\ b = 2 * n /\ b > 0
  OBVIOUS
<1>2. PICK q: q = a \div b
  OBVIOUS
<1>3. q \in Int /\ b * q <= a /\ a < b * q + b
  BY <1>1, <1>2
<1>4. Mean(total, n) = q
  BY <1>1, <1>2 DEF Mean
<1>5. b * q = 2 * (n * q)
  BY <1>1, <1>3
<1> QED  BY <1>1, <1>3, <1>4, <1>5

\* The sum of three rates out of n.
Rates(n, a, b, c) == Mean(10000 * a, n) + Mean(10000 * b, n) + Mean(10000 * c, n)

\* Of two triples of counts the larger sum has the larger sum of rates, as long as
\* four decimals tell the counts apart.
LEMMA MoreValidRates ==
    ASSUME NEW n \in Nat \ {0}, 3 * n < 10000,
           NEW a \in Nat, NEW b \in Nat, NEW c \in Nat,
           NEW d \in Nat, NEW e \in Nat, NEW f \in Nat, a + b + c > d + e + f
    PROVE  Rates(n, a, b, c) > Rates(n, d, e, f)
<1>0. \A x \in Nat: Mean(10000 * x, n) \in Int
  <2>1. \A x \in Nat: 10000 * x \in Int
    OBVIOUS
  <2> QED  BY <2>1, MeanBounds
<1>1a. PICK ma \in Int: ma = Mean(10000 * a, n)
  BY <1>0
<1>1b. PICK mb \in Int: mb = Mean(10000 * b, n)
  BY <1>0
<1>1c. PICK mc \in Int: mc = Mean(10000 * c, n)
  BY <1>0
<1>1d. PICK md \in Int: md = Mean(10000 * d, n)
  BY <1>0
<1>1e. PICK me \in Int: me = Mean(10000 * e, n)
  BY <1>0
<1>1f. PICK mf \in Int: mf = Mean(10000 * f, n)
  BY <1>0
<1>1. /\ ma = Mean(10000 * a, n) /\ mb = Mean(10000 * b, n) /\ mc = Mean(10000 * c, n)
      /\ md = Mean(10000 * d, n) /\ me = Mean(10000 * e, n) /\ mf = Mean(10000 * f, n)
  BY <1>1a, <1>1b, <1>1c, <1>1d, <1>1e, <1>1f
<1>2. /\ 20000 * a + n < 2 * (n * ma) + 2 * n
      /\ 20000 * b + n < 2 * (n * mb) + 2 * n
      /\ 20000 * c + n < 2 * (n * mc) + 2 * n
      /\ 2 * (n * md) <= 20000 * d + n
      /\ 2 * (n * me) <= 20000 * e + n
      /\ 2 * (n * mf) <= 20000 * f + n
  <2>1. \A t \in Int: /\ 2 * (n * Mean(t, n)) <= 2 * t + n
                      /\ 2 * t + n < 2 * (n * Mean(t, n)) + 2 * n
    BY MeanBounds
  <2>2. \A x \in Nat: 10000 * x \in Int /\ 2 * (10000 * x) = 20000 * x
    OBVIOUS
  <2> QED  BY <1>1, <2>1, <2>2
<1>3. PICK up \in Int, down \in Int: up = ma + mb + mc /\ down = md + me + mf
  OBVIOUS
<1>4. n * up = n * ma + n * mb + n * mc /\ n * down = n * md + n * me + n * mf
  BY <1>3
<1>5. n * up - n * down > 0
  <2>1. PICK u1 \in Int, u2 \in Int, u3 \in Int, d1 \in Int, d2 \in Int, d3 \in Int:
          /\ u1 = n * ma /\ u2 = n * mb /\ u3 = n * mc
          /\ d1 = n * md /\ d2 = n * me /\ d3 = n * mf
    OBVIOUS
  <2>2. u1 + u2 + u3 - (d1 + d2 + d3) > 0
    BY <1>2, <2>1
  <2> QED  BY <1>4, <2>1, <2>2
<1>6. up > down
  <2> SUFFICES ASSUME up <= down PROVE FALSE
    OBVIOUS
  <2>1. n * (down - up) >= 0
    OBVIOUS
  <2>2. n * (down - up) = n * down - n * up
    OBVIOUS
  <2> QED  BY <1>5, <2>1, <2>2
<1> QED  BY <1>1, <1>3, <1>6 DEF Rates

\* A result whose first rank is the sum of the rates of its three tasks.
Tallied(x) ==
    /\ x.repeats \in Nat \ {0}
    /\ \E a, b, c \in Nat:
          /\ x.valid = a + b + c
          /\ x.key[1] = Rates(x.repeats, a, b, c)

\* Three kinds of places make up all of them.
LEMMA ThreeKinds ==
    ASSUME NEW A, NEW B, NEW C, IsFiniteSet(A), IsFiniteSet(B), IsFiniteSet(C),
           A \cap B = {}, A \cap C = {}, B \cap C = {}
    PROVE  Cardinality(A \cup B \cup C) = Cardinality(A) + Cardinality(B) + Cardinality(C)
<1>1. IsFiniteSet(A \cup B) /\ Cardinality(A \cup B) = Cardinality(A) + Cardinality(B)
  <2>1. Cardinality(A \cap B) = 0
    BY FS_EmptySet
  <2>2. Cardinality(A \cup B) = Cardinality(A) + Cardinality(B) - Cardinality(A \cap B)
    BY FS_Union
  <2>3. Cardinality(A) \in Nat /\ Cardinality(B) \in Nat
    BY FS_CardinalityType
  <2> QED  BY <2>1, <2>2, <2>3, FS_Union
<1>2. Cardinality((A \cup B) \cap C) = 0
  <2>1. (A \cup B) \cap C = {}
    OBVIOUS
  <2> QED  BY <2>1, FS_EmptySet
<1>3. Cardinality((A \cup B) \cup C)
        = Cardinality(A \cup B) + Cardinality(C) - Cardinality((A \cup B) \cap C)
  BY <1>1, FS_Union
<1>4. Cardinality(A) \in Nat /\ Cardinality(B) \in Nat /\ Cardinality(C) \in Nat
  BY FS_CardinalityType
<1> QED  BY <1>1, <1>2, <1>3, <1>4

\* Every trial of the fixed samples is counted.
LEMMA TrialCounted ==
    ASSUME NEW b, b.mode = "single_fixture", b.repeats \in Nat \ {0}, NEW t, NEW reply,
           NEW tries, tries = [i \in DOMAIN TrialTasks(b) |-> Tried(TrialTasks(b)[i], reply[i])]
    PROVE  Tallied(TrialResult(b, t, tries))
<1>1. PICK n \in Nat \ {0}: n = b.repeats
  OBVIOUS
<1>2. PICK tasks: tasks = TrialTasks(b)
  OBVIOUS
<1>3. tasks = [i \in 1..(3 * n) |-> Tasks[1 + ((i - 1) % 3)]]
  BY <1>1, <1>2 DEF TrialTasks
<1>4. tries = [i \in 1..(3 * n) |-> Tried(tasks[i], reply[i])]
  BY <1>2, <1>3
<1> DEFINE PlacesOf(k) == {i \in 1..(3 * n): (i - 1) % 3 = k}
           GoodOf(k) == {i \in PlacesOf(k): tries[i].schema}
<1>5. ASSUME NEW i \in 1..(3 * n) PROVE tries[i].task = Tasks[1 + ((i - 1) % 3)]
  <2>1. tries[i].task = tasks[i]
    BY <1>4 DEF Tried
  <2> QED  BY <1>3, <2>1
<1>6. ASSUME NEW k \in 0..2
      PROVE  OfTask(tries, Tasks[1 + k]).schema = Mean(10000 * Cardinality(GoodOf(k)), n)
  <2>1. {i \in DOMAIN tries: tries[i].task = Tasks[1 + k]} = PlacesOf(k)
    <3>1. ASSUME NEW i \in 1..(3 * n)
          PROVE  tries[i].task = Tasks[1 + k] <=> (i - 1) % 3 = k
      <4>1. PICK j \in 0..2: j = (i - 1) % 3
        OBVIOUS
      <4>2. Tasks[1 + j] = Tasks[1 + k] <=> j = k
        <5>1. Tasks[1] = "fast" /\ Tasks[2] = "full" /\ Tasks[3] = "post"
          BY DEF Tasks
        <5>2. (j = 0 \/ j = 1 \/ j = 2) /\ (k = 0 \/ k = 1 \/ k = 2)
          OBVIOUS
        <5>3. "fast" # "full" /\ "fast" # "post" /\ "full" # "post"
          OBVIOUS
        <5> QED  BY <5>1, <5>2, <5>3
      <4> QED  BY <1>5, <4>1, <4>2
    <3>2. DOMAIN tries = 1..(3 * n)
      BY <1>4
    <3> QED  BY <3>1, <3>2
  <2>2. PICK at: at = PlacesOf(k)
    OBVIOUS
  <2>3. Cardinality(at) = n /\ n # 0
    BY <2>2, EveryThird
  <2>4. OfTask(tries, Tasks[1 + k]) = Summarised(tries, at)
    BY <2>1, <2>2 DEF OfTask
  <2>5. Summarised(tries, at).schema = Mean(10000 * Cardinality({i \in at: tries[i].schema}), n)
    BY <2>3 DEF Summarised
  <2> QED  BY <2>2, <2>4, <2>5
<1>7. \A k \in 0..2: IsFiniteSet(GoodOf(k)) /\ Cardinality(GoodOf(k)) \in Nat
  <2>1. 1 \in Int /\ 3 * n \in Int
    OBVIOUS
  <2>2. IsFiniteSet(1..(3 * n))
    BY <2>1, FS_Interval
  <2>3. \A k \in 0..2: GoodOf(k) \subseteq 1..(3 * n)
    OBVIOUS
  <2> HIDE DEF GoodOf
  <2> QED  BY <2>2, <2>3, FS_Subset, FS_CardinalityType
<1>8. Cardinality({i \in DOMAIN tries: tries[i].schema})
        = Cardinality(GoodOf(0)) + Cardinality(GoodOf(1)) + Cardinality(GoodOf(2))
  <2>1. {i \in DOMAIN tries: tries[i].schema} = GoodOf(0) \cup GoodOf(1) \cup GoodOf(2)
    <3>1. DOMAIN tries = 1..(3 * n)
      BY <1>4
    <3>2. \A i \in 1..(3 * n): (i - 1) % 3 = 0 \/ (i - 1) % 3 = 1 \/ (i - 1) % 3 = 2
      OBVIOUS
    <3> QED  BY <3>1, <3>2
  <2>2. GoodOf(0) \cap GoodOf(1) = {} /\ GoodOf(0) \cap GoodOf(2) = {} /\ GoodOf(1) \cap GoodOf(2) = {}
    OBVIOUS
  <2>3. IsFiniteSet(GoodOf(0)) /\ IsFiniteSet(GoodOf(1)) /\ IsFiniteSet(GoodOf(2))
    BY <1>7
  <2> HIDE DEF GoodOf
  <2>4. PICK A: A = GoodOf(0)
    OBVIOUS
  <2>5. PICK B: B = GoodOf(1)
    OBVIOUS
  <2>6. PICK C: C = GoodOf(2)
    OBVIOUS
  <2>7. Cardinality(A \cup B \cup C) = Cardinality(A) + Cardinality(B) + Cardinality(C)
    BY <2>2, <2>3, <2>4, <2>5, <2>6, ThreeKinds
  <2> QED  BY <2>1, <2>4, <2>5, <2>6, <2>7
<1> HIDE DEF GoodOf
<1>9. PICK x \in Nat, y \in Nat, z \in Nat:
        x = Cardinality(GoodOf(0)) /\ y = Cardinality(GoodOf(1)) /\ z = Cardinality(GoodOf(2))
  BY <1>7
<1>10. /\ OfTask(tries, "fast").schema = Mean(10000 * x, n)
       /\ OfTask(tries, "full").schema = Mean(10000 * y, n)
       /\ OfTask(tries, "post").schema = Mean(10000 * z, n)
  <2>1. Tasks[1 + 0] = "fast" /\ Tasks[1 + 1] = "full" /\ Tasks[1 + 2] = "post"
    BY DEF Tasks
  <2> QED  BY <1>6, <1>9, <2>1
<1>11. SingleKey(tries)[1] = Rates(n, x, y, z)
  BY <1>10 DEF SingleKey, Rates
<1>12. PICK made: made = TrialResult(b, t, tries)
  OBVIOUS
<1>13. made.repeats = n /\ made.key = SingleKey(tries) /\ made.valid = x + y + z
  BY <1>1, <1>8, <1>9, <1>12 DEF TrialResult
<1>14. Tallied(made)
  BY <1>11, <1>13 DEF Tallied
<1> QED  BY <1>12, <1>14

\* Of two counted results the one that is not outranked has as many valid answers.
LEMMA NotOutrankedCounts ==
    ASSUME NEW x, NEW y, Tallied(x), Tallied(y), x.key \in RankKeys, y.key \in RankKeys,
           x.repeats = y.repeats, 3 * x.repeats < 10000, ~Outranks(x.key, y.key)
    PROVE  x.valid <= y.valid
<1>1. PICK n \in Nat \ {0}: n = x.repeats
  BY DEF Tallied
<1>2. PICK a \in Nat, b \in Nat, c \in Nat: x.valid = a + b + c /\ x.key[1] = Rates(n, a, b, c)
  BY <1>1 DEF Tallied
<1>3. PICK d \in Nat, e \in Nat, f \in Nat: y.valid = d + e + f /\ y.key[1] = Rates(n, d, e, f)
  BY <1>1 DEF Tallied
<1>4. ~(x.key[1] > y.key[1])
  BY OutranksIs
<1>5. 3 * n < 10000
  BY <1>1
<1>6. ~(a + b + c > d + e + f)
  BY <1>2, <1>3, <1>4, <1>5, MoreValidRates
<1> QED  BY <1>2, <1>3, <1>6

-----------------------------------------------------------------------------
(* OMLXBenchmark: what is on file had the most valid answers               *)

\* What a run has measured on the fixed samples is counted.
CountedRun(r) ==
    /\ bench[r].pc \in {"start", "trying"} => bench[r].results = <<>>
    /\ bench[r].pc = "trying" => bench[r].repeats \in Nat \ {0}
    /\ bench[r].mode = "single_fixture" =>
         \A i \in DOMAIN bench[r].results: Tallied(bench[r].results[i])
CountedInv == \A r \in BenchRuns: CountedRun(r)

\* Most steps leave what was measured as it is.
CountsStay(r) ==
    /\ bench'[r].mode = bench[r].mode /\ bench'[r].repeats = bench[r].repeats
    /\ bench'[r].results = bench[r].results
    /\ bench'[r].pc = bench[r].pc \/ bench'[r].pc \notin {"start", "trying"}
LEMMA CountsKept ==
    ASSUME CountedInv, NEW r \in BenchRuns, CountsStay(r) PROVE CountedRun(r)'
BY DEF CountedInv, CountedRun, CountsStay

\* A step that only moves a run on.
LEMMA CountsMove ==
    ASSUME BenchInv, CountedInv, NEW r \in BenchRuns,
           NEW pc \in {"failed", "dead", "read", "writing", "done"}, Goes(r, pc)
    PROVE  CountedInv'
<1>1. CountsStay(r)
  BY GoesFacts DEF CountsStay
<1>2. \A q \in BenchRuns \ {r}: CountsStay(q)
  BY GoesFacts DEF CountsStay
<1> QED  BY <1>1, <1>2, CountsKept DEF CountedInv

LEMMA CountsStart ==
    ASSUME BenchInv, CountedInv, NEW r \in BenchRuns, BenchStart(r) PROVE CountedInv'
<1>1. bench[r].pc = "start"
  BY DEF BenchStart
<1>2. CASE Goes(r, "failed")
  BY <1>2, CountsMove
<1>3. CASE ~Goes(r, "failed")
  <2>1. PICK mode \in Modes, repeats \in BenchRepeats, size \in SampleSets, s \in Supports:
          /\ repeats >= 1
          /\ bench' = [bench EXCEPT ![r] =
               [@ EXCEPT !.pc = "trying", !.mode = mode, !.repeats = repeats, !.support = s,
                         !.samples = IF mode = "single_fixture" THEN 1
                                     ELSE IF size < MostSamples THEN size ELSE MostSamples]]
    BY <1>3, Zenon DEF BenchStart
  <2>2. PICK samples: samples = IF mode = "single_fixture" THEN 1
                                ELSE IF size < MostSamples THEN size ELSE MostSamples
    OBVIOUS
  <2>3. DOMAIN bench = BenchRuns /\ DOMAIN bench[r] = BenchFields
    BY DEF BenchInv, BenchShape
  <2>4. bench'[r] = [bench[r] EXCEPT !.pc = "trying", !.mode = mode, !.repeats = repeats,
                                     !.support = s, !.samples = samples]
    BY <2>1, <2>2, <2>3
  <2>5. \A q \in BenchRuns \ {r}: bench'[q] = bench[q]
    BY <2>1, <2>3
  <2>6. bench'[r].pc = "trying" /\ bench'[r].repeats = repeats
        /\ bench'[r].results = bench[r].results
    BY <2>3, <2>4 DEF BenchFields
  <2>7. bench[r].results = <<>> /\ repeats \in Nat \ {0} /\ DOMAIN <<>> = {}
    BY <1>1, <2>1, BenchAssumption DEF CountedInv, CountedRun
  <2>8. CountedRun(r)'
    BY <2>6, <2>7 DEF CountedRun
  <2>9. \A q \in BenchRuns \ {r}: CountsStay(q)
    BY <2>5 DEF CountsStay
  <2> QED  BY <2>8, <2>9, CountsKept DEF CountedInv
<1> QED  BY <1>2, <1>3

LEMMA CountsTried ==
    ASSUME BenchInv, CountedInv, NEW r \in BenchRuns, BenchTrials(r) PROVE CountedInv'
<1>1. bench[r].pc = "trying" /\ DOMAIN bench = BenchRuns /\ DOMAIN bench[r] = BenchFields
  BY DEF BenchTrials, BenchInv, BenchShape
<1>2. PICK b: b = bench[r]
  OBVIOUS
<1>3. PICK replies \in [1..AllTrials -> [DOMAIN TrialTasks(bench[r]) -> BenchReplies]]:
        bench' = [bench EXCEPT ![r] =
              [@ EXCEPT !.pc = "report",
                        !.results = [t \in 1..AllTrials |-> TrialResult(bench[r], t,
                           [i \in DOMAIN TrialTasks(bench[r]) |->
                               Tried(TrialTasks(bench[r])[i], replies[t][i])])]]]
  BY DEF BenchTrials
<1>4. PICK results: results = [t \in 1..AllTrials |-> TrialResult(b, t,
                    [i \in DOMAIN TrialTasks(b) |-> Tried(TrialTasks(b)[i], replies[t][i])])]
  OBVIOUS
<1>5. bench'[r] = [bench[r] EXCEPT !.pc = "report", !.results = results]
  BY <1>1, <1>2, <1>3, <1>4
<1>6. bench'[r].pc = "report" /\ bench'[r].results = results /\ bench'[r].mode = b.mode
  BY <1>1, <1>2, <1>5 DEF BenchFields
<1>7. ASSUME b.mode = "single_fixture", NEW t \in 1..AllTrials PROVE Tallied(results[t])
  <2>1. b.repeats \in Nat \ {0}
    BY <1>1, <1>2 DEF CountedInv, CountedRun
  <2>2. PICK reply: reply = replies[t]
    OBVIOUS
  <2>3. PICK tries: tries = [i \in DOMAIN TrialTasks(b) |-> Tried(TrialTasks(b)[i], reply[i])]
    OBVIOUS
  <2>4. results[t] = TrialResult(b, t, tries)
    BY <1>4, <2>2, <2>3
  <2> QED  BY <1>7, <2>1, <2>3, <2>4, TrialCounted
<1>8. DOMAIN results = 1..AllTrials
  BY <1>4
<1>9. CountedRun(r)'
  BY <1>6, <1>7, <1>8 DEF CountedRun
<1>10. \A q \in BenchRuns \ {r}: CountsStay(q)
  BY <1>1, <1>3 DEF CountsStay
<1> QED  BY <1>9, <1>10, CountsKept DEF CountedInv

LEMMA CountsReported ==
    ASSUME BenchInv, CountedInv, NEW r \in BenchRuns, BenchReport(r) PROVE CountedInv'
<1>1. DOMAIN bench = BenchRuns /\ DOMAIN bench[r] = BenchFields
  BY DEF BenchInv, BenchShape
<1>2. PICK winners: winners = BestByModel(bench[r].results)
  OBVIOUS
<1>3. bench' = [bench EXCEPT ![r] = [@ EXCEPT !.pc = "read", !.published = TRUE,
                                              !.winners = winners]]
  BY <1>1, <1>2 DEF BenchReport
<1>4. bench'[r] = [bench[r] EXCEPT !.pc = "read", !.published = TRUE, !.winners = winners]
  BY <1>1, <1>3
<1>5. CountsStay(r)
  BY <1>1, <1>4 DEF BenchFields, CountsStay
<1>6. \A q \in BenchRuns \ {r}: CountsStay(q)
  BY <1>1, <1>3 DEF CountsStay
<1> QED  BY <1>5, <1>6, CountsKept DEF CountedInv

LEMMA CountsRead ==
    ASSUME BenchInv, CountedInv, NEW r \in BenchRuns, ReadBest(r) PROVE CountedInv'
<1>1. CASE best.text = "torn"
  BY <1>1, CountsMove DEF ReadBest
<1>2. CASE best.text # "torn"
  <2>1. bench' = [q \in BenchRuns |->
              IF q = r
              THEN [bench[r] EXCEPT !.pc = "rewrite", !.read = best.entries,
                                    !.crossed = \E o \in BenchRuns \ {r}: Updating(o)]
              ELSE [bench[q] EXCEPT !.crossed = @ \/ Updating(q)]]
    BY <1>2 DEF ReadBest
  <2>2. \A q \in BenchRuns: DOMAIN bench[q] = BenchFields
    BY DEF BenchInv, BenchShape
  <2>3. CountsStay(r)
    <3>1. bench'[r] = [bench[r] EXCEPT !.pc = "rewrite", !.read = best.entries,
                                       !.crossed = \E o \in BenchRuns \ {r}: Updating(o)]
      BY <2>1
    <3> QED  BY <2>2, <3>1 DEF BenchFields, CountsStay
  <2>4. ASSUME NEW q \in BenchRuns \ {r} PROVE CountsStay(q)
    <3>1. bench'[q] = [bench[q] EXCEPT !.crossed = @ \/ Updating(q)]
      BY <2>1
    <3>2. /\ bench'[q].pc = bench[q].pc /\ bench'[q].mode = bench[q].mode
          /\ bench'[q].repeats = bench[q].repeats /\ bench'[q].results = bench[q].results
      BY <2>2, <3>1 DEF BenchFields
    <3> QED  BY <3>2 DEF CountsStay
  <2> QED  BY <2>3, <2>4, CountsKept DEF CountedInv
<1> QED  BY <1>1, <1>2

\* Whatever is on file was measured, and what was measured on the fixed samples
\* was counted.
THEOREM RatesAlwaysCounted == BenchSpec => [](BenchInv /\ CountedInv)
<1>1. BenchInit => CountedInv
  <2> SUFFICES ASSUME BenchInit, NEW r \in BenchRuns PROVE CountedRun(r)
    BY DEF CountedInv
  <2>1. bench[r] = BenchIdle
    BY DEF BenchInit
  <2>2. bench[r].pc = "start" /\ bench[r].results = <<>> /\ DOMAIN <<>> = {}
    BY <2>1 DEF BenchIdle
  <2> QED  BY <2>2 DEF CountedRun
<1>2. BenchInv /\ CountedInv /\ [BenchNext]_benchVars => CountedInv'
  <2> SUFFICES ASSUME BenchInv, CountedInv, [BenchNext]_benchVars PROVE CountedInv'
    OBVIOUS
  <2>1. CASE UNCHANGED benchVars
    BY <2>1 DEF benchVars, CountedInv, CountedRun
  <2>2. CASE BenchNext
    <3>1. PICK r \in BenchRuns:
             \/ BenchStart(r) \/ BenchTrials(r) \/ SampleUnreadable(r)
             \/ BenchReport(r) \/ ReadBest(r) \/ Emptied(r) \/ WriteBest(r)
             \/ BenchDies(r)
      BY <2>2 DEF BenchNext
    <3>2. CASE SampleUnreadable(r) \/ Emptied(r) \/ WriteBest(r) \/ BenchDies(r)
      BY <3>2, CountsMove DEF SampleUnreadable, Emptied, WriteBest, BenchDies
    <3> QED  BY <3>1, <3>2, CountsStart, CountsTried, CountsReported, CountsRead
  <2> QED  BY <2>1, <2>2
<1>3. BenchSpec => []BenchInv
  BY BestAlwaysMeasured
<1> QED  BY <1>1, <1>2, <1>3, PTL DEF BenchSpec

LEMMA CountedKeepsMost == BenchInv /\ CountedInv => MostValidOnFile
<1> SUFFICES ASSUME BenchInv, CountedInv, NEW r \in BenchRuns,
                    bench[r].pc = "done", best.text = "whole", ~Crossed,
                    bench[r].mode = "single_fixture", NEW i \in DOMAIN bench[r].results
             PROVE  LET mine == bench[r].results[i]
                        onFile == best.entries[<<mine.model, bench[r].mode>>]
                    IN mine.repeats = onFile.repeats /\ 3 * mine.repeats < 10000
                       => mine.valid <= onFile.valid
  BY DEF MostValidOnFile
<1>1. PICK mine: mine = bench[r].results[i]
  OBVIOUS
<1>2. PICK e: e = <<mine.model, bench[r].mode>>
  OBVIOUS
<1>3. e \in DOMAIN best.entries /\ ~Outranks(mine.key, best.entries[e].key)
  BY <1>1, <1>2 DEF BenchInv, NotOutranked, OnFile
<1>4. PICK onFile: onFile = best.entries[e]
  OBVIOUS
<1>5. PICK q \in BenchRuns:
        /\ bench[q].published /\ bench[q].mode = e[2]
        /\ \E k \in DOMAIN bench[q].results: bench[q].results[k] = onFile
  BY <1>3, <1>4 DEF BenchInv, EntriesAreMeasured, AllMeasured, Measured
<1>6. bench[q].mode = "single_fixture"
  BY <1>2, <1>5
<1>7. Tallied(mine) /\ Tallied(onFile)
  BY <1>1, <1>5, <1>6 DEF CountedInv, CountedRun
<1>8. mine.key \in RankKeys /\ onFile.key \in RankKeys
  BY <1>1, <1>5 DEF BenchInv, BenchShape, Keyed
<1>9. ~Outranks(mine.key, onFile.key)
  BY <1>3, <1>4
<1>10. mine.repeats = onFile.repeats /\ 3 * mine.repeats < 10000 => mine.valid <= onFile.valid
  BY <1>7, <1>8, <1>9, NotOutrankedCounts
<1> QED  BY <1>1, <1>2, <1>4, <1>10

-----------------------------------------------------------------------------
(* All of them                                                             *)

(* What is on record is what was found, in every behaviour of the five     *)
(* components together (web_service.py, score_review.py,                   *)
(* persisted_score_audit.py, aesthetic_label_store.py,                     *)
(* local_benchmark_service.py, omlx_benchmark_service.py).                 *)
THEOREM RecordsAlwaysHold == RecordsSpec => []RecordsHold
<1>1. LibrarySpec => [](IndexIsAScan /\ ThumbnailsShow /\ ListingsAddUp)
  BY LibraryAlwaysShows
<1>2. AuditInv => ReportsAreFinal /\ PinnedReportStays
  BY AuditInvTells
<1>3. LabelInv => HoldoutUnseen /\ FitIsUsable
  BY LabelInvHides, LabelInvFits
<1>4. LocalBenchInv /\ MetricsInv => StableMeansRepeated /\ MetricsAgree
  BY LocalBenchInvRepeats, MetricsInvAgree
<1>5. BenchInv /\ CountedInv => BestOnFile /\ MostValidOnFile
  BY BenchInvKeepsBest, CountedKeepsMost
<1>6. /\ AuditSpec => []AuditInv
      /\ LabelSpec => []LabelInv
      /\ LocalBenchSpec => [](LocalBenchInv /\ MetricsInv)
      /\ BenchSpec => [](BenchInv /\ CountedInv)
  BY ReviewsAlwaysTrue, LabelsAlways, RepetitionsAlwaysFresh, RatesAlwaysCounted
<1>7. (IndexIsAScan /\ ThumbnailsShow /\ ListingsAddUp) /\ (ReportsAreFinal /\ PinnedReportStays)
      /\ (HoldoutUnseen /\ FitIsUsable) /\ (StableMeansRepeated /\ MetricsAgree)
      /\ (BestOnFile /\ MostValidOnFile) => RecordsHold
  BY DEF RecordsHold
<1> QED  BY <1>1, <1>2, <1>3, <1>4, <1>5, <1>6, <1>7, PTL DEF RecordsSpec
=============================================================================
