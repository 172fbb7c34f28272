----------------------------- MODULE WebLibrary -----------------------------
(***************************************************************************)
(* The library the Web service shows: the index of the photo directory in  *)
(* state.db, the pages and the summary computed from it and from the rows  *)
(* of the review jobs, and the thumbnails it keeps beside it.  Every       *)
(* request is a thread.  A refresh scans the directory first and takes the *)
(* lock only for its one transaction; a page and a summary read the        *)
(* database in several statements without a transaction; a thumbnail is    *)
(* written to ONE temporary name per photo and renamed.                    *)
(*                                                                         *)
(* Source: app/web_service.py (WebLibraryRepository, _thumbnail).  The     *)
(* photos are numbered in the order of their relative paths, contents and  *)
(* times are numbers, a scene or decision is a label.                      *)
(***************************************************************************)
EXTENDS Integers, FiniteSets, Sequences, Orders

CONSTANTS
    Shelf,          \* the photos, numbers from 1
    RootHolds,      \* RootHolds[r]: the photos below the input root r
    Visitors,       \* the threads that serve requests
    Labels,         \* scenes and decisions of score rows
    Marks,          \* scores
    PageSizes,
    AskedFor,          \* the queries visitors ask
    MaxReplaced,    \* bound: changes of the directory
    MaxScored,      \* bound: rows the review jobs write
    MaxScans,       \* bound: refreshes of the index
    MaxStarts       \* bound: how often the service is started

VARIABLES
    shelved,     \* shelved[p]: the content and the time of p's file, content 0 when it is gone
    clock,      \* the time
    library,    \* library_index: the root and the scan each row names, root "" for no row
    marked,     \* the rows of job_files in the order of their rowid
    thumb,      \* thumb[p]: the inode named <id>.jpg, and whether it was made undisturbed
    scratch,    \* scratch[p]: the inode named <id>.tmp
    frame,      \* frame[p][i]: what the inode i shows, 0 when it is cut off, and its time
    visit,      \* visit[v]: the request that the thread v serves
    home,       \* the input root of the running service
    restarts, scans,
    agrees      \* no photo came, went or changed since the scan that filled the index began

libraryVars ==
    <<shelved, clock, library, marked, thumb, scratch, frame, visit, home, restarts, scans, agrees>>

Roots == DOMAIN RootHolds
Queries ==
    [search: SUBSET Shelf, label: Labels \union {""}, scored: {"", "yes", "no"},
     order: {"path", "newest", "score_desc", "score_asc"}, page: Nat \ {0}, size: PageSizes]

ASSUME LibraryAssumption ==
    /\ Shelf \subseteq Nat \ {0} /\ IsFiniteSet(Shelf)
    /\ "" \notin DOMAIN RootHolds /\ \A r \in DOMAIN RootHolds: RootHolds[r] \subseteq Shelf
    /\ IsFiniteSet(Visitors) /\ MaxReplaced \in Nat /\ MaxScans \in Nat
    /\ AskedFor \subseteq Queries
    /\ Marks \subseteq Nat \ {0} /\ PageSizes \subseteq Nat \ {0}

Frames == 0..(Cardinality(Visitors) + 2)
NoFrame == 0
NoScore == 0
AtRest == [at |-> "idle"]
There(p) == shelved[p].content # 0
NotIndexed == [root |-> "", scan |-> 0, time |-> 0]

-----------------------------------------------------------------------------
(* The statements.                                                         *)

Indexed(lib) == {p \in Shelf: lib[p].root = home}

(* The row of the job that started last; of one second, the later row.     *)
RowsOfPhoto(p) == {i \in DOMAIN marked: marked[i].photo = p}
LatestRow(p) ==
    CHOOSE i \in RowsOfPhoto(p):
        \A j \in RowsOfPhoto(p):
            \/ marked[j].started < marked[i].started
            \/ marked[j].started = marked[i].started /\ j <= i
ScoreRow(p) ==
    IF RowsOfPhoto(p) = {} THEN [photo |-> p, started |-> 0, score |-> NoScore, label |-> "", failed |-> FALSE]
    ELSE marked[LatestRow(p)]

Matches(p, query) ==
    /\ query.search = {} \/ p \in query.search
    /\ query.label = "" \/ ScoreRow(p).label = query.label
    /\ query.scored = "yes" => ScoreRow(p).score # NoScore
    /\ query.scored = "no" => ScoreRow(p).score = NoScore
Matching(query) == {p \in Indexed(library): Matches(p, query)}

(* Photos without a score come last in both directions, ties by path.      *)
Precedes(p, q, order) ==
    LET s == ScoreRow(p).score
        t == ScoreRow(q).score
    IN CASE order = "score_desc" -> s > t \/ (s = t /\ p < q)
         [] order = "score_asc" ->
              \/ s # NoScore /\ t # NoScore /\ s < t
              \/ s # NoScore /\ t = NoScore
              \/ s = t /\ p < q
         [] order = "newest" ->
              library[p].time > library[q].time \/ (library[p].time = library[q].time /\ p < q)
         [] OTHER -> p < q

InOrder(query) ==
    Ordered(Matching(query), {pq \in Shelf \X Shelf: Precedes(pq[1], pq[2], query.order)})

(* LIMIT page_size OFFSET (page - 1) * page_size.                          *)
Page(query) ==
    LET all == InOrder(query)
        last == query.page * query.size
    IN SubSeq(all, last - query.size + 1, IF last < Len(all) THEN last ELSE Len(all))

(* The joined score rows of the indexed photos.                            *)
ScoreRecords == {p \in Indexed(library): RowsOfPhoto(p) # {}}
Totals ==
    [records |-> Cardinality(ScoreRecords),
     scored |-> Cardinality({p \in ScoreRecords: ScoreRow(p).score # NoScore}),
     errors |-> Cardinality({p \in ScoreRecords: ScoreRow(p).failed})]

-----------------------------------------------------------------------------
LibraryInit ==
    /\ shelved \in [Shelf -> [content: {0, 1}, time: {1}]]
    /\ clock = 1
    /\ home \in Roots
    /\ library \in {[p \in Shelf |-> NotIndexed],
                    [p \in Shelf |-> IF There(p) /\ p \in RootHolds[home]
                                     THEN [root |-> home, scan |-> 0, time |-> 1] ELSE NotIndexed]}
    /\ marked = <<>>
    /\ thumb = [p \in Shelf |-> [inode |-> NoFrame, sound |-> TRUE]]
    /\ scratch = [p \in Shelf |-> NoFrame]
    /\ frame = [p \in Shelf |-> [i \in Frames |-> [shows |-> 0, time |-> 0]]]
    /\ visit = [v \in Visitors |-> AtRest]
    /\ restarts = 0 /\ scans = 0
    /\ agrees = \A p \in RootHolds[home]: There(p) <=> library[p].root = home

Serves(v, state) == visit' = [visit EXCEPT ![v] = state]
Leaves(v) == Serves(v, AtRest)

(* The scan of the directory; then the status of every file it found, some *)
(* of which are gone by then.                                              *)
ScanFolder(v) ==
    /\ visit[v].at = "idle" /\ scans < MaxScans
    /\ scans' = scans + 1
    /\ Serves(v, [at |-> "scanned", scan |-> scans + 1, still |-> TRUE,
                  found |-> {p \in RootHolds[home]: There(p)}])
    /\ UNCHANGED <<shelved, clock, library, marked, thumb, scratch, frame, home, restarts, agrees>>

StatFiles(v) ==
    /\ visit[v].at = "scanned"
    /\ LET kept == {p \in visit[v].found: There(p)}
       IN Serves(v, [at |-> "listed", scan |-> visit[v].scan, still |-> visit[v].still,
                     times |-> [p \in kept |-> shelved[p].time]])
    /\ UNCHANGED <<shelved, clock, library, marked, thumb, scratch, frame, home, restarts, scans, agrees>>

(* Fault: the rows of earlier scans stay.                                  *)
FilledIndex_Keeps(lib, times, scan) ==
    [p \in Shelf |-> IF p \in DOMAIN times THEN [root |-> home, scan |-> scan, time |-> times[p]]
                     ELSE lib[p]]

(* The upsert, which takes a photo over from another root, and the         *)
(* deletion of this root's rows of other scans.                            *)
FilledIndex(lib, times, scan) ==
    [p \in Shelf |-> IF p \in DOMAIN times THEN [root |-> home, scan |-> scan, time |-> times[p]]
                     ELSE IF lib[p].root = home THEN NotIndexed ELSE lib[p]]

CommitIndex(v) ==
    /\ visit[v].at = "listed"
    /\ library' = FilledIndex(library, visit[v].times, visit[v].scan)
    /\ agrees' = visit[v].still
    /\ visit' = [w \in Visitors |-> IF w = v THEN AtRest
                    ELSE IF visit[w].at \in {"counted", "answered"}
                    THEN [visit[w] EXCEPT !.still = FALSE] ELSE visit[w]]
    /\ UNCHANGED <<shelved, clock, marked, thumb, scratch, frame, home, restarts, scans>>

(* A page of the library: a statement counts, a second one reads.          *)
CountItems(v) ==
    /\ visit[v].at = "idle"
    /\ \E query \in AskedFor:
         Serves(v, [at |-> "counted", still |-> TRUE, query |-> query,
                    total |-> Cardinality(Matching(query))])
    /\ UNCHANGED <<shelved, clock, library, marked, thumb, scratch, frame, home, restarts, scans, agrees>>

ReadPage(v) ==
    /\ visit[v].at = "counted" /\ "query" \in DOMAIN visit[v]
    /\ Serves(v, [at |-> "answered", still |-> visit[v].still, query |-> visit[v].query,
                  total |-> visit[v].total, items |-> Page(visit[v].query)])
    /\ UNCHANGED <<shelved, clock, library, marked, thumb, scratch, frame, home, restarts, scans, agrees>>

(* The summary: the number of indexed photos, then the scores of them.     *)
CountIndexed(v) ==
    /\ visit[v].at = "idle"
    /\ Serves(v, [at |-> "counted", still |-> TRUE, indexed |-> Cardinality(Indexed(library))])
    /\ UNCHANGED <<shelved, clock, library, marked, thumb, scratch, frame, home, restarts, scans, agrees>>

ReadTotals(v) ==
    /\ visit[v].at = "counted" /\ "indexed" \in DOMAIN visit[v]
    /\ Serves(v, [at |-> "answered", still |-> visit[v].still, indexed |-> visit[v].indexed,
                  totals |-> Totals])
    /\ UNCHANGED <<shelved, clock, library, marked, thumb, scratch, frame, home, restarts, scans, agrees>>

-----------------------------------------------------------------------------
(* Thumbnails.                                                             *)

(* Fault: a thumbnail is never made again.                                 *)
Cached_Forever(p) == thumb[p].inode # NoFrame

Cached(p) ==
    /\ thumb[p].inode # NoFrame
    /\ frame[p][thumb[p].inode].time >= shelved[p].time

(* The photo is looked up and its file has to be there.  A thumbnail that  *)
(* is no older than the photo is answered as it is.                        *)
AskThumbnail(v) ==
    /\ visit[v].at = "idle"
    /\ \E p \in Indexed(library):
         /\ There(p) /\ ~Cached(p)
         /\ Serves(v, [at |-> "decode", photo |-> p])
    /\ UNCHANGED <<shelved, clock, library, marked, thumb, scratch, frame, home, restarts, scans, agrees>>

Making(v, p) == visit[v].at \in {"fill", "publish"} /\ visit[v].photo = p
FreeFrame(p) ==
    CHOOSE i \in Frames \ {NoFrame}:
        /\ i \notin {thumb[p].inode, scratch[p]}
        /\ \A v \in Visitors: Making(v, p) => visit[v].handle # i

(* Decoding, then opening the temporary name, which truncates the inode    *)
(* another request may be filling.  A photo that cannot be read ends it.   *)
Decode(v) ==
    /\ visit[v].at = "decode"
    /\ LET p == visit[v].photo
           i == IF scratch[p] = NoFrame THEN FreeFrame(p) ELSE scratch[p]
           alone == \A w \in Visitors \ {v}: ~Making(w, p)
       IN \/ /\ There(p)
             /\ scratch' = [scratch EXCEPT ![p] = i]
             /\ frame' = [frame EXCEPT ![p][i] = [shows |-> 0, time |-> clock]]
             /\ visit' = [w \in Visitors |->
                  IF w = v THEN [at |-> "fill", photo |-> p, handle |-> i,
                                 taken |-> shelved[p].content, sound |-> alone]
                  ELSE IF Making(w, p) THEN [visit[w] EXCEPT !.sound = FALSE] ELSE visit[w]]
          \/ Leaves(v) /\ UNCHANGED <<scratch, frame>>
    /\ UNCHANGED <<shelved, clock, library, marked, thumb, home, restarts, scans, agrees>>

FillFrame(v) ==
    /\ visit[v].at = "fill"
    /\ frame' = [frame EXCEPT ![visit[v].photo][visit[v].handle] =
                    [shows |-> visit[v].taken, time |-> clock]]
    /\ visit' = [visit EXCEPT ![v].at = "publish"]
    /\ UNCHANGED <<shelved, clock, library, marked, thumb, scratch, home, restarts, scans, agrees>>

(* The rename fails when another request has taken the name away.          *)
PublishThumb(v) ==
    /\ visit[v].at = "publish"
    /\ LET p == visit[v].photo
       IN IF scratch[p] = NoFrame
          THEN Leaves(v) /\ UNCHANGED <<thumb, scratch>>
          ELSE /\ thumb' = [thumb EXCEPT ![p] = [inode |-> scratch[p], sound |-> visit[v].sound]]
               /\ scratch' = [scratch EXCEPT ![p] = NoFrame]
               /\ Leaves(v)
    /\ UNCHANGED <<shelved, clock, library, marked, frame, home, restarts, scans, agrees>>

(* The answer was sent, or its reader left.                                *)
EndVisit(v) ==
    /\ visit[v].at = "answered"
    /\ Leaves(v)
    /\ UNCHANGED <<shelved, clock, library, marked, thumb, scratch, frame, home, restarts, scans, agrees>>

-----------------------------------------------------------------------------
(* Somebody adds, replaces or removes a photo: with the present time, or   *)
(* with an older one that a copy preserved.                                *)
ChangeFolder(p) ==
    /\ clock <= MaxReplaced
    /\ clock' = clock + 1
    /\ \E time \in {clock + 1, 1}, gone \in BOOLEAN:
         /\ gone => There(p) /\ time = clock + 1
         /\ shelved' = [shelved EXCEPT ![p] = [content |-> IF gone THEN 0 ELSE clock + 1, time |-> time]]
         /\ visit' = [v \in Visitors |->
              IF visit[v].at \in {"scanned", "listed"} THEN [visit[v] EXCEPT !.still = FALSE]
              ELSE IF Making(v, p) THEN [visit[v] EXCEPT !.sound = FALSE] ELSE visit[v]]
         /\ thumb' = [thumb EXCEPT ![p].sound =
              @ /\ (thumb[p].inode # NoFrame => time > frame[p][thumb[p].inode].time)]
    /\ agrees' = FALSE
    /\ UNCHANGED <<library, marked, scratch, frame, home, restarts, scans>>

(* A review job writes a row; it started no earlier than the jobs before.  *)
JobScores ==
    /\ Len(marked) < MaxScored
    /\ \E p \in Shelf, later \in {0, 1}, score \in Marks \union {NoScore}, label \in Labels:
         marked' = Append(marked,
            [photo |-> p, score |-> score, label |-> IF score = NoScore THEN "" ELSE label,
             failed |-> score = NoScore,
             started |-> IF marked = <<>> THEN 1 ELSE marked[Len(marked)].started + later])
    /\ visit' = [v \in Visitors |-> IF visit[v].at \in {"counted", "answered"}
                                    THEN [visit[v] EXCEPT !.still = FALSE] ELSE visit[v]]
    /\ UNCHANGED <<shelved, clock, library, thumb, scratch, frame, home, restarts, scans, agrees>>

(* The service ends anywhere and is started again, perhaps for another     *)
(* directory, with the same state.db.                                      *)
RestartService(root) ==
    /\ restarts < MaxStarts
    /\ restarts' = restarts + 1
    /\ home' = root
    /\ visit' = [v \in Visitors |-> AtRest]
    /\ agrees' = (agrees /\ root = home)
    /\ UNCHANGED <<shelved, clock, library, marked, thumb, scratch, frame, scans>>

(* Pages and thumbnails meet only in the index, so they can be explored    *)
(* apart.                                                                  *)
ShelfNext ==
    \/ \E v \in Visitors:
          \/ ScanFolder(v) \/ StatFiles(v) \/ CommitIndex(v)
          \/ CountItems(v) \/ ReadPage(v) \/ CountIndexed(v) \/ ReadTotals(v) \/ EndVisit(v)
    \/ JobScores
ThumbNext ==
    \E v \in Visitors: AskThumbnail(v) \/ Decode(v) \/ FillFrame(v) \/ PublishThumb(v)
AroundNext ==
    \/ \E p \in Shelf: ChangeFolder(p)
    \/ \E root \in Roots: RestartService(root)

LibraryNext == ShelfNext \/ ThumbNext \/ AroundNext

LibrarySpec == LibraryInit /\ [][LibraryNext]_libraryVars

-----------------------------------------------------------------------------
LibraryTypeOK ==
    /\ shelved \in [Shelf -> [content: 0..(MaxReplaced + 1), time: 1..(MaxReplaced + 1)]]
    /\ clock \in 1..(MaxReplaced + 1)
    /\ \A p \in Shelf:
         /\ library[p].root \in Roots \union {""} /\ library[p].scan \in 0..scans
         /\ thumb[p].inode \in Frames /\ scratch[p] \in Frames
         /\ thumb[p].inode # NoFrame => thumb[p].inode # scratch[p]
    /\ \A v \in Visitors:
         visit[v].at \in {"idle", "scanned", "listed", "counted", "answered",
                         "decode", "fill", "publish"}

(* The index of a root is what one scan of it found, whichever refreshes   *)
(* ran at once, whatever the service was started for in between, and it is *)
(* the directory as long as no photo changed since that scan began.        *)
IndexIsAScan ==
    /\ \A p \in Shelf: library[p].root # "" => p \in RootHolds[library[p].root]
    /\ \A p, q \in Shelf: library[p].root = library[q].root => library[p].scan = library[q].scan
    /\ agrees => \A p \in RootHolds[home]:
            IF There(p) THEN library[p].root = home /\ library[p].time = shelved[p].time
            ELSE library[p].root # home

(* A thumbnail that is served without being made again shows the photo, if *)
(* it was made undisturbed and the photo has not been given an older time  *)
(* since; a service that dies while it makes one leaves nothing to serve.  *)
ThumbnailsShow ==
    \A p \in Shelf:
        There(p) /\ thumb[p].sound /\ Cached(p) => frame[p][thumb[p].inode].shows = shelved[p].content

(* Unless the database changes while it is answered, a page holds its      *)
(* share of the matching photos, each at its place in the whole order, the *)
(* numbers of the summary add up, and the score shown is the last one any  *)
(* job recorded.                                                           *)
ListingsAddUp ==
    /\ \A v \in Visitors:
         visit[v].at = "answered" /\ visit[v].still =>
            IF "query" \in DOMAIN visit[v]
            THEN LET q == visit[v].query
                     items == visit[v].items
                     before == (q.page - 1) * q.size
                     place(p) == Cardinality({o \in Matching(q): Precedes(o, p, q.order)})
                 IN /\ visit[v].total = Cardinality(Matching(q))
                    /\ \A p \in Matching(q):
                         place(p) \in before..(before + q.size - 1) =>
                            place(p) - before < Len(items) /\ items[place(p) - before + 1] = p
                    /\ \A i \in DOMAIN items: items[i] \in Matching(q) /\ place(items[i]) = before + i - 1
            ELSE /\ visit[v].totals.scored + visit[v].totals.errors <= visit[v].totals.records
                 /\ visit[v].totals.records <= visit[v].indexed
    /\ \A p \in Shelf: \A i \in RowsOfPhoto(p): i <= LatestRow(p)
=============================================================================
