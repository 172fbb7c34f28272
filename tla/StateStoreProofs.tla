-------------------------- MODULE StateStoreProofs --------------------------
(***************************************************************************)
(* Proofs about StateStore, for any photos and any number of operations,   *)
(* disk errors and deaths: whatever fails or dies between two statements,  *)
(* the tables that the next connection reads agree, and a database of an   *)
(* old version is adopted whole.                                           *)
(***************************************************************************)
EXTENDS StateStore, SequenceTheorems, TLAPS

-----------------------------------------------------------------------------
(* The inductive invariant                                                 *)

Stored == Databases \cup {NoFile}
Places == [main: Stored, wal: Stored]

StatementsLeft == process = "open" /\ transaction # "none"

\* The two halves of TablesAgree for one photo.
Scored(c, f) == IF c.row[f].status = "none" THEN c.row[f] = NoRow ELSE c.signals[f] = c.row[f].score
Projected(c, f) ==
    /\ c.row[f].projected \in {0, c.ledger[f].id}
    /\ c.row[f].projected = c.ledger[f].id /\ c.ledger[f].owns => c.row[f].owned = c.ledger[f].id
Sound(c, f) == Scored(c, f) /\ Projected(c, f)
Whole(c) == c \in Databases /\ \A f \in Files \ c.torn: Sound(c, f)

\* The statements about one photo.
On(do, f, id) == Statement(do, {f}, id)
Done(f, id, s) == [Statement("insert_done", {f}, id) EXCEPT !.score = s]
Insert(f, id) == On("insert_scored", f, id)
AppendOwn(f, id) == On("append_own", f, id)
Commit(f) == On("commit", f, 0)
Drop(f) == On("drop_signals", f, 0)
Add(f, s) == On("add_signals", f, s)

\* Those about all photos.
ClearRows == Statement("clear_rows", Files, 0)
ClearSignals == Statement("clear_signals", Files, 0)
CommitAll == Statement("commit", Files, 0)

\* A whole operation on f.
Scoring(q, f) ==
    \E id \in Ids: id # 0 /\ q = <<Insert(f, id), Drop(f), Add(f, id), Commit(f)>>
Writing(q, f) ==
    \E id, s \in Ids: q = <<On("append", f, id), On("project", f, id), Commit(f), Done(f, id, s),
                            Drop(f), Add(f, s), Commit(f)>>
Alone(q, f) == \E id \in Ids: q = <<On("append", f, id), On("project", f, id), Commit(f)>>
Owning(q, f) ==
    \E id \in Ids: q = <<AppendOwn(f, id), On("project", f, id), On("own", f, id), Commit(f)>>
Clearing(q) ==
    q = <<ClearRows, ClearSignals,
          CommitAll>>
Begun(q) ==
    \/ \E f \in Files: Scoring(q, f) \/ Writing(q, f) \/ Alone(q, f) \/ Owning(q, f)
    \/ Clearing(q)

\* What is left, q, of an operation on f, and how far it has brought the
\* content c; x if f is excused, that is torn or about to be.
SignalsLeft(q, c, f, x) ==
    \E s \in Ids:
        /\ q \in {<<Drop(f), Add(f, s), Commit(f)>>, <<Add(f, s), Commit(f)>>}
        /\ x \/ (c.row[f].status # "none" /\ c.row[f].score = s /\ Projected(c, f))
ProjectLeft(q, c, f, x) ==
    \E id, s \in Ids:
        /\ q \in {<<On("project", f, id), Commit(f)>>,
                  <<On("project", f, id), Commit(f), Done(f, id, s), Drop(f), Add(f, s), Commit(f)>>}
        /\ x \/ (Scored(c, f) /\ c.ledger[f] = [id |-> id, owns |-> FALSE])
DoneLeft(q, c, f, x) ==
    \E id, s \in Ids:
        /\ q \in {<<Commit(f), Done(f, id, s), Drop(f), Add(f, s), Commit(f)>>,
                  <<Done(f, id, s), Drop(f), Add(f, s), Commit(f)>>}
        /\ x \/ (Sound(c, f) /\ c.ledger[f] = [id |-> id, owns |-> FALSE])
OwnLeft(q, c, f, x) ==
    \E id \in Ids:
        \/ /\ q = <<On("project", f, id), On("own", f, id), Commit(f)>>
           /\ x \/ (Scored(c, f) /\ c.ledger[f] = [id |-> id, owns |-> TRUE])
        \/ /\ q = <<On("own", f, id), Commit(f)>>
           /\ x \/ (/\ Scored(c, f) /\ c.ledger[f] = [id |-> id, owns |-> TRUE]
                    /\ c.row[f].status # "none" => c.row[f].projected = id)
CommitLeft(q, c, f, x) == q = <<Commit(f)>> /\ (x \/ Sound(c, f))

OneLeft(q, c, f, x) ==
    /\ SignalsLeft(q, c, f, x) \/ ProjectLeft(q, c, f, x) \/ DoneLeft(q, c, f, x)
       \/ OwnLeft(q, c, f, x) \/ CommitLeft(q, c, f, x)
    /\ \A g \in Files \ (c.torn \cup {f}): Sound(c, g)

\* What is left of a clearing; x if all photos are excused.
ClearLeft(q, c, x) ==
    /\ q \in {<<ClearSignals, CommitAll>>,
              <<CommitAll>>}
    /\ x \/ c.row = Blank.row

Left(q, c, broken) ==
    \/ \E f \in Files: OneLeft(q, c, f, broken \/ f \in c.torn)
    \/ ClearLeft(q, c, broken)

StoreTyped ==
    /\ StoreTypeOK
    /\ disk \in [legacy: Places, work: Places]
    /\ first \in [old: Stored, found: Stored, whole: BOOLEAN]

\* What is on disk is whole, in either place.
DiskWhole ==
    \A p \in {"legacy", "work"}: \A k \in {"main", "wal"}: disk[p][k].there => Whole(disk[p][k])

\* The -wal file is not without its database; an open one is in its place.
FilesFit ==
    /\ disk["work"].wal.there => disk["work"].main.there
    /\ process = "open" => disk["work"].main.there /\ first.found.there

\* The connection is idle, before its first statement, or within an operation.
PendingFits ==
    /\ process # "open" => transaction = "none" /\ ~doomed /\ pending = NoFile
    /\ process = "closed" => todo = <<>>
    /\ doomed => todo = <<>> /\ transaction = "none"
    /\ process = "open" =>
        /\ pending \in Databases
        /\ transaction = "none" => (todo = <<>> \/ Begun(todo)) /\ (doomed \/ Whole(pending))
        /\ transaction # "none" => Left(todo, pending, transaction = "broken")

\* The files are moved in order, and only to an empty place.
HalfMoved == process = "moving" /\ todo = <<"wal">>
Moving ==
    process = "moving" =>
        \/ todo = <<>> /\ (disk["work"].main.there \/ external \/ ~disk["legacy"].main.there)
        \/ /\ todo = Sidecars /\ ~external
           /\ disk["legacy"].main.there /\ ~disk["work"].main.there
        \/ /\ HalfMoved /\ ~external
           /\ disk["work"].main.there /\ ~disk["legacy"].main.there /\ ~disk["work"].wal.there

\* Until a connection is opened, the old content is in the old place, on its
\* way or in the new place.
Adopting ==
    ~first.found.there /\ first.whole =>
        \/ /\ ~disk["work"].main.there /\ first.old = Content("legacy")
           /\ disk["legacy"].wal.there => disk["legacy"].main.there
        \/ /\ HalfMoved
           /\ first.old = IF disk["legacy"].wal.there THEN disk["legacy"].wal ELSE disk["work"].main
        \/ ~HalfMoved /\ ~external /\ disk["work"].main.there /\ first.old = Content("work")

StoreInv ==
    StoreTyped /\ DiskWhole /\ FilesFit /\ PendingFits /\ Moving /\ Adopting /\ LegacyAdopted

-----------------------------------------------------------------------------
(* The statements of an operation                                          *)

LEMMA OnePhoto == \A f: (CHOOSE g \in {f}: TRUE) = f
  OBVIOUS

LEMMA IdsExist == 0 \in Ids /\ 1 \in Ids
  BY StoreAssumption DEF Ids

LEMMA BlankWhole == Whole(Blank) /\ Blank.there
  BY IdsExist DEF Whole, Blank, Databases, Sound, Scored, Projected, NoRow

LEMMA BlankRows == \A f \in Files: Blank.row[f] = NoRow
  BY DEF Blank

LEMMA LegacyWhole == Whole(Legacy) /\ Legacy.there
<1>1. Legacy \in Databases  BY IdsExist DEF Legacy, Blank, Databases, NoRow
<1>2. \A f \in Files: Sound(Legacy, f)
  BY IdsExist DEF Legacy, Blank, Sound, Scored, Projected, NoRow
<1> QED BY <1>1, <1>2 DEF Whole, Databases

\* The rows of a content.
Rows == [status: {"none", "scored", "done"}, score: Ids, projected: Ids, owned: Ids]
Entries == [id: Ids, owns: BOOLEAN]
Tables(c) ==
    /\ c.row \in [Files -> Rows] /\ c.signals \in [Files -> Ids]
    /\ c.ledger \in [Files -> Entries] /\ c.torn \subseteq Files

LEMMA TablesOf == \A c \in Databases: Tables(c) /\ c.there
  BY DEF Databases, Tables, Rows, Entries

\* A content e differs from c at most in the rows of f.
Touches(c, e, f) ==
    /\ e \in Databases /\ e.torn = c.torn
    /\ \A g \in Files \ {f}:
          e.row[g] = c.row[g] /\ e.signals[g] = c.signals[g] /\ e.ledger[g] = c.ledger[g]

LEMMA OthersStaySound ==
  ASSUME NEW c, NEW e, NEW f, Touches(c, e, f), NEW g \in Files \ {f}, Sound(c, g)
  PROVE  Sound(e, g)
  BY DEF Touches, Sound, Scored, Projected

\* A content with one entry replaced.
SetRow(c, f, r) == [c EXCEPT !.row[f] = r]
SetSignals(c, f, s) == [c EXCEPT !.signals[f] = s]
SetEntry(c, f, r) == [c EXCEPT !.ledger[f] = r]

LEMMA IsDatabase ==
  ASSUME NEW c, c.there = TRUE, Tables(c),
         c = [there |-> c.there, row |-> c.row, signals |-> c.signals, ledger |-> c.ledger,
              torn |-> c.torn]
  PROVE  c \in Databases
  BY DEF Databases, Tables, Rows, Entries

LEMMA WithRow ==
  ASSUME NEW c \in Databases, NEW f \in Files, NEW r \in Rows
  PROVE  /\ Touches(c, SetRow(c, f, r), f) /\ SetRow(c, f, r).row[f] = r
         /\ SetRow(c, f, r).signals[f] = c.signals[f]
         /\ SetRow(c, f, r).ledger[f] = c.ledger[f]
<1> DEFINE e == SetRow(c, f, r)
<1>1. /\ e.row = [c.row EXCEPT ![f] = r] /\ e.signals = c.signals
      /\ e.ledger = c.ledger /\ e.torn = c.torn /\ e.there = c.there
      /\ e = [there |-> e.there, row |-> e.row, signals |-> e.signals, ledger |-> e.ledger,
              torn |-> e.torn]
  BY DEF Databases, SetRow
<1> HIDE DEF e
<1>2. Tables(c) /\ c.there  BY TablesOf
<1>3. c.there = TRUE  BY DEF Databases
<1>6. Tables(e)  BY <1>1, <1>2 DEF Tables
<1>4. e \in Databases  BY <1>1, <1>3, <1>6, IsDatabase
<1>5. e.row[f] = r /\ \A g \in Files \ {f}: e.row[g] = c.row[g]  BY <1>1, <1>2 DEF Tables
<1> QED BY <1>1, <1>4, <1>5 DEF Touches, e

LEMMA WithSignals ==
  ASSUME NEW c \in Databases, NEW f \in Files, NEW s \in Ids
  PROVE  /\ Touches(c, SetSignals(c, f, s), f) /\ SetSignals(c, f, s).signals[f] = s
         /\ SetSignals(c, f, s).row[f] = c.row[f]
         /\ SetSignals(c, f, s).ledger[f] = c.ledger[f]
<1> DEFINE e == SetSignals(c, f, s)
<1>0. DOMAIN c = {"there", "row", "signals", "ledger", "torn"} /\ c = [x \in DOMAIN c |-> c[x]]
  BY DEF Databases
<1>1. /\ e.signals = [c.signals EXCEPT ![f] = s] /\ e.row = c.row
      /\ e.ledger = c.ledger /\ e.torn = c.torn /\ e.there = c.there
      /\ e = [there |-> e.there, row |-> e.row, signals |-> e.signals, ledger |-> e.ledger,
              torn |-> e.torn]
  BY <1>0 DEF SetSignals
<1> HIDE DEF e
<1>2. Tables(c) /\ c.there  BY TablesOf
<1>3. c.there = TRUE  BY DEF Databases
<1>6. Tables(e)  BY <1>1, <1>2 DEF Tables
<1>4. e \in Databases  BY <1>1, <1>3, <1>6, IsDatabase
<1>5. e.signals[f] = s /\ \A g \in Files \ {f}: e.signals[g] = c.signals[g]
  BY <1>1, <1>2 DEF Tables
<1> QED BY <1>1, <1>4, <1>5 DEF Touches, e

LEMMA WithEntry ==
  ASSUME NEW c \in Databases, NEW f \in Files, NEW r \in Entries
  PROVE  /\ Touches(c, SetEntry(c, f, r), f)
         /\ SetEntry(c, f, r).ledger[f] = r
         /\ SetEntry(c, f, r).row[f] = c.row[f] /\ SetEntry(c, f, r).signals[f] = c.signals[f]
<1> DEFINE e == SetEntry(c, f, r)
<1>0. DOMAIN c = {"there", "row", "signals", "ledger", "torn"} /\ c = [x \in DOMAIN c |-> c[x]]
  BY DEF Databases
<1>1. /\ e.ledger = [c.ledger EXCEPT ![f] = r] /\ e.row = c.row
      /\ e.signals = c.signals /\ e.torn = c.torn /\ e.there = c.there
  BY <1>0 DEF SetEntry
<1>6. e = [there |-> e.there, row |-> e.row, signals |-> e.signals, ledger |-> e.ledger,
           torn |-> e.torn]
  BY <1>0 DEF SetEntry
<1> HIDE DEF e
<1>2. Tables(c) /\ c.there  BY TablesOf
<1>3. c.there = TRUE  BY DEF Databases
<1>7. Tables(e)  BY <1>1, <1>2 DEF Tables
<1>4. e \in Databases  BY <1>1, <1>3, <1>6, <1>7, IsDatabase
<1>5. e.ledger[f] = r /\ \A g \in Files \ {f}: e.ledger[g] = c.ledger[g]
  BY <1>1, <1>2 DEF Tables
<1> QED BY <1>1, <1>4, <1>5 DEF Touches, e

LEMMA InsertScored ==
  ASSUME NEW f \in Files, NEW id \in Ids, NEW c \in Databases, NEW e,
         e = Effect(Insert(f, id), c)
  PROVE  /\ Touches(c, e, f) /\ e.ledger[f] = c.ledger[f]
         /\ e.row[f].status = "scored" /\ e.row[f].score = id
         /\ e.row[f].projected = 0 /\ e.row[f].owned = 0
<1>0. PICK r: r = [NoRow EXCEPT !.status = "scored", !.score = id]  OBVIOUS
<1>1. e = SetRow(c, f, r)
  BY <1>0, OnePhoto DEF Effect, Insert, On, Statement, SetRow
<1>2. NoRow \in Rows  BY IdsExist DEF NoRow, Rows
<1>3. r.status = "scored" /\ r.score = id /\ r.projected = 0 /\ r.owned = 0
  BY <1>0 DEF NoRow
<1>4. r \in Rows  BY <1>0, <1>2 DEF Rows
<1>5. LET d == SetRow(c, f, r) IN Touches(c, d, f) /\ d.row[f] = r /\ d.ledger[f] = c.ledger[f]
  BY <1>4, WithRow
<1> QED BY <1>1, <1>3, <1>5

LEMMA InsertDone ==
  ASSUME NEW f \in Files, NEW id \in Ids, NEW s \in Ids, NEW c \in Databases, NEW e,
         e = Effect(Done(f, id, s), c)
  PROVE  /\ Touches(c, e, f) /\ e.ledger[f] = c.ledger[f]
         /\ e.row[f] = [status |-> "done", score |-> s, projected |-> id, owned |-> id]
<1> DEFINE r == [status |-> "done", score |-> s, projected |-> id, owned |-> id]
<1>1. e = SetRow(c, f, r)
  BY OnePhoto DEF Effect, Done, Statement, SetRow
<1>2. r \in Rows  BY DEF Rows
<1> HIDE DEF r
<1>3. Touches(c, e, f) /\ e.row[f] = r /\ e.ledger[f] = c.ledger[f]  BY <1>1, <1>2, WithRow
<1> QED BY <1>3 DEF r

LEMMA DropSignals ==
  ASSUME NEW f \in Files, NEW c \in Databases, NEW e,
         e = Effect(Drop(f), c)
  PROVE  /\ Touches(c, e, f) /\ e.ledger[f] = c.ledger[f] /\ e.row[f] = c.row[f]
<1>1. e = SetSignals(c, f, 0)
  BY OnePhoto DEF Effect, Drop, On, Statement, SetSignals
<1> QED BY <1>1, IdsExist, WithSignals

LEMMA AddSignals ==
  ASSUME NEW f \in Files, NEW s \in Ids, NEW c \in Databases, NEW e,
         e = Effect(Add(f, s), c)
  PROVE  /\ Touches(c, e, f) /\ e.ledger[f] = c.ledger[f] /\ e.row[f] = c.row[f]
         /\ e.signals[f] = s
<1>1. e = SetSignals(c, f, s)
  BY OnePhoto DEF Effect, Add, On, Statement, SetSignals
<1> QED BY <1>1, WithSignals

LEMMA AppendEntry ==
  ASSUME NEW f \in Files, NEW id \in Ids, NEW c \in Databases, NEW e,
         e = Effect(On("append", f, id), c)
  PROVE  /\ Touches(c, e, f) /\ e.row[f] = c.row[f] /\ e.signals[f] = c.signals[f]
         /\ e.ledger[f] = [id |-> id, owns |-> FALSE]
<1>0. PICK r: r = [id |-> id, owns |-> FALSE]  OBVIOUS
<1>1. e = SetEntry(c, f, r)
  BY <1>0, OnePhoto DEF Effect, On, Statement, SetEntry
<1>2. r \in Entries  BY <1>0 DEF Entries
<1>3. LET d == SetEntry(c, f, r) IN
      Touches(c, d, f) /\ d.ledger[f] = r /\ d.row[f] = c.row[f] /\ d.signals[f] = c.signals[f]
  BY <1>2, WithEntry
<1> QED BY <1>0, <1>1, <1>3

LEMMA AppendOwnEntry ==
  ASSUME NEW f \in Files, NEW id \in Ids, NEW c \in Databases, NEW e,
         e = Effect(AppendOwn(f, id), c)
  PROVE  /\ Touches(c, e, f) /\ e.row[f] = c.row[f] /\ e.signals[f] = c.signals[f]
         /\ e.ledger[f] = [id |-> id, owns |-> TRUE]
<1>0. PICK r: r = [id |-> id, owns |-> TRUE]  OBVIOUS
<1>1. e = SetEntry(c, f, r)
  BY <1>0, OnePhoto DEF Effect, AppendOwn, On, Statement, SetEntry
<1>2. r \in Entries  BY <1>0 DEF Entries
<1>3. LET d == SetEntry(c, f, r) IN
      Touches(c, d, f) /\ d.ledger[f] = r /\ d.row[f] = c.row[f] /\ d.signals[f] = c.signals[f]
  BY <1>2, WithEntry
<1> QED BY <1>0, <1>1, <1>3

LEMMA ProjectRow ==
  ASSUME NEW f \in Files, NEW id \in Ids, NEW c \in Databases, NEW e,
         e = Effect(On("project", f, id), c)
  PROVE  /\ Touches(c, e, f) /\ e.signals[f] = c.signals[f] /\ e.ledger[f] = c.ledger[f]
         /\ IF c.row[f].status = "none" THEN e.row[f] = c.row[f]
            ELSE e.row[f].status # "none" /\ e.row[f].score = c.row[f].score
                 /\ e.row[f].projected = id
<1> DEFINE r == [c.row[f] EXCEPT !.projected = id]
<1>1. e = IF c.row[f].status = "none" THEN c ELSE [c EXCEPT !.row[f].projected = id]
  BY OnePhoto DEF Effect, On, Statement, SetRow, SetEntry
<1>2. [c EXCEPT !.row[f].projected = id] = SetRow(c, f, r)
  BY DEF SetRow
<1>3. c.row[f] \in Rows  BY TablesOf DEF Tables
<1>4. r \in Rows /\ r.status = c.row[f].status /\ r.score = c.row[f].score /\ r.projected = id
  BY <1>3 DEF Rows
<1> HIDE DEF r
<1>5. Touches(c, c, f)  BY DEF Touches
<1> QED BY <1>1, <1>2, <1>4, <1>5, WithRow

LEMMA OwnRow ==
  ASSUME NEW f \in Files, NEW id \in Ids, NEW c \in Databases, NEW e,
         e = Effect(On("own", f, id), c)
  PROVE  /\ Touches(c, e, f) /\ e.signals[f] = c.signals[f] /\ e.ledger[f] = c.ledger[f]
         /\ IF c.row[f].status = "none" THEN e.row[f] = c.row[f]
            ELSE e.row[f].status # "none" /\ e.row[f].score = c.row[f].score
                 /\ e.row[f].projected = c.row[f].projected /\ e.row[f].owned = id
<1> DEFINE r == [c.row[f] EXCEPT !.owned = id]
<1>1. e = IF c.row[f].status = "none" THEN c ELSE [c EXCEPT !.row[f].owned = id]
  BY OnePhoto DEF Effect, On, Statement, SetRow, SetEntry
<1>2. [c EXCEPT !.row[f].owned = id] = SetRow(c, f, r)
  BY DEF SetRow
<1>3. c.row[f] \in Rows  BY TablesOf DEF Tables
<1>4. /\ r \in Rows /\ r.status = c.row[f].status /\ r.score = c.row[f].score
      /\ r.projected = c.row[f].projected /\ r.owned = id
  BY <1>3 DEF Rows
<1> HIDE DEF r
<1>5. Touches(c, c, f)  BY DEF Touches
<1> QED BY <1>1, <1>2, <1>4, <1>5, WithRow

LEMMA ClearTables ==
  ASSUME NEW c \in Databases
  PROVE  /\ LET e == Effect(ClearRows, c) IN
            e \in Databases /\ e.row = Blank.row /\ e.torn = c.torn
         /\ LET e == Effect(ClearSignals, c) IN
            e \in Databases /\ e.row = c.row /\ e.torn = c.torn
<1>1. Effect(ClearRows, c) = [c EXCEPT !.row = Blank.row]
  BY DEF Effect, ClearRows, Statement
<1>2. Effect(ClearSignals, c) = [c EXCEPT !.signals = Blank.signals]
  BY DEF Effect, ClearSignals, Statement
<1>3. Blank.row \in [Files -> Rows] /\ Blank.signals \in [Files -> Ids]
  BY IdsExist DEF Blank, NoRow, Rows
<1> QED BY <1>1, <1>2, <1>3 DEF Databases, Rows

-----------------------------------------------------------------------------
(* One statement of an operation on f                                      *)

\* The photos other than f are whole; x if f is excused.
Rest(c, f, x) ==
    /\ c \in Databases
    /\ \A g \in Files \ (c.torn \cup {f}): Sound(c, g)
    /\ f \in c.torn => x

LEMMA Kinds ==
  \A f, id, s:
    /\ Commit(f).do = "commit" /\ CommitAll.do = "commit"
    /\ Insert(f, id).do # "commit" /\ Done(f, id, s).do # "commit" /\ Drop(f).do # "commit"
    /\ Add(f, s).do # "commit" /\ AppendOwn(f, id).do # "commit"
    /\ ClearRows.do # "commit" /\ ClearSignals.do # "commit"
    /\ \A do \in {"append", "project", "own"}: On(do, f, id).do # "commit"
  BY DEF Commit, CommitAll, Insert, Done, Drop, Add, AppendOwn, ClearRows, ClearSignals, On, Statement

LEMMA RestStays ==
  ASSUME NEW c, NEW e, NEW f \in Files, NEW x \in BOOLEAN, Rest(c, f, x), Touches(c, e, f)
  PROVE  Rest(e, f, x) /\ e.torn = c.torn
  BY OthersStaySound DEF Rest, Touches

LEMMA ScoringStep ==
  ASSUME NEW c, NEW f \in Files, NEW x \in BOOLEAN, Rest(c, f, x), NEW q, Scoring(q, f)
  PROVE  LET e == Effect(Head(q), c) IN Touches(c, e, f) /\ SignalsLeft(Tail(q), e, f, x)
<1>1. PICK id \in Ids: q = <<Insert(f, id), Drop(f), Add(f, id), Commit(f)>>
  BY DEF Scoring
<1>2. Head(q) = Insert(f, id) /\ Tail(q) = <<Drop(f), Add(f, id), Commit(f)>>
  BY <1>1
<1>3. PICK e: e = Effect(Insert(f, id), c)  OBVIOUS
<1>4. /\ Touches(c, e, f) /\ e.row[f].status = "scored" /\ e.row[f].score = id
      /\ e.row[f].projected = 0 /\ e.row[f].owned = 0
  BY <1>3, InsertScored DEF Rest
<1>5. Projected(e, f)  BY <1>4 DEF Projected
<1>6. SignalsLeft(Tail(q), e, f, x)  BY <1>2, <1>4, <1>5 DEF SignalsLeft
<1> QED BY <1>2, <1>3, <1>4, <1>6

LEMMA SignalsStep ==
  ASSUME NEW c, NEW f \in Files, NEW x \in BOOLEAN, Rest(c, f, x), NEW q, SignalsLeft(q, c, f, x)
  PROVE  LET e == Effect(Head(q), c) IN
         /\ Touches(c, e, f) /\ Head(q).do # "commit"
         /\ SignalsLeft(Tail(q), e, f, x) \/ CommitLeft(Tail(q), e, f, x)
<1>1. PICK s \in Ids:
        /\ q \in {<<Drop(f), Add(f, s), Commit(f)>>, <<Add(f, s), Commit(f)>>}
        /\ x \/ (c.row[f].status # "none" /\ c.row[f].score = s /\ Projected(c, f))
  BY DEF SignalsLeft
<1>2. CASE q = <<Drop(f), Add(f, s), Commit(f)>>
  <2>1. Head(q) = Drop(f) /\ Tail(q) = <<Add(f, s), Commit(f)>>  BY <1>2
  <2>2. PICK e: e = Effect(Drop(f), c)  OBVIOUS
  <2>3. Touches(c, e, f) /\ e.ledger[f] = c.ledger[f] /\ e.row[f] = c.row[f]
    BY <2>2, DropSignals DEF Rest
  <2>4. SignalsLeft(Tail(q), e, f, x)  BY <1>1, <2>1, <2>3 DEF SignalsLeft, Projected
  <2>6. Head(q).do # "commit"  BY <2>1, Kinds
  <2> QED BY <2>1, <2>2, <2>3, <2>4, <2>6
<1>3. CASE q = <<Add(f, s), Commit(f)>>
  <2>1. Head(q) = Add(f, s) /\ Tail(q) = <<Commit(f)>>  BY <1>3
  <2>2. PICK e: e = Effect(Add(f, s), c)  OBVIOUS
  <2>3. /\ Touches(c, e, f) /\ e.ledger[f] = c.ledger[f] /\ e.row[f] = c.row[f]
        /\ e.signals[f] = s
    BY <2>2, AddSignals DEF Rest
  <2>4. x \/ Sound(e, f)  BY <1>1, <2>3 DEF Sound, Scored, Projected
  <2>5. CommitLeft(Tail(q), e, f, x)  BY <2>1, <2>4 DEF CommitLeft
  <2>6. Head(q).do # "commit"  BY <2>1, Kinds
  <2> QED BY <2>1, <2>2, <2>3, <2>5, <2>6
<1> QED BY <1>1, <1>2, <1>3

LEMMA AppendStep ==
  ASSUME NEW c, NEW f \in Files, NEW x \in BOOLEAN, Rest(c, f, x), x \/ Sound(c, f), NEW q,
         Writing(q, f) \/ Alone(q, f) \/ Owning(q, f)
  PROVE  LET e == Effect(Head(q), c) IN
         /\ Touches(c, e, f)
         /\ ProjectLeft(Tail(q), e, f, x) \/ OwnLeft(Tail(q), e, f, x)
<1>1. CASE Writing(q, f)
  <2>1. PICK id \in Ids, s \in Ids:
          q = <<On("append", f, id), On("project", f, id), Commit(f), Done(f, id, s), Drop(f),
                Add(f, s), Commit(f)>>
    BY <1>1 DEF Writing
  <2>2. /\ Head(q) = On("append", f, id)
        /\ Tail(q) = <<On("project", f, id), Commit(f), Done(f, id, s), Drop(f), Add(f, s), Commit(f)>>
    BY <2>1
  <2>3. PICK e: e = Effect(On("append", f, id), c)  OBVIOUS
  <2>4. /\ Touches(c, e, f) /\ e.row[f] = c.row[f] /\ e.signals[f] = c.signals[f]
        /\ e.ledger[f] = [id |-> id, owns |-> FALSE]
    BY <2>3, AppendEntry DEF Rest
  <2>5. x \/ Scored(e, f)  BY <2>4 DEF Sound, Scored
  <2>6. ProjectLeft(Tail(q), e, f, x)  BY <2>2, <2>4, <2>5 DEF ProjectLeft
  <2> QED BY <2>2, <2>3, <2>4, <2>6
<1>2. CASE Alone(q, f)
  <2>1. PICK id \in Ids: q = <<On("append", f, id), On("project", f, id), Commit(f)>>
    BY <1>2 DEF Alone
  <2>2. Head(q) = On("append", f, id) /\ Tail(q) = <<On("project", f, id), Commit(f)>>
    BY <2>1
  <2>3. PICK e: e = Effect(On("append", f, id), c)  OBVIOUS
  <2>4. /\ Touches(c, e, f) /\ e.row[f] = c.row[f] /\ e.signals[f] = c.signals[f]
        /\ e.ledger[f] = [id |-> id, owns |-> FALSE]
    BY <2>3, AppendEntry DEF Rest
  <2>5. x \/ Scored(e, f)  BY <2>4 DEF Sound, Scored
  <2>6. ProjectLeft(Tail(q), e, f, x)  BY <2>2, <2>4, <2>5 DEF ProjectLeft
  <2> QED BY <2>2, <2>3, <2>4, <2>6
<1>3. CASE Owning(q, f)
  <2>1. PICK id \in Ids:
          q = <<AppendOwn(f, id), On("project", f, id), On("own", f, id), Commit(f)>>
    BY <1>3 DEF Owning
  <2>2. /\ Head(q) = AppendOwn(f, id)
        /\ Tail(q) = <<On("project", f, id), On("own", f, id), Commit(f)>>
    BY <2>1
  <2>3. PICK e: e = Effect(AppendOwn(f, id), c)  OBVIOUS
  <2>4. /\ Touches(c, e, f) /\ e.row[f] = c.row[f] /\ e.signals[f] = c.signals[f]
        /\ e.ledger[f] = [id |-> id, owns |-> TRUE]
    BY <2>3, AppendOwnEntry DEF Rest
  <2>5. x \/ Scored(e, f)  BY <2>4 DEF Sound, Scored
  <2>6. OwnLeft(Tail(q), e, f, x)  BY <2>2, <2>4, <2>5 DEF OwnLeft
  <2> QED BY <2>2, <2>3, <2>4, <2>6
<1> QED BY <1>1, <1>2, <1>3

LEMMA ProjectStep ==
  ASSUME NEW c, NEW f \in Files, NEW x \in BOOLEAN, Rest(c, f, x), NEW q, ProjectLeft(q, c, f, x)
  PROVE  LET e == Effect(Head(q), c) IN
         /\ Touches(c, e, f) /\ Head(q).do # "commit"
         /\ CommitLeft(Tail(q), e, f, x) \/ DoneLeft(Tail(q), e, f, x)
<1>1. PICK id \in Ids, s \in Ids:
        /\ q \in {<<On("project", f, id), Commit(f)>>,
                  <<On("project", f, id), Commit(f), Done(f, id, s), Drop(f), Add(f, s), Commit(f)>>}
        /\ x \/ (Scored(c, f) /\ c.ledger[f] = [id |-> id, owns |-> FALSE])
  BY DEF ProjectLeft
<1>2. PICK e: e = Effect(On("project", f, id), c)  OBVIOUS
<1>3. /\ Touches(c, e, f) /\ e.signals[f] = c.signals[f] /\ e.ledger[f] = c.ledger[f]
      /\ IF c.row[f].status = "none" THEN e.row[f] = c.row[f]
         ELSE e.row[f].status # "none" /\ e.row[f].score = c.row[f].score
              /\ e.row[f].projected = id
  BY <1>2, ProjectRow DEF Rest
<1>4. x \/ Sound(e, f)  BY <1>1, <1>3 DEF Sound, Scored, Projected, NoRow
<1>5. Head(q) = On("project", f, id)  BY <1>1
<1>6. Head(q).do # "commit"  BY <1>5 DEF On, Statement
<1>7. CommitLeft(Tail(q), e, f, x) \/ DoneLeft(Tail(q), e, f, x)
  <2>1. CASE q = <<On("project", f, id), Commit(f)>>
    <3>1. Tail(q) = <<Commit(f)>>  BY <2>1
    <3> QED BY <3>1, <1>4 DEF CommitLeft
  <2>2. CASE q = <<On("project", f, id), Commit(f), Done(f, id, s), Drop(f), Add(f, s), Commit(f)>>
    <3>1. Tail(q) = <<Commit(f), Done(f, id, s), Drop(f), Add(f, s), Commit(f)>>  BY <2>2
    <3>2. x \/ (Sound(e, f) /\ e.ledger[f] = [id |-> id, owns |-> FALSE])  BY <1>1, <1>3, <1>4
    <3> QED BY <3>1, <3>2 DEF DoneLeft
  <2> QED BY <1>1, <2>1, <2>2
<1> QED BY <1>2, <1>3, <1>5, <1>6, <1>7

LEMMA OwnStep ==
  ASSUME NEW c, NEW f \in Files, NEW x \in BOOLEAN, Rest(c, f, x), NEW q, OwnLeft(q, c, f, x)
  PROVE  LET e == Effect(Head(q), c) IN
         /\ Touches(c, e, f) /\ Head(q).do # "commit"
         /\ CommitLeft(Tail(q), e, f, x) \/ OwnLeft(Tail(q), e, f, x)
<1>1. PICK id \in Ids:
        \/ /\ q = <<On("project", f, id), On("own", f, id), Commit(f)>>
           /\ x \/ (Scored(c, f) /\ c.ledger[f] = [id |-> id, owns |-> TRUE])
        \/ /\ q = <<On("own", f, id), Commit(f)>>
           /\ x \/ (/\ Scored(c, f) /\ c.ledger[f] = [id |-> id, owns |-> TRUE]
                    /\ c.row[f].status # "none" => c.row[f].projected = id)
  BY DEF OwnLeft
<1>2. CASE /\ q = <<On("project", f, id), On("own", f, id), Commit(f)>>
           /\ x \/ (Scored(c, f) /\ c.ledger[f] = [id |-> id, owns |-> TRUE])
  <2>1. Head(q) = On("project", f, id) /\ Tail(q) = <<On("own", f, id), Commit(f)>>  BY <1>2
  <2>2. PICK e: e = Effect(On("project", f, id), c)  OBVIOUS
  <2>3. /\ Touches(c, e, f) /\ e.signals[f] = c.signals[f] /\ e.ledger[f] = c.ledger[f]
        /\ IF c.row[f].status = "none" THEN e.row[f] = c.row[f]
           ELSE e.row[f].status # "none" /\ e.row[f].score = c.row[f].score
                /\ e.row[f].projected = id
    BY <2>2, ProjectRow DEF Rest
  <2>4. x \/ (/\ Scored(e, f) /\ e.ledger[f] = [id |-> id, owns |-> TRUE]
              /\ e.row[f].status # "none" => e.row[f].projected = id)
    BY <1>2, <2>3 DEF Scored
  <2>5. OwnLeft(Tail(q), e, f, x)  BY <2>1, <2>4 DEF OwnLeft
  <2>6. Head(q).do # "commit"  BY <2>1, Kinds
  <2> QED BY <2>1, <2>2, <2>3, <2>5, <2>6
<1>3. CASE /\ q = <<On("own", f, id), Commit(f)>>
           /\ x \/ (/\ Scored(c, f) /\ c.ledger[f] = [id |-> id, owns |-> TRUE]
                    /\ c.row[f].status # "none" => c.row[f].projected = id)
  <2>1. Head(q) = On("own", f, id) /\ Tail(q) = <<Commit(f)>>  BY <1>3
  <2>2. PICK e: e = Effect(On("own", f, id), c)  OBVIOUS
  <2>3. /\ Touches(c, e, f) /\ e.signals[f] = c.signals[f] /\ e.ledger[f] = c.ledger[f]
        /\ IF c.row[f].status = "none" THEN e.row[f] = c.row[f]
           ELSE e.row[f].status # "none" /\ e.row[f].score = c.row[f].score
                /\ e.row[f].projected = c.row[f].projected /\ e.row[f].owned = id
    BY <2>2, OwnRow DEF Rest
  <2>4. x \/ Sound(e, f)  BY <1>3, <2>3 DEF Sound, Scored, Projected, NoRow
  <2>5. CommitLeft(Tail(q), e, f, x)  BY <2>1, <2>4 DEF CommitLeft
  <2>6. Head(q).do # "commit"  BY <2>1, Kinds
  <2> QED BY <2>1, <2>2, <2>3, <2>5, <2>6
<1> QED BY <1>1, <1>2, <1>3

LEMMA DoneStep ==
  ASSUME NEW c, NEW f \in Files, NEW x \in BOOLEAN, Rest(c, f, x), NEW q, DoneLeft(q, c, f, x),
         Head(q).do # "commit"
  PROVE  LET e == Effect(Head(q), c) IN Touches(c, e, f) /\ SignalsLeft(Tail(q), e, f, x)
<1>1. PICK id \in Ids, s \in Ids:
        /\ q \in {<<Commit(f), Done(f, id, s), Drop(f), Add(f, s), Commit(f)>>,
                  <<Done(f, id, s), Drop(f), Add(f, s), Commit(f)>>}
        /\ x \/ (Sound(c, f) /\ c.ledger[f] = [id |-> id, owns |-> FALSE])
  BY DEF DoneLeft
<1>2. q # <<Commit(f), Done(f, id, s), Drop(f), Add(f, s), Commit(f)>>  BY Kinds
<1>8. q = <<Done(f, id, s), Drop(f), Add(f, s), Commit(f)>>  BY <1>1, <1>2
<1>3. Head(q) = Done(f, id, s) /\ Tail(q) = <<Drop(f), Add(f, s), Commit(f)>>  BY <1>8
<1>4. PICK e: e = Effect(Done(f, id, s), c)  OBVIOUS
<1>5. /\ Touches(c, e, f) /\ e.ledger[f] = c.ledger[f]
      /\ e.row[f] = [status |-> "done", score |-> s, projected |-> id, owned |-> id]
  BY <1>4, InsertDone DEF Rest
<1>6. x \/ (e.row[f].status # "none" /\ e.row[f].score = s /\ Projected(e, f))
  BY <1>1, <1>5 DEF Projected
<1>7. SignalsLeft(Tail(q), e, f, x)  BY <1>3, <1>6 DEF SignalsLeft
<1> QED BY <1>3, <1>4, <1>5, <1>7

-----------------------------------------------------------------------------
(* One statement of any operation                                          *)

LEMMA FirstStatement ==
  ASSUME NEW c, Whole(c), NEW q, Begun(q)
  PROVE  LET e == Effect(Head(q), c) IN e \in Databases /\ Left(Tail(q), e, FALSE)
<1>1. CASE Clearing(q)
  <2>1. Head(q) = ClearRows /\ Tail(q) = <<ClearSignals, CommitAll>>  BY <1>1 DEF Clearing
  <2>2. PICK e: e = Effect(ClearRows, c)  OBVIOUS
  <2>3. e \in Databases /\ e.row = Blank.row  BY <2>2, ClearTables DEF Whole
  <2>4. ClearLeft(Tail(q), e, FALSE)  BY <2>1, <2>3 DEF ClearLeft
  <2> QED BY <2>1, <2>2, <2>3, <2>4 DEF Left
<1>2. ASSUME NEW f \in Files, Scoring(q, f) \/ Writing(q, f) \/ Alone(q, f) \/ Owning(q, f)
      PROVE  LET e == Effect(Head(q), c) IN e \in Databases /\ Left(Tail(q), e, FALSE)
  <2>1. PICK x \in BOOLEAN: x <=> f \in c.torn  BY Zenon
  <2>2. Rest(c, f, x) /\ (x \/ Sound(c, f))  BY <2>1 DEF Rest, Whole
  <2>3. PICK e: e = Effect(Head(q), c)  OBVIOUS
  <2>4. Touches(c, e, f) /\ OneLeft(Tail(q), e, f, x)
    <3>1. CASE Scoring(q, f)
      <4>1. Touches(c, e, f) /\ SignalsLeft(Tail(q), e, f, x)
        BY <2>2, <2>3, <3>1, ScoringStep
      <4>2. Rest(e, f, x)  BY <2>2, <4>1, RestStays
      <4> QED BY <4>1, <4>2 DEF OneLeft, Rest
    <3>2. CASE Writing(q, f) \/ Alone(q, f) \/ Owning(q, f)
      <4>1. Touches(c, e, f) /\ (ProjectLeft(Tail(q), e, f, x) \/ OwnLeft(Tail(q), e, f, x))
        BY <2>2, <2>3, <3>2, AppendStep
      <4>2. Rest(e, f, x)  BY <2>2, <4>1, RestStays
      <4> QED BY <4>1, <4>2 DEF OneLeft, Rest
    <3> QED BY <1>2, <3>1, <3>2
  <2>5. e \in Databases /\ (x <=> f \in e.torn)  BY <2>1, <2>4 DEF Touches
  <2>6. Left(Tail(q), e, FALSE)  BY <2>4, <2>5 DEF Left
  <2> QED BY <2>3, <2>5, <2>6
<1> QED BY <1>1, <1>2 DEF Begun

LEMMA NextStatement ==
  ASSUME NEW c \in Databases, NEW broken \in BOOLEAN, NEW q, Left(q, c, broken), Head(q).do # "commit"
  PROVE  LET e == Effect(Head(q), c) IN e \in Databases /\ Left(Tail(q), e, broken)
<1>1. CASE ClearLeft(q, c, broken)
  <2>1. q # <<CommitAll>>  BY Kinds
  <2>2. q = <<ClearSignals, CommitAll>> /\ (broken \/ c.row = Blank.row)
    BY <1>1, <2>1 DEF ClearLeft
  <2>3. Head(q) = ClearSignals /\ Tail(q) = <<CommitAll>>  BY <2>2
  <2>4. PICK e: e = Effect(ClearSignals, c)  OBVIOUS
  <2>5. e \in Databases /\ e.row = c.row  BY <2>4, ClearTables
  <2>6. ClearLeft(Tail(q), e, broken)  BY <2>2, <2>3, <2>5 DEF ClearLeft
  <2> QED BY <2>3, <2>4, <2>5, <2>6 DEF Left
<1>2. ASSUME NEW f \in Files, OneLeft(q, c, f, broken \/ f \in c.torn)
      PROVE  LET e == Effect(Head(q), c) IN e \in Databases /\ Left(Tail(q), e, broken)
  <2>1. PICK x \in BOOLEAN: x <=> broken \/ f \in c.torn  BY Zenon
  <2>2. OneLeft(q, c, f, x)  BY <1>2, <2>1
  <2>3. Rest(c, f, x)  BY <2>1, <2>2 DEF Rest, OneLeft
  <2>4. PICK e: e = Effect(Head(q), c)  OBVIOUS
  <2>5. /\ Touches(c, e, f)
        /\ SignalsLeft(Tail(q), e, f, x) \/ DoneLeft(Tail(q), e, f, x)
           \/ OwnLeft(Tail(q), e, f, x) \/ CommitLeft(Tail(q), e, f, x)
    <3>1. CASE SignalsLeft(q, c, f, x)  BY <2>3, <2>4, <3>1, SignalsStep
    <3>2. CASE ProjectLeft(q, c, f, x)  BY <2>3, <2>4, <3>2, ProjectStep
    <3>3. CASE DoneLeft(q, c, f, x)  BY <2>3, <2>4, <3>3, DoneStep
    <3>4. CASE OwnLeft(q, c, f, x)  BY <2>3, <2>4, <3>4, OwnStep
    <3>5. ~CommitLeft(q, c, f, x)
      <4>1. Head(<<Commit(f)>>).do = "commit"  BY Kinds
      <4> QED BY <4>1 DEF CommitLeft
    <3> QED BY <2>2, <3>1, <3>2, <3>3, <3>4, <3>5 DEF OneLeft
  <2>6. Rest(e, f, x) /\ e.torn = c.torn  BY <2>3, <2>5, RestStays
  <2>7. OneLeft(Tail(q), e, f, x)  BY <2>5, <2>6 DEF OneLeft, Rest
  <2>8. Left(Tail(q), e, broken)  BY <2>1, <2>6, <2>7 DEF Left
  <2> QED BY <2>4, <2>6, <2>8 DEF Rest
<1> QED BY <1>1, <1>2 DEF Left

\* The content that a commit makes.
Committed(q, c, broken) == IF broken THEN [c EXCEPT !.torn = @ \cup Head(q).files] ELSE c

LEMMA TornDatabase ==
  ASSUME NEW c \in Databases, NEW S \in SUBSET Files
  PROVE  LET e == [c EXCEPT !.torn = @ \cup S] IN
         /\ e \in Databases /\ e.torn = c.torn \cup S
         /\ e.row = c.row /\ e.signals = c.signals /\ e.ledger = c.ledger
<1> DEFINE e == [c EXCEPT !.torn = @ \cup S]
<1>0. DOMAIN c = {"there", "row", "signals", "ledger", "torn"} /\ c = [x \in DOMAIN c |-> c[x]]
  BY DEF Databases
<1>1. /\ e.torn = c.torn \cup S /\ e.row = c.row
      /\ e.signals = c.signals /\ e.ledger = c.ledger /\ e.there = c.there
      /\ e = [there |-> e.there, row |-> e.row, signals |-> e.signals, ledger |-> e.ledger,
              torn |-> e.torn]
  BY <1>0
<1> HIDE DEF e
<1>2. Tables(c)  BY TablesOf
<1>3. c.there = TRUE  BY DEF Databases
<1>4. Tables(e)  BY <1>1, <1>2 DEF Tables
<1>5. e \in Databases  BY <1>1, <1>3, <1>4, IsDatabase
<1> QED BY <1>1, <1>5 DEF e

LEMMA CommitStep ==
  ASSUME NEW c \in Databases, NEW broken \in BOOLEAN, NEW q, Left(q, c, broken), Head(q).do = "commit"
  PROVE  LET d == Committed(q, c, broken) IN
         Whole(d) /\ (Tail(q) = <<>> \/ Left(Tail(q), d, broken))
<1>1. CASE ClearLeft(q, c, broken)
  <2>1. q # <<ClearSignals, CommitAll>>  BY Kinds
  <2>2. q = <<CommitAll>> /\ (broken \/ c.row = Blank.row)  BY <1>1, <2>1 DEF ClearLeft
  <2>3. Head(q) = CommitAll /\ Tail(q) = <<>> /\ CommitAll.files = Files
    BY <2>2 DEF CommitAll, Statement
  <2>4. PICK d: d = Committed(q, c, broken)  OBVIOUS
  <2>5. CASE broken
    <3>1. d \in Databases /\ d.torn = c.torn \cup Files
      BY <2>3, <2>4, <2>5, TornDatabase DEF Committed
    <3> QED BY <2>3, <2>4, <3>1 DEF Whole
  <2>6. CASE ~broken
    <3>0. c.row = Blank.row  BY <2>2, <2>6, Zenon
    <3>1. \A f \in Files: c.row[f] = NoRow  BY <3>0, BlankRows
    <3>2. NoRow.status = "none" /\ NoRow.projected = 0 /\ NoRow.owned = 0  BY DEF NoRow
    <3>3. \A f \in Files: Scored(c, f) /\ Projected(c, f)  BY <3>1, <3>2 DEF Scored, Projected
    <3>4. \A f \in Files: Sound(c, f)  BY <3>3 DEF Sound
    <3> QED BY <2>3, <2>6, <3>4 DEF Whole, Committed
  <2> QED BY <2>5, <2>6
<1>2. ASSUME NEW f \in Files, OneLeft(q, c, f, broken \/ f \in c.torn)
      PROVE  LET d == Committed(q, c, broken) IN
             Whole(d) /\ (Tail(q) = <<>> \/ Left(Tail(q), d, broken))
  <2>1. PICK x \in BOOLEAN: x <=> broken \/ f \in c.torn  BY Zenon
  <2>2. OneLeft(q, c, f, x)  BY <1>2, <2>1
  <2>3. Rest(c, f, x)  BY <2>1, <2>2 DEF Rest, OneLeft
  <2>4. CommitLeft(q, c, f, x) \/ DoneLeft(q, c, f, x)
    BY <2>2, <2>3, SignalsStep, ProjectStep, OwnStep DEF OneLeft
  <2>5. /\ x \/ Sound(c, f)
        /\ Head(q) = Commit(f)
        /\ Tail(q) = <<>> \/ \A d: Rest(d, f, x) /\ Sound(d, f) /\ d.ledger = c.ledger
                                     => DoneLeft(Tail(q), d, f, x)
        /\ Tail(q) = <<>> \/ (x => \A d: DoneLeft(Tail(q), d, f, x))
    <3>1. CASE CommitLeft(q, c, f, x)  BY <3>1 DEF CommitLeft
    <3>2. CASE DoneLeft(q, c, f, x)
      <4>1. PICK id \in Ids, s \in Ids:
              /\ q \in {<<Commit(f), Done(f, id, s), Drop(f), Add(f, s), Commit(f)>>,
                        <<Done(f, id, s), Drop(f), Add(f, s), Commit(f)>>}
              /\ x \/ (Sound(c, f) /\ c.ledger[f] = [id |-> id, owns |-> FALSE])
        BY <3>2 DEF DoneLeft
      <4>2. q # <<Done(f, id, s), Drop(f), Add(f, s), Commit(f)>>
        <5>1. Head(<<Done(f, id, s), Drop(f), Add(f, s), Commit(f)>>) = Done(f, id, s)  OBVIOUS
        <5> QED BY <5>1, Kinds
      <4>3. q = <<Commit(f), Done(f, id, s), Drop(f), Add(f, s), Commit(f)>>  BY <4>1, <4>2
      <4>4. Head(q) = Commit(f) /\ Tail(q) = <<Done(f, id, s), Drop(f), Add(f, s), Commit(f)>>
        BY <4>3
      <4> QED BY <4>1, <4>4 DEF DoneLeft
    <3> QED BY <2>4, <3>1, <3>2
  <2>6. Head(q).files = {f}  BY <2>5 DEF Commit, On, Statement
  <2>7. PICK d: d = Committed(q, c, broken)  OBVIOUS
  <2>8. /\ Whole(d) /\ Rest(d, f, x)
        /\ broken \/ (d = c /\ (x <=> f \in d.torn))
        /\ broken => f \in d.torn
    <3>1. CASE broken
      <4>1. /\ d \in Databases /\ d.torn = c.torn \cup {f}
            /\ d.row = c.row /\ d.signals = c.signals /\ d.ledger = c.ledger
        BY <2>6, <2>7, <3>1, TornDatabase DEF Committed
      <4>2. \A g \in Files \ d.torn: Sound(d, g)
        BY <2>3, <4>1 DEF Rest, Sound, Scored, Projected
      <4> QED BY <2>1, <3>1, <4>1, <4>2 DEF Whole, Rest
    <3>2. CASE ~broken
      <4>1. d = c  BY <2>7, <3>2 DEF Committed
      <4>2. \A g \in Files \ c.torn: Sound(c, g)  BY <2>1, <2>3, <2>5, <3>2 DEF Rest
      <4> QED BY <2>1, <2>3, <3>2, <4>1, <4>2 DEF Whole
    <3> QED BY <3>1, <3>2
  <2>9. Tail(q) = <<>> \/ DoneLeft(Tail(q), d, f, x)  BY <2>1, <2>5, <2>8
  <2>10. Tail(q) = <<>> \/ OneLeft(Tail(q), d, f, x)  BY <2>8, <2>9 DEF OneLeft, Rest
  <2>11. x <=> broken \/ f \in d.torn  BY <2>1, <2>8
  <2>12. Tail(q) = <<>> \/ Left(Tail(q), d, broken)  BY <2>10, <2>11 DEF Left
  <2> QED BY <2>7, <2>8, <2>12
<1> QED BY <1>1, <1>2 DEF Left

-----------------------------------------------------------------------------
(* Init, and the steps on whole files                                      *)

LEMMA InitStoreInv == StoreInit => StoreInv
<1> SUFFICES ASSUME StoreInit PROVE StoreInv  OBVIOUS
<1> USE DEF StoreInit
<1>0. Blank \in Stored /\ Legacy \in Stored /\ NoFile \in Stored /\ ~NoFile.there
  BY BlankWhole, LegacyWhole DEF Whole, Stored, NoFile
<1>1. PICK m \in Stored, w \in Stored:
        /\ disk = [legacy |-> [main |-> m, wal |-> w], work |-> [main |-> NoFile, wal |-> NoFile]]
        /\ m.there => Whole(m)
        /\ w.there => Whole(w) /\ m.there
  <2>1. PICK old \in {[main |-> NoFile, wal |-> NoFile], [main |-> Legacy, wal |-> NoFile],
                      [main |-> Blank, wal |-> Legacy]}:
          disk = [legacy |-> old, work |-> [main |-> NoFile, wal |-> NoFile]]
    OBVIOUS
  <2>2. CASE old = [main |-> NoFile, wal |-> NoFile]  BY <1>0, <2>1, <2>2
  <2>3. CASE old = [main |-> Legacy, wal |-> NoFile]  BY <1>0, <2>1, <2>3, LegacyWhole
  <2>4. CASE old = [main |-> Blank, wal |-> Legacy]
    BY <1>0, <2>1, <2>4, LegacyWhole, BlankWhole
  <2> QED BY <2>1, <2>2, <2>3, <2>4
<1>2. /\ disk["legacy"]["main"] = m /\ disk["legacy"]["wal"] = w
      /\ disk["work"]["main"] = NoFile /\ disk["work"]["wal"] = NoFile
  BY <1>1
<1>3. disk \in [legacy: Places, work: Places]  BY <1>0, <1>1 DEF Places
<1>4. Content("legacy") \in Stored  BY <1>2 DEF Content
<1>5. StoreTyped
  <2>1. first \in [old: Stored, found: Stored, whole: BOOLEAN]  BY <1>0, <1>4
  <2>2. \A p \in {"legacy", "work"}: \A k \in {"main", "wal"}: disk[p][k] \in Stored
    BY <1>0, <1>1, <1>2
  <2>3. writes \in 0..MaxWrites /\ errors \in 0..MaxErrors /\ deaths \in 0..MaxDeaths
    BY StoreAssumption
  <2>4. StoreTypeOK  BY <1>0, <2>2, <2>3 DEF StoreTypeOK, Stored
  <2> QED BY <1>3, <2>1, <2>4 DEF StoreTyped
<1>6. DiskWhole  BY <1>0, <1>1, <1>2 DEF DiskWhole
<1>7. FilesFit /\ PendingFits /\ Moving  BY <1>0, <1>2 DEF FilesFit, PendingFits, Moving
<1>8. first.found = NoFile /\ first.old = Content("legacy")  OBVIOUS
<1>9. LegacyAdopted  BY <1>0, <1>8 DEF LegacyAdopted
<1>10. Adopting  BY <1>0, <1>1, <1>2, <1>8 DEF Adopting
<1> QED BY <1>5, <1>6, <1>7, <1>9, <1>10 DEF StoreInv

-----------------------------------------------------------------------------
(* The steps within a connection                                           *)

LEMMA JoinOneTwoOne ==
  ASSUME NEW a, NEW b, NEW c, NEW d
  PROVE  <<a>> \o <<b, c>> \o <<d>> = <<a, b, c, d>>
<1> DEFINE S == {a, b, c, d}
<1>1. PICK r: r = <<a>> \o <<b, c>>  OBVIOUS
<1>2. <<a>> \in Seq(S) /\ <<b, c>> \in Seq(S) /\ <<d>> \in Seq(S) /\ Len(<<a>>) = 1
      /\ Len(<<b, c>>) = 2 /\ Len(<<d>>) = 1
  OBVIOUS
<1>3. r \in Seq(S) /\ Len(r) = 3 /\ r[1] = a /\ r[2] = b /\ r[3] = c
  BY <1>1, <1>2, ConcatProperties
<1>4. PICK t: t = r \o <<d>>  OBVIOUS
<1>5. t \in Seq(S) /\ Len(t) = 4 /\ t[1] = a /\ t[2] = b /\ t[3] = c /\ t[4] = d
  BY <1>2, <1>3, <1>4, ConcatProperties
<1>6. t = <<t[1], t[2], t[3], t[4]>>  BY <1>5
<1> QED BY <1>1, <1>4, <1>5, <1>6

LEMMA JoinSixOne ==
  ASSUME NEW S, NEW r \in Seq(S), NEW u \in Seq(S), Len(r) = 6, Len(u) = 1
  PROVE  r \o u = <<r[1], r[2], r[3], r[4], r[5], r[6], u[1]>>
<1>1. r \o u \in Seq(S) /\ Len(r \o u) = Len(r) + Len(u)  BY ConcatProperties
<1>2. \A i \in 1 .. Len(r) + Len(u):
         (r \o u)[i] = IF i <= Len(r) THEN r[i] ELSE u[i - Len(r)]
  BY ConcatProperties
<1>3. PICK t: t = r \o u  BY Zenon
<1>4. t \in Seq(S) /\ Len(t) = 7  BY <1>1, <1>3
<1>5. \A i \in 1 .. Len(r) + Len(u): t[i] = IF i <= Len(r) THEN r[i] ELSE u[i - Len(r)]
  BY <1>2, <1>3, Zenon
<1>6. ASSUME NEW i \in 1..6 PROVE t[i] = r[i]  BY <1>5
<1>7. t[7] = u[1]
  <2>1. 7 \in 1 .. Len(r) + Len(u) /\ ~(7 <= Len(r)) /\ 7 - Len(r) = 1  OBVIOUS
  <2> QED BY <2>1, <1>5
<1>8. t = <<t[1], t[2], t[3], t[4], t[5], t[6], t[7]>>  BY <1>4
<1>9. /\ t[1] = r[1] /\ t[2] = r[2] /\ t[3] = r[3] /\ t[4] = r[4] /\ t[5] = r[5]
      /\ t[6] = r[6] /\ t[7] = u[1]
  BY <1>6, <1>7
<1> QED BY <1>3, <1>8, <1>9

LEMMA JoinFourTwoOne ==
  ASSUME NEW a, NEW b, NEW c, NEW d, NEW e, NEW f, NEW g
  PROVE  <<a, b, c, d>> \o <<e, f>> \o <<g>> = <<a, b, c, d, e, f, g>>
<1> DEFINE S == {a, b, c, d, e, f, g}
<1>1. PICK r: r = <<a, b, c, d>> \o <<e, f>>  OBVIOUS
<1>2. <<a, b, c, d>> \in Seq(S) /\ <<e, f>> \in Seq(S)
      /\ Len(<<a, b, c, d>>) = 4 /\ Len(<<e, f>>) = 2
  OBVIOUS
<1>3. r \in Seq(S) /\ Len(r) = 6 /\ r[1] = a /\ r[2] = b /\ r[3] = c /\ r[4] = d
      /\ r[5] = e /\ r[6] = f
  BY <1>1, <1>2, ConcatProperties
<1>6. <<g>> \in Seq(S) /\ Len(<<g>>) = 1 /\ <<g>>[1] = g  OBVIOUS
<1>7. PICK u: u = <<g>>  BY Zenon
<1>4. u \in Seq(S) /\ Len(u) = 1 /\ u[1] = g  BY <1>6, <1>7
<1> HIDE DEF S
<1>5. r \o u = <<r[1], r[2], r[3], r[4], r[5], r[6], u[1]>>  BY <1>3, <1>4, JoinSixOne
<1> QED BY <1>1, <1>3, <1>4, <1>5, <1>7

LEMMA OperationsBegin ==
  ASSUME pending \in Databases, NEW id \in Ids, id # 0, NEW q \in Operations(id)
  PROVE  Begun(q)
<1>1. CASE \E f \in Files: q = <<Statement("insert_scored", {f}, id)>> \o ReplaceSignals(f, id)
                               \o <<Statement("commit", {f}, 0)>>
  <2>1. PICK f \in Files: q = <<Statement("insert_scored", {f}, id)>> \o ReplaceSignals(f, id)
                               \o <<Statement("commit", {f}, 0)>>
    BY <1>1
  <2>2. q = <<Insert(f, id)>> \o <<Drop(f), Add(f, id)>> \o <<Commit(f)>>
    BY <2>1 DEF ReplaceSignals, Insert, Drop, Add, Commit, On
  <2>3. q = <<Insert(f, id), Drop(f), Add(f, id), Commit(f)>>  BY <2>2, JoinOneTwoOne
  <2> QED BY <2>3 DEF Begun, Scoring
<1>2. CASE \E f \in Files: \E s \in {id, pending.row[f].score} \ {0}:
             q = <<Statement("append", {f}, id), Statement("project", {f}, id),
                   Statement("commit", {f}, 0), [Statement("insert_done", {f}, id) EXCEPT !.score = s]>>
                 \o ReplaceSignals(f, s) \o <<Statement("commit", {f}, 0)>>
  <2>1. PICK f \in Files: \E s \in {id, pending.row[f].score} \ {0}:
             q = <<Statement("append", {f}, id), Statement("project", {f}, id),
                   Statement("commit", {f}, 0), [Statement("insert_done", {f}, id) EXCEPT !.score = s]>>
                 \o ReplaceSignals(f, s) \o <<Statement("commit", {f}, 0)>>
    BY <1>2
  <2>2. PICK s \in {id, pending.row[f].score}:
             q = <<Statement("append", {f}, id), Statement("project", {f}, id),
                   Statement("commit", {f}, 0), [Statement("insert_done", {f}, id) EXCEPT !.score = s]>>
                 \o ReplaceSignals(f, s) \o <<Statement("commit", {f}, 0)>>
    BY <2>1
  <2>3. q = <<On("append", f, id), On("project", f, id), Commit(f), Done(f, id, s)>>
            \o <<Drop(f), Add(f, s)>> \o <<Commit(f)>>
    BY <2>2 DEF ReplaceSignals, Drop, Add, Commit, On, Done
  <2>4. q = <<On("append", f, id), On("project", f, id), Commit(f), Done(f, id, s), Drop(f),
              Add(f, s), Commit(f)>>
    BY <2>3, JoinFourTwoOne
  <2>5. s \in Ids
    <3>1. pending.row[f] \in Rows  BY TablesOf DEF Tables
    <3> QED BY <3>1 DEF Rows
  <2> QED BY <2>4, <2>5 DEF Begun, Writing
<1>3. CASE \E f \in Files: q = <<Statement("append", {f}, id), Statement("project", {f}, id),
                                 Statement("commit", {f}, 0)>>
  BY <1>3 DEF Begun, Alone, On, Commit
<1>4. CASE \E f \in Files: q = <<Statement("append_own", {f}, id), Statement("project", {f}, id),
                                 Statement("own", {f}, id), Statement("commit", {f}, 0)>>
  BY <1>4 DEF Begun, Owning, On, AppendOwn, Commit
<1>5. CASE q = <<Statement("clear_rows", Files, 0), Statement("clear_signals", Files, 0),
                 Statement("commit", Files, 0)>>
  BY <1>5 DEF Begun, Clearing, ClearRows, ClearSignals, CommitAll
<1> DEFINE
      A == {<<Statement("insert_scored", {f}, id)>> \o ReplaceSignals(f, id)
              \o <<Statement("commit", {f}, 0)>>: f \in Files}
      B(f) == {<<Statement("append", {f}, id), Statement("project", {f}, id),
                 Statement("commit", {f}, 0), [Statement("insert_done", {f}, id) EXCEPT !.score = s]>>
                 \o ReplaceSignals(f, s) \o <<Statement("commit", {f}, 0)>>:
                 s \in {id, pending.row[f].score} \ {0}}
      C == {<<Statement("append", {f}, id), Statement("project", {f}, id),
              Statement("commit", {f}, 0)>>: f \in Files}
      D == {<<Statement("append_own", {f}, id), Statement("project", {f}, id),
              Statement("own", {f}, id), Statement("commit", {f}, 0)>>: f \in Files}
      E == {<<Statement("clear_rows", Files, 0), Statement("clear_signals", Files, 0),
              Statement("commit", Files, 0)>>}
<1>6. Operations(id) = UNION {A, UNION {B(f): f \in Files}, C, D, E}  BY Zenon DEF Operations
<1>7. q \in A \/ (\E f \in Files: q \in B(f)) \/ q \in C \/ q \in D \/ q \in E
  <2> HIDE DEF A, B, C, D, E
  <2> QED BY <1>6
<1> QED BY <1>1, <1>2, <1>3, <1>4, <1>5, <1>7

LEMMA StoredKinds == \A d \in Stored: (d.there => d \in Databases) /\ (~d.there => d = NoFile)
<1>1. ~NoFile.there  BY DEF NoFile
<1> QED BY <1>1, TablesOf DEF Stored

\* The four files.
LEMMA DiskFiles ==
  ASSUME NEW d \in [legacy: Places, work: Places]
  PROVE  /\ d["legacy"]["main"] \in Stored /\ d["legacy"]["wal"] \in Stored
         /\ d["work"]["main"] \in Stored /\ d["work"]["wal"] \in Stored
  BY DEF Places

LEMMA OpenContent ==
  ASSUME StoreInv, process = "open"
  PROVE  Whole(Content("work")) /\ Content("work") \in Databases
<1>1. disk["work"]["main"].there  BY DEF StoreInv, FilesFit
<1>2. \A k \in {"main", "wal"}: disk["work"][k].there => Whole(disk["work"][k])
  BY DEF StoreInv, DiskWhole
<1>3. Whole(Content("work"))  BY <1>1, <1>2 DEF Content
<1> QED BY <1>3 DEF Whole

\* A step within a connection that leaves the database files alone.
LEMMA FilesStay ==
  ASSUME StoreInv, process = "open", process' = "open", StoreTypeOK',
         UNCHANGED <<disk, external, first>>
  PROVE  StoreTyped' /\ DiskWhole' /\ FilesFit' /\ Moving' /\ Adopting' /\ LegacyAdopted'
<1>1. DiskWhole'
  BY DEF StoreInv, DiskWhole
<1>2. FilesFit' /\ Moving'  BY DEF StoreInv, FilesFit, Moving, HalfMoved
<1>3. LegacyAdopted'  BY DEF StoreInv, LegacyAdopted
<1>4. Adopting'  BY DEF StoreInv, FilesFit, Adopting
<1>5. StoreTyped'  BY DEF StoreInv, StoreTyped
<1> QED BY <1>1, <1>2, <1>3, <1>4, <1>5

LEMMA BeginKeepsStoreInv == ASSUME StoreInv, BeginOperation PROVE StoreInv'
<1> USE DEF BeginOperation
<1>1. process' = "open" /\ StoreTypeOK /\ writes \in 0..MaxWrites
  BY DEF StoreInv, StoreTyped, StoreTypeOK
<1>2. writes + 2 \in Ids /\ writes + 2 # 0 /\ writes' \in 0..MaxWrites
  BY <1>1, StoreAssumption DEF Ids
<1>3. StoreTypeOK'  BY <1>1, <1>2 DEF StoreTypeOK
<1>4. transaction = "none" /\ Whole(pending) /\ pending \in Databases
  BY DEF StoreInv, PendingFits, Left, OneLeft, ClearLeft, SignalsLeft, ProjectLeft, DoneLeft,
         OwnLeft, CommitLeft
<1>5. Begun(todo')  BY <1>2, <1>4, OperationsBegin
<1>6. PendingFits'  BY <1>4, <1>5 DEF PendingFits
<1> QED BY <1>1, <1>3, <1>6, FilesStay DEF StoreInv

LEMMA ExecuteKeepsStoreInv == ASSUME StoreInv, Execute PROVE StoreInv'
<1> USE DEF Execute
<1>1. process = "open" /\ process' = "open" /\ StoreTypeOK /\ PendingFits
  BY DEF StoreInv, StoreTyped
<1>2. ~doomed /\ pending \in Databases  BY <1>1 DEF PendingFits
<1>3. /\ pending' \in Databases /\ transaction' \in {"open", "broken"}
      /\ Left(todo', pending', transaction' = "broken")
  <2>1. CASE transaction = "none"
    <3>1. Begun(todo) /\ Whole(pending)  BY <1>1, <1>2, <2>1 DEF PendingFits
    <3>2. transaction' = "open" /\ ~(transaction' = "broken")  BY <2>1
    <3>3. pending' \in Databases /\ Left(todo', pending', FALSE)  BY <3>1, FirstStatement
    <3> QED BY <3>2, <3>3
  <2>2. CASE transaction # "none"
    <3>1. Left(todo, pending, transaction = "broken")  BY <1>1, <2>2 DEF PendingFits
    <3>2. PICK b \in BOOLEAN: b <=> transaction = "broken"  BY Zenon
    <3>3. Left(todo, pending, b)  BY <3>1, <3>2
    <3>4. pending' \in Databases /\ Left(todo', pending', b)  BY <1>2, <3>3, NextStatement
    <3>5. b <=> transaction' = "broken"  BY <3>2
    <3>6. Left(todo', pending', transaction' = "broken")  BY <3>4, <3>5
    <3> QED BY <3>4, <3>6
  <2> QED BY <2>1, <2>2
<1>4. StoreTypeOK'  BY <1>1, <1>3 DEF StoreTypeOK
<1>5. PendingFits'  BY <1>1, <1>2, <1>3 DEF PendingFits
<1> QED BY <1>1, <1>4, <1>5, FilesStay DEF StoreInv

LEMMA FailureKeepsStoreInv == ASSUME StoreInv, StatementFails PROVE StoreInv'
<1> USE DEF StatementFails
<1>1. /\ process = "open" /\ process' = "open" /\ StoreTypeOK /\ PendingFits
      /\ errors \in 0..MaxErrors
  BY DEF StoreInv, StoreTyped, StoreTypeOK
<1>2. Whole(Content("work")) /\ Content("work") \in Databases  BY <1>1, OpenContent
<1>3. pending' \in Databases /\ doomed' \in BOOLEAN /\ (doomed' \/ Whole(pending'))
  <2>1. CASE doomed' = (transaction # "none") /\ UNCHANGED pending
    <3>1. pending \in Databases /\ (transaction = "none" => doomed \/ Whole(pending)) /\ ~doomed
      BY <1>1 DEF PendingFits
    <3> QED BY <2>1, <3>1
  <2>2. CASE doomed' = FALSE /\ pending' = Content("work")  BY <1>2, <2>2
  <2> QED BY <2>1, <2>2
<1>4. errors' \in 0..MaxErrors  BY <1>1, StoreAssumption
<1>5. StoreTypeOK'  BY <1>1, <1>3, <1>4 DEF StoreTypeOK
<1>6. PendingFits'  BY <1>1, <1>3 DEF PendingFits
<1> QED BY <1>1, <1>5, <1>6, FilesStay DEF StoreInv

-----------------------------------------------------------------------------
(* The steps that write the database files of an open connection           *)

\* Files of a database in its place, with any contents that are whole.
LEMMA FilesWritten ==
  ASSUME StoreInv, process = "open", UNCHANGED <<external, first>>, process' \in {"open", "closed"},
         NEW m \in Databases, NEW w \in Stored, Whole(m), w.there => Whole(w),
         disk' = [disk EXCEPT !["work"] = [main |-> m, wal |-> w]]
  PROVE  /\ disk' \in [legacy: Places, work: Places]
         /\ \A p \in {"legacy", "work"}: \A k \in {"main", "wal"}: disk'[p][k] \in Stored
         /\ DiskWhole' /\ FilesFit' /\ Moving' /\ Adopting' /\ LegacyAdopted'
<1>1. m \in Stored /\ m.there  BY TablesOf DEF Stored
<1>2. disk \in [legacy: Places, work: Places]  BY DEF StoreInv, StoreTyped
<1>3. [main |-> m, wal |-> w] \in Places  BY <1>1 DEF Places
<1>4. disk' \in [legacy: Places, work: Places]  BY <1>2, <1>3
<1>5. /\ disk'["work"]["main"] = m /\ disk'["work"]["wal"] = w
      /\ disk'["legacy"] = disk["legacy"]
  BY <1>2
<1>6. \A p \in {"legacy", "work"}: \A k \in {"main", "wal"}: disk'[p][k] \in Stored
  BY <1>1, <1>2, <1>5, DiskFiles
<1>7. DiskWhole'  BY <1>5 DEF StoreInv, DiskWhole
<1>8. FilesFit'  BY <1>1, <1>5 DEF StoreInv, FilesFit
<1>9. LegacyAdopted'  BY DEF StoreInv, LegacyAdopted
<1>10. Adopting'  BY DEF StoreInv, FilesFit, Adopting
<1>11. Moving'  BY DEF Moving
<1> QED BY <1>4, <1>6, <1>7, <1>8, <1>9, <1>10, <1>11

\* A recovery excuses the photos of its operation: what is left of it is left
\* of any whole content.
LEMMA BrokenLeft ==
  ASSUME NEW c, NEW b, NEW q, Left(q, c, b), NEW kept, Whole(kept)
  PROVE  Left(q, kept, TRUE)
<1>1. CASE ClearLeft(q, c, b)  BY <1>1 DEF Left, ClearLeft
<1>2. ASSUME NEW f \in Files, OneLeft(q, c, f, b \/ f \in c.torn)
      PROVE  Left(q, kept, TRUE)
  <2>1. PICK x: OneLeft(q, c, f, x)  BY <1>2
  <2>2. CASE SignalsLeft(q, c, f, x)
    <3>1. SignalsLeft(q, kept, f, TRUE)  BY <2>2 DEF SignalsLeft
    <3> QED BY <3>1 DEF Left, OneLeft, Whole
  <2>3. CASE ProjectLeft(q, c, f, x)
    <3>1. ProjectLeft(q, kept, f, TRUE)  BY <2>3 DEF ProjectLeft
    <3> QED BY <3>1 DEF Left, OneLeft, Whole
  <2>4. CASE DoneLeft(q, c, f, x)
    <3>1. DoneLeft(q, kept, f, TRUE)  BY <2>4 DEF DoneLeft
    <3> QED BY <3>1 DEF Left, OneLeft, Whole
  <2>5. CASE OwnLeft(q, c, f, x)
    <3>1. OwnLeft(q, kept, f, TRUE)  BY <2>5 DEF OwnLeft
    <3> QED BY <3>1 DEF Left, OneLeft, Whole
  <2>6. CASE CommitLeft(q, c, f, x)
    <3>1. CommitLeft(q, kept, f, TRUE)  BY <2>6 DEF CommitLeft
    <3> QED BY <3>1 DEF Left, OneLeft, Whole
  <2> QED BY <2>1, <2>2, <2>3, <2>4, <2>5, <2>6 DEF OneLeft
<1> QED BY <1>1, <1>2 DEF Left

LEMMA CommitKeepsStoreInv == ASSUME StoreInv, CommitStore PROVE StoreInv'
<1> USE DEF CommitStore
<1>1. /\ process = "open" /\ process' = "open" /\ StoreTypeOK /\ PendingFits
      /\ disk \in [legacy: Places, work: Places]
      /\ disk["work"]["main"].there /\ DiskWhole
  BY DEF StoreInv, StoreTyped, FilesFit
<1>2. pending \in Databases /\ ~doomed  BY <1>1 DEF PendingFits
<1>3. PICK b \in BOOLEAN: b <=> transaction = "broken"  BY Zenon
<1>4. transaction # "none" /\ Left(todo, pending, b)
  <2>1. transaction # "none"
    <3>1. SUFFICES ASSUME transaction = "none" PROVE FALSE  OBVIOUS
    <3>2. Begun(todo)  BY <1>1, <3>1 DEF PendingFits
    <3>3. ASSUME NEW f \in Files PROVE ~Scoring(todo, f) /\ ~Writing(todo, f)
      <4>1. \A id: Head(<<Insert(f, id), Drop(f), Add(f, id), Commit(f)>>) = Insert(f, id)
        OBVIOUS
      <4>2. \A id, s: Head(<<On("append", f, id), On("project", f, id), Commit(f), Done(f, id, s),
                             Drop(f), Add(f, s), Commit(f)>>) = On("append", f, id)
        OBVIOUS
      <4> QED BY <4>1, <4>2, Kinds DEF Scoring, Writing
    <3>4. ASSUME NEW f \in Files PROVE ~Alone(todo, f) /\ ~Owning(todo, f)
      <4>1. \A id: Head(<<On("append", f, id), On("project", f, id), Commit(f)>>) = On("append", f, id)
        OBVIOUS
      <4>2. \A id: Head(<<AppendOwn(f, id), On("project", f, id), On("own", f, id), Commit(f)>>)
                     = AppendOwn(f, id)
        OBVIOUS
      <4> QED BY <4>1, <4>2, Kinds DEF Alone, Owning
    <3>5. Head(<<ClearRows, ClearSignals, CommitAll>>) = ClearRows  OBVIOUS
    <3>6. ~Clearing(todo)  BY <3>5, Kinds DEF Clearing
    <3> QED BY <3>2, <3>3, <3>4, <3>6 DEF Begun
  <2> QED BY <1>1, <1>3, <2>1 DEF PendingFits
<1>5. pending' = Committed(todo, pending, b)  BY <1>3 DEF Committed
<1>6. Whole(pending') /\ (todo' = <<>> \/ Left(todo', pending', b))
  BY <1>2, <1>4, <1>5, CommitStep
<1>7. pending' \in Databases /\ pending' \in Stored  BY <1>6 DEF Whole, Stored
<1>8. disk' = [disk EXCEPT !["work"] = [main |-> disk["work"]["main"], wal |-> pending']]
  <2>1. disk["work"] \in Places  BY <1>1
  <2>2. \A c: [disk["work"] EXCEPT !.wal = c] = [main |-> disk["work"]["main"], wal |-> c]
    BY <2>1 DEF Places
  <2> QED BY <2>2
<1>9. disk["work"]["main"] \in Databases /\ Whole(disk["work"]["main"])
  BY <1>1 DEF DiskWhole, Whole
<1>10. /\ disk' \in [legacy: Places, work: Places]
       /\ \A p \in {"legacy", "work"}: \A k \in {"main", "wal"}: disk'[p][k] \in Stored
       /\ DiskWhole' /\ FilesFit' /\ Moving' /\ Adopting' /\ LegacyAdopted'
  BY <1>1, <1>6, <1>7, <1>8, <1>9, FilesWritten
<1>11. transaction' \in {"none", "between", "broken"}  OBVIOUS
<1>12. StoreTyped'
  <2>1. first \in [old: Stored, found: Stored, whole: BOOLEAN]  BY DEF StoreInv, StoreTyped
  <2>2. StoreTypeOK'  BY <1>1, <1>7, <1>10, <1>11 DEF StoreTypeOK, Stored
  <2> QED BY <1>10, <2>1, <2>2 DEF StoreTyped
<1>13. PendingFits'
  <2>1. todo' = <<>> => transaction' = "none"  OBVIOUS
  <2>2. todo' # <<>> => transaction' # "none" /\ (b <=> transaction' = "broken")
    BY <1>3, <1>4
  <2>3. todo' # <<>> => Left(todo', pending', transaction' = "broken")  BY <1>6, <2>2
  <2> QED BY <1>1, <1>2, <1>6, <1>7, <2>1, <2>2, <2>3 DEF PendingFits
<1> QED BY <1>10, <1>12, <1>13 DEF StoreInv

LEMMA CheckpointKeepsStoreInv == ASSUME StoreInv, CheckpointStore PROVE StoreInv'
<1> USE DEF CheckpointStore
<1>1. /\ process = "open" /\ process' = "open" /\ StoreTypeOK /\ PendingFits
      /\ disk \in [legacy: Places, work: Places] /\ DiskWhole
  BY DEF StoreInv, StoreTyped, Process
<1>2. Whole(Content("work")) /\ Content("work") \in Databases  BY <1>1, OpenContent
<1>3. disk' = [disk EXCEPT !["work"] = [main |-> Content("work"), wal |-> disk["work"]["wal"]]]
  <2>1. disk["work"] \in Places  BY <1>1
  <2>2. \A c: [disk["work"] EXCEPT !.main = c] = [main |-> c, wal |-> disk["work"]["wal"]]
    BY <2>1 DEF Places
  <2> QED BY <2>2
<1>4. disk["work"]["wal"] \in Stored /\ (disk["work"]["wal"].there => Whole(disk["work"]["wal"]))
  BY <1>1, DiskFiles DEF DiskWhole
<1>5. /\ disk' \in [legacy: Places, work: Places]
      /\ \A p \in {"legacy", "work"}: \A k \in {"main", "wal"}: disk'[p][k] \in Stored
      /\ DiskWhole' /\ FilesFit' /\ Moving' /\ Adopting' /\ LegacyAdopted'
  BY <1>1, <1>2, <1>3, <1>4, FilesWritten
<1>6. StoreTyped'
  <2>1. first \in [old: Stored, found: Stored, whole: BOOLEAN]  BY DEF StoreInv, StoreTyped
  <2>2. StoreTypeOK'  BY <1>1, <1>5 DEF StoreTypeOK, Stored, Process
  <2> QED BY <1>5, <2>1, <2>2 DEF StoreTyped
<1>7. PendingFits'  BY <1>1 DEF PendingFits, Process
<1> QED BY <1>5, <1>6, <1>7 DEF StoreInv

LEMMA RecoverKeepsStoreInv == ASSUME StoreInv, RecoverStore PROVE StoreInv'
<1> USE DEF RecoverStore
<1>1. /\ process = "open" /\ process' = "open" /\ StoreTypeOK /\ PendingFits
      /\ disk \in [legacy: Places, work: Places]
      /\ disk["work"]["main"].there /\ DiskWhole /\ errors \in 0..MaxErrors
  BY DEF StoreInv, StoreTyped, StoreTypeOK, FilesFit
<1>2. Whole(Content("work")) /\ Content("work") \in Databases  BY <1>1, OpenContent
<1>3. Whole(disk["work"]["main"])  BY <1>1 DEF DiskWhole
<1>4. PICK kept \in {Content("work"), disk["work"]["main"]}:
        disk' = [disk EXCEPT !["work"] = [main |-> kept, wal |-> NoFile]] /\ pending' = kept
  OBVIOUS
<1>5. Whole(kept) /\ kept \in Databases  BY <1>2, <1>3, <1>4 DEF Whole
<1>6. NoFile \in Stored /\ ~NoFile.there  BY DEF Stored, NoFile
<1>7. /\ disk' \in [legacy: Places, work: Places]
      /\ \A p \in {"legacy", "work"}: \A k \in {"main", "wal"}: disk'[p][k] \in Stored
      /\ DiskWhole' /\ FilesFit' /\ Moving' /\ Adopting' /\ LegacyAdopted'
  BY <1>1, <1>4, <1>5, <1>6, FilesWritten
<1>8. errors' \in 0..MaxErrors /\ transaction' \in {"none", "broken"}  BY <1>1, StoreAssumption
<1>9. StoreTyped'
  <2>1. first \in [old: Stored, found: Stored, whole: BOOLEAN]  BY DEF StoreInv, StoreTyped
  <2>2. StoreTypeOK'  BY <1>1, <1>4, <1>5, <1>7, <1>8 DEF StoreTypeOK, Stored
  <2> QED BY <1>7, <2>1, <2>2 DEF StoreTyped
<1>10. PendingFits'
  <2>1. CASE transaction = "none"
    <3>1. Begun(todo) /\ ~doomed  BY <1>1, <2>1 DEF PendingFits
    <3> QED BY <1>1, <1>4, <1>5, <2>1, <3>1 DEF PendingFits
  <2>2. CASE transaction # "none"
    <3>1. Left(todo, pending, transaction = "broken") /\ ~doomed
      BY <1>1, <2>2 DEF PendingFits
    <3>2. Left(todo, kept, TRUE)  BY <1>5, <3>1, BrokenLeft
    <3>3. transaction' = "broken"  BY <2>2
    <3>4. Left(todo', pending', transaction' = "broken")  BY <1>4, <3>2, <3>3
    <3> QED BY <1>1, <1>4, <1>5, <3>1, <3>3, <3>4 DEF PendingFits
  <2> QED BY <2>1, <2>2
<1> QED BY <1>7, <1>9, <1>10 DEF StoreInv

LEMMA CloseKeepsStoreInv == ASSUME StoreInv, CloseStore PROVE StoreInv'
<1> USE DEF CloseStore
<1>1. /\ process = "open" /\ process' = "closed" /\ StoreTypeOK /\ PendingFits
      /\ disk \in [legacy: Places, work: Places]
  BY DEF StoreInv, StoreTyped
<1>2. Whole(Content("work")) /\ Content("work") \in Databases  BY <1>1, OpenContent
<1>3. NoFile \in Stored /\ ~NoFile.there  BY DEF Stored, NoFile
<1>4. /\ disk' \in [legacy: Places, work: Places]
      /\ \A p \in {"legacy", "work"}: \A k \in {"main", "wal"}: disk'[p][k] \in Stored
      /\ DiskWhole' /\ FilesFit' /\ Moving' /\ Adopting' /\ LegacyAdopted'
  BY <1>1, <1>2, <1>3, FilesWritten
<1>5. StoreTyped'
  <2>1. first \in [old: Stored, found: Stored, whole: BOOLEAN]  BY DEF StoreInv, StoreTyped
  <2>2. StoreTypeOK'  BY <1>1, <1>4 DEF StoreTypeOK, Stored
  <2> QED BY <1>4, <2>1, <2>2 DEF StoreTyped
<1>6. transaction = "none"
  <2>1. ASSUME transaction # "none" PROVE FALSE
    <3>1. Left(<<>>, pending, transaction = "broken")  BY <1>1, <2>1 DEF PendingFits
    <3> QED BY <3>1 DEF Left, OneLeft, ClearLeft, SignalsLeft, ProjectLeft, DoneLeft, OwnLeft,
                        CommitLeft
  <2> QED BY <2>1
<1>7. PendingFits'  BY <1>1, <1>6 DEF PendingFits
<1> QED BY <1>4, <1>5, <1>7 DEF StoreInv

-----------------------------------------------------------------------------
(* The steps outside a connection                                          *)

LEMMA StartKeepsStoreInv == ASSUME StoreInv, StartStore PROVE StoreInv'
<1> USE DEF StartStore
<1>1. process = "closed" /\ process' = "moving" /\ todo = <<>>
  BY DEF StoreInv, PendingFits
<1>2. StoreTyped'  BY <1>1 DEF StoreInv, StoreTyped, StoreTypeOK
<1>3. DiskWhole'  BY DEF StoreInv, DiskWhole
<1>4. FilesFit'  BY <1>1 DEF StoreInv, FilesFit
<1>5. PendingFits'
  <2>1. transaction = "none" /\ ~doomed /\ pending = NoFile  BY <1>1 DEF StoreInv, PendingFits
  <2> QED BY <1>1, <2>1 DEF PendingFits
<1>6. Moving'  BY <1>1 DEF Moving
<1>7. ~HalfMoved /\ ~HalfMoved'
  <2>1. Sidecars # <<"wal">> /\ <<>> # <<"wal">>
    <3>1. Head(<<"main", "wal">>) = "main" /\ Head(<<"wal">>) = "wal"  OBVIOUS
    <3> QED BY <3>1 DEF Sidecars
  <2> QED BY <1>1, <2>1 DEF HalfMoved
<1>8. Adopting'  BY <1>7 DEF StoreInv, Adopting, Content
<1>9. LegacyAdopted'  BY DEF StoreInv, LegacyAdopted
<1> QED BY <1>2, <1>3, <1>4, <1>5, <1>6, <1>8, <1>9 DEF StoreInv

LEMMA MoveKeepsStoreInv == ASSUME StoreInv, MoveFile PROVE StoreInv'
<1> USE DEF MoveFile
<1>1. /\ process = "moving" /\ process' = "moving" /\ todo # <<>>
      /\ disk \in [legacy: Places, work: Places] /\ StoreTypeOK
  BY DEF StoreInv, StoreTyped
<1>2. /\ disk["legacy"]["main"] \in Stored /\ disk["legacy"]["wal"] \in Stored
      /\ disk["work"]["main"] \in Stored /\ disk["work"]["wal"] \in Stored
  BY <1>1, DiskFiles
<1>3. NoFile \in Stored /\ ~NoFile.there  BY DEF Stored, NoFile
<1>4. PendingFits'
  <2>1. transaction = "none" /\ ~doomed /\ pending = NoFile  BY <1>1 DEF StoreInv, PendingFits
  <2> QED BY <1>1, <2>1 DEF PendingFits
<1>5. LegacyAdopted'  BY DEF StoreInv, LegacyAdopted
<1>6. first \in [old: Stored, found: Stored, whole: BOOLEAN]  BY DEF StoreInv, StoreTyped
<1>7. CASE todo = Sidecars
  <2>1. /\ ~external /\ disk["legacy"]["main"].there /\ ~disk["work"]["main"].there
        /\ ~HalfMoved /\ ~disk["work"]["wal"].there
    <3>1. Sidecars # <<"wal">> /\ Sidecars # <<>>
      <4>1. Head(<<"main", "wal">>) = "main" /\ Head(<<"wal">>) = "wal"  OBVIOUS
      <4> QED BY <4>1 DEF Sidecars
    <3> QED BY <1>1, <1>7, <3>1 DEF StoreInv, Moving, HalfMoved, FilesFit
  <2>2. Head(todo) = "main" /\ todo' = <<"wal">>  BY <1>7 DEF Sidecars
  <2>3. disk' = [disk EXCEPT !["work"]["main"] = disk["legacy"]["main"], !["legacy"]["main"] = NoFile]
    BY <2>1, <2>2
  <2>4. /\ disk'["work"]["main"] = disk["legacy"]["main"] /\ disk'["legacy"]["main"] = NoFile
        /\ disk'["work"]["wal"] = disk["work"]["wal"] /\ disk'["legacy"]["wal"] = disk["legacy"]["wal"]
    BY <1>1, <2>3 DEF Places
  <2>5. disk' \in [legacy: Places, work: Places]  BY <1>1, <1>2, <1>3, <2>3 DEF Places
  <2>6. \A p \in {"legacy", "work"}: \A k \in {"main", "wal"}: disk'[p][k] \in Stored
    BY <1>2, <1>3, <2>4
  <2>7. StoreTyped'  BY <1>1, <1>6, <2>5, <2>6 DEF StoreTyped, StoreTypeOK, Stored
  <2>8. DiskWhole'  BY <1>3, <2>4 DEF StoreInv, DiskWhole
  <2>9. FilesFit'  BY <1>1, <2>1, <2>4 DEF StoreInv, FilesFit
  <2>10. HalfMoved'  BY <1>1, <2>2 DEF HalfMoved
  <2>11. Moving'  BY <1>3, <2>1, <2>4, <2>10 DEF Moving
  <2>12. Adopting'
    <3>1. ~first.found.there /\ first.whole => first.old = Content("legacy")
      BY <2>1 DEF StoreInv, Adopting
    <3>2. Content("legacy") = IF disk'["legacy"]["wal"].there THEN disk'["legacy"]["wal"]
                              ELSE disk'["work"]["main"]
      BY <2>4 DEF Content
    <3> QED BY <2>10, <3>1, <3>2 DEF Adopting
  <2> QED BY <1>4, <1>5, <2>7, <2>8, <2>9, <2>11, <2>12 DEF StoreInv
<1>8. CASE HalfMoved
  <2>1. /\ ~external /\ disk["work"]["main"].there /\ ~disk["legacy"]["main"].there
        /\ ~disk["work"]["wal"].there
    <3>1. Sidecars # <<"wal">> /\ <<>> # <<"wal">>
      <4>1. Head(<<"main", "wal">>) = "main" /\ Head(<<"wal">>) = "wal"  OBVIOUS
      <4> QED BY <4>1 DEF Sidecars
    <3> QED BY <1>8, <3>1 DEF StoreInv, Moving, HalfMoved
  <2>2. Head(todo) = "wal" /\ todo' = <<>>  BY <1>8 DEF HalfMoved
  <2>3. disk' = IF disk["legacy"]["wal"].there
                THEN [disk EXCEPT !["work"]["wal"] = disk["legacy"]["wal"], !["legacy"]["wal"] = NoFile]
                ELSE disk
    BY <2>2
  <2>4. /\ disk'["work"]["main"] = disk["work"]["main"] /\ disk'["legacy"]["main"] = disk["legacy"]["main"]
        /\ IF disk["legacy"]["wal"].there
           THEN disk'["work"]["wal"] = disk["legacy"]["wal"] /\ disk'["legacy"]["wal"] = NoFile
           ELSE /\ disk'["work"]["wal"] = disk["work"]["wal"]
                /\ disk'["legacy"]["wal"] = disk["legacy"]["wal"]
    BY <1>1, <2>3 DEF Places
  <2>5. disk' \in [legacy: Places, work: Places]  BY <1>1, <1>2, <1>3, <2>3 DEF Places
  <2>6. \A p \in {"legacy", "work"}: \A k \in {"main", "wal"}: disk'[p][k] \in Stored
    BY <1>2, <1>3, <2>4
  <2>7. StoreTyped'  BY <1>1, <1>6, <2>5, <2>6 DEF StoreTyped, StoreTypeOK, Stored
  <2>8. DiskWhole'  BY <1>3, <2>4 DEF StoreInv, DiskWhole
  <2>9. FilesFit'  BY <1>1, <2>1, <2>4 DEF StoreInv, FilesFit
  <2>10. ~HalfMoved'
    <3>1. <<>> # <<"wal">>  OBVIOUS
    <3> QED BY <2>2, <3>1 DEF HalfMoved
  <2>11. Moving'  BY <2>1, <2>2, <2>4 DEF Moving
  <2>12. Adopting'
    <3>1. ~first.found.there /\ first.whole =>
             first.old = IF disk["legacy"]["wal"].there THEN disk["legacy"]["wal"]
                         ELSE disk["work"]["main"]
      BY <1>8, <2>1 DEF StoreInv, Adopting
    <3>2. Content("work")' = IF disk["legacy"]["wal"].there THEN disk["legacy"]["wal"]
                             ELSE disk["work"]["main"]
      BY <2>1, <2>4 DEF Content
    <3> QED BY <2>1, <2>4, <2>10, <3>1, <3>2 DEF Adopting
  <2> QED BY <1>4, <1>5, <2>7, <2>8, <2>9, <2>11, <2>12 DEF StoreInv
<1> QED BY <1>1, <1>7, <1>8 DEF StoreInv, Moving

LEMMA OpenKeepsStoreInv == ASSUME StoreInv, OpenStore PROVE StoreInv'
<1> USE DEF OpenStore
<1>1. /\ process = "moving" /\ process' = "open" /\ todo = <<>>
      /\ disk \in [legacy: Places, work: Places] /\ StoreTypeOK
      /\ transaction = "none" /\ ~doomed
  BY DEF StoreInv, StoreTyped, PendingFits
<1>2. /\ disk["legacy"]["main"] \in Stored /\ disk["legacy"]["wal"] \in Stored
      /\ disk["work"]["main"] \in Stored /\ disk["work"]["wal"] \in Stored
  BY <1>1, DiskFiles
<1>3. Blank \in Databases /\ Blank \in Stored /\ Blank.there /\ Whole(Blank)
  BY BlankWhole DEF Whole, Stored
<1>4. first \in [old: Stored, found: Stored, whole: BOOLEAN]  BY DEF StoreInv, StoreTyped
<1>5. ~HalfMoved
  <2>1. <<>> # <<"wal">>  OBVIOUS
  <2> QED BY <1>1, <2>1 DEF HalfMoved
<1>6. /\ Whole(pending') /\ disk'["work"]["main"].there
      /\ disk' \in [legacy: Places, work: Places]
      /\ \A p \in {"legacy", "work"}: \A k \in {"main", "wal"}: disk'[p][k] \in Stored
      /\ DiskWhole'
  <2>1. CASE disk["work"]["main"].there
    <3>1. Whole(disk["work"]["main"]) /\ (disk["work"]["wal"].there => Whole(disk["work"]["wal"]))
      BY <2>1 DEF StoreInv, DiskWhole
    <3>2. Whole(pending')  BY <2>1, <3>1 DEF Content
    <3> QED BY <1>1, <1>2, <2>1, <3>2 DEF StoreInv, DiskWhole
  <2>2. CASE ~disk["work"]["main"].there
    <3>1. disk' = [disk EXCEPT !["work"]["main"] = Blank]  BY <2>2
    <3>2. /\ disk'["work"]["main"] = Blank /\ disk'["work"]["wal"] = disk["work"]["wal"]
          /\ disk'["legacy"] = disk["legacy"]
      BY <1>1, <3>1 DEF Places
    <3>3. disk' \in [legacy: Places, work: Places]  BY <1>1, <1>3, <3>1 DEF Places
    <3>4. DiskWhole'  BY <1>3, <3>2 DEF StoreInv, DiskWhole
    <3>5. \A p \in {"legacy", "work"}: \A k \in {"main", "wal"}: disk'[p][k] \in Stored
      BY <1>2, <1>3, <3>2
    <3> QED BY <1>3, <2>2, <3>2, <3>3, <3>4, <3>5
  <2> QED BY <2>1, <2>2
<1>7. pending' \in Databases /\ pending' \in Stored /\ pending'.there
  BY <1>6, TablesOf DEF Whole, Stored
<1>8. /\ first'.found.there /\ first'.found \in Stored /\ first'.old = first.old
      /\ first'.whole = first.whole /\ first' \in [old: Stored, found: Stored, whole: BOOLEAN]
      /\ first'.found = IF first.found.there THEN first.found ELSE pending'
  BY <1>4, <1>7
<1>9. StoreTyped'  BY <1>1, <1>6, <1>7, <1>8 DEF StoreTyped, StoreTypeOK, Stored
<1>10. FilesFit'  BY <1>6, <1>8 DEF FilesFit
<1>11. PendingFits'  BY <1>1, <1>6, <1>7 DEF PendingFits
<1>12. Moving'  BY <1>1 DEF Moving
<1>13. Adopting'  BY <1>8 DEF Adopting
<1>14. LegacyAdopted'
  <2>1. CASE first.found.there  BY <1>8, <2>1 DEF StoreInv, LegacyAdopted
  <2>2. CASE ~first.found.there
    <3> SUFFICES ASSUME first.whole
                 PROVE  pending' = IF external \/ ~first.old.there THEN Blank ELSE first.old
      BY <1>8, <2>2 DEF LegacyAdopted
    <3>1. CASE disk["work"]["main"].there
      <4>1. ~external /\ first.old = Content("work")  BY <1>5, <2>2, <3>1 DEF StoreInv, Adopting
      <4>2. pending' = Content("work")  BY <3>1
      <4> QED BY <1>7, <4>1, <4>2
    <3>2. CASE ~disk["work"]["main"].there
      <4>1. first.old = Content("legacy") /\ (disk["legacy"]["wal"].there => disk["legacy"]["main"].there)
        BY <1>5, <2>2, <3>2 DEF StoreInv, Adopting
      <4>2. external \/ ~disk["legacy"]["main"].there
        <5>1. Sidecars # <<>>  BY DEF Sidecars
        <5> QED BY <1>1, <1>5, <3>2, <5>1 DEF StoreInv, Moving
      <4>3. external \/ ~first.old.there  BY <4>1, <4>2 DEF Content
      <4> QED BY <3>2, <4>3
    <3> QED BY <3>1, <3>2
  <2> QED BY <2>1, <2>2
<1> QED BY <1>6, <1>9, <1>10, <1>11, <1>12, <1>13, <1>14 DEF StoreInv

LEMMA KillKeepsStoreInv == ASSUME StoreInv, KillStore PROVE StoreInv'
<1> USE DEF KillStore
<1>1. process' = "closed" /\ StoreTypeOK /\ deaths \in 0..MaxDeaths
  BY DEF StoreInv, StoreTyped, StoreTypeOK
<1>2. first \in [old: Stored, found: Stored, whole: BOOLEAN]  BY DEF StoreInv, StoreTyped
<1>3. /\ first'.old = first.old /\ first'.found = first.found
      /\ first'.whole => first.whole /\ ~HalfMoved
      /\ first' \in [old: Stored, found: Stored, whole: BOOLEAN]
  BY <1>2 DEF HalfMoved
<1>4. deaths' \in 0..MaxDeaths  BY <1>1, StoreAssumption
<1>5. StoreTyped'  BY <1>1, <1>3, <1>4 DEF StoreInv, StoreTyped, StoreTypeOK
<1>6. DiskWhole'  BY DEF StoreInv, DiskWhole
<1>7. FilesFit'  BY <1>1 DEF StoreInv, FilesFit
<1>8. PendingFits' /\ Moving'  BY <1>1 DEF PendingFits, Moving
<1>9. ~HalfMoved'  BY <1>1 DEF HalfMoved
<1>10. Adopting'  BY <1>3, <1>9 DEF StoreInv, Adopting, Content
<1>11. LegacyAdopted'  BY <1>3 DEF StoreInv, LegacyAdopted
<1> QED BY <1>5, <1>6, <1>7, <1>8, <1>10, <1>11 DEF StoreInv

LEMMA NextStoreInv == StoreInv /\ [StoreNext]_storeVars => StoreInv'
<1> SUFFICES ASSUME StoreInv, [StoreNext]_storeVars PROVE StoreInv'  OBVIOUS
<1>1. CASE StartStore  BY <1>1, StartKeepsStoreInv
<1>2. CASE MoveFile  BY <1>2, MoveKeepsStoreInv
<1>3. CASE OpenStore  BY <1>3, OpenKeepsStoreInv
<1>4. CASE BeginOperation  BY <1>4, BeginKeepsStoreInv
<1>5. CASE Execute  BY <1>5, ExecuteKeepsStoreInv
<1>6. CASE CommitStore  BY <1>6, CommitKeepsStoreInv
<1>7. CASE CheckpointStore  BY <1>7, CheckpointKeepsStoreInv
<1>8. CASE RecoverStore  BY <1>8, RecoverKeepsStoreInv
<1>9. CASE StatementFails  BY <1>9, FailureKeepsStoreInv
<1>10. CASE CloseStore  BY <1>10, CloseKeepsStoreInv
<1>11. CASE KillStore  BY <1>11, KillKeepsStoreInv
<1>12. CASE UNCHANGED storeVars
  <2>1. StoreTyped'  BY <1>12 DEF storeVars, StoreInv, StoreTyped, StoreTypeOK
  <2>2. DiskWhole' /\ FilesFit'  BY <1>12 DEF storeVars, StoreInv, DiskWhole, FilesFit
  <2>3. PendingFits'  BY <1>12 DEF storeVars, StoreInv, PendingFits
  <2>4. Moving' /\ Adopting' /\ LegacyAdopted'
    BY <1>12 DEF storeVars, StoreInv, Moving, Adopting, LegacyAdopted, HalfMoved, Content
  <2> QED BY <2>1, <2>2, <2>3, <2>4 DEF StoreInv
<1> QED BY <1>1, <1>2, <1>3, <1>4, <1>5, <1>6, <1>7, <1>8, <1>9, <1>10, <1>11, <1>12 DEF StoreNext

-----------------------------------------------------------------------------
(* What it yields                                                          *)

\* At every statement, file move, failure and death, the files and the
\* connection are as far as the operation under way has brought them.
THEOREM StoreInvariant == StoreSpec => []StoreInv
<1>1. StoreInit => StoreInv  BY InitStoreInv
<1>2. StoreInv /\ [StoreNext]_storeVars => StoreInv'  BY NextStoreInv
<1> QED BY <1>1, <1>2, PTL DEF StoreSpec

\* The variables of the runtime database keep their types.
THEOREM StoreTypeCorrect == StoreSpec => []StoreTypeOK
<1>1. StoreInv => StoreTypeOK  BY DEF StoreInv, StoreTyped
<1> QED BY <1>1, StoreInvariant, PTL

LEMMA WholeTablesAgree == StoreInv => TablesAgree
<1> SUFFICES ASSUME StoreInv, disk["work"]["main"].there,
                    NEW c, c = Content("work"), NEW f \in Files \ c.torn
             PROVE  /\ c.row[f].status # "none" => c.signals[f] = c.row[f].score
                    /\ c.row[f].projected \in {0, c.ledger[f].id}
                    /\ c.row[f].projected = c.ledger[f].id /\ c.ledger[f].owns
                         => c.row[f].owned = c.ledger[f].id
  BY DEF TablesAgree
<1>1. Whole(c)  BY DEF StoreInv, DiskWhole, Content
<1> QED BY <1>1 DEF Whole, Sound, Scored, Projected

\* mark_scored, mark_done, record_xmp_projection and clear_ai_judgement with
\* their transactions: rows, signals and ledger agree on disk whatever failed
\* or died, except on photos torn by a disk I/O recovery; and ensure_runtime_paths
\* adopts a legacy database with its -wal content or starts a blank one.
THEOREM StoreStaysWhole == StoreSpec => []StoreIsWhole
<1>1. StoreInv => LegacyAdopted  BY DEF StoreInv
<1>2. StoreInv => StoreIsWhole  BY <1>1, WholeTablesAgree DEF StoreIsWhole
<1> QED BY <1>2, StoreInvariant, PTL

=============================================================================
