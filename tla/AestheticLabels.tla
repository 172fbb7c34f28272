--------------------------- MODULE AestheticLabels ---------------------------
(***************************************************************************)
(* The store of human aesthetic labels and the calibration fitted to them. *)
(* A label file is imported as a whole or not at all, each photo belongs   *)
(* to the training or to the holdout part, and an export of one part is    *)
(* what a calibration is fitted to.                                        *)
(*                                                                         *)
(* Sources: app/aesthetic_label_store.py,                                  *)
(* app/aesthetic_calibration_service.py.                                   *)
(***************************************************************************)
EXTENDS Integers, Sequences, FiniteSets, Sums
LOCAL INSTANCE FiniteSetsExt

CONSTANTS
    HashBucket,     \* HashBucket[path]: the bucket, 0 to 99, a photo's path falls in
    LabelFiles,     \* label files: sequences of items
    Percents,       \* holdout percentages asked for
    PivotScore,     \* the pivot of the calibration
    FewestLabels,   \* minimum_label_count
    LeastSpan,      \* minimum_raw_span
    MaxImports      \* bound: imports

ASSUME LabelAssumption ==
    /\ \A p \in DOMAIN HashBucket: HashBucket[p] \in 0..99
    /\ \A file \in LabelFiles:
         /\ Len(file) \in Nat /\ DOMAIN file = 1..Len(file)
         /\ \A i \in DOMAIN file: file[i].path \in DOMAIN HashBucket
    /\ PivotScore \in Int
    /\ MaxImports \in Nat
    /\ FewestLabels \in Nat /\ FewestLabels >= 2 /\ LeastSpan \in Nat \ {0}

VARIABLES
    labels,     \* the stored labels, by path
    exported,   \* the last export
    fitted,     \* the calibration fitted to it, by target
    used,       \* history: percentages used, photos given a part by a label file
    imports

labelVars == <<labels, exported, fitted, used, imports>>

Unrated == 0
InRange(score, most) == score \in 1..most

(* A rating of one to five counts when there is no score of one to ten.    *)
HumanScore(item) == IF item.human = Unrated THEN 2 * item.rating ELSE item.human
GoodItem(item) ==
    /\ item.path # "" /\ item.target # ""
    /\ InRange(item.raw, 10)
    /\ item.human = Unrated /\ item.rating # Unrated => InRange(item.rating, 5)
    /\ InRange(HumanScore(item), 10)
    /\ item.split \in {"", "train", "holdout"}

(* Fault: the position in the file decides, not the path.                  *)
PartOf_Position(item, percent) ==
    IF item.split # "" THEN item.split
    ELSE IF item.raw * 10 <= percent THEN "holdout" ELSE "train"
PartOf(item, percent) ==
    IF item.split # "" THEN item.split
    ELSE IF HashBucket[item.path] < percent THEN "holdout" ELSE "train"

LabelRow(item, percent) ==
    [path |-> item.path, target |-> item.target, raw |-> item.raw,
     human |-> HumanScore(item), split |-> PartOf(item, percent)]

LabelInit ==
    /\ labels = {}
    /\ exported = {}
    /\ fitted = [t \in {} |-> 0]
    /\ used = [percents |-> {}, told |-> {}]
    /\ imports = 0

(* Every item is checked before the database is opened, and the rows are   *)
(* written in one transaction; the last item of a path wins.               *)
Import ==
    /\ imports < MaxImports
    /\ imports' = imports + 1
    /\ \E file \in LabelFiles, percent \in Percents:
         IF percent \notin 0..50 \/ \E i \in DOMAIN file: ~GoodItem(file[i])
         THEN UNCHANGED <<labels, used>>
         ELSE LET rows == [i \in DOMAIN file |-> LabelRow(file[i], percent)]
                  last == {rows[i]: i \in {j \in DOMAIN rows:
                              \A k \in DOMAIN rows: k > j => rows[k].path # rows[j].path}}
              IN /\ labels' = {l \in labels: \A row \in last: row.path # l.path} \union last
                 /\ used' = [percents |-> used.percents \union {percent},
                             told |-> used.told \union
                                {file[i].path: i \in {j \in DOMAIN file: file[j].split # ""}}]
    /\ UNCHANGED <<exported, fitted>>

ExportTraining ==
    /\ exported' = {l \in labels: l.split = "train"}
    /\ UNCHANGED <<labels, fitted, used, imports>>

-----------------------------------------------------------------------------
(* The fit of a target: the straight line of least squares through its     *)
(* pairs in any order, its slope and its offset clipped, all over one      *)
(* common, even denominator.                                               *)

Clip(value, least, most) ==
    IF value < least THEN least ELSE IF value > most THEN most ELSE value

LeastSquares(pairs) ==
    LET n == Len(pairs)
        x == [i \in 1..n |-> pairs[i].raw - PivotScore]
        y == [i \in 1..n |-> pairs[i].human - PivotScore]
        sx == Addition(x)
        sy == Addition(y)
        sxx == Addition([i \in 1..n |-> x[i] * x[i]])
        sxy == Addition([i \in 1..n |-> x[i] * y[i]])
        d == n * sxx - sx * sx
    IN [unit |-> 2 * d, slope |-> 2 * (n * sxy - sx * sy), offset |-> 2 * (sy * sxx - sx * sxy)]

SquaredError(predicted, human) ==
    Addition([i \in DOMAIN human |-> (predicted[i] - human[i]) * (predicted[i] - human[i])])

Listed(known) ==
    CHOOSE list \in [1..Cardinality(known) -> known]:
        \A i, j \in DOMAIN list: list[i] = list[j] => i = j

Fitted(known) ==
    LET pairs == Listed(known)
        n == Len(pairs)
        line == LeastSquares(pairs)
        unit == line.unit
        slope == Clip(line.slope, unit \div 2, 3 * (unit \div 2))
        offset == Clip(line.offset, -2 * unit, 2 * unit)
        human == [i \in 1..n |-> unit * pairs[i].human]
        before == [i \in 1..n |-> unit * pairs[i].raw]
        after == [i \in 1..n |->
                    Clip(unit * PivotScore + slope * (pairs[i].raw - PivotScore) + offset,
                         unit, 10 * unit)]
    IN IF SquaredError(after, human) < SquaredError(before, human)
       THEN [status |-> "fitted", unit |-> unit, slope |-> slope, offset |-> offset, of |-> known]
       ELSE [status |-> "no_improvement"]

Fit(known) ==
    LET raws == {l.raw: l \in known}
    IN IF Cardinality(known) < FewestLabels THEN [status |-> "insufficient_labels"]
       ELSE IF Max(raws) - Min(raws) < LeastSpan THEN [status |-> "insufficient_raw_span"]
       ELSE Fitted(known)

FitCalibration ==
    /\ fitted' = [t \in {l.target: l \in exported} |->
                    Fit({l \in exported: l.target = t})]
    /\ UNCHANGED <<labels, exported, used, imports>>

LabelNext == Import \/ ExportTraining \/ FitCalibration

LabelSpec == LabelInit /\ [][LabelNext]_labelVars

-----------------------------------------------------------------------------
LabelTypeOK ==
    /\ \A l \in labels: /\ l.path \in DOMAIN HashBucket
                        /\ l.raw \in 1..10 /\ l.human \in 1..10
                        /\ l.split \in {"train", "holdout"}
    /\ \A l, k \in labels: l.path = k.path => l = k
    /\ used.percents \subseteq 0..50
    /\ imports \in 0..MaxImports

(* A photo whose part only its path decides, at one percentage, never      *)
(* changes sides: no calibration was fitted to a photo that is held out    *)
(* now (hash at aesthetic_label_store.py:145-148; the export chooses the   *)
(* part, the fit itself looks at no part).                                 *)
HoldoutUnseen ==
    Cardinality(used.percents) <= 1 =>
      \A t \in DOMAIN fitted: fitted[t].status = "fitted" =>
        \A l \in fitted[t].of: l.path \notin used.told =>
          \A k \in labels: k.path = l.path => k.split = "train"

(* A fitted profile is one that the configuration's validator accepts      *)
(* (config_validator.py:1073-1103), fitted to as many labels as asked for. *)
FitIsUsable ==
    \A t \in DOMAIN fitted: fitted[t].status = "fitted" =>
      LET f == fitted[t]
      IN /\ f.unit > 0
         /\ 4 * f.slope >= f.unit /\ f.slope <= 4 * f.unit
         /\ f.offset \in (-5 * f.unit)..(5 * f.unit)
         /\ Cardinality(f.of) >= FewestLabels
=============================================================================
