------------------------------ MODULE Records ------------------------------
(***************************************************************************)
(* What the components beside the review keep on disk: the library's index *)
(* and thumbnails, score reviews, labels and calibrations, and the results *)
(* of the two benchmarks.  Each follows a protocol of its own over files   *)
(* and tables that no other one writes, so that together they are the      *)
(* conjunction of their specifications.                                    *)
(***************************************************************************)
EXTENDS ScoreAudit, AestheticLabels, LocalBenchmark, OMLXBenchmark, WebLibrary

RecordsSpec ==
    LibrarySpec /\ AuditSpec /\ LabelSpec /\ LocalBenchSpec /\ BenchSpec

(* What is on record is what was found, whatever ran at the same time,     *)
(* failed or died: the index is a scan of the directory, a thumbnail shows *)
(* its photo, pages and totals add up (web_service.py), reports are final  *)
(* (persisted_score_audit.py, score_review.py), no calibration was fitted  *)
(* to a photo that is held out, and a fitted one is what the configuration *)
(* takes (aesthetic_label_store.py, aesthetic_calibration_service.py),     *)
(* scores called stable were repeated and metrics agree with one another   *)
(* (local_benchmark_service.py), and the best result on file was measured, *)
(* is not outranked and had the most valid answers                         *)
(* (omlx_benchmark_service.py).                                            *)
RecordsHold ==
    /\ IndexIsAScan /\ ThumbnailsShow /\ ListingsAddUp
    /\ ReportsAreFinal /\ PinnedReportStays
    /\ HoldoutUnseen /\ FitIsUsable
    /\ StableMeansRepeated /\ MetricsAgree
    /\ BestOnFile /\ MostValidOnFile
=============================================================================
