---------------------------- MODULE MCReviewRun ----------------------------
(* ReviewRun on two or three photos.  Two photos in one burst are enough for  *)
(* ranks to be exchanged; the third photo, in a burst of its own, is finished *)
(* before or after the pair.  Two scores give ties and reversals.             *)
EXTENDS ReviewRun

Pair     == <<1, 1>>
PairPlus == <<1, 1, 2>>

Mode(dry, reprocess) == [dry |-> dry, reprocess |-> reprocess, key |-> 1]

Real      == {Mode(FALSE, FALSE)}
UserModes == {Mode(FALSE, FALSE), Mode(TRUE, FALSE), Mode(FALSE, TRUE)}
=============================================================================
