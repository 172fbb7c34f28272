-------------------------------- MODULE Sums --------------------------------
(***************************************************************************)
(* Sums of measured values, taken in the order in which the program lists  *)
(* them (statistics.mean, np.mean and np.linalg.lstsq in the benchmarks    *)
(* and in the calibration).                                                *)
(***************************************************************************)
EXTENDS Integers, Sequences

Addition(amounts) ==
    LET total[i \in 0..Len(amounts)] == IF i = 0 THEN 0 ELSE total[i - 1] + amounts[i]
    IN total[Len(amounts)]
=============================================================================
