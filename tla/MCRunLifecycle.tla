--------------------------- MODULE MCRunLifecycle ---------------------------
(* RunLifecycle with two process slots: one can hold the lock while the     *)
(* other is refused it or takes over after a crash.  Process slots are      *)
(* model values in the configurations; symmetry is not used, since the same *)
(* configuration checks liveness.                                           *)
EXTENDS RunLifecycle
=============================================================================
