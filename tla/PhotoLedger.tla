---------------------------- MODULE PhotoLedger ----------------------------
(***************************************************************************)
(* What the review pipeline promises about one photo's results, whatever   *)
(* order it works in and wherever it is interrupted.  A photo has a row in *)
(* the processed table and an XMP sidecar.  Scoring replaces the row,      *)
(* publishing replaces the sidecar, and a row is confirmed as done only    *)
(* for the output that the sidecar holds at that moment.                   *)
(***************************************************************************)
CONSTANTS Files, Outputs, NoOutput

VARIABLES
    status,     \* status[f]: "none", "scored" or "done"
    confirmed,  \* confirmed[f]: the output a done row vouches for
    sidecar     \* sidecar[f]: the output in the sidecar

vars == <<status, confirmed, sidecar>>

Init ==
    /\ status = [f \in Files |-> "none"]
    /\ confirmed = [f \in Files |-> NoOutput]
    /\ sidecar = [f \in Files |-> NoOutput]

\* A new score forgets that the photo was done.
Score(f) ==
    /\ status' = [status EXCEPT ![f] = "scored"]
    /\ confirmed' = [confirmed EXCEPT ![f] = NoOutput]
    /\ UNCHANGED sidecar

\* Only a photo whose score is stored is published.
Publish(f, o) ==
    /\ status[f] # "none"
    /\ sidecar' = [sidecar EXCEPT ![f] = o]
    /\ UNCHANGED <<status, confirmed>>

Confirm(f) ==
    /\ status[f] # "none"
    /\ sidecar[f] # NoOutput
    /\ status' = [status EXCEPT ![f] = "done"]
    /\ confirmed' = [confirmed EXCEPT ![f] = sidecar[f]]
    /\ UNCHANGED sidecar

Next == \E f \in Files : Score(f) \/ Confirm(f) \/ \E o \in Outputs : Publish(f, o)

Spec == Init /\ [][Next]_vars
=============================================================================
