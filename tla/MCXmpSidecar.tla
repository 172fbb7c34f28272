---------------------------- MODULE MCXmpSidecar ----------------------------
(* XmpSidecar with a zero and a nonzero rating, so that a rating can be filled, *)
(* preserved, changed by the editor and changed back, and two texts.          *)
EXTENDS XmpSidecar
=============================================================================
