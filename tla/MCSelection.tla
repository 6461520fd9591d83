----------------------------- MODULE MCSelection -----------------------------
(* Selection for TLC. *)
EXTENDS Selection
CONSTANTS r1, other

(* The quality of an HLS stream, the one wait that a pause drops. *)
Kinds(r) == "hls"
=============================================================================
