----------------------------- MODULE MCAutoRoute -----------------------------
(* AutoRoute for TLC. *)
EXTENDS AutoRoute
=============================================================================
