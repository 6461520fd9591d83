------------------------ MODULE MCSegmentCoordinator ------------------------
(* SegmentCoordinator for TLC. *)
EXTENDS SegmentCoordinator
=============================================================================
