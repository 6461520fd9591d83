---------------------------- MODULE MCDaemonLink ----------------------------
(* DaemonLink for TLC. *)
EXTENDS DaemonLink

CONSTANTS p1, p2, t1, t2, s1, c1

(* The database has every task. *)
AllThere == {[t \in Tasks |-> s1]}
=============================================================================
