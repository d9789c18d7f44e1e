------------------------------ MODULE MCDaemon ------------------------------
(* Daemon for TLC: connections are interchangeable.                        *)
EXTENDS DaemonRefinement, TLC

ConnSymmetry == Permutations(Conns)
=============================================================================
