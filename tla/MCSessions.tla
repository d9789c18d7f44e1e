----------------------------- MODULE MCSessions -----------------------------
(* Sessions for TLC: commands are interchangeable.                         *)
EXTENDS Sessions, TLC

ProcSymmetry == Permutations(Procs)
=============================================================================
