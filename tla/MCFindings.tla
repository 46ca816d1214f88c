----------------------------- MODULE MCFindings -----------------------------
(* Findings on small instances. *)
EXTENDS Findings, TLC

Symmetry == Permutations(Scans) \cup Permutations(Updates)
=============================================================================
