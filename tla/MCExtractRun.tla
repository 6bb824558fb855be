---------------------------- MODULE MCExtractRun ----------------------------
(* Small instances of ExtractRun. *)
EXTENDS ExtractRun, TLC

CONSTANTS p1, p2

Pages == Permutations({p1, p2})
=============================================================================
