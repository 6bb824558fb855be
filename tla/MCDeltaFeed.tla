---------------------------- MODULE MCDeltaFeed ----------------------------
(* Instances of DeltaFeed for TLC: two sources with an article each, and two *)
(* runs, of the same source or of one each.                                  *)
EXTENDS DeltaFeed

CONSTANTS s1, s2, a1, a2, r1, r2

OneEach == [r \in Run |-> IF r = r1 THEN s1 ELSE s2]
SameSource == [r \in Run |-> s1]
MCHomeOf == [a \in Article |-> IF a = a1 THEN s1 ELSE s2]
=============================================================================
