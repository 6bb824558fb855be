----------------------------- MODULE MCRunQueue -----------------------------
(* Instances of RunQueue for TLC: two runs and at most one export compete    *)
(* for one source.  A source has one type, so its runs are of the kinds of a *)
(* web source (web, retry_blocked, enrich) or of a PDF (pdf, escalate,       *)
(* enrich).                                                                  *)
EXTENDS RunQueue

CONSTANTS s1, r1, r2, x1, w1, w2

MCSourceOf == [r \in Run |-> s1]
MCXSourceOf == [x \in Export |-> s1]

Kinds(k1, k2) == [r \in Run |-> IF r = r1 THEN k1 ELSE k2]
WebAndRetry == Kinds("web", "retry_blocked")
WebAndEnrich == Kinds("web", "enrich")
PdfAndEscalate == Kinds("pdf", "escalate")
=============================================================================
