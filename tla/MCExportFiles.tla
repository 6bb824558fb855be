--------------------------- MODULE MCExportFiles ---------------------------
(* The instance for TLC: two sources; the constants are in the cfg files.  *)
EXTENDS ExportFiles
=============================================================================
