----------------------------- MODULE MCReportQueue -----------------------------
(* Small instances of ReportQueue. *)
EXTENDS ReportQueue

CONSTANTS h1, h2
=============================================================================
