--------------------------- MODULE MCSaveBackups ---------------------------
(* SaveBackups for TLC: a handful of stamps, one crash, one I/O error.      *)
EXTENDS SaveBackups
=============================================================================
