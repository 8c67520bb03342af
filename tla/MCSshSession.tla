--------------------------- MODULE MCSshSession ---------------------------
(* Session ids for the runs of SshSession. *)
EXTENDS SshSession

MCSessions == 1..2
============================================================================
