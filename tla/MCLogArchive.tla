--------------------------- MODULE MCLogArchive ----------------------------
(* Small instances of LogArchive: its constants are numbers, given in the   *)
(* configurations.                                                          *)
EXTENDS LogArchive
=============================================================================
