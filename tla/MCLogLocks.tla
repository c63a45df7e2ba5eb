---------------------------- MODULE MCLogLocks -----------------------------
(* Two threads, one of which panics.                                        *)
EXTENDS LogLocks
TwoThreads == {"collector", "archiver"}
=============================================================================
