----------------------------- MODULE MCIngestLock -----------------------------
(* Three runs: one to hold, one to take over, one to be robbed.  Symmetry   *)
(* would be unsound here, since liveness is checked.                        *)
EXTENDS IngestLock
=============================================================================
