----------------------------- MODULE MCEventLog -----------------------------
(***************************************************************************)
(* Small instances of the event streams.                                   *)
(***************************************************************************)
EXTENDS EventLog

\* -1 is "no starting_after"; 2 is a position that may not be written yet.
MCStarts == {-1, 0, 2}
=============================================================================
