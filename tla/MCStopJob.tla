----------------------------- MODULE MCStopJob -----------------------------
(* Small instances of StopJob; the bounds are in the .cfg files.           *)
EXTENDS StopJob
=============================================================================
