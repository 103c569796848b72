---------------------------- MODULE MCFileTracker ----------------------------
(***************************************************************************)
(* The instance of FileTracker that TLC checks.                            *)
(***************************************************************************)
EXTENDS FileTracker

=============================================================================
