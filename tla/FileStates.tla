---------------------------- MODULE FileStates ----------------------------
(***************************************************************************)
(* What Path.write_text leaves for another process to find: the file is    *)
(* truncated first and filled afterwards.                                  *)
(***************************************************************************)
CONSTANTS
  None,       \* there is no file, or no value
  Torn        \* the file was opened for writing and not filled yet
=============================================================================
