--------------------------- MODULE MCAlertStream ---------------------------
(***************************************************************************)
(* Two changes of the lists, two acts of the operator, one failed answer   *)
(* or lost event and one call slower than 15 seconds.                      *)
(***************************************************************************)
EXTENDS AlertStream
=============================================================================
