--------------------------- MODULE MCStreamDeadline ---------------------------
(* StreamDeadline with short timeouts. *)
EXTENDS StreamDeadline
===============================================================================
