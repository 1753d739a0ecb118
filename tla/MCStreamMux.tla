------------------------------ MODULE MCStreamMux ------------------------------
(* StreamMux with one stream, whose channels and links hold one message each.  *)
EXTENDS StreamMux

===============================================================================
