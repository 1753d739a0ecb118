---------------------------- MODULE MCRequestLog ----------------------------
(* The logs with a ring of three and pages of one, two or three entries.       *)
EXTENDS AuditLog

===============================================================================
