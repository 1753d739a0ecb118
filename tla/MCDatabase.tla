------------------------------ MODULE MCDatabase ------------------------------
(* Database under two control planes whose lives overlap, and under a control *)
(* plane and a gateway.                                                       *)
EXTENDS Database

CONSTANTS c1, c2, g

SharedDatabases == {{c1, c2}, {c1, g}}

===============================================================================
