--------------------------------- MODULE PgXid ---------------------------------
(***************************************************************************)
(* PostgreSQL transaction ids.                                             *)
(***************************************************************************)
EXTENDS Integers

\* A transaction that has not written yet has no xid:
\* pg_current_xact_id_if_assigned() is NULL.
NoXid == 0
================================================================================
