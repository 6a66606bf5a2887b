-------------------------- MODULE MCTicketExecution --------------------------
(* TicketExecution on small instances: see the .cfg files. *)
EXTENDS TicketRefinement
=============================================================================
