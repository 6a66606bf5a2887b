---------------------------- MODULE MCOwnerControl ----------------------------
(* An instance of OwnerControl for TLC. *)
EXTENDS OwnerControl

CONSTANTS t1, t2, e1, e2, p1, p2

MCTicket == {t1, t2}
MCHeld == {t1}
MCEvent == {e1, e2}
MCCallLimit == [entry |-> 2, exit |-> 3, selection |-> 3]
MCProfile == {p1, p2}
=============================================================================
