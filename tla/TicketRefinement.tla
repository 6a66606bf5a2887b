--------------------------- MODULE TicketRefinement ---------------------------
(* TicketExecution implements TicketLife: the stage is read off the authorities *)
(* the Ticket holds, exposure and cover off the venue.                          *)
EXTENDS TicketExecution

StageOf ==
    IF agg.status = "UNISSUED" THEN "none"
    ELSE IF "lane" \in held THEN "entry"
    ELSE IF "budget" \in held THEN "open"
    ELSE IF agg.status \in RejectedStatuses \cup {"TERMINAL"} THEN "closed"
    ELSE "settling"

Life == INSTANCE TicketLife WITH
    stage <- StageOf,
    exposed <- (position > 0),
    covered <- (\E c \in CommandId : Protective(c))

\* Every behaviour of one Ticket under crashes, lost requests and late answers is
\* one TicketLife allows: exposure appears only under the ENTRY lane, the lane is
\* handed on protected, and capital is released flat and for good.
ImplementsTicketLife == Life!Spec
=============================================================================
