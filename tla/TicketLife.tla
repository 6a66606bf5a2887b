------------------------------ MODULE TicketLife ------------------------------
(***************************************************************************)
(* What one Ticket promises to the rest of the account, whatever commands,  *)
(* fills, losses, restarts and recoveries happen underneath: the contract   *)
(* between the lifecycle of a Ticket (TicketExecution) and the admission of *)
(* the next ones (EntryAdmission).                                          *)
(*                                                                          *)
(* A Ticket takes the global ENTRY lane, its budget, its account exposure   *)
(* and its netting domain together.  Exposure can only appear while it      *)
(* holds the lane; the lane is handed on with an open position covered by a *)
(* live stop; capital is handed back flat, and then the Ticket closes.      *)
(***************************************************************************)

VARIABLES
    stage,     \* none | entry (lane held) | open (lane free, capital held)
               \*      | settling (capital free) | closed
    exposed,   \* the venue holds a position of the Ticket
    covered    \* a live stop of at least its quantity stands at the venue

vars == <<stage, exposed, covered>>

Stages == {"none", "entry", "open", "settling", "closed"}

TypeOK == stage \in Stages /\ exposed \in BOOLEAN /\ covered \in BOOLEAN

Init == stage = "none" /\ ~ exposed /\ ~ covered

Issue ==
    /\ stage = "none" /\ stage' = "entry"
    /\ UNCHANGED <<exposed, covered>>

\* Under the lane everything may happen at the venue.
Enter ==
    /\ stage = "entry" /\ exposed' \in BOOLEAN /\ covered' \in BOOLEAN
    /\ UNCHANGED stage

\* Nothing was bought and nothing can be: the Ticket closes at once.
Refuse ==
    /\ stage = "entry" /\ ~ exposed /\ stage' = "closed"
    /\ UNCHANGED <<exposed, covered>>

HandOnLane ==
    /\ stage = "entry" /\ (exposed => covered) /\ stage' = "open"
    /\ UNCHANGED <<exposed, covered>>

\* Managed exposure: it never grows back from flat and never loses its stop.
Manage ==
    /\ stage \in {"open", "settling", "closed"}
    /\ exposed' \in {FALSE, exposed} /\ covered' \in BOOLEAN
    /\ exposed' => covered'
    /\ UNCHANGED stage

ReleaseCapital ==
    /\ stage = "open" /\ ~ exposed /\ stage' = "settling"
    /\ UNCHANGED <<exposed, covered>>

Close ==
    /\ stage = "settling" /\ stage' = "closed"
    /\ UNCHANGED <<exposed, covered>>

Next == Issue \/ Enter \/ Refuse \/ HandOnLane \/ Manage \/ ReleaseCapital \/ Close

Spec == Init /\ [][Next]_vars
=============================================================================
