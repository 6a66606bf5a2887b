----------------------------- MODULE EntryDrain -----------------------------
(***************************************************************************)
(* One Ticket whose ENTRY is still unfinished when the Selection Entry     *)
(* Vacuum of its strategy group opens (drain_strategy_entry_vacuum.py, the *)
(* Vacuum events of reducer.py, recover_vacuum_late_fill.py, and the parts *)
(* of the workers, of dispatch and of unknown recovery they meet).         *)
(*                                                                         *)
(* Three processes act on the Ticket: the Entry and Lifecycle workers,     *)
(* which send commands, the Selection runtime, which drains without facts, *)
(* and the Reconciliation worker, which reads the venue outside any        *)
(* transaction.  Its position snapshot consists of two reads that the      *)
(* venue answers at different moments.  A snapshot carries the time of its *)
(* tick, which is later than every stored one, so the freshness guards of  *)
(* the code pass here.  The leverage stage of the Ticket and its life      *)
(* after the drain are TicketExecution's.                                  *)
(***************************************************************************)
EXTENDS Naturals

CONSTANTS TicketQuantity,   \* requested ENTRY quantity, in steps
          SmallestSplit,    \* smallest quantity whose TP1 share is a whole step
          MaxCancels,       \* bound on the generations of the Vacuum cancel
          MaxFaults,        \* bound on lost calls, refusals, crashes and failed reads
          MaxForeign        \* bound on orders of others in the netting domain

ASSUME DrainAssumption ==
    /\ TicketQuantity \in Nat \ {0}
    /\ SmallestSplit \in Nat \ {0, 1}
    /\ MaxCancels \in Nat \ {0}
    /\ MaxFaults \in Nat
    /\ MaxForeign \in Nat

VARIABLES
    vacuum,       \* state of the Vacuum row
    agg,          \* status, position_qty and whether entry_vacuum_id is set
    entry,        \* status of the ENTRY command row
    cancel,       \* status of the CANCEL_ORDER row of each generation
    incidents,    \* open incidents of the Ticket that the drain opens or resolves
    waiting,      \* the late-fill retry Monitor holds the next attempt back
    order,        \* the ENTRY order at the venue
    filled,       \* quantity the ENTRY order has filled: the position
    flying,       \* cancel generations on their way to the venue
    foreign,      \* orders of others in the netting domain, seen so far and open
    sender,       \* Entry worker: where it is with the ENTRY command
    canceller,    \* Lifecycle worker: where it is with the cancel of a generation
    recon,        \* the Reconciliation worker's reads
    torn,         \* history: the order was seen gone after the position was read
    faults

durable == <<vacuum, agg, entry, cancel, incidents, waiting, torn>>
venue == <<order, filled, flying, foreign>>
workers == <<sender, canceller>>
vars == <<durable, venue, workers, recon, faults>>

Generations == 1 .. MaxCancels
Quantities == 0 .. TicketQuantity

EntryStatuses == {"ENTRY_PENDING", "ENTRY_ACCEPTED", "ENTRY_OUTCOME_UNKNOWN"}
ClosedStatuses == {"ENTRY_REJECTED", "ENTRY_RECONCILED_ABSENT"}
CancelStatuses == {"ENTRY_VACUUM_CANCEL_PENDING", "ENTRY_VACUUM_CANCEL_REJECTED",
                   "ENTRY_VACUUM_CANCEL_OUTCOME_UNKNOWN"}
HandedOnStatuses == {"PARTIAL_FILL_INCIDENT", "PROTECTION_PENDING", "CONTROLLED_FLATTEN_PENDING"}

\* AggregateStatus, with every later status of the Ticket as one.
Statuses == EntryStatuses \cup ClosedStatuses \cup CancelStatuses \cup HandedOnStatuses
            \cup {"ENTRY_VACUUM_CANCELLED", "AFTER_ENTRY"}

\* _ENTRY_VACUUM_DRAIN_BLOCKING_STATUSES
BlockingStatuses == Statuses \ (ClosedStatuses \cup {"AFTER_ENTRY"})

\* ExchangeCommandStatus.  LAPSED is a PREPARED row whose deadline_at_ms has passed: no claim
\* takes it any more.
RowStatuses == {"NONE", "PREPARED", "LAPSED", "CLAIMED", "ACCEPTED", "REJECTED", "SUPERSEDED",
                "OUTCOME_UNKNOWN", "RECONCILED_ACCEPTED", "RECONCILED_ABSENT"}
Undecided == {"PREPARED", "LAPSED", "CLAIMED", "OUTCOME_UNKNOWN"}

IncidentKinds == {"cancel_rejected", "cancel_outcome_unknown", "post_absence_contradiction",
                  "post_fill"}

IdleCanceller == [phase |-> "idle", gen |-> 0]
IdleRecon == [work |-> "idle", reads |-> "none", qty |-> 0, orders |-> {}]

\* Type correctness; the quantities the reducer stores never leave those of the Ticket.
TypeOK ==
    /\ vacuum \in {"none", "OPEN", "DRAINING_ENTRY", "DRAINED"}
    /\ agg \in [status : Statuses, qty : Quantities, vacuumed : BOOLEAN]
    /\ entry \in RowStatuses
    /\ cancel \in [Generations -> RowStatuses]
    /\ incidents \subseteq IncidentKinds
    /\ waiting \in BOOLEAN
    /\ torn \in BOOLEAN
    /\ order \in {"none", "transit", "live", "dead", "refused", "lost"}
    /\ filled \in Quantities
    /\ flying \subseteq Generations
    /\ foreign \in [seen : 0 .. MaxForeign, open : BOOLEAN]
    /\ sender \in {"idle", "claimed", "cleared", "sent"}
    /\ canceller \in [phase : {"idle", "claimed", "sent", "accepted", "refused", "missed"},
                      gen : Generations \cup {0}]
    /\ recon \in [work : {"idle", "drain", "late", "normal"},
                  reads : {"none", "position", "orders", "position_first", "orders_first"},
                  qty : Quantities, orders : SUBSET {"entry", "foreign"}]
    /\ faults \in 0 .. MaxFaults

\* The Ticket has been issued; its ENTRY command waits to be claimed.
Init ==
    /\ vacuum = "none"
    /\ agg = [status |-> "ENTRY_PENDING", qty |-> 0, vacuumed |-> FALSE]
    /\ entry = "PREPARED"
    /\ cancel = [g \in Generations |-> "NONE"]
    /\ incidents = {}
    /\ waiting = FALSE
    /\ torn = FALSE
    /\ order = "none"
    /\ filled = 0
    /\ flying = {}
    /\ foreign = [seen |-> 0, open |-> FALSE]
    /\ sender = "idle"
    /\ canceller = IdleCanceller
    /\ recon = IdleRecon
    /\ faults = 0

Fault == faults < MaxFaults /\ faults' = faults + 1

-----------------------------------------------------------------------------
(* reduce_event: the Vacuum events.  Each is one transaction's change of   *)
(* the Ticket and its incidents.                                           *)

Moves(status, qty) == agg' = [status |-> status, qty |-> qty, vacuumed |-> TRUE]

\* ResolveIncident fails the transaction when the incident is not open.
Exchanges(resolved, opened) ==
    /\ resolved \subseteq incidents
    /\ incidents' = (incidents \ resolved) \cup opened

EntryVacuumSuperseded ==
    /\ agg.status = "ENTRY_PENDING"
    /\ Moves("ENTRY_REJECTED", agg.qty)
    /\ UNCHANGED incidents

\* The retry after a refused cancel resolves the refusal.
EntryVacuumCancelRequested(observed) ==
    /\ agg.status \in {"ENTRY_ACCEPTED", "ENTRY_VACUUM_CANCEL_REJECTED"}
    /\ observed < TicketQuantity
    /\ Moves("ENTRY_VACUUM_CANCEL_PENDING", observed)
    /\ Exchanges(IF agg.status = "ENTRY_ACCEPTED" THEN {} ELSE {"cancel_rejected"}, {})

EntryVacuumCancelConfirmed ==
    /\ agg.status \in {"ENTRY_VACUUM_CANCEL_PENDING", "ENTRY_VACUUM_CANCEL_OUTCOME_UNKNOWN"}
    /\ agg' = [agg EXCEPT !.status = "ENTRY_VACUUM_CANCEL_PENDING"]
    /\ Exchanges(IF agg.status = "ENTRY_VACUUM_CANCEL_PENDING" THEN {}
                 ELSE {"cancel_outcome_unknown"}, {})

EntryVacuumCancelRejected ==
    /\ agg.status \in {"ENTRY_VACUUM_CANCEL_PENDING", "ENTRY_VACUUM_CANCEL_OUTCOME_UNKNOWN"}
    /\ agg' = [agg EXCEPT !.status = "ENTRY_VACUUM_CANCEL_REJECTED"]
    /\ Exchanges(IF agg.status = "ENTRY_VACUUM_CANCEL_PENDING" THEN {}
                 ELSE {"cancel_outcome_unknown"}, {"cancel_rejected"})

EntryVacuumCancelOutcomeUnknown ==
    /\ agg.status = "ENTRY_VACUUM_CANCEL_PENDING"
    /\ agg' = [agg EXCEPT !.status = "ENTRY_VACUUM_CANCEL_OUTCOME_UNKNOWN"]
    /\ Exchanges({}, {"cancel_outcome_unknown"})

\* Mutant: the absence of the order closes a zero fill, without a second snapshot.
MutZeroFillCloses(final) ==
    /\ agg.status \in {"ENTRY_ACCEPTED", "ENTRY_VACUUM_CANCEL_PENDING",
                       "ENTRY_VACUUM_CANCEL_REJECTED"}
    /\ Moves(IF final = 0 THEN "ENTRY_RECONCILED_ABSENT" ELSE "ENTRY_VACUUM_CANCELLED", final)
    /\ UNCHANGED incidents

\* Mutant: the quantity seen when the cancel was requested stays.
MutObservedStays(final) ==
    /\ agg.status \in {"ENTRY_ACCEPTED", "ENTRY_VACUUM_CANCEL_PENDING",
                       "ENTRY_VACUUM_CANCEL_REJECTED"}
    /\ Moves("ENTRY_VACUUM_CANCELLED",
             IF agg.status = "ENTRY_ACCEPTED" THEN final ELSE agg.qty)
    /\ Exchanges(IF agg.status = "ENTRY_VACUUM_CANCEL_REJECTED" THEN {"cancel_rejected"}
                 ELSE {}, {})

EntryVacuumOrderAbsenceConfirmed(final) ==
    /\ agg.status \in {"ENTRY_ACCEPTED", "ENTRY_VACUUM_CANCEL_PENDING",
                       "ENTRY_VACUUM_CANCEL_REJECTED"}
    /\ final \in Quantities
    /\ Moves("ENTRY_VACUUM_CANCELLED", final)
    /\ Exchanges(IF agg.status = "ENTRY_VACUUM_CANCEL_REJECTED" THEN {"cancel_rejected"}
                 ELSE {}, {})

VacuumLateFillAttributed(quantity) ==
    /\ agg.status = "ENTRY_VACUUM_CANCELLED" /\ agg.qty = 0
    /\ quantity \in Quantities
    /\ Moves("ENTRY_VACUUM_CANCELLED", quantity)
    /\ UNCHANGED incidents

VacuumPostAbsenceNoFillVerified ==
    /\ agg.status = "ENTRY_VACUUM_CANCELLED" /\ agg.qty = 0
    /\ Moves("ENTRY_RECONCILED_ABSENT", 0)
    /\ Exchanges({"post_absence_contradiction"}, {})

EntryVacuumAbsenceConfirmed ==
    /\ agg.status = "ENTRY_VACUUM_CANCELLED" /\ agg.qty = 0
    /\ Moves("ENTRY_RECONCILED_ABSENT", 0)
    /\ UNCHANGED incidents

VacuumPartialRetained ==
    /\ agg.status = "ENTRY_VACUUM_CANCELLED"
    /\ Moves("PROTECTION_PENDING", agg.qty)
    /\ UNCHANGED incidents

VacuumPartialFlattenRequired ==
    /\ agg.status = "ENTRY_VACUUM_CANCELLED"
    /\ Moves("CONTROLLED_FLATTEN_PENDING", agg.qty)
    /\ Exchanges({}, {"post_fill"})

\* From ENTRY_ACCEPTED or, with its Vacuum lineage, from a cancelled ENTRY; the
\* disposition is assess_post_fill_risk's.
EntryFilled(quantity, disposition) ==
    /\ \/ agg.status = "ENTRY_ACCEPTED"
       \/ agg.status = "ENTRY_VACUUM_CANCELLED" /\ agg.vacuumed
    /\ quantity = TicketQuantity
    /\ agg' = [status |-> IF disposition = "FLATTEN_IMMEDIATELY"
                          THEN "CONTROLLED_FLATTEN_PENDING" ELSE "PROTECTION_PENDING",
               qty |-> quantity, vacuumed |-> agg.vacuumed]
    /\ Exchanges({}, IF disposition = "NORMAL" THEN {} ELSE {"post_fill"})

-----------------------------------------------------------------------------
(* The Vacuum opens, and the drain without venue facts.                    *)

\* An Owner pause, a gap or an empty selection leaves the row OPEN; a generation's
\* fence is written DRAINING_ENTRY at once.
OpenVacuum(state) ==
    /\ vacuum = "none"
    /\ vacuum' = state
    /\ UNCHANGED <<agg, entry, cancel, incidents, waiting, torn, venue, workers, recon, faults>>

StartDraining ==
    /\ vacuum = "OPEN"
    /\ vacuum' = "DRAINING_ENTRY"
    /\ UNCHANGED <<agg, entry, cancel, incidents, waiting, torn, venue, workers, recon, faults>>

\* _supersede_or_wait_pre_dispatch: only a command nobody has claimed, past its deadline too.
SupersedePrepared ==
    /\ vacuum = "DRAINING_ENTRY"
    /\ entry \in {"PREPARED", "LAPSED"}
    /\ EntryVacuumSuperseded
    /\ entry' = "SUPERSEDED"
    /\ UNCHANGED <<vacuum, cancel, waiting, torn, venue, workers, recon, faults>>

\* split_tp1_quantity: each leg gets at least one step.
TwoLegs(quantity) == quantity >= SmallestSplit

\* PostFillDisposition
Dispositions == {"NORMAL", "FLATTEN_AFTER_PROTECTION", "FLATTEN_IMMEDIATELY"}

\* plan_vacuum_ticket_drain of a cancelled ENTRY that filled something; the price, and
\* with it the disposition, is the venue's.
Materialize(disposition) ==
    /\ vacuum = "DRAINING_ENTRY"
    /\ agg.status = "ENTRY_VACUUM_CANCELLED" /\ agg.qty > 0
    /\ IF agg.qty = TicketQuantity THEN EntryFilled(agg.qty, disposition)
       ELSE IF TwoLegs(agg.qty) /\ disposition = "NORMAL" THEN VacuumPartialRetained
       ELSE VacuumPartialFlattenRequired
    /\ UNCHANGED <<vacuum, entry, cancel, waiting, torn, venue, workers, recon, faults>>

\* get_next_entry_vacuum_ticket finds nothing: the drain is complete.
CompleteDrain ==
    /\ vacuum = "DRAINING_ENTRY"
    /\ agg.status \notin BlockingStatuses
    /\ vacuum' = "DRAINED"
    /\ UNCHANGED <<agg, entry, cancel, incidents, waiting, torn, venue, workers, recon, faults>>

-----------------------------------------------------------------------------
(* dispatch_one_command of the Entry worker.                               *)

Blocks == vacuum # "none"    \* blocks_new_entry of the states modelled here

\* expires_at_ms of the Ticket passes before the command is claimed.
EntryDeadlinePasses ==
    /\ entry = "PREPARED"
    /\ entry' = "LAPSED"
    /\ UNCHANGED <<vacuum, agg, cancel, incidents, waiting, torn, venue, workers, recon, faults>>

\* The claim's own transaction supersedes the command of a fenced group.
ClaimEntry ==
    /\ sender = "idle"
    /\ entry = "PREPARED" /\ agg.status = "ENTRY_PENDING"
    /\ IF Blocks
       THEN /\ EntryVacuumSuperseded
            /\ entry' = "SUPERSEDED"
            /\ UNCHANGED sender
       ELSE /\ entry' = "CLAIMED"
            /\ sender' = "claimed"
            /\ UNCHANGED <<agg, incidents>>
    /\ UNCHANGED <<vacuum, cancel, waiting, torn, venue, canceller, recon, faults>>

\* _preflight_new_entry_mutation reads the Vacuum once more, after its network reads.
PreflightPasses ==
    /\ sender = "claimed"
    /\ ~Blocks
    /\ sender' = "cleared"
    /\ UNCHANGED <<durable, venue, canceller, recon, faults>>

\* _record_preflight_refusal: the Vacuum, or any of the other admission facts.
PreflightRefuses ==
    /\ sender = "claimed"
    /\ IF Blocks THEN /\ EntryVacuumSuperseded
                      /\ entry' = "SUPERSEDED"
       ELSE /\ agg' = [agg EXCEPT !.status = "ENTRY_REJECTED"]
            /\ entry' = "REJECTED"
            /\ UNCHANGED incidents
    /\ sender' = "idle"
    /\ UNCHANGED <<vacuum, cancel, waiting, torn, venue, canceller, recon, faults>>

SendEntry ==
    /\ sender = "cleared"
    /\ sender' = "sent"
    /\ order' = "transit"
    /\ UNCHANGED <<durable, filled, flying, foreign, canceller, recon, faults>>

\* The answer of the venue, or none: a lost request or answer, or a timeout.
RecordEntry(result) ==
    /\ sender = "sent"
    /\ \/ /\ result = "ACCEPTED" /\ order \in {"live", "dead"}
          /\ agg' = [agg EXCEPT !.status = "ENTRY_ACCEPTED"]
          /\ UNCHANGED faults
       \/ /\ result = "REJECTED" /\ order = "refused"
          /\ agg' = [agg EXCEPT !.status = "ENTRY_REJECTED"]
          /\ UNCHANGED faults
       \/ /\ result = "OUTCOME_UNKNOWN"
          /\ agg' = [agg EXCEPT !.status = "ENTRY_OUTCOME_UNKNOWN"]
          /\ IF order = "lost" THEN UNCHANGED faults ELSE Fault
    /\ entry' = result
    /\ sender' = "idle"
    /\ UNCHANGED <<vacuum, cancel, incidents, waiting, torn, venue, canceller, recon>>

EntryWorkerCrashes ==
    /\ sender # "idle"
    /\ Fault
    /\ sender' = "idle"
    /\ UNCHANGED <<durable, venue, canceller, recon>>

\* The lease of the dead worker runs out; the next tick records the unknown outcome.
ExpireEntryClaim ==
    /\ sender = "idle"
    /\ entry = "CLAIMED"
    /\ entry' = "OUTCOME_UNKNOWN"
    /\ agg' = [agg EXCEPT !.status = "ENTRY_OUTCOME_UNKNOWN"]
    /\ UNCHANGED <<vacuum, cancel, incidents, waiting, torn, venue, workers, recon, faults>>

-----------------------------------------------------------------------------
(* dispatch_one_command of the Lifecycle worker: the Vacuum cancel.        *)

\* The 30 s of a prepared cancel pass before it is claimed.
CancelDeadlinePasses(g) ==
    /\ cancel[g] = "PREPARED"
    /\ cancel' = [cancel EXCEPT ![g] = "LAPSED"]
    /\ UNCHANGED <<vacuum, agg, entry, incidents, waiting, torn, venue, workers, recon, faults>>

ClaimCancel(g) ==
    /\ canceller.phase = "idle"
    /\ cancel[g] = "PREPARED" /\ agg.status = "ENTRY_VACUUM_CANCEL_PENDING"
    /\ cancel' = [cancel EXCEPT ![g] = "CLAIMED"]
    /\ canceller' = [phase |-> "claimed", gen |-> g]
    /\ UNCHANGED <<vacuum, agg, entry, incidents, waiting, torn, venue, sender, recon, faults>>

SendCancel ==
    /\ canceller.phase = "claimed"
    /\ canceller' = [canceller EXCEPT !.phase = "sent"]
    /\ flying' = flying \cup {canceller.gen}
    /\ UNCHANGED <<durable, order, filled, foreign, sender, recon, faults>>

\* A cancel whose target is gone answers with an error, which is an unknown outcome.
RecordCancel(result) ==
    /\ \/ /\ result = "ACCEPTED" /\ canceller.phase = "accepted"
          /\ EntryVacuumCancelConfirmed
       \/ /\ result = "REJECTED" /\ canceller.phase = "refused"
          /\ EntryVacuumCancelRejected
       \/ /\ result = "OUTCOME_UNKNOWN" /\ canceller.phase \in {"missed", "sent"}
          /\ EntryVacuumCancelOutcomeUnknown
    /\ IF canceller.phase = "sent" /\ canceller.gen \in flying THEN Fault ELSE UNCHANGED faults
    /\ cancel' = [cancel EXCEPT ![canceller.gen] = result]
    /\ canceller' = IdleCanceller
    /\ UNCHANGED <<vacuum, entry, waiting, torn, venue, sender, recon>>

LifecycleWorkerCrashes ==
    /\ canceller.phase # "idle"
    /\ Fault
    /\ canceller' = IdleCanceller
    /\ UNCHANGED <<durable, venue, sender, recon>>

ExpireCancelClaim(g) ==
    /\ canceller.phase = "idle"
    /\ cancel[g] = "CLAIMED"
    /\ EntryVacuumCancelOutcomeUnknown
    /\ cancel' = [cancel EXCEPT ![g] = "OUTCOME_UNKNOWN"]
    /\ UNCHANGED <<vacuum, entry, waiting, torn, venue, workers, recon, faults>>

-----------------------------------------------------------------------------
(* The Reconciliation worker: unknown outcomes first.                      *)

NoUnknown == entry # "OUTCOME_UNKNOWN" /\ \A g \in Generations : cancel[g] # "OUTCOME_UNKNOWN"

\* The visibility window outlives every request: one still in transit is not absent.
RecoverEntry ==
    /\ recon.work = "idle"
    /\ entry = "OUTCOME_UNKNOWN"
    /\ order # "transit"
    /\ LET submitted == order \in {"live", "dead"}
       IN  /\ entry' = IF submitted THEN "RECONCILED_ACCEPTED" ELSE "RECONCILED_ABSENT"
           /\ agg' = [agg EXCEPT !.status = IF submitted THEN "ENTRY_ACCEPTED"
                                            ELSE "ENTRY_RECONCILED_ABSENT"]
    /\ UNCHANGED <<vacuum, cancel, incidents, waiting, torn, venue, workers, recon, faults>>

\* decide_cancel_recovery: the target is terminal, or still open after the window.
RecoverCancel(g) ==
    /\ recon.work = "idle"
    /\ cancel[g] = "OUTCOME_UNKNOWN"
    /\ IF order = "live" THEN EntryVacuumCancelRejected ELSE EntryVacuumCancelConfirmed
    /\ cancel' = [cancel EXCEPT ![g] = "RECONCILED_ABSENT"]
    /\ UNCHANGED <<vacuum, entry, waiting, torn, venue, workers, recon, faults>>

-----------------------------------------------------------------------------
(* The Reconciliation worker: position facts.                              *)

Requested == {g \in Generations : cancel[g] # "NONE"}
LatestCancelIsDecided ==
    \E g \in Requested : (\A h \in Requested : h <= g) /\ cancel[g] \notin Undecided
NewCancel(g) == \A h \in Generations : (h < g) <=> (h \in Requested)

\* A zero fill that a later snapshot contradicted goes to exact attribution instead.
Contradicted == /\ agg.status = "ENTRY_VACUUM_CANCELLED" /\ agg.qty = 0
                /\ "post_absence_contradiction" \in incidents

\* Mutant: a refused cancel is left to the operator.
MutRefusalWaits ==
    \/ agg.status = "ENTRY_ACCEPTED"
    \/ agg.status = "ENTRY_VACUUM_CANCEL_PENDING" /\ LatestCancelIsDecided
    \/ agg.status = "ENTRY_VACUUM_CANCELLED" /\ agg.qty = 0

DrainsByFacts ==
    \/ agg.status \in {"ENTRY_ACCEPTED", "ENTRY_VACUUM_CANCEL_REJECTED"}
    \/ agg.status = "ENTRY_VACUUM_CANCEL_PENDING" /\ LatestCancelIsDecided
    \/ agg.status = "ENTRY_VACUUM_CANCELLED" /\ agg.qty = 0

\* _run_entry_vacuum_position_fact_drain_once picks the Ticket, and the tick's kind of work.
BeginReads(work) ==
    /\ recon.work = "idle" /\ NoUnknown
    /\ CASE work = "drain" -> vacuum = "DRAINING_ENTRY" /\ DrainsByFacts /\ ~Contradicted
         [] work = "late" -> vacuum = "DRAINING_ENTRY" /\ Contradicted /\ ~waiting
         [] work = "normal" -> vacuum # "DRAINING_ENTRY" /\ agg.status = "ENTRY_ACCEPTED"
    /\ recon' = [IdleRecon EXCEPT !.work = work]
    /\ UNCHANGED <<durable, venue, workers, faults>>

\* read_position_snapshot gathers position and open orders: the venue answers each at
\* its own moment.
ReadPosition ==
    /\ recon.work # "idle" /\ recon.reads \in {"none", "orders"}
    /\ recon' = [work |-> recon.work,
                 reads |-> IF recon.reads = "none" THEN "position" ELSE "orders_first",
                 qty |-> filled, orders |-> recon.orders]
    /\ UNCHANGED <<durable, venue, workers, faults>>

OpenOrders == (IF order = "live" THEN {"entry"} ELSE {})
              \cup (IF foreign.open THEN {"foreign"} ELSE {})

ReadOrders ==
    /\ recon.work # "idle" /\ recon.reads \in {"none", "position"}
    /\ recon' = [work |-> recon.work,
                 reads |-> IF recon.reads = "none" THEN "orders" ELSE "position_first",
                 qty |-> recon.qty, orders |-> OpenOrders]
    /\ UNCHANGED <<durable, venue, workers, faults>>

SnapshotRead == recon.reads \in {"position_first", "orders_first"}

\* A failed or late read ends the tick; a failed attribution also waits for its retry.
ReadFails ==
    /\ recon.work # "idle"
    /\ Fault
    /\ recon' = IdleRecon
    /\ waiting' = (waiting \/ recon.work = "late")
    /\ UNCHANGED <<vacuum, agg, entry, cancel, incidents, torn, venue, workers>>

\* plan_vacuum_ticket_drain while the ENTRY order is undecided.
CommitOpenOrder ==
    /\ agg.status # "ENTRY_VACUUM_CANCELLED"
    /\ "entry" \in recon.orders
    /\ IF agg.status = "ENTRY_VACUUM_CANCEL_PENDING" \/ recon.qty >= TicketQuantity
       THEN UNCHANGED <<agg, incidents, cancel>>
       ELSE /\ EntryVacuumCancelRequested(recon.qty)
            /\ \E g \in Generations : /\ NewCancel(g)
                                      /\ cancel' = [cancel EXCEPT ![g] = "PREPARED"]
    /\ UNCHANGED torn

CommitOrderGone ==
    /\ agg.status # "ENTRY_VACUUM_CANCELLED"
    /\ "entry" \notin recon.orders
    /\ EntryVacuumOrderAbsenceConfirmed(recon.qty)
    /\ torn' = (recon.reads = "position_first")
    /\ UNCHANGED cancel

\* The second, fresh snapshot of a zero fill confirms it or contradicts it.
CommitZeroFill ==
    /\ agg.status = "ENTRY_VACUUM_CANCELLED"
    /\ IF recon.qty > 0 \/ recon.orders # {}
       THEN /\ Exchanges({}, {"post_absence_contradiction"})
            /\ UNCHANGED agg
       ELSE EntryVacuumAbsenceConfirmed
    /\ UNCHANGED <<cancel, torn>>

\* drain_strategy_entry_vacuum_once with the snapshot.
CommitDrain ==
    /\ recon.work = "drain" /\ SnapshotRead
    /\ vacuum = "DRAINING_ENTRY"
    /\ CommitOpenOrder \/ CommitOrderGone \/ CommitZeroFill
    /\ recon' = IdleRecon
    /\ UNCHANGED <<vacuum, entry, waiting, venue, workers, faults>>

\* decide_vacuum_late_fill_attribution: no order left in the domain, the ENTRY order
\* visible and closed, and its fills equal to both position reads.
ExactlyAttributed ==
    /\ entry \in {"ACCEPTED", "RECONCILED_ACCEPTED"}
    /\ \A g \in Generations : cancel[g] \notin Undecided
    /\ recon.orders = {}
    /\ order = "dead"
    /\ recon.qty = filled

\* recover_vacuum_late_fill: the truth of the ENTRY order is read after the snapshot.
CommitLateFill ==
    /\ recon.work = "late" /\ SnapshotRead
    /\ vacuum = "DRAINING_ENTRY" /\ Contradicted
    /\ IF ExactlyAttributed
       THEN /\ IF recon.qty = 0 THEN VacuumPostAbsenceNoFillVerified
               ELSE VacuumLateFillAttributed(recon.qty)
            /\ torn' = FALSE
            /\ waiting' = FALSE
       ELSE /\ waiting' = TRUE
            /\ UNCHANGED <<agg, incidents, torn>>
    /\ recon' = IdleRecon
    /\ UNCHANGED <<vacuum, entry, cancel, venue, workers, faults>>

\* vacuum_late_fill_retry_interval_ms has passed.
RetryLateFill ==
    /\ waiting
    /\ waiting' = FALSE
    /\ UNCHANGED <<vacuum, agg, entry, cancel, incidents, torn, venue, workers, recon, faults>>

\* reconcile_ticket of an accepted ENTRY that no drain had taken when the tick began.
CommitNormal(disposition) ==
    /\ recon.work = "normal" /\ SnapshotRead
    /\ IF agg.status # "ENTRY_ACCEPTED" \/ recon.qty = 0 THEN UNCHANGED <<agg, incidents>>
       ELSE IF recon.qty = TicketQuantity THEN EntryFilled(recon.qty, disposition)
       ELSE /\ agg' = [status |-> "PARTIAL_FILL_INCIDENT", qty |-> recon.qty,
                       vacuumed |-> agg.vacuumed]
            /\ UNCHANGED incidents
    /\ recon' = IdleRecon
    /\ UNCHANGED <<vacuum, entry, cancel, waiting, torn, venue, workers, faults>>

-----------------------------------------------------------------------------
(* The venue, the other traders of the account, and the Ticket's later     *)
(* life, which TicketExecution has: nothing here makes it go on.           *)

EntryArrives(fate) ==
    /\ order = "transit"
    /\ order' = fate
    /\ IF fate = "live" THEN UNCHANGED faults ELSE Fault
    /\ UNCHANGED <<durable, filled, flying, foreign, workers, recon>>

OrderFills ==
    /\ order = "live"
    /\ filled' = filled + 1
    /\ order' = IF filled' = TicketQuantity THEN "dead" ELSE "live"
    /\ UNCHANGED <<durable, flying, foreign, workers, recon, faults>>

Answered(g, phase) ==
    canceller' = IF canceller = [phase |-> "sent", gen |-> g]
                 THEN [phase |-> phase, gen |-> g] ELSE canceller

CancelArrives(g) ==
    /\ g \in flying
    /\ flying' = flying \ {g}
    /\ \/ /\ order' = IF order = "live" THEN "dead" ELSE order
          /\ Answered(g, IF order = "live" THEN "accepted" ELSE "missed")
          /\ UNCHANGED faults
       \/ /\ Fault
          /\ Answered(g, "refused")
          /\ UNCHANGED order
       \/ /\ Fault
          /\ UNCHANGED <<order, canceller>>
    /\ UNCHANGED <<durable, filled, foreign, sender, recon>>

ForeignOrderAppears ==
    /\ foreign.seen < MaxForeign /\ ~foreign.open
    /\ foreign' = [seen |-> foreign.seen + 1, open |-> TRUE]
    /\ UNCHANGED <<durable, order, filled, flying, workers, recon, faults>>

ForeignOrderLeaves ==
    /\ foreign.open
    /\ foreign' = [foreign EXCEPT !.open = FALSE]
    /\ UNCHANGED <<durable, order, filled, flying, workers, recon, faults>>

\* The Ticket leaves the blocking statuses: it is protected, or flat and closed.
LifecycleGoesOn ==
    /\ agg.status \in HandedOnStatuses
    /\ agg' = [agg EXCEPT !.status = "AFTER_ENTRY"]
    /\ incidents' = incidents \ {"post_fill"}
    /\ UNCHANGED <<vacuum, entry, cancel, waiting, torn, venue, workers, recon, faults>>

-----------------------------------------------------------------------------
EntryWorkerNext ==
    \/ ClaimEntry \/ PreflightPasses \/ PreflightRefuses \/ SendEntry
    \/ \E result \in {"ACCEPTED", "REJECTED", "OUTCOME_UNKNOWN"} : RecordEntry(result)
    \/ ExpireEntryClaim

LifecycleWorkerNext ==
    \/ SendCancel
    \/ \E g \in Generations : ClaimCancel(g) \/ ExpireCancelClaim(g)
    \/ \E result \in {"ACCEPTED", "REJECTED", "OUTCOME_UNKNOWN"} : RecordCancel(result)

ReconciliationNext ==
    \/ RecoverEntry
    \/ \E g \in Generations : RecoverCancel(g)
    \/ \E work \in {"drain", "late", "normal"} : BeginReads(work)
    \/ ReadPosition \/ ReadOrders
    \/ CommitDrain \/ CommitLateFill
    \/ \E disposition \in Dispositions : CommitNormal(disposition)

SelectionNext ==
    \/ StartDraining \/ SupersedePrepared \/ CompleteDrain
    \/ \E disposition \in Dispositions : Materialize(disposition)

VenueNext ==
    \/ \E fate \in {"live", "refused", "lost"} : EntryArrives(fate)
    \/ \E g \in Generations : CancelArrives(g)

Next ==
    \/ EntryWorkerNext \/ LifecycleWorkerNext \/ ReconciliationNext \/ SelectionNext
    \/ VenueNext \/ OrderFills \/ RetryLateFill
    \/ EntryDeadlinePasses \/ \E g \in Generations : CancelDeadlinePasses(g)
    \/ EntryWorkerCrashes \/ LifecycleWorkerCrashes \/ ReadFails
    \/ ForeignOrderAppears \/ ForeignOrderLeaves \/ LifecycleGoesOn
    \/ \E state \in {"OPEN", "DRAINING_ENTRY"} : OpenVacuum(state)

Spec == Init /\ [][Next]_vars

\* Every worker ticks, the venue answers and the retry interval passes.  Fills are the
\* market's, orders of others are theirs, and a Ticket that was handed on may stay where it
\* is: a refused remainder cancel has no successor, an Initial Stop can miss its deadline.
Fairness ==
    /\ WF_vars(EntryWorkerNext) /\ WF_vars(LifecycleWorkerNext)
    /\ WF_vars(ReconciliationNext) /\ WF_vars(SelectionNext) /\ WF_vars(VenueNext)
    /\ WF_vars(RetryLateFill)

FairSpec == Spec /\ Fairness

-----------------------------------------------------------------------------
(* Properties.                                                             *)

\* A Ticket that the drain, the preflight or unknown recovery closed without exposure has
\* none and gets none: nothing filled, and no ENTRY order or request is left that could
\* still fill, whatever the venue did between the two snapshots of a zero fill.
FillsAreKept ==
    agg.status \in ClosedStatuses =>
        /\ filled = 0
        /\ order \notin {"transit", "live"}
        /\ sender \notin {"cleared", "sent"}

\* The quantity with which a drained Ticket goes to its Initial Stop or its flatten is a
\* real one of a finished ENTRY order, and all of it unless the two reads of the snapshot
\* that saw the order gone were answered in the unlucky order.
HandedQuantityIsReal ==
    agg.status \in HandedOnStatuses /\ agg.vacuumed =>
        /\ order = "dead"
        /\ agg.qty > 0 /\ agg.qty <= filled
        /\ ~torn => agg.qty = filled

\* A started drain of the Ticket's ENTRY ends, through refused, lost and missed cancels,
\* crashes of its workers and contradicted zero fills.  It waits for good only for a cancel
\* that nobody claimed within its 30 s, for a Ticket handed on that never leaves the
\* blocking statuses, or for an order of others that stays in the netting domain.
EntryDrainEnds ==
    <>[](vacuum = "DRAINING_ENTRY") =>
        \/ <>[](\E g \in Generations : cancel[g] = "LAPSED")
        \/ <>[](agg.status \in HandedOnStatuses)
        \/ <>[](foreign.open)
=============================================================================
