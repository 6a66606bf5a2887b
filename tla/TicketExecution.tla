--------------------------- MODULE TicketExecution ---------------------------
(***************************************************************************)
(* One Ticket executed by the kernel's workers against the venue.           *)
(*                                                                          *)
(* Durable state (PostgreSQL): the aggregate, the exchange command rows,    *)
(* the open incidents and the authorities the Ticket holds.  Every action   *)
(* on it is one transaction: a Reduction of TicketReducer materialised by   *)
(* commit_reduction.                                                        *)
(*                                                                          *)
(* Volatile state: the worker that dispatches commands (the Entry worker    *)
(* until the ENTRY outcome is recorded, the Lifecycle worker afterwards: a  *)
(* Ticket never has work for both) and the Reconciliation worker, each one  *)
(* sequential process that a crash empties.                                 *)
(*                                                                          *)
(* External state (the exchange): what became of every request, the         *)
(* position of the netting domain and an order of somebody else in it.      *)
(*                                                                          *)
(* The venue call of a command lies between two transactions, and so does   *)
(* the position snapshot of the Reconciliation worker; the other reads of   *)
(* the venue are joined with the transaction that uses them, which is       *)
(* harmless because nothing else can change the rows they decide on.        *)
(***************************************************************************)
EXTENDS TicketReducer

CONSTANTS
    DeadlinesLapse,    \* a PREPARED command may miss its deadline
    BoundedDelivery,   \* no request outlives its visibility window on the network
    ExternalCloses,    \* when the position may be closed outside the kernel: never,
                       \* once the ENTRY order has ended ("filled"), or always
    ForeignOrders,     \* orders the kernel does not own may stand in the domain
    MaxFaults          \* bound: faults of one behaviour

ASSUME EnvironmentAssumption ==
    /\ DeadlinesLapse \in BOOLEAN /\ BoundedDelivery \in BOOLEAN
    /\ ExternalCloses \in {"never", "filled", "always"} /\ ForeignOrders \in BOOLEAN
    /\ MaxFaults \in Nat

VARIABLES
    agg,          \* trade_aggregates row
    commands,     \* exchange_commands rows by <<kind, generation>>
    incidents,    \* kinds of the open runtime_incidents of the Ticket
    held,         \* authorities the Ticket holds
    order,        \* venue: what became of the request of each command
    position,     \* venue: quantity of the position
    entryFilled,  \* venue: cumulative fill of the ENTRY order
    foreign,      \* venue: an order without the kernel's client id prefix
    faults,       \* crashes, refusals, losses, timeouts, missed deadlines so far
    dispatcher,   \* Entry / Lifecycle worker: the claimed command it works on
    recon         \* Reconciliation worker: the snapshot it has read

durable == <<agg, commands, incidents, held>>
venue == <<order, position, entryFilled, foreign>>
vars == <<agg, commands, incidents, held, order, position, entryFilled, foreign,
          faults, dispatcher, recon>>

RowStatuses == {"NONE", "PREPARED", "CLAIMED", "ACCEPTED", "REJECTED", "OUTCOME_UNKNOWN",
                "RECONCILED_ACCEPTED", "RECONCILED_ABSENT", "SUPERSEDED"}

\* The timer is the command deadline of a PREPARED row, the lease of a CLAIMED
\* one and the visibility window of an OUTCOME_UNKNOWN one.
Row == [status : RowStatuses, timer : {"running", "over"}, payload : Payload]

\* unsent -> transit -> lost | refused | missed (cancel without a target)
\*                    | live (resting order) | done (executed, cancelled)
OrderStates == {"unsent", "transit", "lost", "refused", "missed", "live", "done"}

IdleDispatcher == [phase |-> "idle", cmd |-> NoOrder]
IdleRecon == [work |-> "idle", qty |-> 0, open |-> {}, foreign |-> FALSE]

EntryCommand == <<"ENTRY", 1>>
StopKinds == {"INITIAL_STOP", "REPLACE_PROTECTION"}
MarketKinds == {"EXIT", "CONTROLLED_FLATTEN"}
ClosingKinds == StopKinds \cup MarketKinds \cup {"TAKE_PROFIT"}
EntryWorkerKinds == {"SET_LEVERAGE", "ENTRY"}

SameWorker(c, d) == (c[1] \in EntryWorkerKinds) = (d[1] \in EntryWorkerKinds)
NamespaceOf(c) == IF c[1] \in StopKinds THEN "conditional" ELSE "regular"

\* Type correctness of rows, venue and workers; the non-trivial part is that the
\* quantities reduce_event computes never leave 0 .. ticket.quantity and that
\* every stop price and order id it stores is one the kernel itself created.
TypeOK ==
    /\ agg \in Aggregate
    /\ commands \in [CommandId -> Row]
    /\ incidents \subseteq IncidentKinds
    /\ held \subseteq Authorities
    /\ order \in [CommandId -> OrderStates]
    /\ position \in Quantities
    /\ entryFilled \in Quantities
    /\ foreign \in BOOLEAN
    /\ faults \in 0 .. MaxFaults
    /\ dispatcher \in [phase : {"idle", "claimed", "sent"}, cmd : OrderId]
    /\ recon \in [work : {"idle", "snapshot"}, qty : Quantities,
                  open : SUBSET CommandId, foreign : BOOLEAN]

Init ==
    /\ agg = NoAggregate
    /\ commands = [c \in CommandId |->
                     [status |-> "NONE", timer |-> "running", payload |-> Command(c[1], 0)]]
    /\ incidents = {}
    /\ held = {}
    /\ order = [c \in CommandId |-> "unsent"]
    /\ position = 0
    /\ entryFilled = 0
    /\ foreign = FALSE
    /\ faults = 0
    /\ dispatcher = IdleDispatcher
    /\ recon = IdleRecon

Fault == faults < MaxFaults /\ faults' = faults + 1
NoFault == faults' = faults

-----------------------------------------------------------------------------
(* commit_reduction. *)

OneShotKinds == {"SET_LEVERAGE", "ENTRY", "INITIAL_STOP", "CONTROLLED_FLATTEN"}

\* require_next_generation_allowed, consulted for a cancel only when the
\* previous cancel names the same order.
NextGenerationAllowed(payload, prior) ==
    \/ payload.kind = "CANCEL_ORDER" /\ prior.payload.target # payload.target
    \/ prior.status \in {"REJECTED", "RECONCILED_ABSENT"}
    \/ /\ payload.kind = "REPLACE_PROTECTION"
       /\ prior.status \in {"ACCEPTED", "RECONCILED_ACCEPTED"}

\* generation is the next one of this kind and the code allows it; one-shot
\* kinds are always inserted as generation 1.
GenerationAllowed(rows, payload, generation) ==
    /\ rows[<<payload.kind, generation>>].status = "NONE"
    /\ \A g \in Generations :
          g < generation => rows[<<payload.kind, g>>].status # "NONE"
    /\ payload.kind \in OneShotKinds => generation = 1
    /\ generation > 1 /\ payload.purpose # "entry_remainder" =>
          NextGenerationAllowed(payload, rows[<<payload.kind, generation - 1>>])

SetStatus(rows, c, status) ==
    [rows EXCEPT ![c] = [status |-> status, timer |-> "running", payload |-> rows[c].payload]]

\* mark_cancel_reconciled_absent: exactly one row must match.
UnknownCancels(rows, target) ==
    {c \in CommandId : /\ c[1] = "CANCEL_ORDER"
                       /\ rows[c].status = "OUTCOME_UNKNOWN"
                       /\ rows[c].payload.target = target}

MarkAbsent(rows, targets) ==
    [c \in CommandId |->
        IF \E t \in targets : c \in UnknownCancels(rows, t)
        THEN [status |-> "RECONCILED_ABSENT", timer |-> "running", payload |-> rows[c].payload]
        ELSE rows[c]]

\* mark_terminal also clears the active netting domain of a rejected Ticket.
ClearedDomain(status) ==
    IF status \in RejectedStatuses \cup {"TERMINAL"} THEN {"domain"} ELSE {}

\* One transaction: the aggregate, its command rows, its incidents and its
\* authorities.  rows are the command rows as the caller has updated them in
\* the same transaction, authorities what the Ticket holds on entry.
Commit(r, rows, authorities) ==
    /\ r.resolve \subseteq incidents
    /\ r.release \subseteq authorities
    /\ \A t \in r.markAbsent : \E c \in CommandId : UnknownCancels(rows, t) = {c}
    /\ \/ /\ r.prepare = {}
          /\ commands' = MarkAbsent(rows, r.markAbsent)
       \/ \E p \in r.prepare, g \in Generations :
             /\ GenerationAllowed(rows, p, g)
             /\ commands' = [MarkAbsent(rows, r.markAbsent) EXCEPT ![<<p.kind, g>>] =
                               [status |-> "PREPARED", timer |-> "running", payload |-> p]]
    /\ agg' = r.agg
    /\ incidents' = IF r.closesIncidents THEN {} ELSE (incidents \ r.resolve) \cup r.open
    /\ held' = authorities \ (r.release \cup ClearedDomain(r.agg.status))

\* The transaction raises and rolls back, whatever reduction the event admits.
\* (A kind that has used up MaxGeneration is a bound of the model, not a refusal.)
Raises(reductions, rows) ==
    \A r \in reductions :
        \/ ~ (r.resolve \subseteq incidents /\ r.release \subseteq held)
        \/ \E t \in r.markAbsent : \A c \in CommandId : UnknownCancels(rows, t) # {c}
        \/ \E p \in r.prepare :
              \/ /\ p.kind \in OneShotKinds
                 /\ rows[<<p.kind, 1>>].status # "NONE"
              \/ \E g \in Generations :
                    /\ rows[<<p.kind, g>>].status = "NONE"
                    /\ \A h \in Generations : h < g => rows[<<p.kind, h>>].status # "NONE"
                    /\ ~ GenerationAllowed(rows, p, g)

\* The writing half of issue_ticket: capacity claim, budget, exposure and lane are
\* taken with the TicketIssued event.  The admission checks before it concern
\* other Tickets and the account; the Ticket modelled here has passed them.
IssueTicket(leverageChange) ==
    /\ agg.status = "UNISSUED"
    /\ \E r \in TicketIssued(leverageChange) : Commit(r, commands, Authorities)
    /\ UNCHANGED <<venue, dispatcher, recon, faults>>

-----------------------------------------------------------------------------
(* dispatch_one_command: claim, venue call, result. *)

CancelStatus(purpose) ==
    CASE purpose = "entry_remainder" -> "PARTIAL_FILL_INCIDENT"
      [] purpose = "runner_old_stop" -> "RUNNER_OLD_STOP_CANCEL_PENDING"
      [] OTHER -> "RECONCILIATION_PENDING"

\* _command_is_applicable
Applicable(p, status) ==
    CASE p.kind = "SET_LEVERAGE" -> status = "LEVERAGE_PENDING"
      [] p.kind = "ENTRY" -> status \in {"ENTRY_PENDING", "LEVERAGE_CONFIRMED"}
      [] p.kind = "INITIAL_STOP" -> status = "PROTECTION_PENDING"
      [] p.kind = "TAKE_PROFIT" -> status = "TP1_PENDING"
      [] p.kind = "REPLACE_PROTECTION" -> status = "RUNNER_REPLACEMENT_PENDING"
      [] p.kind = "EXIT" -> status = "EXIT_PENDING"
      [] p.kind = "CONTROLLED_FLATTEN" -> status = "CONTROLLED_FLATTEN_PENDING"
      [] OTHER -> status = CancelStatus(p.purpose)

\* _cancel_result_event
CancelResultEvent(a, p, result) ==
    IF a.status # CancelStatus(p.purpose) THEN {}
    ELSE CASE p.purpose = "entry_remainder" ->
                [ACCEPTED |-> EntryRemainderCancelConfirmed(a, p.target),
                 REJECTED |-> EntryRemainderCancelRejected(a, p.target),
                 OUTCOME_UNKNOWN |-> EntryRemainderCancelOutcomeUnknown(a, p.target)][result]
           [] p.purpose = "runner_old_stop" ->
                [ACCEPTED |-> ProtectionCancelConfirmed(a, p.target),
                 REJECTED |-> ProtectionCancelRejected(a, p.target),
                 OUTCOME_UNKNOWN |-> ProtectionCancelOutcomeUnknown(a, p.target)][result]
           [] OTHER ->
                [ACCEPTED |-> OwnedOrphanCancelConfirmed(a, p.target),
                 REJECTED |-> CancelOrderRejected(a, p.target),
                 OUTCOME_UNKNOWN |-> CancelOrderOutcomeUnknown(a, p.target)][result]

\* _command_result_event, with reduce_event applied to it
CommandResultEvent(a, c, p, result) ==
    CASE p.kind = "SET_LEVERAGE" ->
           [ACCEPTED |-> LeverageConfirmed(a), REJECTED |-> LeverageRejected(a),
            OUTCOME_UNKNOWN |-> LeverageOutcomeUnknown(a)][result]
      [] p.kind = "ENTRY" ->
           [ACCEPTED |-> EntryAccepted(a, c), REJECTED |-> EntryRejected(a),
            OUTCOME_UNKNOWN |-> EntryOutcomeUnknown(a)][result]
      [] p.kind = "INITIAL_STOP" ->
           [ACCEPTED |-> InitialStopConfirmed(a, c, a.positionQty),
            REJECTED |-> InitialStopRejected(a),
            OUTCOME_UNKNOWN |-> InitialStopOutcomeUnknown(a)][result]
      [] p.kind = "TAKE_PROFIT" ->
           [ACCEPTED |-> TakeProfitConfirmed(a, c, p.qty), REJECTED |-> TakeProfitRejected(a),
            OUTCOME_UNKNOWN |-> TakeProfitOutcomeUnknown(a)][result]
      [] p.kind = "REPLACE_PROTECTION" ->
           [ACCEPTED |-> ProtectionReplacementConfirmed(a, c, p.qty, p.price, p.target),
            REJECTED |-> ProtectionReplacementRejected(a),
            OUTCOME_UNKNOWN |-> ProtectionReplacementOutcomeUnknown(a)][result]
      [] p.kind = "EXIT" ->
           [ACCEPTED |-> ExitAccepted(a), REJECTED |-> ExitRejected(a),
            OUTCOME_UNKNOWN |-> ExitOutcomeUnknown(a)][result]
      [] p.kind = "CONTROLLED_FLATTEN" ->
           [ACCEPTED |-> ControlledFlattenAccepted(a), REJECTED |-> ControlledFlattenRejected(a),
            OUTCOME_UNKNOWN |-> ControlledFlattenOutcomeUnknown(a)][result]
      [] OTHER -> CancelResultEvent(a, p, result)

Results == {"ACCEPTED", "REJECTED", "OUTCOME_UNKNOWN"}

LapsedClaim(c) == commands[c].status = "CLAIMED" /\ commands[c].timer = "over"
Claimable(c) == commands[c].status = "PREPARED" /\ commands[c].timer = "running"

\* Mutant: an expired claim goes back to the queue.
ExpireClaimRequeues(c) ==
    /\ dispatcher = IdleDispatcher
    /\ LapsedClaim(c)
    /\ commands' = SetStatus(commands, c, "PREPARED")
    /\ UNCHANGED <<agg, incidents, held, venue, dispatcher, recon, faults>>

\* First transaction: an expired claim becomes OUTCOME_UNKNOWN.  If its event is
\* refused the tick raises: nothing changes, and the next tick meets it again.
ExpireClaim(c) ==
    /\ dispatcher = IdleDispatcher
    /\ LapsedClaim(c)
    /\ \E r \in CommandResultEvent(agg, c, commands[c].payload, "OUTCOME_UNKNOWN") :
          Commit(r, SetStatus(commands, c, "OUTCOME_UNKNOWN"), held)
    /\ UNCHANGED <<venue, dispatcher, recon, faults>>

\* Second transaction: claim_one_prepared takes the lease.
Selects(c) ==
    /\ dispatcher = IdleDispatcher
    /\ Claimable(c)
    /\ \A d \in CommandId : SameWorker(c, d) => ~ LapsedClaim(d)

\* Mutant: the venue call is started without committing the lease.
ClaimWithoutLease(c) ==
    /\ Selects(c)
    /\ Applicable(commands[c].payload, agg.status)
    /\ dispatcher' = [phase |-> "claimed", cmd |-> c]
    /\ UNCHANGED <<durable, venue, recon, faults>>

ClaimPrepared(c) ==
    /\ Selects(c)
    /\ Applicable(commands[c].payload, agg.status)
    /\ commands' = SetStatus(commands, c, "CLAIMED")
    /\ dispatcher' = [phase |-> "claimed", cmd |-> c]
    /\ UNCHANGED <<agg, incidents, held, venue, recon, faults>>

\* mark_claimed_superseded: the aggregate has moved on.
Supersede(c) ==
    /\ Selects(c)
    /\ ~ Applicable(commands[c].payload, agg.status)
    /\ commands' = SetStatus(commands, c, "SUPERSEDED")
    /\ UNCHANGED <<agg, incidents, held, venue, dispatcher, recon, faults>>

\* The venue call starts only after the lease has been committed.
Send(c) ==
    /\ dispatcher = [phase |-> "claimed", cmd |-> c]
    /\ order' = [order EXCEPT ![c] = "transit"]
    /\ dispatcher' = [dispatcher EXCEPT !.phase = "sent"]
    /\ UNCHANGED <<durable, position, entryFilled, foreign, recon, faults>>

\* Third transaction: the result and the event it stands for.
Record(c, result) ==
    /\ dispatcher' = IdleDispatcher
    /\ \E r \in CommandResultEvent(agg, c, commands[c].payload, result) :
          Commit(r, SetStatus(commands, c, result), held)
    /\ UNCHANGED <<venue, recon>>

\* _preflight_new_entry_mutation refuses, _record_preflight_refusal records it
PreflightRefuse(c) ==
    /\ dispatcher = [phase |-> "claimed", cmd |-> c]
    /\ c[1] \in EntryWorkerKinds
    /\ Fault
    /\ Record(c, "REJECTED")

\* What the call returns.  OrderNotFound is not one of the authoritative
\* rejections; a timeout or a lost answer (a fault) hides any outcome.
Answers(fate, result) ==
    \/ fate \in {"live", "done"} /\ result = "ACCEPTED" /\ NoFault
    \/ fate = "refused" /\ result = "REJECTED" /\ NoFault
    \/ fate \in {"lost", "missed"} /\ result = "OUTCOME_UNKNOWN" /\ NoFault
    \/ fate \in {"transit", "live", "done", "refused"} /\ result = "OUTCOME_UNKNOWN" /\ Fault

RecordResult(c, result) ==
    /\ dispatcher = [phase |-> "sent", cmd |-> c]
    /\ Answers(order[c], result)
    /\ Record(c, result)

\* The reducer or commit_reduction refuses the result: the row stays CLAIMED.
RecordRaises(c, result) ==
    /\ dispatcher = [phase |-> "sent", cmd |-> c]
    /\ Answers(order[c], result)
    /\ Raises(CommandResultEvent(agg, c, commands[c].payload, result),
              SetStatus(commands, c, result))
    /\ dispatcher' = IdleDispatcher
    /\ UNCHANGED <<durable, venue, recon>>

Crash ==
    /\ \/ dispatcher # IdleDispatcher /\ dispatcher' = IdleDispatcher /\ recon' = recon
       \/ recon # IdleRecon /\ recon' = IdleRecon /\ dispatcher' = dispatcher
    /\ Fault
    /\ UNCHANGED <<durable, venue>>

\* Time passes.  A lease only matters once its worker is gone.
TimerLapses(c) ==
    /\ commands[c].timer = "running"
    /\ \/ commands[c].status = "PREPARED" /\ DeadlinesLapse /\ Fault
       \/ commands[c].status = "CLAIMED" /\ dispatcher.cmd # c /\ NoFault
       \/ /\ commands[c].status = "OUTCOME_UNKNOWN"
          /\ NoFault
          /\ BoundedDelivery => order[c] # "transit"
    /\ commands' = [commands EXCEPT ![c].timer = "over"]
    /\ UNCHANGED <<agg, incidents, held, venue, dispatcher, recon>>

-----------------------------------------------------------------------------
(* The venue (external): requests arrive, orders execute. *)

Fate(c, state) == order' = [order EXCEPT ![c] = state]

Less(quantity, closed) == IF closed < quantity THEN quantity - closed ELSE 0

CancelHits(c) ==
    LET p == commands[c].payload
    IN /\ p.target # NoOrder
       /\ order[p.target] = "live"
       /\ NamespaceOf(p.target) = p.namespace

Deliver(c) ==
    /\ order[c] = "transit"
    /\ CASE c[1] = "SET_LEVERAGE" -> Fate(c, "done") /\ UNCHANGED position
         [] c[1] \in MarketKinds -> /\ position > 0
                                   /\ position' = Less(position, commands[c].payload.qty)
                                   /\ Fate(c, "done")
         [] c[1] = "CANCEL_ORDER" ->
              /\ IF CancelHits(c)
                 THEN order' = [order EXCEPT ![c] = "done",
                                             ![commands[c].payload.target] = "done"]
                 ELSE Fate(c, "missed")
              /\ UNCHANGED position
         [] OTHER -> Fate(c, "live") /\ UNCHANGED position
    /\ UNCHANGED <<durable, entryFilled, foreign, dispatcher, recon, faults>>

\* Refusing an order that would close more than the position is no fault.
Refuse(c) ==
    /\ order[c] = "transit"
    /\ Fate(c, "refused")
    /\ IF c[1] \in ClosingKinds /\ position < commands[c].payload.qty THEN NoFault ELSE Fault
    /\ UNCHANGED <<durable, position, entryFilled, foreign, dispatcher, recon>>

Lose(c) ==
    /\ order[c] = "transit"
    /\ Fate(c, "lost")
    /\ Fault
    /\ UNCHANGED <<durable, position, entryFilled, foreign, dispatcher, recon>>

\* The ENTRY order executes one unit.
EntryFill ==
    /\ order[EntryCommand] = "live"
    /\ position < TicketQuantity
    /\ position' = position + 1
    /\ entryFilled' = entryFilled + 1
    /\ Fate(EntryCommand, IF entryFilled + 1 = TicketQuantity THEN "done" ELSE "live")
    /\ UNCHANGED <<durable, foreign, dispatcher, recon, faults>>

\* A resting stop or TP1 order executes against the position.
RestingFill(c) ==
    /\ c[1] \in StopKinds \cup {"TAKE_PROFIT"}
    /\ order[c] = "live"
    /\ position > 0
    /\ position' = Less(position, commands[c].payload.qty)
    /\ Fate(c, "done")
    /\ UNCHANGED <<durable, entryFilled, foreign, dispatcher, recon, faults>>

ExternalClose ==
    /\ \/ ExternalCloses = "always"
       \/ ExternalCloses = "filled" /\ order[EntryCommand] # "live"
    /\ position > 0
    /\ position' = 0
    /\ Fault
    /\ UNCHANGED <<durable, order, entryFilled, foreign, dispatcher, recon>>

ForeignOrder ==
    /\ ForeignOrders
    /\ foreign' = ~ foreign
    /\ Fault
    /\ UNCHANGED <<durable, order, position, entryFilled, dispatcher, recon>>

-----------------------------------------------------------------------------
(* The Reconciliation worker: unknown outcomes first. *)

Unknown(c) == commands[c].status = "OUTCOME_UNKNOWN"
NoUnknown == \A c \in CommandId : ~ Unknown(c)
LiveOrders == {c \in CommandId : order[c] = "live"}

\* Mutant: absence is concluded while the visibility window is open.
OrderTruthEarly(c) ==
    IF order[c] \in {"live", "done"} THEN {"RECONCILED_SUBMITTED"} ELSE {"RECONCILED_ABSENT"}

\* Mutant: absence is never concluded.
OrderTruthVisibleOnly(c) ==
    IF order[c] \in {"live", "done"} THEN {"RECONCILED_SUBMITTED"} ELSE {}

\* decide_unknown_recovery on what lookup_command_truth returns; no decision
\* while the venue shows nothing and the visibility window is open.
OrderTruth(c) ==
    IF order[c] \in {"live", "done"} THEN {"RECONCILED_SUBMITTED"}
    ELSE IF /\ commands[c].timer = "over"
            /\ ~ (c = EntryCommand /\ position > 0)
         THEN {"RECONCILED_ABSENT"} ELSE {}

\* _decide_cancel_recovery: the target is looked up in the namespace of the payload.
CancelTruth(c) ==
    LET p == commands[c].payload
        visible == NamespaceOf(p.target) = p.namespace
    IN IF visible /\ order[p.target] = "done" THEN {"RECONCILED_ABSENT"}
       ELSE IF commands[c].timer # "over" THEN {}
       ELSE IF visible /\ order[p.target] = "live" THEN {"CANCEL_TARGET_STILL_OPEN"}
       ELSE {"RECONCILED_ABSENT"}

\* reconcile_leverage_command: exact read-back, no visibility window.
LeverageTruth(c) ==
    IF position # 0 \/ LiveOrders # {} \/ foreign THEN {}
    ELSE IF order[c] = "done" THEN {"RECONCILED_SUBMITTED"} ELSE {"RECONCILED_ABSENT"}

RecoveryDecisions(c) ==
    CASE c[1] = "SET_LEVERAGE" -> LeverageTruth(c)
      [] c[1] = "CANCEL_ORDER" -> CancelTruth(c)
      [] OTHER -> OrderTruth(c)

\* _recovery_event for a cancel
CancelRecoveryEvent(a, p, decision) ==
    CASE decision = "CANCEL_TARGET_STILL_OPEN" /\ p.purpose = "reconciliation_cleanup" ->
           CancelOrderStillOpenConfirmed(a, p.target)
      [] decision = "RECONCILED_ABSENT" /\ p.purpose = "reconciliation_cleanup"
             /\ a.status = "CANCEL_OUTCOME_UNKNOWN" ->
           CancelOrderAbsenceConfirmed(a, p.target)
      [] decision = "RECONCILED_ABSENT" /\ p.purpose = "entry_remainder"
             /\ a.status = "PARTIAL_FILL_CANCEL_OUTCOME_UNKNOWN" ->
           EntryRemainderCancelConfirmed(a, p.target)
      [] decision = "RECONCILED_ABSENT" /\ p.purpose = "runner_old_stop" ->
           ProtectionCancelAbsenceConfirmed(a, p.target)
      [] OTHER -> {}

\* _recovery_event, with reduce_event applied to it
RecoveryEvent(a, c, p, decision) ==
    LET submitted == decision = "RECONCILED_SUBMITTED"
    IN CASE p.kind = "SET_LEVERAGE" ->
              IF submitted THEN LeverageConfirmed(a) ELSE LeverageRejected(a)
         [] p.kind = "ENTRY" ->
              IF submitted THEN EntryAccepted(a, c) ELSE EntryAbsenceConfirmed(a)
         [] p.kind = "INITIAL_STOP" ->
              IF submitted THEN InitialStopConfirmed(a, c, a.positionQty)
              ELSE InitialStopAbsenceConfirmed(a)
         [] p.kind = "TAKE_PROFIT" ->
              IF submitted THEN TakeProfitConfirmed(a, c, p.qty)
              ELSE TakeProfitAbsenceConfirmed(a)
         [] p.kind = "REPLACE_PROTECTION" ->
              IF submitted THEN ProtectionReplacementConfirmed(a, c, p.qty, p.price, p.target)
              ELSE ProtectionReplacementAbsenceConfirmed(a)
         [] p.kind = "EXIT" -> IF submitted THEN ExitAccepted(a) ELSE ExitAbsenceConfirmed(a)
         [] p.kind = "CONTROLLED_FLATTEN" ->
              IF submitted THEN ControlledFlattenAccepted(a)
              ELSE ControlledFlattenAbsenceConfirmed(a)
         [] OTHER -> CancelRecoveryEvent(a, p, decision)

\* The row is settled before commit_reduction runs, except for a confirmed
\* cancel, which the reduction's own effect marks.
RecoveredRows(c, decision) ==
    CASE decision = "RECONCILED_SUBMITTED" -> SetStatus(commands, c, "RECONCILED_ACCEPTED")
      [] decision = "RECONCILED_ABSENT" /\ c[1] = "CANCEL_ORDER" -> commands
      [] OTHER -> SetStatus(commands, c, "RECONCILED_ABSENT")

\* recover_unknown_command.  When the event is refused the tick raises and the
\* row is met again at the next tick.
RecoverUnknown(c) ==
    /\ recon = IdleRecon
    /\ Unknown(c)
    /\ \E decision \in RecoveryDecisions(c) :
          \E r \in RecoveryEvent(agg, c, commands[c].payload, decision) :
             Commit(r, RecoveredRows(c, decision), held)
    /\ UNCHANGED <<venue, dispatcher, recon, faults>>

-----------------------------------------------------------------------------
(* The Reconciliation worker: positions, stress, closure. *)

\* RECONCILIATION_POSITION_STATUSES, less the one the stress branch takes first
PositionStatuses ==
    {"ENTRY_ACCEPTED"} \cup PartialFillStatuses \cup ProtectionStatuses \cup Tp1Statuses
    \cup RunnerStatuses \cup ExitStatuses \cup FlattenStatuses \cup CleanupStatuses

\* read_position_snapshot, outside any transaction
ReadSnapshot ==
    /\ recon = IdleRecon
    /\ NoUnknown
    /\ agg.status \in PositionStatuses
    /\ recon' = [work |-> "snapshot", qty |-> position, open |-> LiveOrders,
                 foreign |-> foreign]
    /\ UNCHANGED <<durable, venue, dispatcher, faults>>

\* _has_cancel_attempt
HasCancelAttempt(target) ==
    \E c \in CommandId :
        /\ c[1] = "CANCEL_ORDER"
        /\ commands[c].status \in {"PREPARED", "CLAIMED", "ACCEPTED", "OUTCOME_UNKNOWN"}
        /\ commands[c].payload.target = target

\* The RECONCILIATION_PENDING branch of reconcile_ticket: one owned order at a
\* time, those the aggregate knows before those the snapshot shows (regular
\* orders first), and closure when nothing is left.
CleanupEvent(a, s) ==
    LET known == NextCleanupOrder(a)
        regular == {c \in s.open : NamespaceOf(c) = "regular"}
        shown == IF regular # {} THEN regular ELSE s.open
    IN IF a.pendingCancel # NoOrder THEN {}
       ELSE IF s.foreign
            THEN IF "unowned_open_order" \in incidents THEN {} ELSE UnownedOrderDetected(a)
       ELSE IF known # NoOrder
            THEN IF known \notin s.open THEN OwnedOrderAbsenceConfirmed(a, known)
                 ELSE IF HasCancelAttempt(known) THEN {}
                 ELSE OwnedOrphanOrderDetected(a, known, "conditional")
       ELSE IF shown # {}
            THEN UNION {IF HasCancelAttempt(c) THEN {}
                        ELSE OwnedOrphanOrderDetected(a, c, NamespaceOf(c)) : c \in shown}
       ELSE IF s.qty = 0 THEN ReconciliationMatched(a)
       ELSE {}

\* The CANCEL_REJECTED and CANCEL_OUTCOME_UNKNOWN branch of reconcile_ticket
CancelFollowUpEvent(a, s) ==
    IF a.pendingCancel = NoOrder THEN {}
    ELSE IF a.pendingCancel \notin s.open THEN CancelOrderAbsenceConfirmed(a, a.pendingCancel)
    ELSE IF a.status = "CANCEL_OUTCOME_UNKNOWN" THEN {}
    ELSE OwnedOrphanOrderDetected(a, a.pendingCancel, NamespaceOf(a.pendingCancel))

\* The ENTRY_ACCEPTED branch of reconcile_ticket; the disposition is assess_post_fill_risk's.
EntryFillEvent(a, filled) ==
    (UNION {EntryFilled(a, filled, d) : d \in Dispositions}) \cup EntryPartiallyFilled(a, filled)

\* reconcile_ticket: the aggregate is read again, the snapshot is not.
SnapshotEvent(a, s) ==
    CASE a.status = "ENTRY_ACCEPTED" -> EntryFillEvent(a, s.qty)
      [] a.status \in ExitStatuses \cup FlattenStatuses /\ s.qty = 0 ->
           PositionFlatConfirmed(a)
      [] a.status \in Tp1Statuses \cup RunnerStatuses \cup {"POST_FILL_RISK_PENDING"}
             /\ s.qty = 0 -> ExternalFlatDetected(a)
      [] a.status = "RECONCILIATION_PENDING" -> CleanupEvent(a, s)
      [] a.status \in {"CANCEL_REJECTED", "CANCEL_OUTCOME_UNKNOWN"} -> CancelFollowUpEvent(a, s)
      [] OTHER -> {}

ReconcileTicket ==
    /\ recon.work = "snapshot"
    /\ \E r \in SnapshotEvent(agg, recon) : Commit(r, commands, held)
    /\ recon' = IdleRecon
    /\ UNCHANGED <<venue, dispatcher, faults>>

\* No event, or the transaction is refused.
ReconcileNoChange ==
    /\ recon.work = "snapshot"
    /\ Raises(SnapshotEvent(agg, recon), commands)
    /\ recon' = IdleRecon
    /\ UNCHANGED <<durable, venue, dispatcher, faults>>

StressDue ==
    /\ recon = IdleRecon
    /\ NoUnknown
    /\ agg.status = "POST_FILL_RISK_PENDING"

\* reconcile_post_fill_stress: exact exposure re-checked, then assessed; the
\* retry incident is resolved in the same transaction.
AssessStress(passed) ==
    /\ StressDue
    /\ position = agg.positionQty
    /\ \E r \in PostFillStressAssessed(agg, passed) :
          Commit([r EXCEPT !.resolve = incidents \cap {"post_fill_risk_facts_unavailable"}],
                 commands, held)
    /\ UNCHANGED <<venue, dispatcher, recon, faults>>

\* record_post_fill_stress_retry: facts missing, stale, or of another exposure
StressRetry ==
    /\ StressDue
    /\ incidents' = incidents \cup {"post_fill_risk_facts_unavailable"}
    /\ UNCHANGED <<agg, commands, held, venue, dispatcher, recon, faults>>

SettleTicket ==
    /\ recon = IdleRecon
    /\ \E r \in BudgetSettled(agg) : Commit(r, commands, held)
    /\ UNCHANGED <<venue, dispatcher, recon, faults>>

RecordTradeReview ==
    /\ recon = IdleRecon
    /\ \E r \in ReviewRecorded(agg) : Commit(r, commands, held)
    /\ UNCHANGED <<venue, dispatcher, recon, faults>>

-----------------------------------------------------------------------------
(* The Lifecycle worker's maintenance, and exits requested by the Owner. *)

\* TP1 has filled: the runner stop goes to the break-even floor, which is on the
\* profitable side of the average fill price and so beyond the initial stop.
FloorEvent(a) ==
    UNION {TakeProfitFilled(a, a.tp1Target, floor) :
             floor \in {f \in Prices : f > InitialStopPrice}}

\* The exit policy moves the runner stop or leaves the position.
RunnerEvent(a) ==
    (UNION {RunnerStopRequested(a, price) : price \in Prices}) \cup ExitRequested(a)

\* maintain_ticket_lifecycle on facts that agree with the projection
MaintenanceEvent(a) ==
    CASE a.status = "POSITION_PROTECTED" /\ order[a.tp1Order] = "done"
             /\ position + a.tp1Target = a.positionQty -> FloorEvent(a)
      [] a.status = "POSITION_PROTECTED" /\ order[a.tp1Order] # "done"
             /\ position = a.positionQty -> ExitRequested(a)
      [] a.status = "RUNNER_PROTECTED" /\ position = a.positionQty -> RunnerEvent(a)
      [] OTHER -> {}

\* Reached only when dispatch found nothing to do.
Maintain ==
    /\ dispatcher = IdleDispatcher
    /\ \A c \in CommandId : c[1] \notin EntryWorkerKinds => ~ Claimable(c) /\ ~ LapsedClaim(c)
    /\ \E r \in MaintenanceEvent(agg) : Commit(r, commands, held)
    /\ UNCHANGED <<venue, dispatcher, recon, faults>>

\* request_exit, for the statuses classify_controlled_exit_status calls eligible
OwnerExit ==
    /\ agg.status \in {"POSITION_PROTECTED", "RUNNER_PROTECTED"}
    /\ \E r \in ExitRequested(agg) : Commit(r, commands, held)
    /\ UNCHANGED <<venue, dispatcher, recon, faults>>

-----------------------------------------------------------------------------

DispatchNext ==
    \E c \in CommandId :
        \/ ExpireClaim(c) \/ ClaimPrepared(c) \/ Supersede(c) \/ PreflightRefuse(c)
        \/ Send(c) \/ TimerLapses(c)
        \/ \E result \in Results : RecordResult(c, result) \/ RecordRaises(c, result)

VenueNext ==
    \/ \E c \in CommandId : Deliver(c) \/ Refuse(c) \/ Lose(c) \/ RestingFill(c)
    \/ EntryFill \/ ExternalClose \/ ForeignOrder

ReconNext ==
    \/ \E c \in CommandId : RecoverUnknown(c)
    \/ ReadSnapshot \/ ReconcileTicket \/ ReconcileNoChange
    \/ \E passed \in BOOLEAN : AssessStress(passed)
    \/ StressRetry \/ SettleTicket \/ RecordTradeReview

Next ==
    \/ \E leverageChange \in BOOLEAN : IssueTicket(leverageChange)
    \/ DispatchNext \/ VenueNext \/ ReconNext
    \/ Maintain \/ OwnerExit \/ Crash

Spec == Init /\ [][Next]_vars

\* Workers keep ticking, requests end, clocks advance.  No fairness for fills,
\* for the decisions of the exit policy or for anything external.
Fairness ==
    /\ WF_vars(\E c \in CommandId : ExpireClaim(c))
    /\ WF_vars(\E c \in CommandId : ClaimPrepared(c) \/ Supersede(c))
    /\ WF_vars(\E c \in CommandId : PreflightRefuse(c) \/ Send(c))
    /\ WF_vars(\E c \in CommandId, result \in Results :
                  RecordResult(c, result) \/ RecordRaises(c, result))
    /\ WF_vars(\E c \in CommandId : TimerLapses(c))
    /\ WF_vars(\E c \in CommandId : Deliver(c) \/ Refuse(c) \/ Lose(c))
    /\ WF_vars(\E c \in CommandId : RecoverUnknown(c))
    /\ WF_vars(ReadSnapshot)
    /\ WF_vars(ReconcileTicket \/ ReconcileNoChange)
    /\ WF_vars(\E passed \in BOOLEAN : AssessStress(passed))
    /\ WF_vars(SettleTicket)
    /\ WF_vars(RecordTradeReview)

FairSpec == Spec /\ Fairness

-----------------------------------------------------------------------------
(* Safety. *)

\* No venue I/O without a committed lease: a command whose request has left the
\* process is recorded as claimed or beyond, whatever crashed in between
\* (dispatch_one_command's three transactions).
DurableBeforeVenue ==
    \A c \in CommandId :
        order[c] # "unsent" => commands[c].status \notin {"NONE", "PREPARED", "SUPERSEDED"}

\* The request of one command leaves the process at most once: not after a
\* crash, not after an expired lease, not after an unknown outcome.
NeverResent ==
    [][\A c \in CommandId : order[c] # "unsent" /\ order'[c] = "transit" => order[c] = "transit"]_vars

\* What recovery declared absent is absent: the request neither rests nor
\* executed nor can still arrive, so a replacement cannot double it.
AbsenceIsFinal ==
    \A c \in CommandId :
        commands[c].status = "RECONCILED_ABSENT" /\ c[1] \notin {"SET_LEVERAGE", "CANCEL_ORDER"}
        => order[c] \notin {"transit", "live", "done"}

Protective(c) ==
    c[1] \in StopKinds /\ order[c] = "live" /\ commands[c].payload.qty >= position

\* While the aggregate names an active stop, an open position is covered at the
\* venue by a live stop of at least its quantity: through TP1, the replacement
\* of the stop, the cancel of the old one, exits and flattens.
StopCoversExposure ==
    agg.activeStop # NoOrder /\ position > 0 => \E c \in CommandId : Protective(c)

\* A covered position never gets a worse stop: whatever is cancelled or
\* replaced, a live stop at the same price or better remains until it is flat.
ProtectionNeverLoosens ==
    [][\A c \in CommandId :
          Protective(c) /\ position' > 0 =>
             \E d \in CommandId :
                Protective(d)' /\ commands'[d].payload.price >= commands[c].payload.price]_vars

\* The aggregate's lane flag and the lane row agree, so that the conditional
\* release of PositionFlatConfirmed neither leaks the lane nor raises.
LaneFlagAgrees == agg.laneHeld <=> "lane" \in held

\* The incident kind opened by the ...OutcomeUnknown event of a command.
UnknownIncident(kind, purpose) ==
    CASE kind = "SET_LEVERAGE" -> "leverage_outcome_unknown"
      [] kind = "ENTRY" -> "entry_outcome_unknown"
      [] kind = "INITIAL_STOP" -> "initial_stop_outcome_unknown"
      [] kind = "TAKE_PROFIT" -> "take_profit_outcome_unknown"
      [] kind = "REPLACE_PROTECTION" -> "protection_replacement_outcome_unknown"
      [] kind = "EXIT" -> "exit_outcome_unknown"
      [] kind = "CONTROLLED_FLATTEN" -> "controlled_flatten_outcome_unknown"
      [] kind = "CANCEL_ORDER" /\ purpose = "entry_remainder" ->
           "entry_remainder_cancel_outcome_unknown"
      [] kind = "CANCEL_ORDER" /\ purpose = "runner_old_stop" ->
           "runner_old_stop_cancel_outcome_unknown"
      [] OTHER -> "cancel_order_outcome_unknown"

\* Until closure a command row in OUTCOME_UNKNOWN keeps its incident open
\* (commit_reduction, runtime_incidents), which is what fences new entries.
UnknownIsFenced ==
    agg.status \notin ClosureStatuses =>
        \A c \in CommandId :
            Unknown(c) => UnknownIncident(c[1], commands[c].payload.purpose) \in incidents

-----------------------------------------------------------------------------
(* Liveness, under FairSpec. *)

\* A command that missed its deadline is never claimed, and nothing replaces it.
DeadlineMissed == \E c \in CommandId : commands[c].status = "PREPARED" /\ commands[c].timer = "over"

\* Whatever becomes of the ENTRY, it does not end there: an unknown outcome is decided
\* by venue truth, and a filled position gets its stop or an exit, unless the stop's
\* command missed its deadline.
EntryIsSeenThrough ==
    /\ agg.status = "ENTRY_OUTCOME_UNKNOWN" ~> agg.status # "ENTRY_OUTCOME_UNKNOWN"
    /\ agg.status = "PROTECTION_PENDING" ~>
           \/ agg.activeStop # NoOrder \/ agg.status \in ExitStatuses \cup CleanupStatuses
           \/ DeadlineMissed

=============================================================================
