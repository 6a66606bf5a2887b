---------------------------- MODULE TicketReducer ----------------------------
(***************************************************************************)
(* The pure lifecycle reducer of one Ticket: domain/aggregate.py and        *)
(* domain/reducer.py.                                                       *)
(*                                                                          *)
(* reduce_event(current, event) either raises InvalidLifecycleTransition or *)
(* returns the next aggregate together with the effects that               *)
(* commit_reduction materialises in the same transaction.  Every event is   *)
(* an operator whose value is the SET of reductions it admits: the empty    *)
(* set when the code raises, a singleton otherwise.                         *)
(*                                                                          *)
(* Abstracted data: identities, digests and timestamps; quantities are      *)
(* small naturals; prices are ranks on the profitable side, so "the stop    *)
(* improved" is ">" for both position sides.  An exchange order id is the   *)
(* identity <<kind, generation>> of the command that created the order.     *)
(***************************************************************************)
EXTENDS Naturals

CONSTANTS
    TicketQuantity,   \* ticket.quantity
    Tp1Quantity,      \* ticket.take_profit_quantities[0]
    MaxGeneration,    \* bound: generations of one command kind
    MaxStopPrice,     \* bound: distinct stop prices
    NoOrder           \* an absent exchange order id (None)

ASSUME QuantityAssumption ==
    /\ TicketQuantity \in Nat \ {0}
    /\ Tp1Quantity \in Nat \ {0}
    /\ Tp1Quantity < TicketQuantity

ASSUME BoundAssumption ==
    /\ MaxGeneration \in Nat \ {0}
    /\ MaxStopPrice \in Nat \ {0}

Kinds == {"SET_LEVERAGE", "ENTRY", "INITIAL_STOP", "TAKE_PROFIT",
          "REPLACE_PROTECTION", "EXIT", "CONTROLLED_FLATTEN", "CANCEL_ORDER"}

Generations == 1 .. MaxGeneration
CommandId == Kinds \X Generations

ASSUME NoOrderAssumption == NoOrder \notin CommandId

OrderId == CommandId \cup {NoOrder}
Quantities == 0 .. TicketQuantity

NoPrice == 0                        \* None
Prices == 0 .. MaxStopPrice
InitialStopPrice == 1               \* ticket.initial_stop_price

-----------------------------------------------------------------------------
(* The aggregate. *)

EntryStatuses == {"LEVERAGE_PENDING", "LEVERAGE_OUTCOME_UNKNOWN", "LEVERAGE_CONFIRMED",
                  "ENTRY_PENDING", "ENTRY_OUTCOME_UNKNOWN", "ENTRY_ACCEPTED"}
PartialFillStatuses == {"PARTIAL_FILL_INCIDENT", "PARTIAL_FILL_CANCEL_REJECTED",
                        "PARTIAL_FILL_CANCEL_OUTCOME_UNKNOWN"}
ProtectionStatuses == {"PROTECTION_PENDING", "INITIAL_STOP_OUTCOME_UNKNOWN"}
Tp1Statuses == {"TP1_PENDING", "TP1_REJECTED", "TP1_OUTCOME_UNKNOWN", "POSITION_PROTECTED"}
RunnerStatuses == {"RUNNER_REPLACEMENT_PENDING", "RUNNER_REPLACEMENT_REJECTED",
                   "RUNNER_REPLACEMENT_OUTCOME_UNKNOWN", "RUNNER_OLD_STOP_CANCEL_PENDING",
                   "RUNNER_OLD_STOP_CANCEL_REJECTED",
                   "RUNNER_OLD_STOP_CANCEL_OUTCOME_UNKNOWN", "RUNNER_PROTECTED"}
ExitStatuses == {"EXIT_PENDING", "EXIT_ACCEPTED", "EXIT_REJECTED", "EXIT_OUTCOME_UNKNOWN"}
FlattenStatuses == {"CONTROLLED_FLATTEN_PENDING", "CONTROLLED_FLATTEN_ACCEPTED",
                    "CONTROLLED_FLATTEN_REJECTED", "CONTROLLED_FLATTEN_OUTCOME_UNKNOWN"}
CleanupStatuses == {"RECONCILIATION_PENDING", "CANCEL_REJECTED", "CANCEL_OUTCOME_UNKNOWN"}
RejectedStatuses == {"LEVERAGE_REJECTED", "ENTRY_REJECTED", "ENTRY_RECONCILED_ABSENT"}
ClosureStatuses == {"SETTLEMENT_PENDING", "REVIEW_PENDING", "TERMINAL"}

\* AggregateStatus, without the Selection Vacuum members; UNISSUED stands for
\* "no aggregate row yet".
Statuses == {"UNISSUED", "POST_FILL_RISK_PENDING"}
            \cup EntryStatuses \cup PartialFillStatuses \cup ProtectionStatuses
            \cup Tp1Statuses \cup RunnerStatuses \cup ExitStatuses \cup FlattenStatuses
            \cup CleanupStatuses \cup RejectedStatuses \cup ClosureStatuses

Dispositions == {"NORMAL", "FLATTEN_AFTER_PROTECTION", "FLATTEN_IMMEDIATELY"}

Aggregate ==
    [status : Statuses, laneHeld : BOOLEAN, disposition : Dispositions,
     positionQty : Quantities, protectedQty : Quantities, tp1Target : Quantities,
     entryOrder : OrderId, initialStop : OrderId, activeStop : OrderId, tp1Order : OrderId,
     replacedStop : OrderId, pendingCancel : OrderId,
     activeStopPrice : Prices, pendingStopPrice : Prices]

NoAggregate ==
    [status |-> "UNISSUED", laneHeld |-> FALSE, disposition |-> "NORMAL",
     positionQty |-> 0, protectedQty |-> 0, tp1Target |-> 0,
     entryOrder |-> NoOrder, initialStop |-> NoOrder, activeStop |-> NoOrder,
     tp1Order |-> NoOrder, replacedStop |-> NoOrder, pendingCancel |-> NoOrder,
     activeStopPrice |-> NoPrice, pendingStopPrice |-> NoPrice]

-----------------------------------------------------------------------------
(* Effects. *)

Purposes == {"none", "entry_remainder", "runner_old_stop", "reconciliation_cleanup"}
Namespaces == {"regular", "conditional"}

\* The payload of an exchange command.  target is the order a cancel names,
\* or the stop a replacement supersedes.
Payload == [kind : Kinds, qty : Quantities, price : Prices, target : OrderId,
            purpose : Purposes, namespace : Namespaces]

Command(kind, qty) ==
    [kind |-> kind, qty |-> qty, price |-> NoPrice, target |-> NoOrder,
     purpose |-> "none", namespace |-> "regular"]

StopCommand(kind, qty, price, replaces) ==
    [kind |-> kind, qty |-> qty, price |-> price, target |-> replaces,
     purpose |-> "none", namespace |-> "conditional"]

\* CancelProtectionOrders and CancelEntryRemainder
CancelCommand(order, namespace, purpose) ==
    [kind |-> "CANCEL_ORDER", qty |-> 0, price |-> NoPrice, target |-> order,
     purpose |-> purpose, namespace |-> namespace]

\* The capital and serialisation authorities a live Ticket holds.
Authorities == {"budget", "exposure", "domain", "lane"}
TerminalRelease == {"budget", "exposure", "lane"}

IncidentKinds ==
    {"leverage_outcome_unknown", "entry_outcome_unknown", "initial_stop_outcome_unknown",
     "take_profit_outcome_unknown", "protection_replacement_outcome_unknown",
     "exit_outcome_unknown", "controlled_flatten_outcome_unknown",
     "entry_remainder_cancel_outcome_unknown", "runner_old_stop_cancel_outcome_unknown",
     "cancel_order_outcome_unknown",
     "post_fill_risk", "post_fill_stress_failed", "unsupported_partial_entry_fill",
     "entry_remainder_cancel_rejected", "initial_stop_rejected", "initial_stop_absent",
     "take_profit_rejected", "protection_replacement_rejected", "exit_rejected",
     "controlled_flatten_rejected", "controlled_flatten_absent", "external_flat",
     "unowned_open_order", "runner_old_stop_cancel_rejected", "cancel_order_rejected",
     "post_fill_risk_facts_unavailable"}

\* Reduction: the next aggregate and its effects.  markAbsent holds the target
\* of MarkCancelCommandReconciledAbsent; closesIncidents stands for
\* ResolveTicketIncidentsAtClosure.
Reduction ==
    [agg : Aggregate, prepare : SUBSET Payload, open : SUBSET IncidentKinds,
     resolve : SUBSET IncidentKinds, release : SUBSET Authorities,
     markAbsent : SUBSET OrderId, closesIncidents : BOOLEAN]

\* _transition, when only the status changes
Moved(a, status) == [a EXCEPT !.status = status]

Transition(a) ==
    [agg |-> a, prepare |-> {}, open |-> {}, resolve |-> {}, release |-> {},
     markAbsent |-> {}, closesIncidents |-> FALSE]

\* _require_status_in and the other refusals: no reduction unless the guard holds.
When(guard, reduction) == IF guard THEN {reduction} ELSE {}

\* ResolveIncident is an effect only when the event leaves the unknown status.
ResolveOn(a, unknown, incident) == IF a.status = unknown THEN {incident} ELSE {}

-----------------------------------------------------------------------------
(* Issue, leverage and ENTRY. *)

\* _issue_ticket
TicketIssued(leverageChange) ==
    {[Transition([NoAggregate EXCEPT
                    !.status = IF leverageChange THEN "LEVERAGE_PENDING" ELSE "ENTRY_PENDING",
                    !.laneHeld = TRUE])
        EXCEPT !.prepare = {IF leverageChange THEN Command("SET_LEVERAGE", 0)
                            ELSE Command("ENTRY", TicketQuantity)}]}

LeverageConfirmed(a) ==
    When(a.status \in {"LEVERAGE_PENDING", "LEVERAGE_OUTCOME_UNKNOWN"},
         [Transition(Moved(a, "LEVERAGE_CONFIRMED")) EXCEPT
            !.prepare = {Command("ENTRY", TicketQuantity)},
            !.resolve = ResolveOn(a, "LEVERAGE_OUTCOME_UNKNOWN", "leverage_outcome_unknown")])

LeverageRejected(a) ==
    When(a.status \in {"LEVERAGE_PENDING", "LEVERAGE_OUTCOME_UNKNOWN"},
         [Transition([a EXCEPT !.status = "LEVERAGE_REJECTED", !.laneHeld = FALSE]) EXCEPT
            !.resolve = ResolveOn(a, "LEVERAGE_OUTCOME_UNKNOWN", "leverage_outcome_unknown"),
            !.release = TerminalRelease])

LeverageOutcomeUnknown(a) ==
    When(a.status = "LEVERAGE_PENDING",
         [Transition(Moved(a, "LEVERAGE_OUTCOME_UNKNOWN")) EXCEPT
            !.open = {"leverage_outcome_unknown"}])

EntryAccepted(a, order) ==
    When(a.status \in {"ENTRY_PENDING", "LEVERAGE_CONFIRMED", "ENTRY_OUTCOME_UNKNOWN"},
         [Transition([a EXCEPT !.status = "ENTRY_ACCEPTED", !.entryOrder = order]) EXCEPT
            !.resolve = ResolveOn(a, "ENTRY_OUTCOME_UNKNOWN", "entry_outcome_unknown")])

EntryOutcomeUnknown(a) ==
    When(a.status \in {"ENTRY_PENDING", "LEVERAGE_CONFIRMED"},
         [Transition(Moved(a, "ENTRY_OUTCOME_UNKNOWN")) EXCEPT
            !.open = {"entry_outcome_unknown"}])

EntryRejected(a) ==
    When(a.status \in {"ENTRY_PENDING", "LEVERAGE_CONFIRMED"},
         [Transition([a EXCEPT !.status = "ENTRY_REJECTED", !.laneHeld = FALSE]) EXCEPT
            !.release = TerminalRelease])

EntryAbsenceConfirmed(a) ==
    When(a.status = "ENTRY_OUTCOME_UNKNOWN",
         [Transition([a EXCEPT !.status = "ENTRY_RECONCILED_ABSENT", !.laneHeld = FALSE]) EXCEPT
            !.resolve = {"entry_outcome_unknown"},
            !.release = TerminalRelease])

\* Mutant: the ENTRY lane is given back at the fill, before protection exists.
EntryFilledFreesLane(a, filled, disposition) ==
    When(/\ a.status \in {"ENTRY_PENDING", "LEVERAGE_CONFIRMED", "ENTRY_ACCEPTED"}
         /\ filled = TicketQuantity,
         [Transition([a EXCEPT !.status = "PROTECTION_PENDING", !.positionQty = filled,
                               !.disposition = disposition, !.laneHeld = FALSE]) EXCEPT
            !.release = {"lane"},
            !.prepare = {StopCommand("INITIAL_STOP", filled, InitialStopPrice, NoOrder)}])

EntryFilled(a, filled, disposition) ==
    LET updated == [a EXCEPT !.positionQty = filled, !.disposition = disposition]
    IN When(/\ a.status \in {"ENTRY_PENDING", "LEVERAGE_CONFIRMED", "ENTRY_ACCEPTED"}
            /\ filled = TicketQuantity,
            IF disposition = "FLATTEN_IMMEDIATELY"
            THEN [Transition(Moved(updated, "CONTROLLED_FLATTEN_PENDING")) EXCEPT
                    !.open = {"post_fill_risk"},
                    !.prepare = {Command("CONTROLLED_FLATTEN", filled)}]
            ELSE [Transition(Moved(updated, "PROTECTION_PENDING")) EXCEPT
                    !.open = IF disposition = "FLATTEN_AFTER_PROTECTION"
                             THEN {"post_fill_risk"} ELSE {},
                    !.prepare = {StopCommand("INITIAL_STOP", filled, InitialStopPrice, NoOrder)}])

\* The CancelEntryRemainder effect needs the authoritative ENTRY order id;
\* RequestControlledFlatten only re-checks the quantity.
EntryPartiallyFilled(a, filled) ==
    When(/\ a.status \in {"ENTRY_PENDING", "LEVERAGE_CONFIRMED", "ENTRY_ACCEPTED"}
         /\ 0 < filled /\ filled < TicketQuantity
         /\ a.entryOrder # NoOrder,
         [Transition([a EXCEPT !.status = "PARTIAL_FILL_INCIDENT", !.positionQty = filled]) EXCEPT
            !.open = {"unsupported_partial_entry_fill"},
            !.prepare = {CancelCommand(a.entryOrder, "regular", "entry_remainder")}])

EntryRemainderCancelConfirmed(a, order) ==
    When(/\ a.status \in {"PARTIAL_FILL_INCIDENT", "PARTIAL_FILL_CANCEL_OUTCOME_UNKNOWN"}
         /\ order = a.entryOrder,
         [Transition(Moved(a, "CONTROLLED_FLATTEN_PENDING")) EXCEPT
            !.markAbsent = IF a.status = "PARTIAL_FILL_CANCEL_OUTCOME_UNKNOWN"
                           THEN {order} ELSE {},
            !.resolve = ResolveOn(a, "PARTIAL_FILL_CANCEL_OUTCOME_UNKNOWN",
                                  "entry_remainder_cancel_outcome_unknown"),
            !.prepare = {Command("CONTROLLED_FLATTEN", a.positionQty)}])

EntryRemainderCancelRejected(a, order) ==
    When(a.status = "PARTIAL_FILL_INCIDENT" /\ order = a.entryOrder,
         [Transition(Moved(a, "PARTIAL_FILL_CANCEL_REJECTED")) EXCEPT
            !.open = {"entry_remainder_cancel_rejected"}])

EntryRemainderCancelOutcomeUnknown(a, order) ==
    When(a.status = "PARTIAL_FILL_INCIDENT" /\ order = a.entryOrder,
         [Transition(Moved(a, "PARTIAL_FILL_CANCEL_OUTCOME_UNKNOWN")) EXCEPT
            !.open = {"entry_remainder_cancel_outcome_unknown"}])

-----------------------------------------------------------------------------
(* Initial protection and the post-fill stress decision. *)

\* The FLATTEN_AFTER_PROTECTION branch returns without the ResolveIncident
\* effect it has just built.
InitialStopConfirmed(a, order, protected) ==
    LET updated == [a EXCEPT !.protectedQty = protected, !.initialStop = order,
                             !.activeStop = order, !.activeStopPrice = InitialStopPrice]
    IN When(/\ a.status \in {"PROTECTION_PENDING", "INITIAL_STOP_OUTCOME_UNKNOWN"}
            /\ protected = a.positionQty,
            IF a.disposition = "FLATTEN_AFTER_PROTECTION"
            THEN [Transition(Moved(updated, "CONTROLLED_FLATTEN_PENDING")) EXCEPT
                    !.prepare = {Command("CONTROLLED_FLATTEN", a.positionQty)}]
            ELSE [Transition(Moved(updated, "POST_FILL_RISK_PENDING")) EXCEPT
                    !.resolve = ResolveOn(a, "INITIAL_STOP_OUTCOME_UNKNOWN",
                                          "initial_stop_outcome_unknown")])

\* Mutant: the lane row is released, the aggregate's flag is forgotten.
StressKeepsLaneFlag(a, passed) ==
    When(/\ a.status = "POST_FILL_RISK_PENDING"
         /\ passed /\ Tp1Quantity < a.positionQty,
         [Transition([a EXCEPT !.status = "TP1_PENDING", !.tp1Target = Tp1Quantity]) EXCEPT
            !.release = {"lane"},
            !.prepare = {Command("TAKE_PROFIT", Tp1Quantity)}])

PostFillStressAssessed(a, passed) ==
    When(/\ a.status = "POST_FILL_RISK_PENDING"
         /\ passed => Tp1Quantity < a.positionQty,
         IF passed
         THEN [Transition([a EXCEPT !.status = "TP1_PENDING", !.laneHeld = FALSE,
                                    !.tp1Target = Tp1Quantity]) EXCEPT
                 !.release = {"lane"},
                 !.prepare = {Command("TAKE_PROFIT", Tp1Quantity)}]
         ELSE [Transition(Moved(a, "CONTROLLED_FLATTEN_PENDING")) EXCEPT
                 !.open = {"post_fill_stress_failed"},
                 !.prepare = {Command("CONTROLLED_FLATTEN", a.positionQty)}])

InitialStopRejected(a) ==
    When(a.status = "PROTECTION_PENDING",
         [Transition(Moved(a, "EXIT_PENDING")) EXCEPT
            !.open = {"initial_stop_rejected"},
            !.prepare = {Command("EXIT", a.positionQty)}])

InitialStopOutcomeUnknown(a) ==
    When(a.status = "PROTECTION_PENDING",
         [Transition(Moved(a, "INITIAL_STOP_OUTCOME_UNKNOWN")) EXCEPT
            !.open = {"initial_stop_outcome_unknown"}])

InitialStopAbsenceConfirmed(a) ==
    When(a.status = "INITIAL_STOP_OUTCOME_UNKNOWN",
         [Transition(Moved(a, "EXIT_PENDING")) EXCEPT
            !.resolve = {"initial_stop_outcome_unknown"},
            !.open = {"initial_stop_absent"},
            !.prepare = {Command("EXIT", a.positionQty)}])

-----------------------------------------------------------------------------
(* TP1 and the runner stop. *)

TakeProfitConfirmed(a, order, target) ==
    When(/\ a.status \in {"TP1_PENDING", "POST_FILL_RISK_PENDING", "TP1_OUTCOME_UNKNOWN"}
         /\ target = a.tp1Target,
         [Transition([a EXCEPT !.status = "POSITION_PROTECTED", !.tp1Order = order]) EXCEPT
            !.resolve = ResolveOn(a, "TP1_OUTCOME_UNKNOWN", "take_profit_outcome_unknown")])

TakeProfitRejected(a) ==
    When(a.status = "TP1_PENDING",
         [Transition(Moved(a, "TP1_REJECTED")) EXCEPT
            !.open = {"take_profit_rejected"}])

TakeProfitOutcomeUnknown(a) ==
    When(a.status = "TP1_PENDING",
         [Transition(Moved(a, "TP1_OUTCOME_UNKNOWN")) EXCEPT
            !.open = {"take_profit_outcome_unknown"}])

TakeProfitAbsenceConfirmed(a) ==
    When(a.status = "TP1_OUTCOME_UNKNOWN",
         [Transition(Moved(a, "TP1_PENDING")) EXCEPT
            !.resolve = {"take_profit_outcome_unknown"},
            !.prepare = {Command("TAKE_PROFIT", a.tp1Target)}])

\* Mutant: after TP1 the old stop is cancelled before the runner stop exists.
CancelBeforeReplace(a, filled, floor) ==
    When(a.status = "POSITION_PROTECTED" /\ filled = a.tp1Target /\ a.activeStop # NoOrder,
         [Transition([a EXCEPT !.status = "RUNNER_OLD_STOP_CANCEL_PENDING",
                               !.positionQty = a.positionQty - filled, !.tp1Order = NoOrder,
                               !.replacedStop = a.activeStop,
                               !.pendingStopPrice = floor]) EXCEPT
            !.prepare = {CancelCommand(a.activeStop, "conditional", "runner_old_stop")}])

TakeProfitFilled(a, filled, floor) ==
    LET runner == a.positionQty - filled
    IN When(/\ a.status = "POSITION_PROTECTED"
            /\ filled = a.tp1Target
            /\ floor # NoPrice
            /\ a.activeStop # NoOrder
            /\ filled < a.positionQty,
            [Transition([a EXCEPT !.status = "RUNNER_REPLACEMENT_PENDING",
                                  !.positionQty = runner, !.tp1Order = NoOrder,
                                  !.pendingStopPrice = floor]) EXCEPT
               !.prepare = {StopCommand("REPLACE_PROTECTION", runner, floor, a.activeStop)}])

\* Mutant: the runner stop may move either way.
RunnerStopMovesFreely(a, price) ==
    When(/\ a.status = "RUNNER_PROTECTED"
         /\ a.activeStop # NoOrder /\ price # NoPrice,
         [Transition([a EXCEPT !.status = "RUNNER_REPLACEMENT_PENDING",
                               !.pendingStopPrice = price]) EXCEPT
            !.prepare = {StopCommand("REPLACE_PROTECTION", a.positionQty, price, a.activeStop)}])

RunnerStopRequested(a, price) ==
    When(/\ a.status = "RUNNER_PROTECTED"
         /\ a.activeStop # NoOrder /\ a.activeStopPrice # NoPrice
         /\ price > a.activeStopPrice,
         [Transition([a EXCEPT !.status = "RUNNER_REPLACEMENT_PENDING",
                               !.pendingStopPrice = price]) EXCEPT
            !.prepare = {StopCommand("REPLACE_PROTECTION", a.positionQty, price, a.activeStop)}])

ProtectionReplacementConfirmed(a, order, protected, price, replaces) ==
    When(/\ a.status \in {"RUNNER_REPLACEMENT_PENDING", "RUNNER_REPLACEMENT_OUTCOME_UNKNOWN"}
         /\ protected = a.positionQty
         /\ replaces = a.activeStop
         /\ price = a.pendingStopPrice,
         [Transition([a EXCEPT !.status = "RUNNER_OLD_STOP_CANCEL_PENDING",
                               !.protectedQty = protected, !.activeStop = order,
                               !.activeStopPrice = price, !.replacedStop = replaces,
                               !.pendingStopPrice = NoPrice]) EXCEPT
            !.resolve = ResolveOn(a, "RUNNER_REPLACEMENT_OUTCOME_UNKNOWN",
                                  "protection_replacement_outcome_unknown"),
            !.prepare = {CancelCommand(replaces, "conditional", "runner_old_stop")}])

ProtectionReplacementRejected(a) ==
    When(a.status = "RUNNER_REPLACEMENT_PENDING",
         [Transition(Moved(a, "RUNNER_REPLACEMENT_REJECTED")) EXCEPT
            !.open = {"protection_replacement_rejected"}])

ProtectionReplacementOutcomeUnknown(a) ==
    When(a.status = "RUNNER_REPLACEMENT_PENDING",
         [Transition(Moved(a, "RUNNER_REPLACEMENT_OUTCOME_UNKNOWN")) EXCEPT
            !.open = {"protection_replacement_outcome_unknown"}])

ProtectionReplacementAbsenceConfirmed(a) ==
    When(/\ a.status = "RUNNER_REPLACEMENT_OUTCOME_UNKNOWN"
         /\ a.activeStop # NoOrder /\ a.pendingStopPrice # NoPrice,
         [Transition(Moved(a, "RUNNER_REPLACEMENT_PENDING")) EXCEPT
            !.resolve = {"protection_replacement_outcome_unknown"},
            !.prepare = {StopCommand("REPLACE_PROTECTION", a.positionQty,
                                     a.pendingStopPrice, a.activeStop)}])

\* ProtectionCancelConfirmed in its RUNNER_OLD_STOP_CANCEL_PENDING branch; its
\* RECONCILIATION_PENDING branch has no producer (cleanup cancels are reported
\* as OwnedOrphanCancelConfirmed).
WithoutReplacedStop(a, order) ==
    [a EXCEPT !.status = "RUNNER_PROTECTED", !.replacedStop = NoOrder,
              !.initialStop = IF @ = order THEN NoOrder ELSE @]

ProtectionCancelConfirmed(a, order) ==
    When(a.status = "RUNNER_OLD_STOP_CANCEL_PENDING" /\ order = a.replacedStop,
         Transition(WithoutReplacedStop(a, order)))

ProtectionCancelRejected(a, order) ==
    When(a.status = "RUNNER_OLD_STOP_CANCEL_PENDING" /\ order = a.replacedStop,
         [Transition(Moved(a, "RUNNER_OLD_STOP_CANCEL_REJECTED")) EXCEPT
            !.open = {"runner_old_stop_cancel_rejected"}])

ProtectionCancelOutcomeUnknown(a, order) ==
    When(a.status = "RUNNER_OLD_STOP_CANCEL_PENDING" /\ order = a.replacedStop,
         [Transition(Moved(a, "RUNNER_OLD_STOP_CANCEL_OUTCOME_UNKNOWN")) EXCEPT
            !.open = {"runner_old_stop_cancel_outcome_unknown"}])

ProtectionCancelAbsenceConfirmed(a, order) ==
    When(a.status = "RUNNER_OLD_STOP_CANCEL_OUTCOME_UNKNOWN" /\ order = a.replacedStop,
         [Transition(WithoutReplacedStop(a, order)) EXCEPT
            !.markAbsent = {order},
            !.resolve = {"runner_old_stop_cancel_outcome_unknown"}])

-----------------------------------------------------------------------------
(* Exits and controlled flatten. *)

ExitRequested(a) ==
    When(a.status \in {"POSITION_PROTECTED", "RUNNER_PROTECTED", "EXIT_REJECTED"},
         [Transition(Moved(a, "EXIT_PENDING")) EXCEPT
            !.prepare = {Command("EXIT", a.positionQty)}])

ExitAccepted(a) ==
    When(a.status \in {"EXIT_PENDING", "EXIT_OUTCOME_UNKNOWN"},
         [Transition(Moved(a, "EXIT_ACCEPTED")) EXCEPT
            !.resolve = ResolveOn(a, "EXIT_OUTCOME_UNKNOWN", "exit_outcome_unknown")])

ExitRejected(a) ==
    When(a.status = "EXIT_PENDING",
         [Transition(Moved(a, "EXIT_REJECTED")) EXCEPT !.open = {"exit_rejected"}])

ExitOutcomeUnknown(a) ==
    When(a.status = "EXIT_PENDING",
         [Transition(Moved(a, "EXIT_OUTCOME_UNKNOWN")) EXCEPT
            !.open = {"exit_outcome_unknown"}])

ExitAbsenceConfirmed(a) ==
    When(a.status = "EXIT_OUTCOME_UNKNOWN",
         [Transition(Moved(a, "EXIT_REJECTED")) EXCEPT
            !.resolve = {"exit_outcome_unknown"}])

ControlledFlattenAccepted(a) ==
    When(a.status \in {"CONTROLLED_FLATTEN_PENDING", "CONTROLLED_FLATTEN_OUTCOME_UNKNOWN"},
         [Transition(Moved(a, "CONTROLLED_FLATTEN_ACCEPTED")) EXCEPT
            !.resolve = ResolveOn(a, "CONTROLLED_FLATTEN_OUTCOME_UNKNOWN",
                                  "controlled_flatten_outcome_unknown")])

ControlledFlattenRejected(a) ==
    When(a.status = "CONTROLLED_FLATTEN_PENDING",
         [Transition(Moved(a, "CONTROLLED_FLATTEN_REJECTED")) EXCEPT
            !.open = {"controlled_flatten_rejected"}])

ControlledFlattenOutcomeUnknown(a) ==
    When(a.status = "CONTROLLED_FLATTEN_PENDING",
         [Transition(Moved(a, "CONTROLLED_FLATTEN_OUTCOME_UNKNOWN")) EXCEPT
            !.open = {"controlled_flatten_outcome_unknown"}])

ControlledFlattenAbsenceConfirmed(a) ==
    When(a.status = "CONTROLLED_FLATTEN_OUTCOME_UNKNOWN",
         [Transition(Moved(a, "CONTROLLED_FLATTEN_REJECTED")) EXCEPT
            !.resolve = {"controlled_flatten_outcome_unknown"},
            !.open = {"controlled_flatten_absent"}])

-----------------------------------------------------------------------------
(* Flatness, cleanup of owned orders, closure. *)

\* _known_cleanup_order_ids, in the order the code lists them
KnownCleanupOrders(a) == {a.tp1Order, a.activeStop, a.initialStop} \ {NoOrder}

NextCleanupOrder(a) ==
    IF a.tp1Order # NoOrder THEN a.tp1Order
    ELSE IF a.activeStop # NoOrder THEN a.activeStop
    ELSE a.initialStop

\* _clear_cleanup_order
ClearCleanupOrder(a, order) ==
    [a EXCEPT !.status = "RECONCILIATION_PENDING",
              !.pendingCancel = NoOrder,
              !.tp1Order = IF @ = order THEN NoOrder ELSE @,
              !.activeStop = IF @ = order THEN NoOrder ELSE @,
              !.activeStopPrice = IF a.activeStop = order THEN NoPrice ELSE @,
              !.protectedQty = IF a.activeStop = order THEN 0 ELSE @,
              !.initialStop = IF @ = order THEN NoOrder ELSE @]

CleanupCancel(order, namespace) == CancelCommand(order, namespace, "reconciliation_cleanup")

\* Mutant: flatness alone closes the incidents, without a look at the commands.
FlatClosesIncidents(a) ==
    When(a.status \in ExitStatuses \cup FlattenStatuses,
         [Transition([a EXCEPT !.status = "RECONCILIATION_PENDING", !.positionQty = 0,
                               !.laneHeld = FALSE]) EXCEPT
            !.closesIncidents = TRUE,
            !.release = IF a.laneHeld THEN {"lane"} ELSE {}])

PositionFlatConfirmed(a) ==
    LET cleanup == NextCleanupOrder(a)
    IN When(a.status \in ExitStatuses \cup FlattenStatuses,
            [Transition([a EXCEPT !.status = "RECONCILIATION_PENDING", !.positionQty = 0,
                                  !.pendingCancel = IF cleanup # NoOrder THEN cleanup ELSE @,
                                  !.laneHeld = FALSE]) EXCEPT
               !.prepare = IF cleanup # NoOrder
                           THEN {CleanupCancel(cleanup, "conditional")} ELSE {},
               !.release = IF a.laneHeld THEN {"lane"} ELSE {}])

ExternalFlatDetected(a) ==
    LET cleanup == NextCleanupOrder(a)
    IN When(/\ a.status \in Tp1Statuses \cup RunnerStatuses
            /\ cleanup # NoOrder,
            [Transition([a EXCEPT !.status = "RECONCILIATION_PENDING", !.positionQty = 0,
                                  !.pendingCancel = cleanup]) EXCEPT
               !.open = {"external_flat"},
               !.prepare = {CleanupCancel(cleanup, "conditional")}])

OwnedOrphanOrderDetected(a, order, namespace) ==
    When(a.status \in {"RECONCILIATION_PENDING", "CANCEL_REJECTED"},
         [Transition([a EXCEPT !.status = "RECONCILIATION_PENDING",
                               !.pendingCancel = order]) EXCEPT
            !.prepare = {CleanupCancel(order, namespace)}])

OwnedOrderAbsenceConfirmed(a, order) ==
    When(a.status = "RECONCILIATION_PENDING" /\ order \in KnownCleanupOrders(a),
         Transition(ClearCleanupOrder(a, order)))

UnownedOrderDetected(a) ==
    When(a.status = "RECONCILIATION_PENDING",
         [Transition(a) EXCEPT !.open = {"unowned_open_order"}])

OwnedOrphanCancelConfirmed(a, order) ==
    When(a.status = "RECONCILIATION_PENDING" /\ order = a.pendingCancel,
         Transition(ClearCleanupOrder(a, order)))

CancelOrderRejected(a, order) ==
    When(a.status = "RECONCILIATION_PENDING" /\ order = a.pendingCancel,
         [Transition(Moved(a, "CANCEL_REJECTED")) EXCEPT
            !.open = {"cancel_order_rejected"}])

CancelOrderOutcomeUnknown(a, order) ==
    When(a.status = "RECONCILIATION_PENDING" /\ order = a.pendingCancel,
         [Transition(Moved(a, "CANCEL_OUTCOME_UNKNOWN")) EXCEPT
            !.open = {"cancel_order_outcome_unknown"}])

CancelOrderStillOpenConfirmed(a, order) ==
    When(a.status = "CANCEL_OUTCOME_UNKNOWN" /\ order = a.pendingCancel,
         [Transition(Moved(a, "CANCEL_REJECTED")) EXCEPT
            !.resolve = {"cancel_order_outcome_unknown"}])

CancelOrderAbsenceConfirmed(a, order) ==
    When(a.status \in {"CANCEL_REJECTED", "CANCEL_OUTCOME_UNKNOWN"} /\ order = a.pendingCancel,
         [Transition(ClearCleanupOrder(a, order)) EXCEPT
            !.markAbsent = IF a.status = "CANCEL_OUTCOME_UNKNOWN" THEN {order} ELSE {},
            !.resolve = ResolveOn(a, "CANCEL_OUTCOME_UNKNOWN", "cancel_order_outcome_unknown")])

ReconciliationMatched(a) ==
    When(/\ a.status = "RECONCILIATION_PENDING"
         /\ KnownCleanupOrders(a) = {}
         /\ a.protectedQty = 0
         /\ a.pendingCancel = NoOrder,
         [Transition(Moved(a, "SETTLEMENT_PENDING")) EXCEPT
            !.closesIncidents = TRUE,
            !.release = {"budget", "exposure", "domain"}])

BudgetSettled(a) ==
    When(a.status = "SETTLEMENT_PENDING", Transition(Moved(a, "REVIEW_PENDING")))

ReviewRecorded(a) ==
    When(a.status = "REVIEW_PENDING", Transition(Moved(a, "TERMINAL")))
=============================================================================
