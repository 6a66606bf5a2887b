----------------------- MODULE TicketExecutionProofs -----------------------
(***************************************************************************)
(* Theorems about TicketExecution, for every quantity, bound, fault budget *)
(* and environment.                                                        *)
(*                                                                         *)
(*   Part I    what every reduction of TicketReducer preserves             *)
(*   Part II   types, leases, the lane, absences, unknown outcomes         *)
(*   Part III  protection: the stop that covers the position               *)
(*   Part IV   the refinement: TicketExecution implements TicketLife       *)
(***************************************************************************)
EXTENDS TicketInvariants, TLAPS

-----------------------------------------------------------------------------
(***************************************************************************)
(* Part I.  Every reduction builds a well formed aggregate, well formed    *)
(* commands and incidents, and changes the lane flag of the aggregate      *)
(* exactly when the lane is released.                                      *)
(***************************************************************************)

-----------------------------------------------------------------------------
(* The building blocks. *)

\* Constants: the quantities of the Ticket and the initial stop price are typed.
LEMMA ConstantTypes ==
    /\ TicketQuantity \in Quantities
    /\ Tp1Quantity \in Quantities
    /\ 0 \in Quantities
    /\ InitialStopPrice \in Prices
    /\ NoPrice \in Prices
    /\ NoOrder \in OrderId
    /\ CommandId \subseteq OrderId
BY QuantityAssumption, BoundAssumption
   DEF Quantities, Prices, InitialStopPrice, NoPrice, OrderId

\* The effects that prepare a command build well formed payloads.
LEMMA CommandPayload ==
    ASSUME NEW kind \in Kinds, NEW qty \in Quantities
    PROVE  Command(kind, qty) \in Payload
BY ConstantTypes DEF Command, Payload, Purposes, Namespaces

\* The same for the stop orders.
LEMMA StopPayload ==
    ASSUME NEW kind \in Kinds, NEW qty \in Quantities, NEW price \in Prices,
           NEW target \in OrderId
    PROVE  StopCommand(kind, qty, price, target) \in Payload
BY DEF StopCommand, Payload, Purposes, Namespaces

\* The same for the cancels.
LEMMA CancelPayload ==
    ASSUME NEW target \in OrderId, NEW namespace \in Namespaces, NEW purpose \in Purposes
    PROVE  CancelCommand(target, namespace, purpose) \in Payload
BY ConstantTypes DEF CancelCommand, Payload, Kinds

\* The status of every transition is a member of AggregateStatus.
LEMMA StatusNames ==
    /\ "LEVERAGE_PENDING" \in Statuses /\ "LEVERAGE_OUTCOME_UNKNOWN" \in Statuses
    /\ "LEVERAGE_CONFIRMED" \in Statuses /\ "LEVERAGE_REJECTED" \in Statuses
    /\ "ENTRY_PENDING" \in Statuses /\ "ENTRY_OUTCOME_UNKNOWN" \in Statuses
    /\ "ENTRY_ACCEPTED" \in Statuses /\ "ENTRY_REJECTED" \in Statuses
    /\ "ENTRY_RECONCILED_ABSENT" \in Statuses /\ "PARTIAL_FILL_INCIDENT" \in Statuses
    /\ "PARTIAL_FILL_CANCEL_REJECTED" \in Statuses
    /\ "PARTIAL_FILL_CANCEL_OUTCOME_UNKNOWN" \in Statuses
    /\ "PROTECTION_PENDING" \in Statuses /\ "INITIAL_STOP_OUTCOME_UNKNOWN" \in Statuses
    /\ "POST_FILL_RISK_PENDING" \in Statuses /\ "TP1_PENDING" \in Statuses
    /\ "TP1_REJECTED" \in Statuses /\ "TP1_OUTCOME_UNKNOWN" \in Statuses
    /\ "POSITION_PROTECTED" \in Statuses /\ "RUNNER_REPLACEMENT_PENDING" \in Statuses
    /\ "RUNNER_REPLACEMENT_REJECTED" \in Statuses
    /\ "RUNNER_REPLACEMENT_OUTCOME_UNKNOWN" \in Statuses
    /\ "RUNNER_OLD_STOP_CANCEL_PENDING" \in Statuses
    /\ "RUNNER_OLD_STOP_CANCEL_REJECTED" \in Statuses
    /\ "RUNNER_OLD_STOP_CANCEL_OUTCOME_UNKNOWN" \in Statuses
    /\ "RUNNER_PROTECTED" \in Statuses /\ "EXIT_PENDING" \in Statuses
    /\ "EXIT_ACCEPTED" \in Statuses /\ "EXIT_REJECTED" \in Statuses
    /\ "EXIT_OUTCOME_UNKNOWN" \in Statuses /\ "CONTROLLED_FLATTEN_PENDING" \in Statuses
    /\ "CONTROLLED_FLATTEN_ACCEPTED" \in Statuses
    /\ "CONTROLLED_FLATTEN_REJECTED" \in Statuses
    /\ "CONTROLLED_FLATTEN_OUTCOME_UNKNOWN" \in Statuses
    /\ "RECONCILIATION_PENDING" \in Statuses /\ "CANCEL_REJECTED" \in Statuses
    /\ "CANCEL_OUTCOME_UNKNOWN" \in Statuses /\ "SETTLEMENT_PENDING" \in Statuses
    /\ "REVIEW_PENDING" \in Statuses /\ "TERMINAL" \in Statuses
BY DEF Statuses, EntryStatuses, PartialFillStatuses, ProtectionStatuses, Tp1Statuses,
       RunnerStatuses, ExitStatuses, FlattenStatuses, CleanupStatuses, RejectedStatuses,
       ClosureStatuses

\* The incidents the events open are members of IncidentKinds.
LEMMA IncidentNames ==
    /\ "leverage_outcome_unknown" \in IncidentKinds
    /\ "entry_outcome_unknown" \in IncidentKinds
    /\ "initial_stop_outcome_unknown" \in IncidentKinds
    /\ "take_profit_outcome_unknown" \in IncidentKinds
    /\ "protection_replacement_outcome_unknown" \in IncidentKinds
    /\ "exit_outcome_unknown" \in IncidentKinds
    /\ "controlled_flatten_outcome_unknown" \in IncidentKinds
    /\ "entry_remainder_cancel_outcome_unknown" \in IncidentKinds
    /\ "runner_old_stop_cancel_outcome_unknown" \in IncidentKinds
    /\ "cancel_order_outcome_unknown" \in IncidentKinds /\ "post_fill_risk" \in IncidentKinds
    /\ "post_fill_stress_failed" \in IncidentKinds
    /\ "unsupported_partial_entry_fill" \in IncidentKinds
    /\ "entry_remainder_cancel_rejected" \in IncidentKinds
    /\ "initial_stop_rejected" \in IncidentKinds /\ "initial_stop_absent" \in IncidentKinds
    /\ "take_profit_rejected" \in IncidentKinds
    /\ "protection_replacement_rejected" \in IncidentKinds
    /\ "exit_rejected" \in IncidentKinds /\ "controlled_flatten_rejected" \in IncidentKinds
    /\ "controlled_flatten_absent" \in IncidentKinds /\ "external_flat" \in IncidentKinds
    /\ "unowned_open_order" \in IncidentKinds
    /\ "runner_old_stop_cancel_rejected" \in IncidentKinds
    /\ "cancel_order_rejected" \in IncidentKinds
    /\ "post_fill_risk_facts_unavailable" \in IncidentKinds
BY DEF IncidentKinds

\* A change of status keeps everything else.
LEMMA MovedKept ==
    ASSUME NEW a \in Aggregate, NEW status \in Statuses
    PROVE  Kept(a, Moved(a, status))
BY DEF Moved, Aggregate, Kept

\* The fields of an aggregate.
LEMMA FieldTypes ==
    ASSUME NEW a \in Aggregate
    PROVE  /\ a.positionQty \in Quantities /\ a.protectedQty \in Quantities
           /\ a.tp1Target \in Quantities
           /\ a.entryOrder \in OrderId /\ a.initialStop \in OrderId
           /\ a.activeStop \in OrderId /\ a.tp1Order \in OrderId
           /\ a.replacedStop \in OrderId /\ a.pendingCancel \in OrderId
           /\ a.activeStopPrice \in Prices /\ a.pendingStopPrice \in Prices
           /\ a.laneHeld \in BOOLEAN
           /\ NextCleanupOrder(a) \in OrderId
BY DEF Aggregate, NextCleanupOrder

\* A reduction without effects.
LEMMA PlainSound ==
    ASSUME NEW a, NEW x, Kept(a, x)
    PROVE  Sound(a, Transition(x))
BY DEF Sound, WellFormed, LaneStep, Transition, Kept

\* One that opens an incident.
LEMMA OpenSound ==
    ASSUME NEW a, NEW x, Kept(a, x), NEW i \in IncidentKinds
    PROVE  Sound(a, [Transition(x) EXCEPT !.open = {i}])
BY DEF Sound, WellFormed, LaneStep, Transition, Kept

\* One that resolves incidents.
LEMMA ResolveSound ==
    ASSUME NEW a, NEW x, Kept(a, x), NEW rs
    PROVE  Sound(a, [Transition(x) EXCEPT !.resolve = rs])
BY DEF Sound, WellFormed, LaneStep, Transition, Kept

\* One that resolves exactly one.
LEMMA ResolveOneSound ==
    ASSUME NEW a, NEW x, Kept(a, x), NEW j \in IncidentKinds
    PROVE  Sound(a, [Transition(x) EXCEPT !.resolve = {j}])
BY DEF Sound, WellFormed, LaneStep, Transition, Kept

\* One that resolves an incident and opens another.
LEMMA ResolveOpenSound ==
    ASSUME NEW a, NEW x, Kept(a, x), NEW j \in IncidentKinds, NEW i \in IncidentKinds
    PROVE  Sound(a, [Transition(x) EXCEPT !.resolve = {j}, !.open = {i}])
BY DEF Sound, WellFormed, LaneStep, Transition, Kept

\* One that prepares a command.
LEMMA PrepareSound ==
    ASSUME NEW a, NEW x, Kept(a, x), NEW p \in Payload
    PROVE  Sound(a, [Transition(x) EXCEPT !.prepare = {p}])
BY DEF Sound, WellFormed, LaneStep, Transition, Kept

\* One that prepares a command and resolves incidents.
LEMMA PrepareResolveSound ==
    ASSUME NEW a, NEW x, Kept(a, x), NEW p \in Payload, NEW rs
    PROVE  Sound(a, [Transition(x) EXCEPT !.prepare = {p}, !.resolve = rs])
BY DEF Sound, WellFormed, LaneStep, Transition, Kept

\* The same effects in the other order.
LEMMA ResolvePrepareSound ==
    ASSUME NEW a, NEW x, Kept(a, x), NEW rs, NEW p \in Payload
    PROVE  Sound(a, [Transition(x) EXCEPT !.resolve = rs, !.prepare = {p}])
BY DEF Sound, WellFormed, LaneStep, Transition, Kept

\* The same with exactly one incident resolved.
LEMMA ResolveOnePrepareSound ==
    ASSUME NEW a, NEW x, Kept(a, x), NEW j \in IncidentKinds, NEW p \in Payload
    PROVE  Sound(a, [Transition(x) EXCEPT !.resolve = {j}, !.prepare = {p}])
BY DEF Sound, WellFormed, LaneStep, Transition, Kept

\* One that opens incidents and prepares a command.
LEMMA OpenPrepareSound ==
    ASSUME NEW a, NEW x, Kept(a, x), NEW o \in SUBSET IncidentKinds, NEW p \in Payload
    PROVE  Sound(a, [Transition(x) EXCEPT !.open = o, !.prepare = {p}])
BY DEF Sound, WellFormed, LaneStep, Transition, Kept

\* One that resolves, opens and prepares.
LEMMA ResolveOpenPrepareSound ==
    ASSUME NEW a, NEW x, Kept(a, x), NEW j \in IncidentKinds, NEW i \in IncidentKinds, NEW p \in Payload
    PROVE  Sound(a, [Transition(x) EXCEPT !.resolve = {j}, !.open = {i}, !.prepare = {p}])
BY DEF Sound, WellFormed, LaneStep, Transition, Kept

\* One that marks a cancel as reconciled.
LEMMA MarkSound ==
    ASSUME NEW a, NEW x, Kept(a, x), NEW m, NEW rs
    PROVE  Sound(a, [Transition(x) EXCEPT !.markAbsent = m, !.resolve = rs])
BY DEF Sound, WellFormed, LaneStep, Transition, Kept

\* One that does so and prepares a command.
LEMMA MarkPrepareSound ==
    ASSUME NEW a, NEW x, Kept(a, x), NEW m, NEW rs, NEW p \in Payload
    PROVE  Sound(a, [Transition(x) EXCEPT !.markAbsent = m, !.resolve = rs, !.prepare = {p}])
BY DEF Sound, WellFormed, LaneStep, Transition, Kept

\* The closure, which releases authorities other than the lane.
LEMMA CloseSound ==
    ASSUME NEW a, NEW x, Kept(a, x), NEW l, "lane" \notin l
    PROVE  Sound(a, [Transition(x) EXCEPT !.closesIncidents = TRUE, !.release = l])
BY DEF Sound, WellFormed, LaneStep, Transition, Kept

\* Reductions that give the lane back: without other effects,
LEMMA ReleaseSound ==
    ASSUME NEW a, NEW x, Freed(x), NEW l,
           "lane" \in l \/ a.laneHeld = FALSE
    PROVE  Sound(a, [Transition(x) EXCEPT !.release = l])
BY DEF Sound, WellFormed, LaneStep, Transition, Freed

\* resolving incidents,
LEMMA ResolveReleaseSound ==
    ASSUME NEW a, NEW x, Freed(x), NEW l, NEW rs,
           "lane" \in l \/ a.laneHeld = FALSE
    PROVE  Sound(a, [Transition(x) EXCEPT !.resolve = rs, !.release = l])
BY DEF Sound, WellFormed, LaneStep, Transition, Freed

\* preparing a command,
LEMMA ReleasePrepareSound ==
    ASSUME NEW a, NEW x, Freed(x), NEW l, NEW p \in Payload,
           "lane" \in l \/ a.laneHeld = FALSE
    PROVE  Sound(a, [Transition(x) EXCEPT !.release = l, !.prepare = {p}])
BY DEF Sound, WellFormed, LaneStep, Transition, Freed

\* or preparing the commands of a cleanup.
LEMMA PrepareReleaseSound ==
    ASSUME NEW a, NEW x, Freed(x), NEW l, NEW ps \in SUBSET Payload,
           "lane" \in l \/ a.laneHeld = FALSE
    PROVE  Sound(a, [Transition(x) EXCEPT !.prepare = ps, !.release = l])
BY DEF Sound, WellFormed, LaneStep, Transition, Freed

-----------------------------------------------------------------------------
(* The events. *)

\* Events that only move the status, and open or resolve incidents.
LEMMA StatusEvents ==
    ASSUME NEW a \in Aggregate, NEW o
    PROVE  /\ AllSound(a, LeverageOutcomeUnknown(a))
           /\ AllSound(a, EntryOutcomeUnknown(a))
           /\ AllSound(a, EntryRemainderCancelRejected(a, o))
           /\ AllSound(a, EntryRemainderCancelOutcomeUnknown(a, o))
           /\ AllSound(a, InitialStopOutcomeUnknown(a))
           /\ AllSound(a, TakeProfitRejected(a))
           /\ AllSound(a, TakeProfitOutcomeUnknown(a))
           /\ AllSound(a, ProtectionReplacementRejected(a))
           /\ AllSound(a, ProtectionReplacementOutcomeUnknown(a))
           /\ AllSound(a, ProtectionCancelRejected(a, o))
           /\ AllSound(a, ProtectionCancelOutcomeUnknown(a, o))
           /\ AllSound(a, ExitAccepted(a))
           /\ AllSound(a, ExitRejected(a))
           /\ AllSound(a, ExitOutcomeUnknown(a))
           /\ AllSound(a, ExitAbsenceConfirmed(a))
           /\ AllSound(a, ControlledFlattenAccepted(a))
           /\ AllSound(a, ControlledFlattenRejected(a))
           /\ AllSound(a, ControlledFlattenOutcomeUnknown(a))
           /\ AllSound(a, CancelOrderRejected(a, o))
           /\ AllSound(a, CancelOrderOutcomeUnknown(a, o))
           /\ AllSound(a, CancelOrderStillOpenConfirmed(a, o))
           /\ AllSound(a, BudgetSettled(a))
           /\ AllSound(a, ReviewRecorded(a))
<1> USE MovedKept, StatusNames, IncidentNames DEF AllSound, When
<1>1. AllSound(a, LeverageOutcomeUnknown(a)) BY OpenSound DEF LeverageOutcomeUnknown
<1>2. AllSound(a, EntryOutcomeUnknown(a)) BY OpenSound DEF EntryOutcomeUnknown
<1>3. AllSound(a, EntryRemainderCancelRejected(a, o)) BY OpenSound DEF EntryRemainderCancelRejected
<1>4. AllSound(a, EntryRemainderCancelOutcomeUnknown(a, o))
    BY OpenSound DEF EntryRemainderCancelOutcomeUnknown
<1>5. AllSound(a, InitialStopOutcomeUnknown(a)) BY OpenSound DEF InitialStopOutcomeUnknown
<1>6. AllSound(a, TakeProfitRejected(a)) BY OpenSound DEF TakeProfitRejected
<1>7. AllSound(a, TakeProfitOutcomeUnknown(a)) BY OpenSound DEF TakeProfitOutcomeUnknown
<1>8. AllSound(a, ProtectionReplacementRejected(a)) BY OpenSound DEF ProtectionReplacementRejected
<1>9. AllSound(a, ProtectionReplacementOutcomeUnknown(a))
    BY OpenSound DEF ProtectionReplacementOutcomeUnknown
<1>10. AllSound(a, ProtectionCancelRejected(a, o)) BY OpenSound DEF ProtectionCancelRejected
<1>11. AllSound(a, ProtectionCancelOutcomeUnknown(a, o)) BY OpenSound DEF ProtectionCancelOutcomeUnknown
<1>12. AllSound(a, ExitAccepted(a)) BY ResolveSound DEF ExitAccepted
<1>13. AllSound(a, ExitRejected(a)) BY OpenSound DEF ExitRejected
<1>14. AllSound(a, ExitOutcomeUnknown(a)) BY OpenSound DEF ExitOutcomeUnknown
<1>15. AllSound(a, ExitAbsenceConfirmed(a)) BY ResolveOneSound DEF ExitAbsenceConfirmed
<1>16. AllSound(a, ControlledFlattenAccepted(a)) BY ResolveSound DEF ControlledFlattenAccepted
<1>17. AllSound(a, ControlledFlattenRejected(a)) BY OpenSound DEF ControlledFlattenRejected
<1>18. AllSound(a, ControlledFlattenOutcomeUnknown(a)) BY OpenSound DEF ControlledFlattenOutcomeUnknown
<1>19. AllSound(a, CancelOrderRejected(a, o)) BY OpenSound DEF CancelOrderRejected
<1>20. AllSound(a, CancelOrderOutcomeUnknown(a, o)) BY OpenSound DEF CancelOrderOutcomeUnknown
<1>21. AllSound(a, CancelOrderStillOpenConfirmed(a, o))
    BY ResolveOneSound DEF CancelOrderStillOpenConfirmed
<1>22. AllSound(a, BudgetSettled(a)) BY PlainSound DEF BudgetSettled
<1>23. AllSound(a, ReviewRecorded(a)) BY PlainSound DEF ReviewRecorded
<1> HIDE MovedKept, StatusNames, IncidentNames DEF AllSound, When
<1> QED BY <1>1, <1>2, <1>3, <1>4, <1>5, <1>6, <1>7, <1>8, <1>9, <1>10, <1>11, <1>12,
           <1>13, <1>14, <1>15, <1>16, <1>17, <1>18, <1>19, <1>20, <1>21, <1>22, <1>23

\* Leverage and ENTRY: the lane goes back with a rejection or a confirmed absence.
LEMMA EntryEvents ==
    ASSUME NEW a \in Aggregate, NEW o \in CommandId
    PROVE  /\ AllSound(a, LeverageConfirmed(a))
           /\ AllSound(a, LeverageRejected(a))
           /\ AllSound(a, EntryAccepted(a, o))
           /\ AllSound(a, EntryRejected(a))
           /\ AllSound(a, EntryAbsenceConfirmed(a))
<1>1. AllSound(a, LeverageConfirmed(a))
  <2>1. Command("ENTRY", TicketQuantity) \in Payload BY CommandPayload, ConstantTypes DEF Kinds
  <2>2. Kept(a, Moved(a, "LEVERAGE_CONFIRMED")) BY MovedKept, StatusNames
  <2> DEFINE r == [Transition(Moved(a, "LEVERAGE_CONFIRMED")) EXCEPT
                     !.prepare = {Command("ENTRY", TicketQuantity)},
                     !.resolve = ResolveOn(a, "LEVERAGE_OUTCOME_UNKNOWN",
                                           "leverage_outcome_unknown")]
  <2>3. LeverageConfirmed(a) \subseteq {r} BY DEF LeverageConfirmed, When
  <2>4. Sound(a, r) BY <2>1, <2>2, PrepareResolveSound
  <2> QED BY <2>3, <2>4 DEF AllSound
<1>2. "lane" \in TerminalRelease BY DEF TerminalRelease
<1>3. AllSound(a, LeverageRejected(a))
  <2>1. Freed([a EXCEPT !.status = "LEVERAGE_REJECTED", !.laneHeld = FALSE])
      BY StatusNames DEF Freed, Aggregate
  <2> DEFINE r == [Transition([a EXCEPT !.status = "LEVERAGE_REJECTED",
                                        !.laneHeld = FALSE]) EXCEPT
                     !.resolve = ResolveOn(a, "LEVERAGE_OUTCOME_UNKNOWN",
                                           "leverage_outcome_unknown"),
                     !.release = TerminalRelease]
  <2>2. LeverageRejected(a) \subseteq {r} BY DEF LeverageRejected, When
  <2>3. Sound(a, r) BY <1>2, <2>1, ResolveReleaseSound
  <2> QED BY <2>2, <2>3 DEF AllSound
<1>4. AllSound(a, EntryAccepted(a, o))
  <2>1. Kept(a, [a EXCEPT !.status = "ENTRY_ACCEPTED", !.entryOrder = o])
      BY StatusNames, ConstantTypes DEF Kept, Aggregate
  <2> QED BY <2>1, ResolveSound DEF AllSound, When, EntryAccepted
<1>5. AllSound(a, EntryRejected(a))
  <2>1. Freed([a EXCEPT !.status = "ENTRY_REJECTED", !.laneHeld = FALSE])
      BY StatusNames DEF Freed, Aggregate
  <2>2. Sound(a, [Transition([a EXCEPT !.status = "ENTRY_REJECTED", !.laneHeld = FALSE]) EXCEPT
                    !.release = TerminalRelease])
      BY <1>2, <2>1, ReleaseSound
  <2> QED BY <2>2 DEF AllSound, When, EntryRejected
<1>6. AllSound(a, EntryAbsenceConfirmed(a))
  <2>1. Freed([a EXCEPT !.status = "ENTRY_RECONCILED_ABSENT", !.laneHeld = FALSE])
      BY StatusNames DEF Freed, Aggregate
  <2> DEFINE rs == {"entry_outcome_unknown"}
             r == [Transition([a EXCEPT !.status = "ENTRY_RECONCILED_ABSENT",
                                        !.laneHeld = FALSE]) EXCEPT
                     !.resolve = rs, !.release = TerminalRelease]
  <2>2. EntryAbsenceConfirmed(a) \subseteq {r} BY DEF When, EntryAbsenceConfirmed
  <2> HIDE DEF rs
  <2>3. Sound(a, r) BY <1>2, <2>1, ResolveReleaseSound
  <2> QED BY <2>2, <2>3 DEF AllSound
<1> QED BY <1>1, <1>3, <1>4, <1>5, <1>6

\* Fills of the ENTRY order and the cancel of its remainder.
LEMMA FillEvents ==
    ASSUME NEW a \in Aggregate, NEW f \in Quantities, NEW d \in Dispositions, NEW o
    PROVE  /\ AllSound(a, EntryFilled(a, f, d))
           /\ AllSound(a, EntryPartiallyFilled(a, f))
           /\ AllSound(a, EntryRemainderCancelConfirmed(a, o))
<1>1. AllSound(a, EntryFilled(a, f, d))
  <2> DEFINE updated == [a EXCEPT !.positionQty = f, !.disposition = d]
  <2>1. Kept(a, updated) /\ updated \in Aggregate BY DEF Kept, Aggregate
  <2>2. Kept(a, Moved(updated, "CONTROLLED_FLATTEN_PENDING")) BY <2>1, MovedKept, StatusNames DEF Kept
  <2>3. Kept(a, Moved(updated, "PROTECTION_PENDING")) BY <2>1, MovedKept, StatusNames DEF Kept
  <2>4. Command("CONTROLLED_FLATTEN", f) \in Payload BY CommandPayload DEF Kinds
  <2>5. StopCommand("INITIAL_STOP", f, InitialStopPrice, NoOrder) \in Payload
      BY StopPayload, ConstantTypes DEF Kinds
  <2>6. {"post_fill_risk"} \in SUBSET IncidentKinds /\ {} \in SUBSET IncidentKinds BY IncidentNames
  <2> DEFINE opened == IF d = "FLATTEN_AFTER_PROTECTION" THEN {"post_fill_risk"} ELSE {}
  <2>7. opened \in SUBSET IncidentKinds BY <2>6
  <2> DEFINE flatten == [Transition(Moved(updated, "CONTROLLED_FLATTEN_PENDING")) EXCEPT
                           !.open = {"post_fill_risk"},
                           !.prepare = {Command("CONTROLLED_FLATTEN", f)}]
             protect == [Transition(Moved(updated, "PROTECTION_PENDING")) EXCEPT
                           !.open = opened,
                           !.prepare = {StopCommand("INITIAL_STOP", f, InitialStopPrice, NoOrder)}]
  <2>8. EntryFilled(a, f, d) \subseteq {flatten, protect} BY DEF EntryFilled, When
  <2> HIDE DEF updated, opened
  <2>9. Sound(a, flatten) BY <2>2, <2>4, <2>6, OpenPrepareSound
  <2>10. Sound(a, protect) BY <2>3, <2>5, <2>7, OpenPrepareSound
  <2> QED BY <2>8, <2>9, <2>10 DEF AllSound
<1>2. AllSound(a, EntryPartiallyFilled(a, f))
  <2>1. Kept(a, [a EXCEPT !.status = "PARTIAL_FILL_INCIDENT", !.positionQty = f])
      BY StatusNames DEF Kept, Aggregate
  <2>2. CancelCommand(a.entryOrder, "regular", "entry_remainder") \in Payload
      BY CancelPayload, FieldTypes DEF Purposes, Namespaces
  <2>3. {"unsupported_partial_entry_fill"} \in SUBSET IncidentKinds BY IncidentNames
  <2> DEFINE r == [Transition([a EXCEPT !.status = "PARTIAL_FILL_INCIDENT",
                                        !.positionQty = f]) EXCEPT
                     !.open = {"unsupported_partial_entry_fill"},
                     !.prepare = {CancelCommand(a.entryOrder, "regular", "entry_remainder")}]
  <2>4. EntryPartiallyFilled(a, f) \subseteq {r} BY DEF EntryPartiallyFilled, When
  <2>5. Sound(a, r) BY <2>1, <2>2, <2>3, OpenPrepareSound
  <2> QED BY <2>4, <2>5 DEF AllSound
<1>3. AllSound(a, EntryRemainderCancelConfirmed(a, o))
  <2>1. Kept(a, Moved(a, "CONTROLLED_FLATTEN_PENDING")) BY MovedKept, StatusNames
  <2>2. Command("CONTROLLED_FLATTEN", a.positionQty) \in Payload BY CommandPayload, FieldTypes DEF Kinds
  <2> DEFINE m == IF a.status = "PARTIAL_FILL_CANCEL_OUTCOME_UNKNOWN" THEN {o} ELSE {}
             r == [Transition(Moved(a, "CONTROLLED_FLATTEN_PENDING")) EXCEPT
                     !.markAbsent = m,
                     !.resolve = ResolveOn(a, "PARTIAL_FILL_CANCEL_OUTCOME_UNKNOWN",
                                           "entry_remainder_cancel_outcome_unknown"),
                     !.prepare = {Command("CONTROLLED_FLATTEN", a.positionQty)}]
  <2>3. EntryRemainderCancelConfirmed(a, o) \subseteq {r} BY DEF EntryRemainderCancelConfirmed, When
  <2> HIDE DEF m
  <2>4. Sound(a, r) BY <2>1, <2>2, MarkPrepareSound
  <2> QED BY <2>3, <2>4 DEF AllSound
<1> QED BY <1>1, <1>2, <1>3

\* The initial stop and the post-fill stress decision.
LEMMA ProtectionEvents ==
    ASSUME NEW a \in Aggregate, NEW o \in CommandId, NEW q \in Quantities,
           NEW passed \in BOOLEAN
    PROVE  /\ AllSound(a, InitialStopConfirmed(a, o, q))
           /\ AllSound(a, PostFillStressAssessed(a, passed))
           /\ AllSound(a, InitialStopRejected(a))
           /\ AllSound(a, InitialStopAbsenceConfirmed(a))
<1>1. AllSound(a, InitialStopConfirmed(a, o, q))
  <2> DEFINE updated == [a EXCEPT !.protectedQty = q, !.initialStop = o, !.activeStop = o,
                                  !.activeStopPrice = InitialStopPrice]
             flatten == [Transition(Moved(updated, "CONTROLLED_FLATTEN_PENDING")) EXCEPT
                           !.prepare = {Command("CONTROLLED_FLATTEN", a.positionQty)}]
             continue == [Transition(Moved(updated, "POST_FILL_RISK_PENDING")) EXCEPT
                            !.resolve = ResolveOn(a, "INITIAL_STOP_OUTCOME_UNKNOWN",
                                                  "initial_stop_outcome_unknown")]
  <2>1. InitialStopConfirmed(a, o, q) \subseteq {flatten, continue} BY DEF InitialStopConfirmed, When
  <2>2. Kept(a, updated) /\ updated \in Aggregate BY ConstantTypes DEF Kept, Aggregate
  <2> HIDE DEF updated
  <2>3. Kept(a, Moved(updated, "CONTROLLED_FLATTEN_PENDING")) BY <2>2, MovedKept, StatusNames DEF Kept
  <2>4. Kept(a, Moved(updated, "POST_FILL_RISK_PENDING")) BY <2>2, MovedKept, StatusNames DEF Kept
  <2>5. Command("CONTROLLED_FLATTEN", a.positionQty) \in Payload BY CommandPayload, FieldTypes DEF Kinds
  <2>6. Sound(a, flatten) BY <2>3, <2>5, PrepareSound
  <2>7. Sound(a, continue) BY <2>4, ResolveSound
  <2> QED BY <2>1, <2>6, <2>7 DEF AllSound
<1>2. AllSound(a, PostFillStressAssessed(a, passed))
  <2> DEFINE lane == {"lane"}
             continue == [Transition([a EXCEPT !.status = "TP1_PENDING", !.laneHeld = FALSE,
                                               !.tp1Target = Tp1Quantity]) EXCEPT
                            !.release = lane,
                            !.prepare = {Command("TAKE_PROFIT", Tp1Quantity)}]
             flatten == [Transition(Moved(a, "CONTROLLED_FLATTEN_PENDING")) EXCEPT
                           !.open = {"post_fill_stress_failed"},
                           !.prepare = {Command("CONTROLLED_FLATTEN", a.positionQty)}]
  <2>1. PostFillStressAssessed(a, passed) \subseteq {flatten, continue}
      BY DEF PostFillStressAssessed, When
  <2>2. Freed([a EXCEPT !.status = "TP1_PENDING", !.laneHeld = FALSE, !.tp1Target = Tp1Quantity])
      BY StatusNames, ConstantTypes DEF Freed, Aggregate
  <2>3. Kept(a, Moved(a, "CONTROLLED_FLATTEN_PENDING")) BY MovedKept, StatusNames
  <2>4. Command("CONTROLLED_FLATTEN", a.positionQty) \in Payload BY CommandPayload, FieldTypes DEF Kinds
  <2>5. Command("TAKE_PROFIT", Tp1Quantity) \in Payload BY CommandPayload, ConstantTypes DEF Kinds
  <2>6. {"post_fill_stress_failed"} \in SUBSET IncidentKinds BY IncidentNames
  <2>7. "lane" \in lane OBVIOUS
  <2> HIDE DEF lane
  <2>8. Sound(a, continue) BY <2>2, <2>5, <2>7, ReleasePrepareSound
  <2>9. Sound(a, flatten) BY <2>3, <2>4, <2>6, OpenPrepareSound
  <2> QED BY <2>1, <2>8, <2>9 DEF AllSound
<1>3. Kept(a, Moved(a, "EXIT_PENDING")) BY MovedKept, StatusNames
<1>4. Command("EXIT", a.positionQty) \in Payload BY CommandPayload, FieldTypes DEF Kinds
<1>5. AllSound(a, InitialStopRejected(a))
  <2>1. {"initial_stop_rejected"} \in SUBSET IncidentKinds BY IncidentNames
  <2>2. Sound(a, [Transition(Moved(a, "EXIT_PENDING")) EXCEPT
                    !.open = {"initial_stop_rejected"},
                    !.prepare = {Command("EXIT", a.positionQty)}])
      BY <1>3, <1>4, <2>1, OpenPrepareSound
  <2> QED BY <2>2 DEF AllSound, When, InitialStopRejected
<1>6. AllSound(a, InitialStopAbsenceConfirmed(a))
  <2>1. "initial_stop_outcome_unknown" \in IncidentKinds /\ "initial_stop_absent" \in IncidentKinds
      BY IncidentNames
  <2>2. Sound(a, [Transition(Moved(a, "EXIT_PENDING")) EXCEPT
                    !.resolve = {"initial_stop_outcome_unknown"},
                    !.open = {"initial_stop_absent"},
                    !.prepare = {Command("EXIT", a.positionQty)}])
      BY <1>3, <1>4, <2>1, ResolveOpenPrepareSound
  <2> QED BY <2>2 DEF AllSound, When, InitialStopAbsenceConfirmed
<1> QED BY <1>1, <1>2, <1>5, <1>6

\* TP1.
LEMMA TakeProfitEvents ==
    ASSUME NEW a \in Aggregate, NEW o \in CommandId, NEW q, NEW floor \in Prices
    PROVE  /\ AllSound(a, TakeProfitConfirmed(a, o, q))
           /\ AllSound(a, TakeProfitAbsenceConfirmed(a))
           /\ AllSound(a, TakeProfitFilled(a, q, floor))
<1>1. AllSound(a, TakeProfitConfirmed(a, o, q))
  <2>1. Kept(a, [a EXCEPT !.status = "POSITION_PROTECTED", !.tp1Order = o])
      BY StatusNames, ConstantTypes DEF Kept, Aggregate
  <2> QED BY <2>1, ResolveSound DEF AllSound, When, TakeProfitConfirmed
<1>2. AllSound(a, TakeProfitAbsenceConfirmed(a))
  <2>1. Kept(a, Moved(a, "TP1_PENDING")) BY MovedKept, StatusNames
  <2>2. Command("TAKE_PROFIT", a.tp1Target) \in Payload BY CommandPayload, FieldTypes DEF Kinds
  <2>3. "take_profit_outcome_unknown" \in IncidentKinds BY IncidentNames
  <2>4. Sound(a, [Transition(Moved(a, "TP1_PENDING")) EXCEPT
                    !.resolve = {"take_profit_outcome_unknown"},
                    !.prepare = {Command("TAKE_PROFIT", a.tp1Target)}])
      BY <2>1, <2>2, <2>3, ResolveOnePrepareSound
  <2> QED BY <2>4 DEF AllSound, When, TakeProfitAbsenceConfirmed
<1>3. AllSound(a, TakeProfitFilled(a, q, floor))
  <2> DEFINE runner == a.positionQty - q
             x == [a EXCEPT !.status = "RUNNER_REPLACEMENT_PENDING", !.positionQty = runner,
                            !.tp1Order = NoOrder, !.pendingStopPrice = floor]
             r == [Transition(x) EXCEPT
                     !.prepare = {StopCommand("REPLACE_PROTECTION", runner, floor, a.activeStop)}]
  <2> SUFFICES ASSUME TakeProfitFilled(a, q, floor) # {} PROVE AllSound(a, TakeProfitFilled(a, q, floor))
      BY DEF AllSound
  <2>1. q = a.tp1Target /\ q < a.positionQty BY DEF TakeProfitFilled, When
  <2>2. TakeProfitFilled(a, q, floor) \subseteq {r} BY DEF TakeProfitFilled, When
  <2>3. a.positionQty \in Quantities /\ q \in Quantities BY <2>1, FieldTypes
  <2>4. runner \in Quantities BY <2>1, <2>3, QuantityAssumption DEF Quantities
  <2> HIDE DEF runner
  <2>5. Kept(a, x) BY <2>4, StatusNames, ConstantTypes DEF Kept, Aggregate
  <2>6. StopCommand("REPLACE_PROTECTION", runner, floor, a.activeStop) \in Payload
      BY <2>4, StopPayload, FieldTypes DEF Kinds
  <2> HIDE DEF x
  <2>7. Sound(a, r) BY <2>5, <2>6, PrepareSound
  <2> QED BY <2>2, <2>7 DEF AllSound
<1> QED BY <1>1, <1>2, <1>3

\* The runner stop.
LEMMA RunnerEvents ==
    ASSUME NEW a \in Aggregate, NEW o \in CommandId, NEW q \in Quantities,
           NEW price \in Prices, NEW old \in OrderId
    PROVE  /\ AllSound(a, RunnerStopRequested(a, price))
           /\ AllSound(a, ProtectionReplacementConfirmed(a, o, q, price, old))
           /\ AllSound(a, ProtectionReplacementAbsenceConfirmed(a))
           /\ AllSound(a, ProtectionCancelConfirmed(a, old))
           /\ AllSound(a, ProtectionCancelAbsenceConfirmed(a, old))
<1>1. AllSound(a, RunnerStopRequested(a, price))
  <2> DEFINE x == [a EXCEPT !.status = "RUNNER_REPLACEMENT_PENDING", !.pendingStopPrice = price]
             r == [Transition(x) EXCEPT
                     !.prepare = {StopCommand("REPLACE_PROTECTION", a.positionQty, price,
                                              a.activeStop)}]
  <2>1. RunnerStopRequested(a, price) \subseteq {r} BY DEF RunnerStopRequested, When
  <2>2. Kept(a, x) BY StatusNames DEF Kept, Aggregate
  <2>3. StopCommand("REPLACE_PROTECTION", a.positionQty, price, a.activeStop) \in Payload
      BY StopPayload, FieldTypes DEF Kinds
  <2> HIDE DEF x
  <2>4. Sound(a, r) BY <2>2, <2>3, PrepareSound
  <2> QED BY <2>1, <2>4 DEF AllSound
<1>2. AllSound(a, ProtectionReplacementConfirmed(a, o, q, price, old))
  <2> DEFINE x == [a EXCEPT !.status = "RUNNER_OLD_STOP_CANCEL_PENDING", !.protectedQty = q,
                            !.activeStop = o, !.activeStopPrice = price,
                            !.replacedStop = old, !.pendingStopPrice = NoPrice]
             r == [Transition(x) EXCEPT
                     !.resolve = ResolveOn(a, "RUNNER_REPLACEMENT_OUTCOME_UNKNOWN",
                                           "protection_replacement_outcome_unknown"),
                     !.prepare = {CancelCommand(old, "conditional", "runner_old_stop")}]
  <2>1. ProtectionReplacementConfirmed(a, o, q, price, old) \subseteq {r}
      BY DEF ProtectionReplacementConfirmed, When
  <2>2. Kept(a, x) BY StatusNames, ConstantTypes DEF Kept, Aggregate
  <2>3. CancelCommand(old, "conditional", "runner_old_stop") \in Payload
      BY CancelPayload DEF Namespaces, Purposes
  <2> HIDE DEF x
  <2>4. Sound(a, r) BY <2>2, <2>3, ResolvePrepareSound
  <2> QED BY <2>1, <2>4 DEF AllSound
<1>3. AllSound(a, ProtectionReplacementAbsenceConfirmed(a))
  <2>1. Kept(a, Moved(a, "RUNNER_REPLACEMENT_PENDING")) BY MovedKept, StatusNames
  <2>2. StopCommand("REPLACE_PROTECTION", a.positionQty, a.pendingStopPrice, a.activeStop)
          \in Payload
      BY StopPayload, FieldTypes DEF Kinds
  <2>3. "protection_replacement_outcome_unknown" \in IncidentKinds BY IncidentNames
  <2>4. Sound(a, [Transition(Moved(a, "RUNNER_REPLACEMENT_PENDING")) EXCEPT
                    !.resolve = {"protection_replacement_outcome_unknown"},
                    !.prepare = {StopCommand("REPLACE_PROTECTION", a.positionQty,
                                             a.pendingStopPrice, a.activeStop)}])
      BY <2>1, <2>2, <2>3, ResolveOnePrepareSound
  <2> QED BY <2>4 DEF AllSound, When, ProtectionReplacementAbsenceConfirmed
<1>4. Kept(a, WithoutReplacedStop(a, old))
    BY StatusNames, ConstantTypes DEF Kept, Aggregate, WithoutReplacedStop
<1>5. AllSound(a, ProtectionCancelConfirmed(a, old))
    BY <1>4, PlainSound DEF AllSound, When, ProtectionCancelConfirmed
<1>6. AllSound(a, ProtectionCancelAbsenceConfirmed(a, old))
  <2> DEFINE m == {old}
             rs == {"runner_old_stop_cancel_outcome_unknown"}
             r == [Transition(WithoutReplacedStop(a, old)) EXCEPT
                     !.markAbsent = m, !.resolve = rs]
  <2>1. ProtectionCancelAbsenceConfirmed(a, old) \subseteq {r}
      BY DEF ProtectionCancelAbsenceConfirmed, When
  <2> HIDE DEF m, rs
  <2>2. Sound(a, r) BY <1>4, MarkSound
  <2> QED BY <2>1, <2>2 DEF AllSound
<1> QED BY <1>1, <1>2, <1>3, <1>5, <1>6

\* Exits, and flatness seen by the Reconciliation worker.
LEMMA FlatEvents ==
    ASSUME NEW a \in Aggregate
    PROVE  /\ AllSound(a, ExitRequested(a))
           /\ AllSound(a, ControlledFlattenAbsenceConfirmed(a))
           /\ AllSound(a, PositionFlatConfirmed(a))
           /\ AllSound(a, ExternalFlatDetected(a))
<1>1. AllSound(a, ExitRequested(a))
  <2>1. Kept(a, Moved(a, "EXIT_PENDING")) BY MovedKept, StatusNames
  <2>2. Command("EXIT", a.positionQty) \in Payload BY CommandPayload, FieldTypes DEF Kinds
  <2>3. Sound(a, [Transition(Moved(a, "EXIT_PENDING")) EXCEPT
                    !.prepare = {Command("EXIT", a.positionQty)}])
      BY <2>1, <2>2, PrepareSound
  <2> QED BY <2>3 DEF AllSound, When, ExitRequested
<1>2. AllSound(a, ControlledFlattenAbsenceConfirmed(a))
  <2>1. Kept(a, Moved(a, "CONTROLLED_FLATTEN_REJECTED")) BY MovedKept, StatusNames
  <2>2. /\ "controlled_flatten_outcome_unknown" \in IncidentKinds
        /\ "controlled_flatten_absent" \in IncidentKinds
      BY IncidentNames
  <2>3. Sound(a, [Transition(Moved(a, "CONTROLLED_FLATTEN_REJECTED")) EXCEPT
                    !.resolve = {"controlled_flatten_outcome_unknown"},
                    !.open = {"controlled_flatten_absent"}])
      BY <2>1, <2>2, ResolveOpenSound
  <2> QED BY <2>3 DEF AllSound, When, ControlledFlattenAbsenceConfirmed
<1> DEFINE c == NextCleanupOrder(a)
           cancel == CleanupCancel(c, "conditional")
<1>3. c \in OrderId /\ a.pendingCancel \in OrderId /\ a.laneHeld \in BOOLEAN BY FieldTypes
<1>4. cancel \in Payload BY <1>3, CancelPayload DEF CleanupCancel, Namespaces, Purposes
<1>5. AllSound(a, PositionFlatConfirmed(a))
  <2> DEFINE pending == IF c # NoOrder THEN c ELSE a.pendingCancel
             x == [a EXCEPT !.status = "RECONCILIATION_PENDING", !.positionQty = 0,
                            !.pendingCancel = pending, !.laneHeld = FALSE]
             ps == IF c # NoOrder THEN {cancel} ELSE {}
             l == IF a.laneHeld THEN {"lane"} ELSE {}
             r == [Transition(x) EXCEPT !.prepare = ps, !.release = l]
  <2>1. PositionFlatConfirmed(a) \subseteq {r} BY DEF PositionFlatConfirmed, When
  <2>2. pending \in OrderId BY <1>3
  <2>3. ps \in SUBSET Payload BY <1>4
  <2>4. "lane" \in l \/ a.laneHeld = FALSE BY <1>3
  <2> HIDE DEF pending, ps, l
  <2>5. Freed(x) BY <2>2, StatusNames, ConstantTypes DEF Freed, Aggregate
  <2> HIDE DEF x
  <2>6. Sound(a, r) BY <2>3, <2>4, <2>5, PrepareReleaseSound
  <2> QED BY <2>1, <2>6 DEF AllSound
<1>6. AllSound(a, ExternalFlatDetected(a))
  <2> DEFINE x == [a EXCEPT !.status = "RECONCILIATION_PENDING", !.positionQty = 0,
                            !.pendingCancel = c]
             o == {"external_flat"}
             r == [Transition(x) EXCEPT !.open = o, !.prepare = {cancel}]
  <2>1. ExternalFlatDetected(a) \subseteq {r} BY DEF ExternalFlatDetected, When
  <2>2. o \in SUBSET IncidentKinds BY IncidentNames
  <2> HIDE DEF c, cancel, o
  <2>3. Kept(a, x) BY <1>3, StatusNames, ConstantTypes DEF Kept, Aggregate
  <2> HIDE DEF x
  <2>4. Sound(a, r) BY <1>4, <2>2, <2>3, OpenPrepareSound
  <2> QED BY <2>1, <2>4 DEF AllSound
<1> QED BY <1>1, <1>2, <1>5, <1>6

\* Cleanup of owned orders, one at a time, and the closure.
LEMMA CleanupEvents ==
    ASSUME NEW a \in Aggregate, NEW o \in OrderId, NEW namespace \in Namespaces
    PROVE  /\ AllSound(a, OwnedOrphanOrderDetected(a, o, namespace))
           /\ AllSound(a, OwnedOrderAbsenceConfirmed(a, o))
           /\ AllSound(a, UnownedOrderDetected(a))
           /\ AllSound(a, OwnedOrphanCancelConfirmed(a, o))
           /\ AllSound(a, CancelOrderAbsenceConfirmed(a, o))
           /\ AllSound(a, ReconciliationMatched(a))
<1>1. AllSound(a, OwnedOrphanOrderDetected(a, o, namespace))
  <2>1. Kept(a, [a EXCEPT !.status = "RECONCILIATION_PENDING", !.pendingCancel = o])
      BY StatusNames DEF Kept, Aggregate
  <2>2. CleanupCancel(o, namespace) \in Payload BY CancelPayload DEF CleanupCancel, Purposes
  <2>3. Sound(a, [Transition([a EXCEPT !.status = "RECONCILIATION_PENDING",
                                       !.pendingCancel = o]) EXCEPT
                    !.prepare = {CleanupCancel(o, namespace)}])
      BY <2>1, <2>2, PrepareSound
  <2> QED BY <2>3 DEF AllSound, When, OwnedOrphanOrderDetected
<1>2. Kept(a, ClearCleanupOrder(a, o))
    BY StatusNames, ConstantTypes DEF Kept, Aggregate, ClearCleanupOrder
<1>3. AllSound(a, OwnedOrderAbsenceConfirmed(a, o))
    BY <1>2, PlainSound DEF AllSound, When, OwnedOrderAbsenceConfirmed
<1>4. AllSound(a, UnownedOrderDetected(a))
  <2>1. Kept(a, a) BY DEF Kept
  <2>2. "unowned_open_order" \in IncidentKinds BY IncidentNames
  <2>3. Sound(a, [Transition(a) EXCEPT !.open = {"unowned_open_order"}]) BY <2>1, <2>2, OpenSound
  <2> QED BY <2>3 DEF AllSound, When, UnownedOrderDetected
<1>5. AllSound(a, OwnedOrphanCancelConfirmed(a, o))
    BY <1>2, PlainSound DEF AllSound, When, OwnedOrphanCancelConfirmed
<1>6. AllSound(a, CancelOrderAbsenceConfirmed(a, o))
  <2> DEFINE m == IF a.status = "CANCEL_OUTCOME_UNKNOWN" THEN {o} ELSE {}
             rs == ResolveOn(a, "CANCEL_OUTCOME_UNKNOWN", "cancel_order_outcome_unknown")
             r == [Transition(ClearCleanupOrder(a, o)) EXCEPT !.markAbsent = m, !.resolve = rs]
  <2>1. CancelOrderAbsenceConfirmed(a, o) \subseteq {r} BY DEF CancelOrderAbsenceConfirmed, When
  <2> HIDE DEF m, rs
  <2>2. Sound(a, r) BY <1>2, MarkSound
  <2> QED BY <2>1, <2>2 DEF AllSound
<1>7. AllSound(a, ReconciliationMatched(a))
  <2> DEFINE l == {"budget", "exposure", "domain"}
             r == [Transition(Moved(a, "SETTLEMENT_PENDING")) EXCEPT
                     !.closesIncidents = TRUE, !.release = l]
  <2>1. ReconciliationMatched(a) \subseteq {r} BY DEF ReconciliationMatched, When
  <2>2. Kept(a, Moved(a, "SETTLEMENT_PENDING")) BY MovedKept, StatusNames
  <2>3. "lane" \notin l OBVIOUS
  <2> HIDE DEF l
  <2>4. Sound(a, r) BY <2>2, <2>3, CloseSound
  <2> QED BY <2>1, <2>4 DEF AllSound
<1> QED BY <1>1, <1>3, <1>4, <1>5, <1>6, <1>7

\* The issue of the Ticket: it starts with the lane.
LEMMA IssueEvent ==
    ASSUME NEW change \in BOOLEAN, NEW r \in TicketIssued(change)
    PROVE  WellFormed(r) /\ r.release = {} /\ r.agg.laneHeld = TRUE
<1> DEFINE s == IF change THEN "LEVERAGE_PENDING" ELSE "ENTRY_PENDING"
           x == [NoAggregate EXCEPT !.status = s, !.laneHeld = TRUE]
           c == IF change THEN Command("SET_LEVERAGE", 0) ELSE Command("ENTRY", TicketQuantity)
<1>1. r.agg = x /\ r.prepare = {c} /\ r.open = {} /\ r.release = {} BY DEF TicketIssued, Transition
<1>2. s \in Statuses BY StatusNames
<1>3. Command("SET_LEVERAGE", 0) \in Payload /\ Command("ENTRY", TicketQuantity) \in Payload
    BY CommandPayload, ConstantTypes DEF Kinds
<1>4. c \in Payload BY <1>3
<1> HIDE DEF s, c
<1>5. x \in Aggregate /\ x.laneHeld = TRUE
    BY <1>2, ConstantTypes DEF NoAggregate, Aggregate, Dispositions
<1> QED BY <1>1, <1>4, <1>5 DEF WellFormed

-----------------------------------------------------------------------------
(* What a reduction may do while outcomes are unknown. *)

\* Such an event is careful if it prepares no cancel and resolves at most its own incident.
LEMMA OrdinaryCareful ==
    ASSUME NEW a, NEW r, NEW i, Ordinary(a, r.agg), r.resolve \subseteq {i}, ~ r.closesIncidents,
           \A p \in r.prepare : p.kind # "CANCEL_ORDER" /\ p.purpose = "none"
    PROVE  Careful(a, r, i)
BY DEF Ordinary, Careful, InCleanup, AfterReplacement, CleanupStatuses, ClosureStatuses

\* The kinds of the commands that are no cancels, and their purpose.
LEMMA CommandKinds ==
    ASSUME NEW kind, NEW qty, NEW price, NEW t
    PROVE  /\ Command(kind, qty).kind = kind /\ StopCommand(kind, qty, price, t).kind = kind
           /\ Command(kind, qty).purpose = "none"
           /\ StopCommand(kind, qty, price, t).purpose = "none"
BY DEF Command, StopCommand

\* A change of status alone.
LEMMA MovedFields ==
    ASSUME NEW a \in Aggregate, NEW s
    PROVE  Moved(a, s).status = s /\ Moved(a, s).pendingCancel = a.pendingCancel
BY DEF Moved, Aggregate

\* An unknown outcome opens its incident and leaves every stage as it is.
LEMMA UnknownEvents ==
    ASSUME NEW a \in Aggregate, NEW o
    PROVE  /\ AllCareful(a, LeverageOutcomeUnknown(a), "none")
           /\ AllOpen(LeverageOutcomeUnknown(a), "leverage_outcome_unknown")
           /\ AllCareful(a, EntryOutcomeUnknown(a), "none")
           /\ AllOpen(EntryOutcomeUnknown(a), "entry_outcome_unknown")
           /\ AllCareful(a, InitialStopOutcomeUnknown(a), "none")
           /\ AllOpen(InitialStopOutcomeUnknown(a), "initial_stop_outcome_unknown")
           /\ AllCareful(a, TakeProfitOutcomeUnknown(a), "none")
           /\ AllOpen(TakeProfitOutcomeUnknown(a), "take_profit_outcome_unknown")
           /\ AllCareful(a, ProtectionReplacementOutcomeUnknown(a), "none")
           /\ AllOpen(ProtectionReplacementOutcomeUnknown(a), "protection_replacement_outcome_unknown")
           /\ AllCareful(a, ExitOutcomeUnknown(a), "none")
           /\ AllOpen(ExitOutcomeUnknown(a), "exit_outcome_unknown")
           /\ AllCareful(a, ControlledFlattenOutcomeUnknown(a), "none")
           /\ AllOpen(ControlledFlattenOutcomeUnknown(a), "controlled_flatten_outcome_unknown")
           /\ AllCareful(a, EntryRemainderCancelOutcomeUnknown(a, o), "none")
           /\ AllOpen(EntryRemainderCancelOutcomeUnknown(a, o), "entry_remainder_cancel_outcome_unknown")
           /\ AllCareful(a, ProtectionCancelOutcomeUnknown(a, o), "none")
           /\ AllOpen(ProtectionCancelOutcomeUnknown(a, o), "runner_old_stop_cancel_outcome_unknown")
           /\ AllCareful(a, CancelOrderOutcomeUnknown(a, o), "unknown")
           /\ AllOpen(CancelOrderOutcomeUnknown(a, o), "cancel_order_outcome_unknown")
<1> USE DEF AllCareful, Careful, When, Transition, Moved, Aggregate, BeforeFill, AfterReplacement,
        InCleanup, EntryStatuses, CleanupStatuses, ClosureStatuses
<1>1. /\ AllCareful(a, LeverageOutcomeUnknown(a), "none")
      /\ AllOpen(LeverageOutcomeUnknown(a), "leverage_outcome_unknown")
    BY DEF LeverageOutcomeUnknown, AllOpen
<1>2. /\ AllCareful(a, EntryOutcomeUnknown(a), "none")
      /\ AllOpen(EntryOutcomeUnknown(a), "entry_outcome_unknown")
    BY DEF EntryOutcomeUnknown, AllOpen
<1>3. /\ AllCareful(a, InitialStopOutcomeUnknown(a), "none")
      /\ AllOpen(InitialStopOutcomeUnknown(a), "initial_stop_outcome_unknown")
    BY DEF InitialStopOutcomeUnknown, AllOpen
<1>4. /\ AllCareful(a, TakeProfitOutcomeUnknown(a), "none")
      /\ AllOpen(TakeProfitOutcomeUnknown(a), "take_profit_outcome_unknown")
    BY DEF TakeProfitOutcomeUnknown, AllOpen
<1>5. /\ AllCareful(a, ProtectionReplacementOutcomeUnknown(a), "none")
      /\ AllOpen(ProtectionReplacementOutcomeUnknown(a), "protection_replacement_outcome_unknown")
    BY DEF ProtectionReplacementOutcomeUnknown, AllOpen
<1>6. /\ AllCareful(a, ExitOutcomeUnknown(a), "none")
      /\ AllOpen(ExitOutcomeUnknown(a), "exit_outcome_unknown")
    BY DEF ExitOutcomeUnknown, AllOpen
<1>7. /\ AllCareful(a, ControlledFlattenOutcomeUnknown(a), "none")
      /\ AllOpen(ControlledFlattenOutcomeUnknown(a), "controlled_flatten_outcome_unknown")
    BY DEF ControlledFlattenOutcomeUnknown, AllOpen
<1>8. /\ AllCareful(a, EntryRemainderCancelOutcomeUnknown(a, o), "none")
      /\ AllOpen(EntryRemainderCancelOutcomeUnknown(a, o), "entry_remainder_cancel_outcome_unknown")
    BY DEF EntryRemainderCancelOutcomeUnknown, AllOpen
<1>9. /\ AllCareful(a, ProtectionCancelOutcomeUnknown(a, o), "none")
      /\ AllOpen(ProtectionCancelOutcomeUnknown(a, o), "runner_old_stop_cancel_outcome_unknown")
    BY DEF ProtectionCancelOutcomeUnknown, AllOpen
<1>10. /\ AllCareful(a, CancelOrderOutcomeUnknown(a, o), "unknown")
       /\ AllOpen(CancelOrderOutcomeUnknown(a, o), "cancel_order_outcome_unknown")
    BY DEF CancelOrderOutcomeUnknown, AllOpen
<1> HIDE DEF AllCareful, Careful, When, Transition, Moved, Aggregate, BeforeFill, AfterReplacement,
        InCleanup, EntryStatuses, CleanupStatuses, ClosureStatuses
<1> QED BY <1>1, <1>2, <1>3, <1>4, <1>5, <1>6, <1>7, <1>8, <1>9, <1>10 DEF AllCareful

\* A refusal settles its own command only.
LEMMA RejectedEvents ==
    ASSUME NEW a \in Aggregate, NEW o
    PROVE  /\ AllCareful(a, LeverageRejected(a), "leverage_outcome_unknown")
           /\ AllCareful(a, EntryRejected(a), "none")
           /\ AllCareful(a, InitialStopRejected(a), "none")
           /\ AllCareful(a, TakeProfitRejected(a), "none")
           /\ AllCareful(a, ProtectionReplacementRejected(a), "none")
           /\ AllCareful(a, ExitRejected(a), "none")
           /\ AllCareful(a, ControlledFlattenRejected(a), "none")
           /\ AllCareful(a, EntryRemainderCancelRejected(a, o), "none")
           /\ AllCareful(a, ProtectionCancelRejected(a, o), "none")
           /\ AllCareful(a, CancelOrderRejected(a, o), "cancel_order_outcome_unknown")
<1> USE DEF AllCareful, When, BeforeFill, AfterReplacement, EntryStatuses,
        CleanupStatuses, ClosureStatuses
<1>1. ASSUME NEW r \in LeverageRejected(a) PROVE Careful(a, r, "leverage_outcome_unknown")
  <2>1. /\ a.status \in {"LEVERAGE_PENDING", "LEVERAGE_OUTCOME_UNKNOWN"}
        /\ r.agg = [a EXCEPT !.status = "LEVERAGE_REJECTED", !.laneHeld = FALSE]
        /\ r.resolve \subseteq {"leverage_outcome_unknown"} /\ ~ r.closesIncidents
        /\ r.prepare = {}
      BY DEF LeverageRejected, Transition, ResolveOn
  <2>2. r.agg.status = "LEVERAGE_REJECTED" BY <2>1 DEF Aggregate
  <2> QED BY <2>1, <2>2, OrdinaryCareful DEF Ordinary
<1>2. ASSUME NEW r \in EntryRejected(a) PROVE Careful(a, r, "none")
  <2>1. /\ a.status \in {"ENTRY_PENDING", "LEVERAGE_CONFIRMED"}
        /\ r.agg = [a EXCEPT !.status = "ENTRY_REJECTED", !.laneHeld = FALSE]
        /\ r.resolve \subseteq {"none"} /\ ~ r.closesIncidents
        /\ r.prepare = {}
      BY DEF EntryRejected, Transition
  <2>2. r.agg.status = "ENTRY_REJECTED" BY <2>1 DEF Aggregate
  <2> QED BY <2>1, <2>2, OrdinaryCareful DEF Ordinary
<1>3. ASSUME NEW r \in InitialStopRejected(a) PROVE Careful(a, r, "none")
  <2>1. /\ a.status = "PROTECTION_PENDING"
        /\ r.agg = Moved(a, "EXIT_PENDING")
        /\ r.resolve \subseteq {"none"} /\ ~ r.closesIncidents
        /\ r.prepare = {Command("EXIT", a.positionQty)}
      BY DEF InitialStopRejected, Transition
  <2> QED BY <2>1, MovedFields, CommandKinds, OrdinaryCareful DEF Ordinary
<1>4. ASSUME NEW r \in TakeProfitRejected(a) PROVE Careful(a, r, "none")
  <2>1. /\ a.status = "TP1_PENDING"
        /\ r.agg = Moved(a, "TP1_REJECTED")
        /\ r.resolve \subseteq {"none"} /\ ~ r.closesIncidents
        /\ r.prepare = {}
      BY DEF TakeProfitRejected, Transition
  <2> QED BY <2>1, MovedFields, OrdinaryCareful DEF Ordinary
<1>5. ASSUME NEW r \in ProtectionReplacementRejected(a) PROVE Careful(a, r, "none")
  <2>1. /\ a.status = "RUNNER_REPLACEMENT_PENDING"
        /\ r.agg = Moved(a, "RUNNER_REPLACEMENT_REJECTED")
        /\ r.resolve \subseteq {"none"} /\ ~ r.closesIncidents
        /\ r.prepare = {}
      BY DEF ProtectionReplacementRejected, Transition
  <2> QED BY <2>1, MovedFields, OrdinaryCareful DEF Ordinary
<1>6. ASSUME NEW r \in ExitRejected(a) PROVE Careful(a, r, "none")
  <2>1. /\ a.status = "EXIT_PENDING"
        /\ r.agg = Moved(a, "EXIT_REJECTED")
        /\ r.resolve \subseteq {"none"} /\ ~ r.closesIncidents
        /\ r.prepare = {}
      BY DEF ExitRejected, Transition
  <2> QED BY <2>1, MovedFields, OrdinaryCareful DEF Ordinary
<1>7. ASSUME NEW r \in ControlledFlattenRejected(a) PROVE Careful(a, r, "none")
  <2>1. /\ a.status = "CONTROLLED_FLATTEN_PENDING"
        /\ r.agg = Moved(a, "CONTROLLED_FLATTEN_REJECTED")
        /\ r.resolve \subseteq {"none"} /\ ~ r.closesIncidents
        /\ r.prepare = {}
      BY DEF ControlledFlattenRejected, Transition
  <2> QED BY <2>1, MovedFields, OrdinaryCareful DEF Ordinary
<1>8. ASSUME NEW r \in EntryRemainderCancelRejected(a, o) PROVE Careful(a, r, "none")
  <2>1. /\ a.status = "PARTIAL_FILL_INCIDENT"
        /\ r.agg = Moved(a, "PARTIAL_FILL_CANCEL_REJECTED")
        /\ r.resolve \subseteq {"none"} /\ ~ r.closesIncidents
        /\ r.prepare = {}
      BY DEF EntryRemainderCancelRejected, Transition
  <2> QED BY <2>1, MovedFields, OrdinaryCareful DEF Ordinary
<1>9. ASSUME NEW r \in ProtectionCancelRejected(a, o) PROVE Careful(a, r, "none")
  <2>1. /\ a.status = "RUNNER_OLD_STOP_CANCEL_PENDING"
        /\ r.agg = Moved(a, "RUNNER_OLD_STOP_CANCEL_REJECTED")
        /\ r.resolve = {} /\ ~ r.closesIncidents /\ r.prepare = {}
      BY DEF ProtectionCancelRejected, Transition
  <2>2. r.agg.status = "RUNNER_OLD_STOP_CANCEL_REJECTED"
      BY <2>1, MovedFields DEF Aggregate, WithoutReplacedStop, ClearCleanupOrder
  <2> QED BY <2>1, <2>2 DEF Careful, InCleanup, Requests
<1>10. ASSUME NEW r \in CancelOrderRejected(a, o) PROVE Careful(a, r, "cancel_order_outcome_unknown")
  <2>1. /\ a.status = "RECONCILIATION_PENDING" /\ r.agg = Moved(a, "CANCEL_REJECTED")
        /\ r.resolve = {} /\ ~ r.closesIncidents /\ r.prepare = {}
      BY DEF CancelOrderRejected, Transition
  <2>2. r.agg.status = "CANCEL_REJECTED"
      BY <2>1, MovedFields DEF Aggregate, WithoutReplacedStop, ClearCleanupOrder
  <2> QED BY <2>1, <2>2 DEF Careful, InCleanup, Requests
<1> HIDE DEF AllCareful, When, BeforeFill, AfterReplacement, EntryStatuses,
        CleanupStatuses, ClosureStatuses
<1> QED BY <1>1, <1>2, <1>3, <1>4, <1>5, <1>6, <1>7, <1>8, <1>9, <1>10 DEF AllCareful

\* So does a confirmation.
LEMMA AcceptedEvents ==
    ASSUME NEW a \in Aggregate, NEW o, NEW q, NEW price, NEW t
    PROVE  /\ AllCareful(a, LeverageConfirmed(a), "leverage_outcome_unknown")
           /\ AllCareful(a, EntryAccepted(a, o), "entry_outcome_unknown")
           /\ AllCareful(a, InitialStopConfirmed(a, o, q), "initial_stop_outcome_unknown")
           /\ AllCareful(a, TakeProfitConfirmed(a, o, q), "take_profit_outcome_unknown")
           /\ AllCareful(a, ProtectionReplacementConfirmed(a, o, q, price, t),
                      "protection_replacement_outcome_unknown")
           /\ AllCareful(a, ExitAccepted(a), "exit_outcome_unknown")
           /\ AllCareful(a, ControlledFlattenAccepted(a), "controlled_flatten_outcome_unknown")
           /\ AllCareful(a, EntryRemainderCancelConfirmed(a, o), "entry_remainder_cancel_outcome_unknown")
           /\ AllCareful(a, ProtectionCancelConfirmed(a, o),
                      "runner_old_stop_cancel_outcome_unknown")
           /\ AllCareful(a, OwnedOrphanCancelConfirmed(a, o), "cancel_order_outcome_unknown")
<1> USE DEF AllCareful, When, BeforeFill, AfterReplacement, EntryStatuses,
        CleanupStatuses, ClosureStatuses
<1>1. ASSUME NEW r \in LeverageConfirmed(a) PROVE Careful(a, r, "leverage_outcome_unknown")
  <2>1. /\ a.status \in {"LEVERAGE_PENDING", "LEVERAGE_OUTCOME_UNKNOWN"}
        /\ r.agg = Moved(a, "LEVERAGE_CONFIRMED")
        /\ r.resolve \subseteq {"leverage_outcome_unknown"} /\ ~ r.closesIncidents
        /\ r.prepare = {Command("ENTRY", TicketQuantity)}
      BY DEF LeverageConfirmed, Transition, ResolveOn
  <2> QED BY <2>1, MovedFields, CommandKinds, OrdinaryCareful DEF Ordinary
<1>2. ASSUME NEW r \in EntryAccepted(a, o) PROVE Careful(a, r, "entry_outcome_unknown")
  <2>1. /\ a.status \in {"ENTRY_PENDING", "LEVERAGE_CONFIRMED", "ENTRY_OUTCOME_UNKNOWN"}
        /\ r.agg = [a EXCEPT !.status = "ENTRY_ACCEPTED", !.entryOrder = o]
        /\ r.resolve \subseteq {"entry_outcome_unknown"} /\ ~ r.closesIncidents
        /\ r.prepare = {}
      BY DEF EntryAccepted, Transition, ResolveOn
  <2>2. r.agg.status = "ENTRY_ACCEPTED" BY <2>1 DEF Aggregate
  <2> QED BY <2>1, <2>2, OrdinaryCareful DEF Ordinary
<1>3. ASSUME NEW r \in InitialStopConfirmed(a, o, q) PROVE Careful(a, r, "initial_stop_outcome_unknown")
  <2> DEFINE updated == [a EXCEPT !.protectedQty = q, !.initialStop = o, !.activeStop = o,
                                  !.activeStopPrice = InitialStopPrice]
  <2>1. /\ a.status \in {"PROTECTION_PENDING", "INITIAL_STOP_OUTCOME_UNKNOWN"}
        /\ \/ r.agg = Moved(updated, "CONTROLLED_FLATTEN_PENDING")
           \/ r.agg = Moved(updated, "POST_FILL_RISK_PENDING")
        /\ r.resolve \subseteq {"initial_stop_outcome_unknown"} /\ ~ r.closesIncidents
        /\ \/ r.prepare = {}
           \/ r.prepare = {Command("CONTROLLED_FLATTEN", a.positionQty)}
      BY DEF InitialStopConfirmed, Transition, ResolveOn
  <2>2. r.agg.status \in {"CONTROLLED_FLATTEN_PENDING", "POST_FILL_RISK_PENDING"}
      BY <2>1 DEF Moved, Aggregate
  <2> HIDE DEF updated
  <2> QED BY <2>1, <2>2, CommandKinds, OrdinaryCareful DEF Ordinary
<1>4. ASSUME NEW r \in TakeProfitConfirmed(a, o, q) PROVE Careful(a, r, "take_profit_outcome_unknown")
  <2>1. /\ a.status \in {"TP1_PENDING", "POST_FILL_RISK_PENDING", "TP1_OUTCOME_UNKNOWN"}
        /\ r.agg = [a EXCEPT !.status = "POSITION_PROTECTED", !.tp1Order = o]
        /\ r.resolve \subseteq {"take_profit_outcome_unknown"} /\ ~ r.closesIncidents
        /\ r.prepare = {}
      BY DEF TakeProfitConfirmed, Transition, ResolveOn
  <2>2. r.agg.status = "POSITION_PROTECTED" BY <2>1 DEF Aggregate
  <2> QED BY <2>1, <2>2, OrdinaryCareful DEF Ordinary
<1>5. AllCareful(a, ProtectionReplacementConfirmed(a, o, q, price, t),
                      "protection_replacement_outcome_unknown")
  <2> SUFFICES ASSUME NEW r \in ProtectionReplacementConfirmed(a, o, q, price, t)
               PROVE  Careful(a, r, "protection_replacement_outcome_unknown")
      OBVIOUS
  <2>1. /\ a.status \in {"RUNNER_REPLACEMENT_PENDING", "RUNNER_REPLACEMENT_OUTCOME_UNKNOWN"}
        /\ r.agg = [a EXCEPT !.status = "RUNNER_OLD_STOP_CANCEL_PENDING",
                             !.protectedQty = q, !.activeStop = o,
                             !.activeStopPrice = price, !.replacedStop = t,
                             !.pendingStopPrice = NoPrice]
        /\ r.resolve \subseteq {"protection_replacement_outcome_unknown"} /\ ~ r.closesIncidents
        /\ r.prepare = {CancelCommand(t, "conditional", "runner_old_stop")}
      BY DEF ProtectionReplacementConfirmed, Transition, ResolveOn
  <2>2. r.agg.status = "RUNNER_OLD_STOP_CANCEL_PENDING"
      BY <2>1, MovedFields DEF Aggregate, WithoutReplacedStop, ClearCleanupOrder
  <2> QED BY <2>1, <2>2 DEF Careful, InCleanup, Requests, CancelCommand
<1>6. ASSUME NEW r \in ExitAccepted(a) PROVE Careful(a, r, "exit_outcome_unknown")
  <2>1. /\ a.status \in {"EXIT_PENDING", "EXIT_OUTCOME_UNKNOWN"}
        /\ r.agg = Moved(a, "EXIT_ACCEPTED")
        /\ r.resolve \subseteq {"exit_outcome_unknown"} /\ ~ r.closesIncidents
        /\ r.prepare = {}
      BY DEF ExitAccepted, Transition, ResolveOn
  <2> QED BY <2>1, MovedFields, OrdinaryCareful DEF Ordinary
<1>7. ASSUME NEW r \in ControlledFlattenAccepted(a) PROVE Careful(a, r, "controlled_flatten_outcome_unknown")
  <2>1. /\ a.status \in {"CONTROLLED_FLATTEN_PENDING", "CONTROLLED_FLATTEN_OUTCOME_UNKNOWN"}
        /\ r.agg = Moved(a, "CONTROLLED_FLATTEN_ACCEPTED")
        /\ r.resolve \subseteq {"controlled_flatten_outcome_unknown"} /\ ~ r.closesIncidents
        /\ r.prepare = {}
      BY DEF ControlledFlattenAccepted, Transition, ResolveOn
  <2> QED BY <2>1, MovedFields, OrdinaryCareful DEF Ordinary
<1>8. ASSUME NEW r \in EntryRemainderCancelConfirmed(a, o)
      PROVE  Careful(a, r, "entry_remainder_cancel_outcome_unknown")
  <2>1. /\ a.status \in {"PARTIAL_FILL_INCIDENT", "PARTIAL_FILL_CANCEL_OUTCOME_UNKNOWN"}
        /\ r.agg = Moved(a, "CONTROLLED_FLATTEN_PENDING")
        /\ r.resolve \subseteq {"entry_remainder_cancel_outcome_unknown"} /\ ~ r.closesIncidents
        /\ r.prepare = {Command("CONTROLLED_FLATTEN", a.positionQty)}
      BY DEF EntryRemainderCancelConfirmed, Transition, ResolveOn
  <2> QED BY <2>1, MovedFields, CommandKinds, OrdinaryCareful DEF Ordinary
<1>9. AllCareful(a, ProtectionCancelConfirmed(a, o),
                      "runner_old_stop_cancel_outcome_unknown")
  <2> SUFFICES ASSUME NEW r \in ProtectionCancelConfirmed(a, o)
               PROVE  Careful(a, r, "runner_old_stop_cancel_outcome_unknown")
      OBVIOUS
  <2>1. /\ a.status = "RUNNER_OLD_STOP_CANCEL_PENDING" /\ r.agg = WithoutReplacedStop(a, o)
        /\ r.resolve = {} /\ ~ r.closesIncidents /\ r.prepare = {}
      BY DEF ProtectionCancelConfirmed, Transition
  <2>2. r.agg.status = "RUNNER_PROTECTED"
      BY <2>1, MovedFields DEF Aggregate, WithoutReplacedStop, ClearCleanupOrder
  <2> QED BY <2>1, <2>2 DEF Careful, InCleanup, Requests
<1>10. ASSUME NEW r \in OwnedOrphanCancelConfirmed(a, o) PROVE Careful(a, r, "cancel_order_outcome_unknown")
  <2>1. /\ a.status = "RECONCILIATION_PENDING" /\ r.agg = ClearCleanupOrder(a, o)
        /\ r.resolve = {} /\ ~ r.closesIncidents /\ r.prepare = {}
      BY DEF OwnedOrphanCancelConfirmed, Transition
  <2>2. r.agg.status = "RECONCILIATION_PENDING"
      BY <2>1, MovedFields DEF Aggregate, WithoutReplacedStop, ClearCleanupOrder
  <2> QED BY <2>1, <2>2 DEF Careful, InCleanup, Requests
<1> HIDE DEF AllCareful, When, BeforeFill, AfterReplacement, EntryStatuses,
        CleanupStatuses, ClosureStatuses
<1> QED BY <1>1, <1>2, <1>3, <1>4, <1>5, <1>6, <1>7, <1>8, <1>9, <1>10 DEF AllCareful

\* And the proof of an absence.
LEMMA AbsenceEvents ==
    ASSUME NEW a \in Aggregate, NEW o
    PROVE  /\ AllCareful(a, EntryAbsenceConfirmed(a), "entry_outcome_unknown")
           /\ AllCareful(a, InitialStopAbsenceConfirmed(a), "initial_stop_outcome_unknown")
           /\ AllCareful(a, TakeProfitAbsenceConfirmed(a), "take_profit_outcome_unknown")
           /\ AllCareful(a, ProtectionReplacementAbsenceConfirmed(a), "protection_replacement_outcome_unknown")
           /\ AllCareful(a, ExitAbsenceConfirmed(a), "exit_outcome_unknown")
           /\ AllCareful(a, ControlledFlattenAbsenceConfirmed(a), "controlled_flatten_outcome_unknown")
           /\ AllCareful(a, ProtectionCancelAbsenceConfirmed(a, o),
                      "runner_old_stop_cancel_outcome_unknown")
           /\ AllCareful(a, CancelOrderStillOpenConfirmed(a, o), "cancel_order_outcome_unknown")
           /\ AllCareful(a, CancelOrderAbsenceConfirmed(a, o), "cancel_order_outcome_unknown")
           /\ a.status # "CANCEL_OUTCOME_UNKNOWN" =>
                 AllCareful(a, CancelOrderAbsenceConfirmed(a, o), "none")
<1> USE DEF AllCareful, When, BeforeFill, AfterReplacement, EntryStatuses,
        CleanupStatuses, ClosureStatuses
<1>1. ASSUME NEW r \in EntryAbsenceConfirmed(a) PROVE Careful(a, r, "entry_outcome_unknown")
  <2>1. /\ a.status = "ENTRY_OUTCOME_UNKNOWN"
        /\ r.agg = [a EXCEPT !.status = "ENTRY_RECONCILED_ABSENT", !.laneHeld = FALSE]
        /\ r.resolve \subseteq {"entry_outcome_unknown"} /\ ~ r.closesIncidents
        /\ r.prepare = {}
      BY DEF EntryAbsenceConfirmed, Transition
  <2>2. r.agg.status = "ENTRY_RECONCILED_ABSENT" BY <2>1 DEF Aggregate
  <2> QED BY <2>1, <2>2, OrdinaryCareful DEF Ordinary
<1>2. ASSUME NEW r \in InitialStopAbsenceConfirmed(a) PROVE Careful(a, r, "initial_stop_outcome_unknown")
  <2>1. /\ a.status = "INITIAL_STOP_OUTCOME_UNKNOWN"
        /\ r.agg = Moved(a, "EXIT_PENDING")
        /\ r.resolve \subseteq {"initial_stop_outcome_unknown"} /\ ~ r.closesIncidents
        /\ r.prepare = {Command("EXIT", a.positionQty)}
      BY DEF InitialStopAbsenceConfirmed, Transition
  <2> QED BY <2>1, MovedFields, CommandKinds, OrdinaryCareful DEF Ordinary
<1>3. ASSUME NEW r \in TakeProfitAbsenceConfirmed(a) PROVE Careful(a, r, "take_profit_outcome_unknown")
  <2>1. /\ a.status = "TP1_OUTCOME_UNKNOWN"
        /\ r.agg = Moved(a, "TP1_PENDING")
        /\ r.resolve \subseteq {"take_profit_outcome_unknown"} /\ ~ r.closesIncidents
        /\ r.prepare = {Command("TAKE_PROFIT", a.tp1Target)}
      BY DEF TakeProfitAbsenceConfirmed, Transition
  <2> QED BY <2>1, MovedFields, CommandKinds, OrdinaryCareful DEF Ordinary
<1>4. ASSUME NEW r \in ProtectionReplacementAbsenceConfirmed(a)
      PROVE  Careful(a, r, "protection_replacement_outcome_unknown")
  <2>1. /\ a.status = "RUNNER_REPLACEMENT_OUTCOME_UNKNOWN"
        /\ r.agg = Moved(a, "RUNNER_REPLACEMENT_PENDING")
        /\ r.resolve \subseteq {"protection_replacement_outcome_unknown"} /\ ~ r.closesIncidents
        /\ r.prepare = {StopCommand("REPLACE_PROTECTION", a.positionQty, a.pendingStopPrice,
                                    a.activeStop)}
      BY DEF ProtectionReplacementAbsenceConfirmed, Transition
  <2> QED BY <2>1, MovedFields, CommandKinds, OrdinaryCareful DEF Ordinary
<1>5. ASSUME NEW r \in ExitAbsenceConfirmed(a) PROVE Careful(a, r, "exit_outcome_unknown")
  <2>1. /\ a.status = "EXIT_OUTCOME_UNKNOWN"
        /\ r.agg = Moved(a, "EXIT_REJECTED")
        /\ r.resolve \subseteq {"exit_outcome_unknown"} /\ ~ r.closesIncidents
        /\ r.prepare = {}
      BY DEF ExitAbsenceConfirmed, Transition
  <2> QED BY <2>1, MovedFields, OrdinaryCareful DEF Ordinary
<1>6. ASSUME NEW r \in ControlledFlattenAbsenceConfirmed(a)
      PROVE  Careful(a, r, "controlled_flatten_outcome_unknown")
  <2>1. /\ a.status = "CONTROLLED_FLATTEN_OUTCOME_UNKNOWN"
        /\ r.agg = Moved(a, "CONTROLLED_FLATTEN_REJECTED")
        /\ r.resolve \subseteq {"controlled_flatten_outcome_unknown"} /\ ~ r.closesIncidents
        /\ r.prepare = {}
      BY DEF ControlledFlattenAbsenceConfirmed, Transition
  <2> QED BY <2>1, MovedFields, OrdinaryCareful DEF Ordinary
<1>7. AllCareful(a, ProtectionCancelAbsenceConfirmed(a, o),
                      "runner_old_stop_cancel_outcome_unknown")
  <2> SUFFICES ASSUME NEW r \in ProtectionCancelAbsenceConfirmed(a, o)
               PROVE  Careful(a, r, "runner_old_stop_cancel_outcome_unknown")
      OBVIOUS
  <2>1. /\ a.status = "RUNNER_OLD_STOP_CANCEL_OUTCOME_UNKNOWN"
        /\ r.agg = WithoutReplacedStop(a, o)
        /\ r.resolve = {"runner_old_stop_cancel_outcome_unknown"}
        /\ ~ r.closesIncidents /\ r.prepare = {}
      BY DEF ProtectionCancelAbsenceConfirmed, Transition
  <2>2. r.agg.status = "RUNNER_PROTECTED"
      BY <2>1, MovedFields DEF Aggregate, WithoutReplacedStop, ClearCleanupOrder
  <2> QED BY <2>1, <2>2 DEF Careful, InCleanup, Requests
<1>8. ASSUME NEW r \in CancelOrderStillOpenConfirmed(a, o) PROVE Careful(a, r, "cancel_order_outcome_unknown")
  <2>1. /\ a.status = "CANCEL_OUTCOME_UNKNOWN" /\ r.agg = Moved(a, "CANCEL_REJECTED")
        /\ r.resolve = {"cancel_order_outcome_unknown"} /\ ~ r.closesIncidents /\ r.prepare = {}
      BY DEF CancelOrderStillOpenConfirmed, Transition
  <2>2. r.agg.status = "CANCEL_REJECTED"
      BY <2>1, MovedFields DEF Aggregate, WithoutReplacedStop, ClearCleanupOrder
  <2> QED BY <2>1, <2>2 DEF Careful, InCleanup, Requests
<1>9. ASSUME NEW r \in CancelOrderAbsenceConfirmed(a, o) PROVE Careful(a, r, "cancel_order_outcome_unknown")
  <2>1. /\ a.status \in {"CANCEL_REJECTED", "CANCEL_OUTCOME_UNKNOWN"}
        /\ r.agg = ClearCleanupOrder(a, o) /\ ~ r.closesIncidents /\ r.prepare = {}
        /\ r.resolve \subseteq {"cancel_order_outcome_unknown"}
      BY DEF CancelOrderAbsenceConfirmed, Transition, ResolveOn
  <2>2. r.agg.status = "RECONCILIATION_PENDING"
      BY <2>1, MovedFields DEF Aggregate, WithoutReplacedStop, ClearCleanupOrder
  <2> QED BY <2>1, <2>2 DEF Careful, InCleanup, Requests
<1>10. a.status # "CANCEL_OUTCOME_UNKNOWN" =>
                 AllCareful(a, CancelOrderAbsenceConfirmed(a, o), "none")
  <2> SUFFICES ASSUME a.status # "CANCEL_OUTCOME_UNKNOWN", NEW r \in CancelOrderAbsenceConfirmed(a, o)
               PROVE  Careful(a, r, "none")
      OBVIOUS
  <2>1. /\ a.status = "CANCEL_REJECTED" /\ r.agg = ClearCleanupOrder(a, o)
        /\ r.resolve = {} /\ ~ r.closesIncidents /\ r.prepare = {}
      BY DEF CancelOrderAbsenceConfirmed, Transition, ResolveOn
  <2>2. r.agg.status = "RECONCILIATION_PENDING"
      BY <2>1, MovedFields DEF Aggregate, WithoutReplacedStop, ClearCleanupOrder
  <2> QED BY <2>1, <2>2 DEF Careful, InCleanup, Requests
<1> HIDE DEF AllCareful, When, BeforeFill, AfterReplacement, EntryStatuses,
        CleanupStatuses, ClosureStatuses
<1> QED BY <1>1, <1>2, <1>3, <1>4, <1>5, <1>6, <1>7, <1>8, <1>9, <1>10 DEF AllCareful

\* The absence of an unknown cancel is written to its row by the reduction itself.
LEMMA MarkingEvents ==
    ASSUME NEW a \in Aggregate, NEW o
    PROVE  /\ AllMark(ProtectionCancelAbsenceConfirmed(a, o), o)
           /\ a.status = "CANCEL_OUTCOME_UNKNOWN" => AllMark(CancelOrderAbsenceConfirmed(a, o), o)
           /\ a.status = "PARTIAL_FILL_CANCEL_OUTCOME_UNKNOWN" =>
                 AllMark(EntryRemainderCancelConfirmed(a, o), o)
<1>1. AllMark(ProtectionCancelAbsenceConfirmed(a, o), o)
    BY DEF AllMark, ProtectionCancelAbsenceConfirmed, When, Transition
<1>2. a.status = "CANCEL_OUTCOME_UNKNOWN" => AllMark(CancelOrderAbsenceConfirmed(a, o), o)
    BY DEF AllMark, CancelOrderAbsenceConfirmed, When, Transition
<1>3. a.status = "PARTIAL_FILL_CANCEL_OUTCOME_UNKNOWN" =>
         AllMark(EntryRemainderCancelConfirmed(a, o), o)
    BY DEF AllMark, EntryRemainderCancelConfirmed, When, Transition
<1> QED BY <1>1, <1>2, <1>3

\* No other event resolves an unknown outcome, and a cancel is requested only where none
\* of its purpose is open.
LEMMA OtherEvents ==
    ASSUME NEW a \in Aggregate, NEW q, NEW d, NEW price, NEW b \in BOOLEAN
    PROVE  /\ AllCareful(a, EntryFilled(a, q, d), "none")
           /\ AllCareful(a, EntryPartiallyFilled(a, q), "none")
           /\ AllCareful(a, PostFillStressAssessed(a, b), "none")
           /\ AllCareful(a, TakeProfitFilled(a, q, price), "none")
           /\ AllCareful(a, RunnerStopRequested(a, price), "none")
           /\ AllCareful(a, ExitRequested(a), "none")
           /\ AllCareful(a, PositionFlatConfirmed(a), "none")
           /\ AllCareful(a, ExternalFlatDetected(a), "none")
           /\ AllCareful(a, UnownedOrderDetected(a), "none")
           /\ AllCareful(a, ReconciliationMatched(a), "none")
           /\ AllCareful(a, BudgetSettled(a), "none")
           /\ AllCareful(a, ReviewRecorded(a), "none")
<1> USE DEF AllCareful, When, BeforeFill, AfterReplacement, EntryStatuses,
        CleanupStatuses, ClosureStatuses
<1>1. ASSUME NEW r \in EntryFilled(a, q, d) PROVE Careful(a, r, "none")
  <2> DEFINE updated == [a EXCEPT !.positionQty = q, !.disposition = d]
  <2>1. /\ a.status \in {"ENTRY_PENDING", "LEVERAGE_CONFIRMED", "ENTRY_ACCEPTED"}
        /\ \/ r.agg = Moved(updated, "CONTROLLED_FLATTEN_PENDING")
           \/ r.agg = Moved(updated, "PROTECTION_PENDING")
        /\ r.resolve \subseteq {"none"} /\ ~ r.closesIncidents
        /\ \/ r.prepare = {Command("CONTROLLED_FLATTEN", q)}
           \/ r.prepare = {StopCommand("INITIAL_STOP", q, InitialStopPrice, NoOrder)}
      BY DEF EntryFilled, Transition
  <2>2. r.agg.status \in {"CONTROLLED_FLATTEN_PENDING", "PROTECTION_PENDING"}
      BY <2>1 DEF Moved, Aggregate
  <2> HIDE DEF updated
  <2> QED BY <2>1, <2>2, CommandKinds, OrdinaryCareful DEF Ordinary
<1>2. ASSUME NEW r \in EntryPartiallyFilled(a, q) PROVE Careful(a, r, "none")
  <2>1. /\ a.status \in {"ENTRY_PENDING", "LEVERAGE_CONFIRMED", "ENTRY_ACCEPTED"}
        /\ r.agg = [a EXCEPT !.status = "PARTIAL_FILL_INCIDENT", !.positionQty = q]
        /\ r.resolve = {} /\ ~ r.closesIncidents
        /\ r.prepare = {CancelCommand(a.entryOrder, "regular", "entry_remainder")}
      BY DEF EntryPartiallyFilled, Transition
  <2>2. r.agg.status = "PARTIAL_FILL_INCIDENT"
      BY <2>1, MovedFields DEF Aggregate, WithoutReplacedStop, ClearCleanupOrder
  <2> QED BY <2>1, <2>2 DEF Careful, InCleanup, Requests, CancelCommand
<1>3. ASSUME NEW r \in PostFillStressAssessed(a, b) PROVE Careful(a, r, "none")
  <2>1. /\ a.status = "POST_FILL_RISK_PENDING"
        /\ \/ r.agg = [a EXCEPT !.status = "TP1_PENDING", !.laneHeld = FALSE, !.tp1Target = Tp1Quantity]
           \/ r.agg = Moved(a, "CONTROLLED_FLATTEN_PENDING")
        /\ r.resolve \subseteq {"none"} /\ ~ r.closesIncidents
        /\ \/ r.prepare = {Command("TAKE_PROFIT", Tp1Quantity)}
           \/ r.prepare = {Command("CONTROLLED_FLATTEN", a.positionQty)}
      BY DEF PostFillStressAssessed, Transition
  <2>2. r.agg.status \in {"TP1_PENDING", "CONTROLLED_FLATTEN_PENDING"} BY <2>1 DEF Moved, Aggregate
  <2> QED BY <2>1, <2>2, CommandKinds, OrdinaryCareful DEF Ordinary
<1>4. ASSUME NEW r \in TakeProfitFilled(a, q, price) PROVE Careful(a, r, "none")
  <2>1. /\ a.status = "POSITION_PROTECTED"
        /\ r.agg = [a EXCEPT !.status = "RUNNER_REPLACEMENT_PENDING",
                            !.positionQty = a.positionQty - q, !.tp1Order = NoOrder,
                            !.pendingStopPrice = price]
        /\ r.resolve \subseteq {"none"} /\ ~ r.closesIncidents
        /\ r.prepare = {StopCommand("REPLACE_PROTECTION", a.positionQty - q, price, a.activeStop)}
      BY DEF TakeProfitFilled, Transition
  <2>2. r.agg.status = "RUNNER_REPLACEMENT_PENDING" BY <2>1 DEF Aggregate
  <2>3. \A p \in r.prepare : p.kind # "CANCEL_ORDER" /\ p.purpose = "none" BY <2>1, CommandKinds
  <2> QED BY <2>1, <2>2, <2>3, OrdinaryCareful DEF Ordinary
<1>5. ASSUME NEW r \in RunnerStopRequested(a, price) PROVE Careful(a, r, "none")
  <2>1. /\ a.status = "RUNNER_PROTECTED"
        /\ r.agg = [a EXCEPT !.status = "RUNNER_REPLACEMENT_PENDING", !.pendingStopPrice = price]
        /\ r.resolve \subseteq {"none"} /\ ~ r.closesIncidents
        /\ r.prepare = {StopCommand("REPLACE_PROTECTION", a.positionQty, price, a.activeStop)}
      BY DEF RunnerStopRequested, Transition
  <2>2. r.agg.status = "RUNNER_REPLACEMENT_PENDING" BY <2>1 DEF Aggregate
  <2>3. \A p \in r.prepare : p.kind # "CANCEL_ORDER" /\ p.purpose = "none" BY <2>1, CommandKinds
  <2> QED BY <2>1, <2>2, <2>3, OrdinaryCareful DEF Ordinary
<1>6. ASSUME NEW r \in ExitRequested(a) PROVE Careful(a, r, "none")
  <2>1. /\ a.status \in {"POSITION_PROTECTED", "RUNNER_PROTECTED", "EXIT_REJECTED"}
        /\ r.agg = Moved(a, "EXIT_PENDING")
        /\ r.resolve \subseteq {"none"} /\ ~ r.closesIncidents
        /\ r.prepare = {Command("EXIT", a.positionQty)}
      BY DEF ExitRequested, Transition
  <2> QED BY <2>1, MovedFields, CommandKinds, OrdinaryCareful DEF Ordinary
<1>7. ASSUME NEW r \in PositionFlatConfirmed(a) PROVE Careful(a, r, "none")
  <2> DEFINE cleanup == NextCleanupOrder(a)
  <2>1. /\ a.status \in ExitStatuses \cup FlattenStatuses
        /\ r.agg = [a EXCEPT !.status = "RECONCILIATION_PENDING", !.positionQty = 0,
                             !.pendingCancel = IF cleanup # NoOrder THEN cleanup ELSE a.pendingCancel,
                             !.laneHeld = FALSE]
        /\ r.resolve = {} /\ ~ r.closesIncidents
        /\ r.prepare \subseteq {CleanupCancel(cleanup, "conditional")}
        /\ r.prepare # {} => cleanup # NoOrder
      BY DEF PositionFlatConfirmed, Transition
  <2>2. /\ r.agg.status = "RECONCILIATION_PENDING"
        /\ cleanup # NoOrder => r.agg.pendingCancel = cleanup
      BY <2>1 DEF Aggregate
  <2> HIDE DEF cleanup
  <2> QED BY <2>1, <2>2 DEF Careful, InCleanup, Requests, CleanupCancel, CancelCommand, ExitStatuses,
                            FlattenStatuses
<1>8. ASSUME NEW r \in ExternalFlatDetected(a) PROVE Careful(a, r, "none")
  <2> DEFINE cleanup == NextCleanupOrder(a)
  <2>1. /\ a.status \in Tp1Statuses \cup RunnerStatuses
        /\ r.agg = [a EXCEPT !.status = "RECONCILIATION_PENDING", !.positionQty = 0,
                             !.pendingCancel = cleanup]
        /\ r.resolve = {} /\ ~ r.closesIncidents
        /\ r.prepare \subseteq {CleanupCancel(cleanup, "conditional")}
        /\ r.prepare # {} => cleanup # NoOrder
      BY DEF ExternalFlatDetected, Transition
  <2>2. /\ r.agg.status = "RECONCILIATION_PENDING"
        /\ cleanup # NoOrder => r.agg.pendingCancel = cleanup
      BY <2>1 DEF Aggregate
  <2> HIDE DEF cleanup
  <2> QED BY <2>1, <2>2 DEF Careful, InCleanup, Requests, CleanupCancel, CancelCommand, Tp1Statuses,
                            RunnerStatuses
<1>9. ASSUME NEW r \in UnownedOrderDetected(a) PROVE Careful(a, r, "none")
  <2>1. /\ a.status = "RECONCILIATION_PENDING" /\ r.agg = a
        /\ r.resolve = {} /\ ~ r.closesIncidents /\ r.prepare = {}
      BY DEF UnownedOrderDetected, Transition
  <2>2. r.agg.status = a.status
      BY <2>1, MovedFields DEF Aggregate, WithoutReplacedStop, ClearCleanupOrder
  <2> QED BY <2>1, <2>2 DEF Careful, InCleanup, Requests
<1>10. ASSUME NEW r \in ReconciliationMatched(a) PROVE Careful(a, r, "none")
  <2>1. /\ a.status = "RECONCILIATION_PENDING" /\ a.pendingCancel = NoOrder
        /\ r.agg = Moved(a, "SETTLEMENT_PENDING") /\ r.resolve = {} /\ r.prepare = {}
      BY DEF ReconciliationMatched, Transition
  <2>2. r.agg.status = "SETTLEMENT_PENDING"
      BY <2>1, MovedFields DEF Aggregate, WithoutReplacedStop, ClearCleanupOrder
  <2> QED BY <2>1, <2>2 DEF Careful, InCleanup, Requests
<1>11. ASSUME NEW r \in BudgetSettled(a) PROVE Careful(a, r, "none")
  <2>1. /\ a.status = "SETTLEMENT_PENDING" /\ r.agg = Moved(a, "REVIEW_PENDING")
        /\ r.resolve = {} /\ ~ r.closesIncidents /\ r.prepare = {}
      BY DEF BudgetSettled, Transition
  <2>2. r.agg.status = "REVIEW_PENDING"
      BY <2>1, MovedFields DEF Aggregate, WithoutReplacedStop, ClearCleanupOrder
  <2> QED BY <2>1, <2>2 DEF Careful, InCleanup, Requests
<1>12. ASSUME NEW r \in ReviewRecorded(a) PROVE Careful(a, r, "none")
  <2>1. /\ a.status = "REVIEW_PENDING" /\ r.agg = Moved(a, "TERMINAL")
        /\ r.resolve = {} /\ ~ r.closesIncidents /\ r.prepare = {}
      BY DEF ReviewRecorded, Transition
  <2>2. r.agg.status = "TERMINAL"
      BY <2>1, MovedFields DEF Aggregate, WithoutReplacedStop, ClearCleanupOrder
  <2> QED BY <2>1, <2>2 DEF Careful, InCleanup, Requests
<1> HIDE DEF AllCareful, When, BeforeFill, AfterReplacement, EntryStatuses,
        CleanupStatuses, ClosureStatuses
<1> QED BY <1>1, <1>2, <1>3, <1>4, <1>5, <1>6, <1>7, <1>8, <1>9, <1>10, <1>11, <1>12 DEF AllCareful

\* A cleanup cancel starts where none is under way.
LEMMA OrphanEvents ==
    ASSUME NEW a \in Aggregate, NEW o, o # NoOrder, NEW n,
           a.pendingCancel = NoOrder \/ a.status = "CANCEL_REJECTED"
    PROVE  /\ AllCareful(a, OwnedOrderAbsenceConfirmed(a, o), "none")
           /\ AllCareful(a, OwnedOrphanOrderDetected(a, o, n), "none")
<1> USE DEF AllCareful, When, BeforeFill, AfterReplacement, EntryStatuses,
        CleanupStatuses, ClosureStatuses
<1>1. ASSUME NEW r \in OwnedOrderAbsenceConfirmed(a, o) PROVE Careful(a, r, "none")
  <2>1. /\ a.status = "RECONCILIATION_PENDING" /\ r.agg = ClearCleanupOrder(a, o)
        /\ r.resolve = {} /\ ~ r.closesIncidents /\ r.prepare = {}
      BY DEF OwnedOrderAbsenceConfirmed, Transition
  <2>2. r.agg.status = "RECONCILIATION_PENDING"
      BY <2>1, MovedFields DEF Aggregate, WithoutReplacedStop, ClearCleanupOrder
  <2> QED BY <2>1, <2>2 DEF Careful, InCleanup, Requests
<1>2. ASSUME NEW r \in OwnedOrphanOrderDetected(a, o, n) PROVE Careful(a, r, "none")
  <2>1. /\ a.status \in {"RECONCILIATION_PENDING", "CANCEL_REJECTED"}
        /\ r.agg = [a EXCEPT !.status = "RECONCILIATION_PENDING", !.pendingCancel = o]
        /\ r.resolve = {} /\ ~ r.closesIncidents /\ r.prepare = {CleanupCancel(o, n)}
      BY DEF OwnedOrphanOrderDetected, Transition
  <2>2. r.agg.status = "RECONCILIATION_PENDING" /\ r.agg.pendingCancel = o
      BY <2>1, MovedFields DEF Aggregate, WithoutReplacedStop, ClearCleanupOrder
  <2> QED BY <2>1, <2>2 DEF Careful, InCleanup, Requests, CleanupCancel, CancelCommand
<1> HIDE DEF AllCareful, When, BeforeFill, AfterReplacement, EntryStatuses,
        CleanupStatuses, ClosureStatuses
<1> QED BY <1>1, <1>2 DEF AllCareful

\* The Ticket is issued.
LEMMA IssueCareful ==
    ASSUME NEW a, a.status = "UNISSUED", NEW b \in BOOLEAN
    PROVE  AllCareful(a, TicketIssued(b), "none")
<1> SUFFICES ASSUME NEW r \in TicketIssued(b) PROVE Careful(a, r, "none") BY DEF AllCareful
<1>1. /\ r.resolve = {} /\ ~ r.closesIncidents
      /\ r.prepare \subseteq {Command("SET_LEVERAGE", 0), Command("ENTRY", TicketQuantity)}
      /\ r.agg = [NoAggregate EXCEPT !.status = IF b THEN "LEVERAGE_PENDING" ELSE "ENTRY_PENDING",
                                     !.laneHeld = TRUE]
    BY DEF TicketIssued, Transition
<1>2. r.agg.status \in {"LEVERAGE_PENDING", "ENTRY_PENDING"} BY <1>1 DEF NoAggregate
<1>3. \A p \in r.prepare : p.kind # "CANCEL_ORDER" /\ p.purpose = "none" BY <1>1, CommandKinds
<1> QED BY <1>1, <1>2, <1>3, OrdinaryCareful
        DEF Ordinary, BeforeFill, AfterReplacement, EntryStatuses, CleanupStatuses, ClosureStatuses

-----------------------------------------------------------------------------
(***************************************************************************)
(* Part II.  Type correctness, the lease that precedes every venue call,   *)
(* requests that leave the process only once, the agreement of the lane    *)
(* row with the aggregate's flag, absences that stand, and the incident    *)
(* that every unknown outcome keeps.                                       *)
(***************************************************************************)

-----------------------------------------------------------------------------
(* Rows. *)

\* ENTRY has a first generation.
LEMMA EntryCommandType == EntryCommand \in CommandId
BY BoundAssumption DEF EntryCommand, CommandId, Kinds, Generations

\* A row update keeps the rows well formed and touches one row.
LEMMA SetStatusRows ==
    ASSUME NEW rows \in [CommandId -> Row], NEW c \in CommandId, NEW status \in RowStatuses
    PROVE  /\ SetStatus(rows, c, status) \in [CommandId -> Row]
           /\ SetStatus(rows, c, status)[c].status = status
           /\ \A d \in CommandId : d # c => SetStatus(rows, c, status)[d] = rows[d]
BY DEF SetStatus, Row

\* mark_cancel_reconciled_absent only settles unknown cancels.
LEMMA MarkAbsentRows ==
    ASSUME NEW rows \in [CommandId -> Row], NEW targets
    PROVE  /\ MarkAbsent(rows, targets) \in [CommandId -> Row]
           /\ \A c \in CommandId :
                 \/ MarkAbsent(rows, targets)[c] = rows[c]
                 \/ /\ rows[c].status = "OUTCOME_UNKNOWN"
                    /\ MarkAbsent(rows, targets)[c].status = "RECONCILED_ABSENT"
BY DEF MarkAbsent, UnknownCancels, Row, RowStatuses

\* commit_reduction materialises well formed rows, incidents and authorities.
LEMMA CommitSound ==
    ASSUME NEW rows \in [CommandId -> Row], NEW au \in SUBSET Authorities, NEW r,
           WellFormed(r), incidents \subseteq IncidentKinds, Commit(r, rows, au)
    PROVE  /\ agg' = r.agg /\ agg' \in Aggregate
           /\ commands' \in [CommandId -> Row]
           /\ incidents' \subseteq IncidentKinds
           /\ held' \subseteq Authorities
           /\ "lane" \in held' <=> "lane" \in au /\ "lane" \notin r.release
           /\ \A c \in CommandId : RowStep(rows[c], commands'[c])
<1> DEFINE marked == MarkAbsent(rows, r.markAbsent)
<1>1. /\ marked \in [CommandId -> Row]
      /\ \A c \in CommandId : RowStep(rows[c], marked[c])
    BY MarkAbsentRows DEF RowStep
<1>2. agg' = r.agg /\ agg' \in Aggregate BY DEF Commit, WellFormed
<1>3. incidents' \subseteq IncidentKinds BY DEF Commit, WellFormed
<1>4. held' \subseteq Authorities BY DEF Commit
<1>5. "lane" \in held' <=> "lane" \in au /\ "lane" \notin r.release BY DEF Commit, ClearedDomain
<1>6. commands' \in [CommandId -> Row] /\ \A c \in CommandId : RowStep(rows[c], commands'[c])
  <2>1. CASE commands' = marked BY <1>1, <2>1
  <2>2. CASE commands' # marked
    <3>1. PICK p \in r.prepare, g \in Generations :
             /\ rows[<<p.kind, g>>].status = "NONE"
             /\ commands' = [marked EXCEPT ![<<p.kind, g>>] =
                               [status |-> "PREPARED", timer |-> "running", payload |-> p]]
        BY <2>2 DEF Commit, GenerationAllowed
    <3>2. p \in Payload BY DEF WellFormed
    <3>3. <<p.kind, g>> \in CommandId BY <3>2 DEF Payload, CommandId
    <3>4. [status |-> "PREPARED", timer |-> "running", payload |-> p] \in Row
        BY <3>2 DEF Row, RowStatuses
    <3> HIDE DEF marked
    <3>5. commands' \in [CommandId -> Row] BY <1>1, <3>1, <3>3, <3>4
    <3>6. ASSUME NEW c \in CommandId PROVE RowStep(rows[c], commands'[c])
      <4>1. CASE c = <<p.kind, g>> BY <1>1, <3>1, <3>3, <4>1 DEF RowStep
      <4>2. CASE c # <<p.kind, g>> BY <1>1, <3>1, <3>3, <4>2
      <4> QED BY <4>1, <4>2
    <3> QED BY <3>5, <3>6
  <2> QED BY <2>1, <2>2
<1> QED BY <1>2, <1>3, <1>4, <1>5, <1>6

-----------------------------------------------------------------------------
(* The events behind the actions are sound reductions. *)

\* The fields of a payload.
LEMMA PayloadFields ==
    ASSUME NEW p \in Payload
    PROVE  /\ p.kind \in Kinds /\ p.qty \in Quantities /\ p.price \in Prices
           /\ p.target \in OrderId
BY DEF Payload

\* _cancel_result_event
LEMMA CancelResultSound ==
    ASSUME NEW a \in Aggregate, NEW p \in Payload, NEW result \in Results
    PROVE  AllSound(a, CancelResultEvent(a, p, result))
<1>1. AllSound(a, {}) BY DEF AllSound
<1>2. \A o : /\ AllSound(a, EntryRemainderCancelRejected(a, o))
             /\ AllSound(a, EntryRemainderCancelOutcomeUnknown(a, o))
             /\ AllSound(a, ProtectionCancelRejected(a, o))
             /\ AllSound(a, ProtectionCancelOutcomeUnknown(a, o))
             /\ AllSound(a, CancelOrderRejected(a, o))
             /\ AllSound(a, CancelOrderOutcomeUnknown(a, o))
    BY StatusEvents
<1>3. AllSound(a, EntryRemainderCancelConfirmed(a, p.target))
    BY FillEvents, ConstantTypes DEF Dispositions
<1>4. AllSound(a, ProtectionCancelConfirmed(a, p.target))
    BY RunnerEvents, PayloadFields, ConstantTypes, EntryCommandType
<1>5. AllSound(a, OwnedOrphanCancelConfirmed(a, p.target))
    BY CleanupEvents, PayloadFields DEF Namespaces
<1> QED BY <1>1, <1>2, <1>3, <1>4, <1>5 DEF CancelResultEvent, Results

\* _command_result_event
LEMMA CommandResultSound ==
    ASSUME NEW a \in Aggregate, NEW c \in CommandId, NEW p \in Payload,
           NEW result \in Results
    PROVE  AllSound(a, CommandResultEvent(a, c, p, result))
<1>1. /\ AllSound(a, LeverageConfirmed(a)) /\ AllSound(a, LeverageRejected(a))
      /\ AllSound(a, EntryAccepted(a, c)) /\ AllSound(a, EntryRejected(a))
    BY EntryEvents
<1>2. /\ AllSound(a, LeverageOutcomeUnknown(a)) /\ AllSound(a, EntryOutcomeUnknown(a))
      /\ AllSound(a, InitialStopOutcomeUnknown(a)) /\ AllSound(a, TakeProfitRejected(a))
      /\ AllSound(a, TakeProfitOutcomeUnknown(a))
      /\ AllSound(a, ProtectionReplacementRejected(a))
      /\ AllSound(a, ProtectionReplacementOutcomeUnknown(a))
      /\ AllSound(a, ExitAccepted(a)) /\ AllSound(a, ExitRejected(a))
      /\ AllSound(a, ExitOutcomeUnknown(a)) /\ AllSound(a, ControlledFlattenAccepted(a))
      /\ AllSound(a, ControlledFlattenRejected(a))
      /\ AllSound(a, ControlledFlattenOutcomeUnknown(a))
    BY StatusEvents
<1>3. /\ AllSound(a, InitialStopConfirmed(a, c, a.positionQty))
      /\ AllSound(a, InitialStopRejected(a))
    BY ProtectionEvents, FieldTypes
<1>4. AllSound(a, TakeProfitConfirmed(a, c, p.qty)) BY TakeProfitEvents, ConstantTypes
<1>5. AllSound(a, ProtectionReplacementConfirmed(a, c, p.qty, p.price, p.target))
    BY RunnerEvents, PayloadFields
<1>6. AllSound(a, CancelResultEvent(a, p, result)) BY CancelResultSound
<1> QED BY <1>1, <1>2, <1>3, <1>4, <1>5, <1>6 DEF CommandResultEvent, Results

\* _recovery_event
LEMMA RecoverySound ==
    ASSUME NEW a \in Aggregate, NEW c \in CommandId, NEW p \in Payload, NEW decision
    PROVE  AllSound(a, RecoveryEvent(a, c, p, decision))
<1>1. /\ AllSound(a, LeverageConfirmed(a)) /\ AllSound(a, LeverageRejected(a))
      /\ AllSound(a, EntryAccepted(a, c)) /\ AllSound(a, EntryAbsenceConfirmed(a))
    BY EntryEvents
<1>2. /\ AllSound(a, InitialStopConfirmed(a, c, a.positionQty))
      /\ AllSound(a, InitialStopAbsenceConfirmed(a))
    BY ProtectionEvents, FieldTypes
<1>3. /\ AllSound(a, TakeProfitConfirmed(a, c, p.qty))
      /\ AllSound(a, TakeProfitAbsenceConfirmed(a))
    BY TakeProfitEvents, ConstantTypes
<1>4. /\ AllSound(a, ProtectionReplacementConfirmed(a, c, p.qty, p.price, p.target))
      /\ AllSound(a, ProtectionReplacementAbsenceConfirmed(a))
      /\ AllSound(a, ProtectionCancelAbsenceConfirmed(a, p.target))
    BY RunnerEvents, PayloadFields
<1>5. /\ AllSound(a, ExitAccepted(a)) /\ AllSound(a, ExitAbsenceConfirmed(a))
      /\ AllSound(a, ControlledFlattenAccepted(a))
      /\ AllSound(a, CancelOrderStillOpenConfirmed(a, p.target))
    BY StatusEvents
<1>6. AllSound(a, ControlledFlattenAbsenceConfirmed(a)) BY FlatEvents
<1>7. AllSound(a, CancelOrderAbsenceConfirmed(a, p.target))
    BY CleanupEvents, PayloadFields DEF Namespaces
<1>8. AllSound(a, EntryRemainderCancelConfirmed(a, p.target))
    BY FillEvents, ConstantTypes DEF Dispositions
<1>9. AllSound(a, {}) BY DEF AllSound
<1>10. AllSound(a, CancelRecoveryEvent(a, p, decision))
    BY <1>4, <1>5, <1>7, <1>8, <1>9 DEF CancelRecoveryEvent
<1> QED BY <1>1, <1>2, <1>3, <1>4, <1>5, <1>6, <1>10 DEF RecoveryEvent

\* reconcile_ticket, for any snapshot of the position and the open orders
LEMMA SnapshotSound ==
    ASSUME NEW a \in Aggregate, NEW s, s.qty \in Quantities, s.open \subseteq CommandId
    PROVE  AllSound(a, SnapshotEvent(a, s))
<1>1. AllSound(a, {}) BY DEF AllSound
<1>2. /\ AllSound(a, PositionFlatConfirmed(a)) /\ AllSound(a, ExternalFlatDetected(a)) BY FlatEvents
<1>3. \A d \in Dispositions : AllSound(a, EntryFilled(a, s.qty, d)) BY FillEvents
<1>4. AllSound(a, EntryPartiallyFilled(a, s.qty)) BY FillEvents DEF Dispositions
<1>5. \A c \in CommandId : NamespaceOf(c) \in Namespaces BY DEF NamespaceOf, Namespaces
<1>6. \A o \in OrderId :
         /\ \A n \in Namespaces : AllSound(a, OwnedOrphanOrderDetected(a, o, n))
         /\ AllSound(a, OwnedOrderAbsenceConfirmed(a, o))
         /\ AllSound(a, CancelOrderAbsenceConfirmed(a, o))
    BY CleanupEvents DEF Namespaces
<1>7. AllSound(a, UnownedOrderDetected(a)) /\ AllSound(a, ReconciliationMatched(a))
    BY CleanupEvents, ConstantTypes DEF Namespaces
<1>8. NextCleanupOrder(a) \in OrderId /\ a.pendingCancel \in OrderId BY FieldTypes
<1>9. AllSound(a, EntryFillEvent(a, s.qty))
  <2> SUFFICES ASSUME NEW r \in EntryFillEvent(a, s.qty) PROVE Sound(a, r) BY DEF AllSound
  <2>1. \/ r \in EntryPartiallyFilled(a, s.qty)
        \/ \E d \in Dispositions : r \in EntryFilled(a, s.qty, d)
      BY DEF EntryFillEvent
  <2> QED BY <1>3, <1>4, <2>1 DEF AllSound
<1>10. AllSound(a, CleanupEvent(a, s))
  <2> DEFINE regular == {c \in s.open : NamespaceOf(c) = "regular"}
             shown == IF regular # {} THEN regular ELSE s.open
             scan == UNION {IF HasCancelAttempt(c) THEN {}
                            ELSE OwnedOrphanOrderDetected(a, c, NamespaceOf(c)) : c \in shown}
  <2>1. shown \subseteq CommandId OBVIOUS
  <2>2. \A c \in shown : AllSound(a, OwnedOrphanOrderDetected(a, c, NamespaceOf(c)))
      BY <2>1, <1>5, <1>6, ConstantTypes
  <2>3. AllSound(a, scan) BY <2>2 DEF AllSound
  <2>4. AllSound(a, OwnedOrphanOrderDetected(a, NextCleanupOrder(a), "conditional"))
      BY <1>6, <1>8 DEF Namespaces
  <2>5. AllSound(a, OwnedOrderAbsenceConfirmed(a, NextCleanupOrder(a))) BY <1>6, <1>8
  <2>6. CleanupEvent(a, s) \in {{}, UnownedOrderDetected(a), ReconciliationMatched(a), scan,
                                OwnedOrderAbsenceConfirmed(a, NextCleanupOrder(a)),
                                OwnedOrphanOrderDetected(a, NextCleanupOrder(a), "conditional")}
      BY DEF CleanupEvent
  <2> HIDE DEF scan
  <2> QED BY <1>1, <1>7, <2>3, <2>4, <2>5, <2>6
<1>11. AllSound(a, CancelFollowUpEvent(a, s))
  <2>1. CASE a.pendingCancel = NoOrder BY <1>1, <2>1 DEF CancelFollowUpEvent
  <2>2. CASE a.pendingCancel # NoOrder
    <3>1. a.pendingCancel \in CommandId BY <1>8, <2>2 DEF OrderId
    <3>2. AllSound(a, OwnedOrphanOrderDetected(a, a.pendingCancel, NamespaceOf(a.pendingCancel)))
        BY <1>5, <1>6, <1>8, <3>1
    <3>3. AllSound(a, CancelOrderAbsenceConfirmed(a, a.pendingCancel)) BY <1>6, <1>8
    <3> QED BY <1>1, <3>2, <3>3 DEF CancelFollowUpEvent
  <2> QED BY <2>1, <2>2
<1> QED BY <1>1, <1>2, <1>9, <1>10, <1>11 DEF SnapshotEvent

\* maintain_ticket_lifecycle
LEMMA MaintenanceSound ==
    ASSUME NEW a \in Aggregate
    PROVE  AllSound(a, MaintenanceEvent(a))
<1>1. AllSound(a, {}) BY DEF AllSound
<1>2. AllSound(a, ExitRequested(a)) BY FlatEvents
<1>3. \A f \in Prices : AllSound(a, TakeProfitFilled(a, a.tp1Target, f))
    BY TakeProfitEvents, EntryCommandType
<1>4. \A f \in Prices : AllSound(a, RunnerStopRequested(a, f))
    BY RunnerEvents, EntryCommandType, ConstantTypes
<1>5. AllSound(a, FloorEvent(a)) BY <1>3 DEF AllSound, FloorEvent
<1>6. AllSound(a, RunnerEvent(a))
  <2> SUFFICES ASSUME NEW r \in RunnerEvent(a) PROVE Sound(a, r) BY DEF AllSound
  <2>1. r \in ExitRequested(a) \/ \E f \in Prices : r \in RunnerStopRequested(a, f) BY DEF RunnerEvent
  <2> QED BY <1>2, <1>4, <2>1 DEF AllSound
<1> QED BY <1>1, <1>2, <1>5, <1>6 DEF MaintenanceEvent

-----------------------------------------------------------------------------
(* Transactions and steps. *)

\* Idle workers are well typed.
LEMMA IdleTypes ==
    /\ IdleDispatcher \in [phase : {"idle", "claimed", "sent"}, cmd : OrderId]
    /\ IdleRecon \in [work : {"idle", "snapshot"}, qty : Quantities,
                      open : SUBSET CommandId, foreign : BOOLEAN]
<1>1. IdleDispatcher \in [phase : {"idle", "claimed", "sent"}, cmd : OrderId]
    BY ConstantTypes DEF IdleDispatcher
<1>2. IdleRecon \in [work : {"idle", "snapshot"}, qty : Quantities,
                     open : SUBSET CommandId, foreign : BOOLEAN]
    BY ConstantTypes DEF IdleRecon
<1> QED BY <1>1, <1>2

\* The invariant survives every transaction that moves the rows forward and leaves
\* the venue alone, if the worker gives up its lease or the lease is untouched.
LEMMA CommitStep ==
    ASSUME IInv, NEW r, Sound(agg, r), NEW rows \in [CommandId -> Row],
           Commit(r, rows, held), Forward(rows), UNCHANGED venue,
           faults' \in 0 .. MaxFaults, recon' \in {recon, IdleRecon},
           \/ dispatcher' = IdleDispatcher
           \/ dispatcher' = dispatcher /\ KeepsClaims(rows)
    PROVE  IInv'
<1>1. /\ agg' = r.agg /\ agg' \in Aggregate
      /\ commands' \in [CommandId -> Row]
      /\ incidents' \subseteq IncidentKinds
      /\ held' \subseteq Authorities
      /\ "lane" \in held' <=> "lane" \in held /\ "lane" \notin r.release
      /\ \A c \in CommandId : RowStep(rows[c], commands'[c])
    BY CommitSound DEF IInv, TypeOK, Sound
<1>2. UNCHANGED <<order, position, entryFilled, foreign>> BY DEF venue
<1>3. recon' \in [work : {"idle", "snapshot"}, qty : Quantities, open : SUBSET CommandId,
                  foreign : BOOLEAN]
    BY IdleTypes DEF IInv, TypeOK
<1>4. dispatcher' \in [phase : {"idle", "claimed", "sent"}, cmd : OrderId] BY IdleTypes DEF IInv, TypeOK
<1>5. TypeOK' BY <1>1, <1>2, <1>3, <1>4 DEF IInv, TypeOK
<1>6. DurableBeforeVenue' BY <1>1, <1>2 DEF IInv, DurableBeforeVenue, Forward, Fresh, RowStep
<1>7. LeaseInHand'
  <2>1. CASE dispatcher' = IdleDispatcher BY <2>1 DEF LeaseInHand, IdleDispatcher
  <2>2. CASE dispatcher' = dispatcher /\ KeepsClaims(rows)
      BY <1>1, <1>2, <2>2 DEF IInv, LeaseInHand, KeepsClaims, RowStep
  <2> QED BY <2>1, <2>2
<1>8. EntryFillsBounded' BY <1>2 DEF IInv, EntryFillsBounded
<1>9. LaneFlagAgrees'
  <2>1. agg.laneHeld \in BOOLEAN /\ agg'.laneHeld \in BOOLEAN BY <1>1, FieldTypes DEF IInv, TypeOK
  <2>2. agg'.laneHeld = IF "lane" \in r.release THEN FALSE ELSE agg.laneHeld BY <1>1 DEF Sound, LaneStep
  <2> QED BY <1>1, <2>1, <2>2 DEF IInv, LaneFlagAgrees
<1> QED BY <1>5, <1>6, <1>7, <1>8, <1>9 DEF IInv

\* The invariant holds initially.
LEMMA InitInv == Init => IInv
<1> SUFFICES ASSUME Init PROVE IInv OBVIOUS
<1>1. NoAggregate \in Aggregate /\ NoAggregate.laneHeld = FALSE
    BY ConstantTypes DEF NoAggregate, Aggregate, Statuses, Dispositions
<1>2. \A c \in CommandId : Command(c[1], 0) \in Payload BY CommandPayload, ConstantTypes DEF CommandId
<1>3. commands \in [CommandId -> Row] BY <1>2 DEF Init, Row, RowStatuses
<1>4. TypeOK
  <2>1. order \in [CommandId -> OrderStates] BY DEF Init, OrderStates
  <2>2. faults \in 0 .. MaxFaults /\ position \in Quantities /\ entryFilled \in Quantities
      BY ConstantTypes, EnvironmentAssumption DEF Init
  <2> QED BY <1>1, <1>3, <2>1, <2>2, IdleTypes DEF Init, TypeOK
<1>5. DurableBeforeVenue /\ LeaseInHand /\ EntryFillsBounded
    BY EntryCommandType DEF Init, DurableBeforeVenue, LeaseInHand, EntryFillsBounded, IdleDispatcher
<1>6. LaneFlagAgrees BY <1>1 DEF Init, LaneFlagAgrees
<1> QED BY <1>4, <1>5, <1>6 DEF IInv

\* The issue of the Ticket takes every authority, the lane included.
LEMMA IssueStep ==
    ASSUME IInv, NEW change \in BOOLEAN, IssueTicket(change)
    PROVE  IInv'
<1>1. PICK r \in TicketIssued(change) : Commit(r, commands, Authorities) BY DEF IssueTicket
<1>2. WellFormed(r) /\ r.release = {} /\ r.agg.laneHeld = TRUE BY IssueEvent
<1>3. /\ agg' = r.agg /\ agg' \in Aggregate
      /\ commands' \in [CommandId -> Row]
      /\ incidents' \subseteq IncidentKinds
      /\ held' \subseteq Authorities
      /\ "lane" \in held' <=> "lane" \in Authorities /\ "lane" \notin r.release
      /\ \A c \in CommandId : RowStep(commands[c], commands'[c])
    BY <1>1, <1>2, CommitSound DEF IInv, TypeOK
<1>4. UNCHANGED <<order, position, entryFilled, foreign, dispatcher, recon, faults>>
    BY DEF IssueTicket, venue
<1>5. TypeOK' BY <1>3, <1>4 DEF IInv, TypeOK
<1>6. DurableBeforeVenue' BY <1>3, <1>4 DEF IInv, DurableBeforeVenue, RowStep
<1>7. LeaseInHand' BY <1>3, <1>4 DEF IInv, LeaseInHand, RowStep
<1>8. EntryFillsBounded' BY <1>4 DEF IInv, EntryFillsBounded
<1>9. LaneFlagAgrees' BY <1>2, <1>3 DEF LaneFlagAgrees, Authorities
<1> QED BY <1>5, <1>6, <1>7, <1>8, <1>9 DEF IInv

\* Recording a result, or an expired lease, moves one claimed row forward.
LEMMA ResultRows ==
    ASSUME IInv, NEW c \in CommandId, NEW result \in Results
    PROVE  /\ SetStatus(commands, c, result) \in [CommandId -> Row]
           /\ Forward(SetStatus(commands, c, result))
           /\ commands[c].payload \in Payload
<1>1. result \in RowStatuses /\ result \notin Fresh BY DEF Results, RowStatuses, Fresh
<1>2. commands \in [CommandId -> Row] BY DEF IInv, TypeOK
<1>3. commands[c].payload \in Payload BY <1>2 DEF Row
<1> QED BY <1>1, <1>2, <1>3, SetStatusRows DEF Forward

\* dispatch_one_command's transactions on a result
LEMMA ResultStep ==
    ASSUME IInv, NEW c \in CommandId, NEW result \in Results,
           \E r \in CommandResultEvent(agg, c, commands[c].payload, result) :
              Commit(r, SetStatus(commands, c, result), held),
           UNCHANGED venue, recon' = recon, faults' \in 0 .. MaxFaults,
           dispatcher' = IdleDispatcher
    PROVE  IInv'
<1>1. PICK r \in CommandResultEvent(agg, c, commands[c].payload, result) :
              Commit(r, SetStatus(commands, c, result), held)
    OBVIOUS
<1>2. /\ SetStatus(commands, c, result) \in [CommandId -> Row]
      /\ Forward(SetStatus(commands, c, result))
      /\ commands[c].payload \in Payload
    BY ResultRows
<1>3. agg \in Aggregate BY DEF IInv, TypeOK
<1>4. Sound(agg, r) BY <1>2, <1>3, CommandResultSound DEF AllSound
<1> QED BY <1>1, <1>2, <1>4, CommitStep

\* A fault stays within its budget.
LEMMA FaultBound ==
    ASSUME IInv, Fault \/ NoFault
    PROVE  faults' \in 0 .. MaxFaults
BY EnvironmentAssumption DEF IInv, TypeOK, Fault, NoFault

\* The dispatcher's transactions.
LEMMA DispatchCommits ==
    ASSUME IInv, NEW c \in CommandId
    PROVE  /\ ExpireClaim(c) => IInv'
           /\ PreflightRefuse(c) => IInv'
           /\ \A result \in Results : RecordResult(c, result) => IInv'
<1>1. ASSUME ExpireClaim(c) PROVE IInv'
  <2>1. "OUTCOME_UNKNOWN" \in Results /\ faults' = faults /\ recon' = recon /\ UNCHANGED venue
      BY <1>1 DEF Results, ExpireClaim
  <2>2. dispatcher' = IdleDispatcher BY <1>1 DEF ExpireClaim
  <2>3. \E r \in CommandResultEvent(agg, c, commands[c].payload, "OUTCOME_UNKNOWN") :
           Commit(r, SetStatus(commands, c, "OUTCOME_UNKNOWN"), held)
      BY <1>1 DEF ExpireClaim
  <2>4. faults' \in 0 .. MaxFaults BY <2>1 DEF IInv, TypeOK
  <2> QED BY <2>1, <2>2, <2>3, <2>4, ResultStep
<1>2. ASSUME PreflightRefuse(c) PROVE IInv'
  <2>1. "REJECTED" \in Results /\ recon' = recon /\ UNCHANGED venue
      BY <1>2 DEF Results, PreflightRefuse, Record
  <2>2. dispatcher' = IdleDispatcher BY <1>2 DEF PreflightRefuse, Record
  <2>3. \E r \in CommandResultEvent(agg, c, commands[c].payload, "REJECTED") :
           Commit(r, SetStatus(commands, c, "REJECTED"), held)
      BY <1>2 DEF PreflightRefuse, Record
  <2>4. faults' \in 0 .. MaxFaults BY <1>2, FaultBound DEF PreflightRefuse
  <2> QED BY <2>1, <2>2, <2>3, <2>4, ResultStep
<1>3. ASSUME NEW result \in Results, RecordResult(c, result) PROVE IInv'
  <2>1. recon' = recon /\ UNCHANGED venue /\ dispatcher' = IdleDispatcher
      BY <1>3 DEF RecordResult, Record
  <2>2. \E r \in CommandResultEvent(agg, c, commands[c].payload, result) :
           Commit(r, SetStatus(commands, c, result), held)
      BY <1>3 DEF RecordResult, Record
  <2>3. faults' \in 0 .. MaxFaults BY <1>3, FaultBound DEF RecordResult, Answers
  <2> QED BY <2>1, <2>2, <2>3, ResultStep
<1> QED BY <1>1, <1>2, <1>3

\* A transaction that leaves the rows to commit_reduction.
LEMMA PlainCommitStep ==
    ASSUME IInv, NEW r, Sound(agg, r), Commit(r, commands, held), UNCHANGED venue,
           faults' = faults, dispatcher' = dispatcher, recon' \in {recon, IdleRecon}
    PROVE  IInv'
<1>1. commands \in [CommandId -> Row] /\ faults' \in 0 .. MaxFaults BY DEF IInv, TypeOK
<1>2. Forward(commands) /\ KeepsClaims(commands) BY DEF Forward, KeepsClaims
<1> QED BY <1>1, <1>2, CommitStep

\* The transactions of the Reconciliation worker.
LEMMA ReconCommits ==
    ASSUME IInv
    PROVE  /\ \A c \in CommandId : RecoverUnknown(c) => IInv'
           /\ ReconcileTicket => IInv'
           /\ \A passed \in BOOLEAN : AssessStress(passed) => IInv'
           /\ SettleTicket => IInv'
           /\ RecordTradeReview => IInv'
<1>0. agg \in Aggregate /\ commands \in [CommandId -> Row] /\ faults \in 0 .. MaxFaults
    BY DEF IInv, TypeOK
<1>1. ASSUME NEW c \in CommandId, RecoverUnknown(c) PROVE IInv'
  <2>0. PICK decision \in RecoveryDecisions(c) :
           \E r \in RecoveryEvent(agg, c, commands[c].payload, decision) :
              Commit(r, RecoveredRows(c, decision), held)
      BY <1>1 DEF RecoverUnknown
  <2>1. PICK r \in RecoveryEvent(agg, c, commands[c].payload, decision) :
              Commit(r, RecoveredRows(c, decision), held)
      BY <2>0
  <2>2. commands[c].payload \in Payload BY <1>0 DEF Row
  <2>3. Sound(agg, r) BY <1>0, <2>2, RecoverySound DEF AllSound
  <2>4. commands[c].status = "OUTCOME_UNKNOWN" BY <1>1 DEF RecoverUnknown, Unknown
  <2>5. /\ "RECONCILED_ACCEPTED" \in RowStatuses /\ "RECONCILED_ABSENT" \in RowStatuses
        /\ "RECONCILED_ACCEPTED" \notin Fresh /\ "RECONCILED_ABSENT" \notin Fresh
      BY DEF RowStatuses, Fresh
  <2> DEFINE rows == RecoveredRows(c, decision)
  <2>6. rows \in {commands, SetStatus(commands, c, "RECONCILED_ACCEPTED"),
                  SetStatus(commands, c, "RECONCILED_ABSENT")}
      BY DEF RecoveredRows
  <2>7. \A status \in {"RECONCILED_ACCEPTED", "RECONCILED_ABSENT"} :
           /\ SetStatus(commands, c, status) \in [CommandId -> Row]
           /\ Forward(SetStatus(commands, c, status))
           /\ KeepsClaims(SetStatus(commands, c, status))
    <3> SUFFICES ASSUME NEW status \in RowStatuses, status \notin Fresh
                 PROVE  /\ SetStatus(commands, c, status) \in [CommandId -> Row]
                        /\ Forward(SetStatus(commands, c, status))
                        /\ KeepsClaims(SetStatus(commands, c, status))
        BY <2>5
    <3> DEFINE after == SetStatus(commands, c, status)
    <3>1. /\ after \in [CommandId -> Row] /\ after[c].status = status
          /\ \A d \in CommandId : d # c => after[d] = commands[d]
        BY <1>0, SetStatusRows
    <3> HIDE DEF after
    <3>2. Forward(after) BY <3>1 DEF Forward
    <3>3. KeepsClaims(after) BY <2>4, <3>1 DEF KeepsClaims
    <3> QED BY <3>1, <3>2, <3>3 DEF after
  <2>8. Forward(commands) /\ KeepsClaims(commands) BY DEF Forward, KeepsClaims
  <2>9. rows \in [CommandId -> Row] /\ Forward(rows) /\ KeepsClaims(rows) BY <1>0, <2>6, <2>7, <2>8
  <2>10. /\ UNCHANGED venue /\ faults' = faults /\ dispatcher' = dispatcher
         /\ recon' \in {recon, IdleRecon}
      BY <1>1 DEF RecoverUnknown
  <2> HIDE DEF rows
  <2>11. Commit(r, rows, held) BY <2>1 DEF rows
  <2> QED BY <1>0, <2>3, <2>9, <2>10, <2>11, CommitStep
<1>2. ASSUME ReconcileTicket PROVE IInv'
  <2>1. PICK r \in SnapshotEvent(agg, recon) : Commit(r, commands, held) BY <1>2 DEF ReconcileTicket
  <2>2. recon.qty \in Quantities /\ recon.open \subseteq CommandId BY DEF IInv, TypeOK
  <2>3. Sound(agg, r) BY <1>0, <2>2, SnapshotSound DEF AllSound
  <2>4. /\ UNCHANGED venue /\ faults' = faults /\ dispatcher' = dispatcher
        /\ recon' \in {recon, IdleRecon}
      BY <1>2 DEF ReconcileTicket
  <2> QED BY <2>1, <2>3, <2>4, PlainCommitStep
<1>3. ASSUME NEW passed \in BOOLEAN, AssessStress(passed) PROVE IInv'
  <2> DEFINE resolved == incidents \cap {"post_fill_risk_facts_unavailable"}
  <2>1. PICK r \in PostFillStressAssessed(agg, passed) :
                
         Commit([r EXCEPT !.resolve = resolved], commands, held)
      BY <1>3 DEF AssessStress
  <2> HIDE DEF resolved
  <2> DEFINE s == [r EXCEPT !.resolve = resolved]
  <2>2. s.agg = r.agg /\ s.prepare = r.prepare /\ s.open = r.open /\ s.release = r.release
      BY DEF PostFillStressAssessed, When, Transition
  <2>3. Sound(agg, r) BY <1>0, ProtectionEvents, EntryCommandType, ConstantTypes DEF AllSound
  <2> HIDE DEF s
  <2>4. Sound(agg, s) BY <2>2, <2>3 DEF Sound, WellFormed, LaneStep
  <2>5. /\ UNCHANGED venue /\ faults' = faults /\ dispatcher' = dispatcher
        /\ recon' \in {recon, IdleRecon}
      BY <1>3 DEF AssessStress
  <2>6. Commit(s, commands, held) BY <2>1 DEF s
  <2> QED BY <2>4, <2>5, <2>6, PlainCommitStep
<1>4. ASSUME SettleTicket PROVE IInv'
  <2>1. PICK r \in BudgetSettled(agg) : Commit(r, commands, held) BY <1>4 DEF SettleTicket
  <2>2. Sound(agg, r) BY <1>0, StatusEvents DEF AllSound
  <2>3. /\ UNCHANGED venue /\ faults' = faults /\ dispatcher' = dispatcher
        /\ recon' \in {recon, IdleRecon}
      BY <1>4 DEF SettleTicket
  <2> QED BY <2>1, <2>2, <2>3, PlainCommitStep
<1>5. ASSUME RecordTradeReview PROVE IInv'
  <2>1. PICK r \in ReviewRecorded(agg) : Commit(r, commands, held) BY <1>5 DEF RecordTradeReview
  <2>2. Sound(agg, r) BY <1>0, StatusEvents DEF AllSound
  <2>3. /\ UNCHANGED venue /\ faults' = faults /\ dispatcher' = dispatcher
        /\ recon' \in {recon, IdleRecon}
      BY <1>5 DEF RecordTradeReview
  <2> QED BY <2>1, <2>2, <2>3, PlainCommitStep
<1> QED BY <1>1, <1>2, <1>3, <1>4, <1>5

\* The transactions of the Lifecycle worker's maintenance and of the Owner.
LEMMA LifecycleCommits ==
    ASSUME IInv
    PROVE  (Maintain => IInv') /\ (OwnerExit => IInv')
<1>0. agg \in Aggregate BY DEF IInv, TypeOK
<1>1. ASSUME Maintain PROVE IInv'
  <2>1. PICK r \in MaintenanceEvent(agg) : Commit(r, commands, held) BY <1>1 DEF Maintain
  <2>2. Sound(agg, r) BY <1>0, MaintenanceSound DEF AllSound
  <2>3. /\ UNCHANGED venue /\ faults' = faults /\ dispatcher' = dispatcher
        /\ recon' \in {recon, IdleRecon}
      BY <1>1 DEF Maintain
  <2> QED BY <2>1, <2>2, <2>3, PlainCommitStep
<1>2. ASSUME OwnerExit PROVE IInv'
  <2>1. PICK r \in ExitRequested(agg) : Commit(r, commands, held) BY <1>2 DEF OwnerExit
  <2>2. Sound(agg, r) BY <1>0, FlatEvents DEF AllSound
  <2>3. /\ UNCHANGED venue /\ faults' = faults /\ dispatcher' = dispatcher
        /\ recon' \in {recon, IdleRecon}
      BY <1>2 DEF OwnerExit
  <2> QED BY <2>1, <2>2, <2>3, PlainCommitStep
<1> QED BY <1>1, <1>2

\* Updates of one row by the dispatcher and the clock, outside commit_reduction.
LEMMA RowUpdates ==
    ASSUME IInv, NEW c \in CommandId
    PROVE  /\ ClaimPrepared(c) => IInv'
           /\ Supersede(c) => IInv'
           /\ TimerLapses(c) => IInv'
<1>0. commands \in [CommandId -> Row] /\ c \in OrderId BY ConstantTypes DEF IInv, TypeOK
<1>1. ASSUME ClaimPrepared(c) PROVE IInv'
  <2>1. /\ commands[c].status = "PREPARED"
        /\ commands' = SetStatus(commands, c, "CLAIMED")
        /\ dispatcher' = [phase |-> "claimed", cmd |-> c]
        /\ UNCHANGED <<agg, incidents, held, order, position, entryFilled, foreign, recon, faults>>
      BY <1>1 DEF ClaimPrepared, Selects, Claimable, venue
  <2>2. /\ commands' \in [CommandId -> Row]
        /\ commands'[c].status = "CLAIMED"
        /\ \A d \in CommandId : d # c => commands'[d] = commands[d]
      BY <1>0, <2>1, SetStatusRows DEF RowStatuses
  <2>3. TypeOK' BY <1>0, <2>1, <2>2 DEF IInv, TypeOK
  <2>4. DurableBeforeVenue' BY <2>1, <2>2 DEF IInv, DurableBeforeVenue
  <2>5. LeaseInHand' BY <2>1, <2>2 DEF IInv, DurableBeforeVenue, LeaseInHand
  <2>6. EntryFillsBounded' /\ LaneFlagAgrees' BY <2>1 DEF IInv, EntryFillsBounded, LaneFlagAgrees
  <2> QED BY <2>3, <2>4, <2>5, <2>6 DEF IInv
<1>2. ASSUME Supersede(c) PROVE IInv'
  <2>1. /\ commands[c].status = "PREPARED"
        /\ commands' = SetStatus(commands, c, "SUPERSEDED")
        /\ dispatcher' = dispatcher /\ dispatcher = IdleDispatcher
        /\ UNCHANGED <<agg, incidents, held, order, position, entryFilled, foreign, recon, faults>>
      BY <1>2 DEF Supersede, Selects, Claimable, venue
  <2>2. /\ commands' \in [CommandId -> Row]
        /\ \A d \in CommandId : d # c => commands'[d] = commands[d]
      BY <1>0, <2>1, SetStatusRows DEF RowStatuses
  <2>3. TypeOK' BY <2>1, <2>2 DEF IInv, TypeOK
  <2>4. DurableBeforeVenue' BY <2>1, <2>2 DEF IInv, DurableBeforeVenue
  <2>5. LeaseInHand' BY <2>1 DEF LeaseInHand, IdleDispatcher
  <2>6. EntryFillsBounded' /\ LaneFlagAgrees' BY <2>1 DEF IInv, EntryFillsBounded, LaneFlagAgrees
  <2> QED BY <2>3, <2>4, <2>5, <2>6 DEF IInv
<1>3. ASSUME TimerLapses(c) PROVE IInv'
  <2>1. /\ commands' = [commands EXCEPT ![c].timer = "over"]
        /\ UNCHANGED <<agg, incidents, held, order, position, entryFilled, foreign,
                       dispatcher, recon>>
      BY <1>3 DEF TimerLapses, venue
  <2>2. faults' \in 0 .. MaxFaults BY <1>3, FaultBound DEF TimerLapses
  <2>3. /\ commands' \in [CommandId -> Row]
        /\ \A d \in CommandId : commands'[d].status = commands[d].status
      BY <1>0, <2>1 DEF Row
  <2>4. TypeOK' BY <2>1, <2>2, <2>3 DEF IInv, TypeOK
  <2>5. DurableBeforeVenue' /\ LeaseInHand' BY <2>1, <2>3 DEF IInv, DurableBeforeVenue, LeaseInHand
  <2>6. EntryFillsBounded' /\ LaneFlagAgrees' BY <2>1 DEF IInv, EntryFillsBounded, LaneFlagAgrees
  <2> QED BY <2>4, <2>5, <2>6 DEF IInv
<1> QED BY <1>1, <1>2, <1>3

\* Steps of the workers that change nothing durable.
LEMMA VolatileSteps ==
    ASSUME IInv
    PROVE  /\ \A c \in CommandId : Send(c) => IInv'
           /\ \A c \in CommandId, result \in Results : RecordRaises(c, result) => IInv'
           /\ Crash => IInv'
           /\ ReadSnapshot => IInv'
           /\ ReconcileNoChange => IInv'
           /\ StressRetry => IInv'
<1>1. ASSUME NEW c \in CommandId, Send(c) PROVE IInv'
  <2>1. /\ dispatcher = [phase |-> "claimed", cmd |-> c]
        /\ dispatcher' = [phase |-> "sent", cmd |-> c]
        /\ order' = [order EXCEPT ![c] = "transit"]
        /\ UNCHANGED <<agg, commands, incidents, held, position, entryFilled, foreign,
                       recon, faults>>
      BY <1>1 DEF Send, durable
  <2>2. commands[c].status = "CLAIMED" /\ order[c] = "unsent" BY <2>1 DEF IInv, LeaseInHand
  <2>3. TypeOK' BY <2>1 DEF IInv, TypeOK, OrderStates
  <2>4. DurableBeforeVenue' BY <2>1, <2>2 DEF IInv, TypeOK, DurableBeforeVenue
  <2>5. LeaseInHand' BY <2>1, <2>2 DEF LeaseInHand
  <2>6. EntryFillsBounded' BY <2>1, <2>2, EntryCommandType DEF IInv, TypeOK, EntryFillsBounded
  <2>7. LaneFlagAgrees' BY <2>1 DEF IInv, LaneFlagAgrees
  <2> QED BY <2>3, <2>4, <2>5, <2>6, <2>7 DEF IInv
<1>2. ASSUME UNCHANGED durable, UNCHANGED venue, faults' \in 0 .. MaxFaults,
             dispatcher' \in {dispatcher, IdleDispatcher},
             recon' \in [work : {"idle", "snapshot"}, qty : Quantities,
                         open : SUBSET CommandId, foreign : BOOLEAN]
      PROVE  IInv'
  <2>1. UNCHANGED <<agg, commands, incidents, held, order, position, entryFilled, foreign>>
      BY <1>2 DEF durable, venue
  <2>2. TypeOK' BY <1>2, <2>1, IdleTypes DEF IInv, TypeOK
  <2>3. DurableBeforeVenue' /\ EntryFillsBounded' /\ LaneFlagAgrees'
      BY <2>1 DEF IInv, DurableBeforeVenue, EntryFillsBounded, LaneFlagAgrees
  <2>4. LeaseInHand' BY <1>2, <2>1 DEF IInv, LeaseInHand, IdleDispatcher
  <2> QED BY <2>2, <2>3, <2>4 DEF IInv
<1>3. /\ recon \in [work : {"idle", "snapshot"}, qty : Quantities,
                     open : SUBSET CommandId, foreign : BOOLEAN]
      /\ faults \in 0 .. MaxFaults
    BY DEF IInv, TypeOK
<1>4. ASSUME NEW c \in CommandId, NEW result \in Results, RecordRaises(c, result) PROVE IInv'
  <2>1. faults' \in 0 .. MaxFaults BY <1>4, FaultBound DEF RecordRaises, Answers
  <2> QED BY <1>2, <1>3, <1>4, <2>1 DEF RecordRaises
<1>5. ASSUME Crash PROVE IInv'
  <2>1. faults' \in 0 .. MaxFaults BY <1>5, FaultBound DEF Crash
  <2>2. dispatcher' \in {dispatcher, IdleDispatcher} /\ recon' \in {recon, IdleRecon} BY <1>5 DEF Crash
  <2>3. UNCHANGED durable /\ UNCHANGED venue BY <1>5 DEF Crash
  <2> QED BY <1>2, <1>3, <2>1, <2>2, <2>3, IdleTypes
<1>6. ASSUME ReadSnapshot PROVE IInv'
  <2>1. recon' \in [work : {"idle", "snapshot"}, qty : Quantities,
                    open : SUBSET CommandId, foreign : BOOLEAN]
      BY <1>6 DEF ReadSnapshot, LiveOrders, IInv, TypeOK
  <2> QED BY <1>2, <1>3, <1>6, <2>1 DEF ReadSnapshot
<1>7. ASSUME ReconcileNoChange PROVE IInv' BY <1>2, <1>3, <1>7, IdleTypes DEF ReconcileNoChange
<1>8. ASSUME StressRetry PROVE IInv'
  <2>1. /\ UNCHANGED <<agg, commands, held, order, position, entryFilled, foreign,
                       dispatcher, recon, faults>>
        /\ incidents' \subseteq IncidentKinds
      BY <1>8, IncidentNames DEF StressRetry, venue, IInv, TypeOK
  <2> QED BY <2>1 DEF IInv, TypeOK, DurableBeforeVenue, LeaseInHand, EntryFillsBounded,
                      LaneFlagAgrees
<1> QED BY <1>1, <1>4, <1>5, <1>6, <1>7, <1>8

\* The venue's steps only move requests that have been sent.
LEMMA VenueSteps ==
    ASSUME IInv, VenueNext
    PROVE  IInv'
<1>0. /\ order \in [CommandId -> OrderStates] /\ position \in Quantities
      /\ commands \in [CommandId -> Row] /\ entryFilled \in Quantities
    BY DEF IInv, TypeOK
<1>1. ASSUME UNCHANGED <<agg, commands, incidents, held, dispatcher, recon>>,
             order' \in [CommandId -> OrderStates],
             position' \in Quantities, entryFilled' \in Quantities, foreign' \in BOOLEAN,
             faults' \in 0 .. MaxFaults,
             \A c \in CommandId : order[c] = "unsent" <=> order'[c] = "unsent",
             EntryFillsBounded'
      PROVE  IInv'
  <2>1. TypeOK' BY <1>1 DEF IInv, TypeOK
  <2>2. DurableBeforeVenue' BY <1>1 DEF IInv, DurableBeforeVenue
  <2>3. LeaseInHand' BY <1>1 DEF IInv, LeaseInHand
  <2>4. LaneFlagAgrees' BY <1>1 DEF IInv, LaneFlagAgrees
  <2> QED BY <1>1, <2>1, <2>2, <2>3, <2>4 DEF IInv
<1>2. \A q \in Quantities : Less(position, q) \in Quantities
    BY <1>0, QuantityAssumption DEF Less, Quantities
<1>3. \A c \in CommandId : commands[c].payload.qty \in Quantities
                           /\ commands[c].payload.target \in OrderId
    BY <1>0, PayloadFields DEF Row
<1>4. ASSUME NEW c \in CommandId, Deliver(c) PROVE IInv'
  <2>1. /\ order[c] = "transit"
        /\ UNCHANGED <<agg, commands, incidents, held, dispatcher, recon, entryFilled,
                       foreign, faults>>
      BY <1>4 DEF Deliver, durable
  <2>2. position' \in Quantities BY <1>0, <1>2, <1>3, <1>4 DEF Deliver
  <2>3. \/ \E state \in {"done", "live", "missed"} : order' = [order EXCEPT ![c] = state]
        \/ /\ CancelHits(c)
           /\ order' = [order EXCEPT ![c] = "done", ![commands[c].payload.target] = "done"]
      BY <1>4 DEF Deliver, Fate
  <2>4. CASE \E state \in {"done", "live", "missed"} : order' = [order EXCEPT ![c] = state]
    <3>1. PICK state \in {"done", "live", "missed"} : order' = [order EXCEPT ![c] = state] BY <2>4
    <3>2. order' \in [CommandId -> OrderStates] BY <1>0, <3>1 DEF OrderStates
    <3>3. \A d \in CommandId : order[d] = "unsent" <=> order'[d] = "unsent" BY <1>0, <2>1, <3>1
    <3>4. EntryFillsBounded'
        BY <1>0, <2>1, <3>1, EntryCommandType, QuantityAssumption DEF IInv, EntryFillsBounded
    <3> QED BY <1>0, <1>1, <2>1, <2>2, <3>2, <3>3, <3>4 DEF IInv, TypeOK
  <2>5. CASE /\ CancelHits(c)
             /\ order' = [order EXCEPT ![c] = "done", ![commands[c].payload.target] = "done"]
    <3>1. PICK t \in CommandId : t = commands[c].payload.target BY <1>3, <2>5 DEF CancelHits, OrderId
    <3>2. order[t] = "live" /\ order' = [order EXCEPT ![c] = "done", ![t] = "done"]
        BY <2>5, <3>1 DEF CancelHits
    <3>3. order' \in [CommandId -> OrderStates] BY <1>0, <3>2 DEF OrderStates
    <3>4. \A d \in CommandId : IF d \in {c, t} THEN order'[d] = "done" ELSE order'[d] = order[d]
        BY <1>0, <3>2
    <3>5. \A d \in CommandId : order[d] = "unsent" <=> order'[d] = "unsent"
      <4> TAKE d \in CommandId
      <4>1. CASE d \in {c, t} BY <2>1, <3>2, <3>4, <4>1
      <4>2. CASE d \notin {c, t} BY <3>4, <4>2
      <4> QED BY <4>1, <4>2
    <3>6. EntryFillsBounded' BY <2>1, <3>4, EntryCommandType DEF IInv, EntryFillsBounded
    <3> QED BY <1>0, <1>1, <2>1, <2>2, <3>3, <3>5, <3>6 DEF IInv, TypeOK
  <2> QED BY <2>3, <2>4, <2>5
<1>5. ASSUME NEW c \in CommandId, Refuse(c) \/ Lose(c) PROVE IInv'
  <2>1. faults' \in 0 .. MaxFaults BY <1>5, FaultBound DEF Refuse, Lose
  <2>2. PICK state \in {"refused", "lost"} :
           /\ order[c] = "transit" /\ order' = [order EXCEPT ![c] = state]
           /\ UNCHANGED <<agg, commands, incidents, held, dispatcher, recon, position,
                          entryFilled, foreign>>
      BY <1>5 DEF Refuse, Lose, Fate, durable
  <2>3. order' \in [CommandId -> OrderStates] BY <1>0, <2>2 DEF OrderStates
  <2>4. \A d \in CommandId : order[d] = "unsent" <=> order'[d] = "unsent" BY <1>0, <2>2
  <2>5. EntryFillsBounded' BY <1>0, <2>2, EntryCommandType DEF IInv, EntryFillsBounded
  <2> QED BY <1>0, <1>1, <2>1, <2>2, <2>3, <2>4, <2>5 DEF IInv, TypeOK
<1>6. ASSUME NEW c \in CommandId, RestingFill(c) PROVE IInv'
  <2>1. /\ c # EntryCommand
        /\ order[c] = "live" /\ order' = [order EXCEPT ![c] = "done"]
        /\ position' = Less(position, commands[c].payload.qty)
        /\ UNCHANGED <<agg, commands, incidents, held, dispatcher, recon, entryFilled,
                       foreign, faults>>
      BY <1>6 DEF RestingFill, Fate, durable, EntryCommand, StopKinds
  <2>2. order' \in [CommandId -> OrderStates] BY <1>0, <2>1 DEF OrderStates
  <2>3. \A d \in CommandId : order[d] = "unsent" <=> order'[d] = "unsent" BY <1>0, <2>1
  <2>4. EntryFillsBounded' BY <1>0, <2>1, EntryCommandType DEF IInv, EntryFillsBounded
  <2> QED BY <1>0, <1>1, <1>2, <1>3, <2>1, <2>2, <2>3, <2>4 DEF IInv, TypeOK
<1>7. ASSUME EntryFill PROVE IInv'
  <2> DEFINE state == IF entryFilled + 1 = TicketQuantity THEN "done" ELSE "live"
  <2>1. /\ order[EntryCommand] = "live" /\ position < TicketQuantity
        /\ position' = position + 1 /\ entryFilled' = entryFilled + 1
        /\ order' = [order EXCEPT ![EntryCommand] = state]
        /\ UNCHANGED <<agg, commands, incidents, held, dispatcher, recon, foreign, faults>>
      BY <1>7 DEF EntryFill, Fate, durable
  <2>2. entryFilled < TicketQuantity BY <2>1 DEF IInv, EntryFillsBounded
  <2>3. position' \in Quantities /\ entryFilled' \in Quantities
      BY <1>0, <2>1, <2>2, QuantityAssumption DEF Quantities
  <2>4. state \in {"done", "live"} /\ (state = "live" => entryFilled' < TicketQuantity)
      BY <1>0, <2>1, <2>2, QuantityAssumption DEF Quantities
  <2> HIDE DEF state
  <2>5. order' \in [CommandId -> OrderStates] /\ order'[EntryCommand] = state
      BY <1>0, <2>1, <2>4, EntryCommandType DEF OrderStates
  <2>6. \A d \in CommandId : order[d] = "unsent" <=> order'[d] = "unsent" BY <1>0, <2>1, <2>4
  <2>7. EntryFillsBounded' BY <2>4, <2>5 DEF EntryFillsBounded
  <2> QED BY <1>0, <1>1, <2>1, <2>3, <2>5, <2>6, <2>7 DEF IInv, TypeOK
<1>8. ASSUME ExternalClose \/ ForeignOrder PROVE IInv'
  <2>1. faults' \in 0 .. MaxFaults BY <1>8, FaultBound DEF ExternalClose, ForeignOrder
  <2>2. /\ UNCHANGED <<agg, commands, incidents, held, dispatcher, recon, order, entryFilled>>
        /\ position' \in Quantities /\ foreign' \in BOOLEAN
      BY <1>8, ConstantTypes DEF ExternalClose, ForeignOrder, durable, IInv, TypeOK
  <2>3. EntryFillsBounded' BY <2>2 DEF IInv, EntryFillsBounded
  <2> QED BY <1>0, <1>1, <2>1, <2>2, <2>3
<1> QED BY <1>4, <1>5, <1>6, <1>7, <1>8 DEF VenueNext

-----------------------------------------------------------------------------
(* Theorems. *)

\* Every step of every worker, of the venue and of the environment preserves the
\* inductive invariant.
LEMMA NextInv == IInv /\ [Next]_vars => IInv'
<1> SUFFICES ASSUME IInv, [Next]_vars PROVE IInv' OBVIOUS
<1>1. ASSUME NEW change \in BOOLEAN, IssueTicket(change) PROVE IInv' BY <1>1, IssueStep
<1>2. CASE DispatchNext BY <1>2, DispatchCommits, RowUpdates, VolatileSteps DEF DispatchNext
<1>3. CASE VenueNext BY <1>3, VenueSteps
<1>4. CASE ReconNext BY <1>4, ReconCommits, VolatileSteps DEF ReconNext
<1>5. CASE Maintain \/ OwnerExit \/ Crash BY <1>5, LifecycleCommits, VolatileSteps
<1>6. CASE UNCHANGED vars
    BY <1>6 DEF vars, IInv, TypeOK, DurableBeforeVenue, LeaseInHand, EntryFillsBounded, LaneFlagAgrees
<1> QED BY <1>1, <1>2, <1>3, <1>4, <1>5, <1>6 DEF Next

\* The inductive invariant of the execution of a Ticket.
THEOREM Invariance == Spec => []IInv
BY InitInv, NextInv, PTL DEF Spec

\* Type correctness: quantities stay within the Ticket's, every stored order id and
\* price is one the kernel made, through every event of the reducer.
THEOREM TypeCorrectness == Spec => []TypeOK
<1>1. IInv => TypeOK BY DEF IInv
<1> QED BY <1>1, Invariance, PTL

\* Venue I/O happens only after a durable lease: whatever crashes, a request that
\* has left the process belongs to a row recorded as claimed or beyond.
THEOREM LeaseBeforeVenue == Spec => []DurableBeforeVenue
<1>1. IInv => DurableBeforeVenue BY DEF IInv
<1> QED BY <1>1, Invariance, PTL

\* The lane row and the aggregate's lane flag never disagree.
THEOREM LaneAgreement == Spec => []LaneFlagAgrees
<1>1. IInv => LaneFlagAgrees BY DEF IInv
<1> QED BY <1>1, Invariance, PTL

\* Only Send starts a request, and the lease in its hand is of an unsent one.
LEMMA NoResend == IInv /\ [Next]_vars => ~ Resends
<1> SUFFICES ASSUME IInv, [Next]_vars PROVE ~ Resends OBVIOUS
<1>0. order \in [CommandId -> OrderStates] BY DEF IInv, TypeOK
<1>1. ASSUME order' = order PROVE ~ Resends BY <1>1 DEF Resends
<1>2. ASSUME NEW c \in CommandId, NEW state, order[c] = "unsent" \/ state # "transit",
             order' = [order EXCEPT ![c] = state]
      PROVE  ~ Resends
    BY <1>0, <1>2 DEF Resends
<1>3. ASSUME NEW change \in BOOLEAN, IssueTicket(change) PROVE ~ Resends
    BY <1>1, <1>3 DEF IssueTicket, venue
<1>4. CASE DispatchNext
  <2>1. ASSUME NEW c \in CommandId, Send(c) PROVE ~ Resends
    <3>1. order[c] = "unsent" BY <2>1 DEF Send, IInv, LeaseInHand
    <3> QED BY <1>2, <2>1, <3>1 DEF Send
  <2>2. ASSUME NEW c \in CommandId,
               \/ ExpireClaim(c) \/ ClaimPrepared(c) \/ Supersede(c) \/ TimerLapses(c)
        PROVE  order' = order
      BY <2>2 DEF ExpireClaim, ClaimPrepared, Supersede, TimerLapses, venue
  <2>3. ASSUME NEW c \in CommandId, NEW result \in Results,
               PreflightRefuse(c) \/ RecordResult(c, result) \/ RecordRaises(c, result)
        PROVE  order' = order
      BY <2>3 DEF PreflightRefuse, RecordResult, RecordRaises, Record, venue
  <2> QED BY <1>1, <1>4, <2>1, <2>2, <2>3 DEF DispatchNext, Results
<1>5. CASE VenueNext
  <2>1. ASSUME NEW c \in CommandId, Deliver(c) PROVE ~ Resends
    <3>1. CASE \E state \in {"done", "live", "missed"} : order' = [order EXCEPT ![c] = state]
        BY <1>2, <3>1
    <3>2. CASE order' = [order EXCEPT ![c] = "done", ![commands[c].payload.target] = "done"]
        BY <1>0, <3>2 DEF Resends
    <3> QED BY <2>1, <3>1, <3>2 DEF Deliver, Fate
  <2>2. ASSUME NEW c \in CommandId, Refuse(c) \/ Lose(c) \/ RestingFill(c) PROVE ~ Resends
      BY <1>2, <2>2 DEF Refuse, Lose, RestingFill, Fate
  <2>3. ASSUME EntryFill PROVE ~ Resends
    <3> DEFINE state == IF entryFilled + 1 = TicketQuantity THEN "done" ELSE "live"
    <3>1. order' = [order EXCEPT ![EntryCommand] = state] /\ state # "transit"
        BY <2>3 DEF EntryFill, Fate
    <3> QED BY <1>2, <3>1, EntryCommandType
  <2>4. ASSUME ExternalClose \/ ForeignOrder PROVE ~ Resends
      BY <1>1, <2>4 DEF ExternalClose, ForeignOrder
  <2> QED BY <1>5, <2>1, <2>2, <2>3, <2>4 DEF VenueNext
<1>6. CASE ReconNext
    BY <1>1, <1>6 DEF ReconNext, RecoverUnknown, ReadSnapshot, ReconcileTicket, ReconcileNoChange,
       AssessStress, StressRetry, SettleTicket, RecordTradeReview, venue
<1>7. CASE Maintain \/ OwnerExit \/ Crash BY <1>1, <1>7 DEF Maintain, OwnerExit, Crash, venue
<1>8. CASE UNCHANGED vars BY <1>1, <1>8 DEF vars
<1> QED BY <1>3, <1>4, <1>5, <1>6, <1>7, <1>8 DEF Next

\* Unknown outcomes block redispatch: through crashes, expired leases, timeouts and
\* recovery, the request of one command row leaves the process at most once.
THEOREM RequestsLeaveOnce == Spec => NeverResent
<1>1. IInv /\ [Next]_vars =>
         [\A c \in CommandId :
             order[c] # "unsent" /\ order'[c] = "transit" => order[c] = "transit"]_vars
    BY NoResend DEF Resends
<1> QED BY <1>1, Invariance, PTL DEF Spec, NeverResent

-----------------------------------------------------------------------------
(* What recovery calls absent is absent. *)

\* commit_reduction inserts rows and settles cancels; the caller's rows are otherwise kept.
LEMMA CommitRows ==
    ASSUME NEW rows \in [CommandId -> Row], NEW r, Commit(r, rows, held), r.prepare \subseteq Payload,
           NEW c \in CommandId
    PROVE  \/ commands'[c] = rows[c]
           \/ commands'[c].status = "PREPARED"
           \/ c[1] = "CANCEL_ORDER" /\ commands'[c].status = "RECONCILED_ABSENT"
<1> DEFINE marked == MarkAbsent(rows, r.markAbsent)
<1>1. \/ marked[c] = rows[c]
      \/ c[1] = "CANCEL_ORDER" /\ marked[c].status = "RECONCILED_ABSENT"
    BY DEF MarkAbsent, UnknownCancels
<1>2. marked \in [CommandId -> Row] BY MarkAbsentRows
<1> HIDE DEF marked
<1>3. CASE commands' = marked BY <1>1, <1>3
<1>4. CASE \E p \in r.prepare, g \in Generations :
             commands' = [marked EXCEPT ![<<p.kind, g>>] =
                            [status |-> "PREPARED", timer |-> "running", payload |-> p]]
  <2>1. PICK p \in r.prepare, g \in Generations :
             commands' = [marked EXCEPT ![<<p.kind, g>>] =
                            [status |-> "PREPARED", timer |-> "running", payload |-> p]]
      BY <1>4
  <2>2. <<p.kind, g>> \in CommandId BY <2>1, PayloadFields DEF CommandId
  <2> QED BY <1>1, <1>2, <2>1, <2>2
<1> QED BY <1>3, <1>4 DEF Commit, marked

\* A transaction of the kernel, seen from WindowOK and AbsenceIsFinal.
LEMMA SettledRows ==
    ASSUME WindowOK, AbsenceIsFinal, UNCHANGED order, \A c \in CommandId : Settles(c, commands'[c])
    PROVE  WindowOK' /\ AbsenceIsFinal'
BY DEF WindowOK, AbsenceIsFinal, Unknown, Settles, Placing

\* The row of the caller, then commit_reduction.
LEMMA SettledCommit ==
    ASSUME IInv, WindowOK, AbsenceIsFinal, NEW rows \in [CommandId -> Row], NEW r,
           Commit(r, rows, held), r.prepare \subseteq Payload, UNCHANGED venue,
           \A c \in CommandId : Settles(c, rows[c])
    PROVE  WindowOK' /\ AbsenceIsFinal'
<1>1. \A c \in CommandId : Settles(c, commands'[c]) BY CommitRows DEF Settles, Placing
<1> QED BY <1>1, SettledRows DEF venue

\* Recovery decides absence of an order only outside its visibility window.
LEMMA RecoverySettles ==
    ASSUME IInv, WindowOK, NEW c \in CommandId, Unknown(c), NEW decision \in RecoveryDecisions(c),
           NEW d \in CommandId
    PROVE  Settles(d, RecoveredRows(c, decision)[d])
<1>0. commands \in [CommandId -> Row] /\ order \in [CommandId -> OrderStates] BY DEF IInv, TypeOK
<1>1. \A status \in RowStatuses : /\ SetStatus(commands, c, status)[c].status = status
                                  /\ \A e \in CommandId \ {c} : SetStatus(commands, c, status)[e] = commands[e]
    BY <1>0, SetStatusRows
<1>2. CASE decision = "RECONCILED_SUBMITTED"
  <2>1. RecoveredRows(c, decision) = SetStatus(commands, c, "RECONCILED_ACCEPTED")
      BY <1>2 DEF RecoveredRows
  <2> QED BY <1>1, <2>1 DEF Settles, RowStatuses
<1>3. CASE c[1] = "CANCEL_ORDER" /\ decision = "RECONCILED_ABSENT"
  <2>1. RecoveredRows(c, decision) = commands BY <1>3 DEF RecoveredRows
  <2> QED BY <2>1 DEF Settles
<1>4. CASE decision # "RECONCILED_SUBMITTED" /\ ~ (c[1] = "CANCEL_ORDER" /\ decision = "RECONCILED_ABSENT")
  <2>1. RecoveredRows(c, decision) = SetStatus(commands, c, "RECONCILED_ABSENT")
      BY <1>4 DEF RecoveredRows
  <2>2. Placing(c) => order[c] \notin {"transit", "live", "done"}
    <3> SUFFICES ASSUME Placing(c) PROVE order[c] \notin {"transit", "live", "done"} OBVIOUS
    <3>1. decision \in OrderTruth(c) BY DEF RecoveryDecisions, Placing
    <3> QED BY <1>4, <3>1 DEF OrderTruth, WindowOK
  <2>3. CASE d = c BY <1>1, <2>1, <2>2, <2>3 DEF Settles, RowStatuses
  <2>4. CASE d # c BY <1>1, <2>1, <2>4 DEF Settles, RowStatuses
  <2> QED BY <2>3, <2>4
<1> QED BY <1>2, <1>3, <1>4

\* The transactions that leave the rows to commit_reduction.
LEMMA PlainTransactions ==
    ASSUME IInv,
           \/ ReconcileTicket \/ (\E passed \in BOOLEAN : AssessStress(passed))
           \/ SettleTicket \/ RecordTradeReview \/ Maintain \/ OwnerExit
    PROVE  UNCHANGED venue /\ \E r : Commit(r, commands, held) /\ r.prepare \subseteq Payload
<1>0. agg \in Aggregate /\ recon.qty \in Quantities /\ recon.open \subseteq CommandId
    BY DEF IInv, TypeOK
<1>1. UNCHANGED venue
    BY DEF ReconcileTicket, AssessStress, SettleTicket, RecordTradeReview, Maintain, OwnerExit
<1>2. CASE ReconcileTicket BY <1>0, <1>2, SnapshotSound DEF ReconcileTicket, AllSound, Sound, WellFormed
<1>3. CASE \E passed \in BOOLEAN : AssessStress(passed)
  <2> DEFINE resolved == incidents \cap {"post_fill_risk_facts_unavailable"}
  <2>1. PICK passed \in BOOLEAN : AssessStress(passed) BY <1>3
  <2>2. PICK r \in PostFillStressAssessed(agg, passed) :
         Commit([r EXCEPT !.resolve = resolved], commands, held)
      BY <2>1 DEF AssessStress
  <2> HIDE DEF resolved
  <2>3. [r EXCEPT !.resolve = resolved].prepare = r.prepare
      BY DEF PostFillStressAssessed, When, Transition
  <2>4. Sound(agg, r) BY <1>0, ProtectionEvents, EntryCommandType, ConstantTypes DEF AllSound
  <2> QED BY <1>1, <2>2, <2>3, <2>4 DEF Sound, WellFormed
<1>4. CASE SettleTicket \/ RecordTradeReview
    BY <1>0, <1>1, <1>4, StatusEvents DEF SettleTicket, RecordTradeReview, AllSound, Sound, WellFormed
<1>5. CASE Maintain BY <1>0, <1>1, <1>5, MaintenanceSound DEF Maintain, AllSound, Sound, WellFormed
<1>6. CASE OwnerExit BY <1>0, <1>1, <1>6, FlatEvents DEF OwnerExit, AllSound, Sound, WellFormed
<1> QED BY <1>1, <1>2, <1>3, <1>4, <1>5, <1>6

\* Results settle nothing as absent, and open a visibility window.
LEMMA ResultSettles ==
    ASSUME IInv, NEW c \in CommandId, NEW result \in Results, NEW d \in CommandId
    PROVE  Settles(d, SetStatus(commands, c, result)[d])
<1>0. commands \in [CommandId -> Row] BY DEF IInv, TypeOK
<1>1. CASE d = c BY <1>0, <1>1 DEF Settles, SetStatus, Results
<1>2. CASE d # c BY <1>0, <1>2 DEF Settles, SetStatus
<1> QED BY <1>1, <1>2

\* Under bounded delivery every step keeps the windows and the absences.
LEMMA AbsenceStep ==
    ASSUME BoundedDelivery, IInv, WindowOK, AbsenceIsFinal, [Next]_vars
    PROVE  WindowOK' /\ AbsenceIsFinal'
<1>0. /\ agg \in Aggregate /\ commands \in [CommandId -> Row] /\ order \in [CommandId -> OrderStates]
      /\ \A c \in CommandId : commands[c].payload \in Payload
    BY DEF IInv, TypeOK, Row
<1>1. ASSUME UNCHANGED <<commands, order>> PROVE WindowOK' /\ AbsenceIsFinal'
    BY <1>1 DEF WindowOK, AbsenceIsFinal, Unknown
<1>2. ASSUME NEW r, Commit(r, commands, held), r.prepare \subseteq Payload, UNCHANGED venue
      PROVE  WindowOK' /\ AbsenceIsFinal'
  <2>1. \A c \in CommandId : Settles(c, commands[c]) BY DEF Settles
  <2> QED BY <1>0, <1>2, <2>1, SettledCommit
<1>3. ASSUME NEW c \in CommandId, NEW result \in Results, UNCHANGED venue,
             \E r \in CommandResultEvent(agg, c, commands[c].payload, result) :
                Commit(r, SetStatus(commands, c, result), held)
      PROVE  WindowOK' /\ AbsenceIsFinal'
  <2>1. PICK r \in CommandResultEvent(agg, c, commands[c].payload, result) :
                Commit(r, SetStatus(commands, c, result), held)
      BY <1>3
  <2>2. r.prepare \subseteq Payload BY <1>0, CommandResultSound DEF AllSound, Sound, WellFormed
  <2>3. SetStatus(commands, c, result) \in [CommandId -> Row] BY ResultRows
  <2> QED BY <1>3, <2>1, <2>2, <2>3, ResultSettles, SettledCommit
<1>4. ASSUME NEW change \in BOOLEAN, IssueTicket(change) PROVE WindowOK' /\ AbsenceIsFinal'
  <2>1. PICK r \in TicketIssued(change) : Commit(r, commands, Authorities) BY <1>4 DEF IssueTicket
  <2>2. WellFormed(r) BY IssueEvent
  <2>3. \A c \in CommandId : RowStep(commands[c], commands'[c])
      BY <1>0, <2>1, <2>2, CommitSound DEF IInv, TypeOK
  <2>4. r.markAbsent = {} BY <2>1 DEF TicketIssued, Transition
  <2>5. MarkAbsent(commands, {}) = commands BY <1>0 DEF MarkAbsent
  <2>6. \A c \in CommandId : Settles(c, commands'[c])
    <3>1. CASE commands' = commands BY <3>1 DEF Settles
    <3>2. ASSUME NEW p \in r.prepare, NEW g \in Generations,
                 commands' = [commands EXCEPT ![<<p.kind, g>>] =
                                [status |-> "PREPARED", timer |-> "running", payload |-> p]]
          PROVE  \A c \in CommandId : Settles(c, commands'[c])
        BY <1>0, <3>2 DEF Settles
    <3> QED BY <2>1, <2>4, <2>5, <3>1, <3>2 DEF Commit
  <2> QED BY <1>4, <2>6, SettledRows DEF IssueTicket, venue
<1>5. CASE DispatchNext
  <2>1. ASSUME NEW c \in CommandId, ExpireClaim(c) PROVE WindowOK' /\ AbsenceIsFinal'
      BY <1>3, <2>1 DEF ExpireClaim, Results
  <2>2. ASSUME NEW c \in CommandId, ClaimPrepared(c) \/ Supersede(c) PROVE WindowOK' /\ AbsenceIsFinal'
    <3>1. PICK status \in {"CLAIMED", "SUPERSEDED"} : commands' = SetStatus(commands, c, status)
        BY <2>2 DEF ClaimPrepared, Supersede
    <3>2. \A d \in CommandId : Settles(d, commands'[d]) BY <1>0, <3>1 DEF Settles, SetStatus
    <3> QED BY <2>2, <3>2, SettledRows DEF ClaimPrepared, Supersede, venue
  <2>3. ASSUME NEW c \in CommandId, PreflightRefuse(c) PROVE WindowOK' /\ AbsenceIsFinal'
      BY <1>3, <2>3 DEF PreflightRefuse, Record, Results
  <2>4. ASSUME NEW c \in CommandId, Send(c) PROVE WindowOK' /\ AbsenceIsFinal'
    <3>1. commands[c].status = "CLAIMED" /\ UNCHANGED commands /\ order' = [order EXCEPT ![c] = "transit"]
        BY <2>4 DEF Send, durable, IInv, LeaseInHand
    <3> QED BY <1>0, <3>1 DEF WindowOK, AbsenceIsFinal, Unknown
  <2>5. ASSUME NEW c \in CommandId, TimerLapses(c) PROVE WindowOK' /\ AbsenceIsFinal'
    <3>1. UNCHANGED order /\ (Unknown(c) => order[c] # "transit")
        BY <2>5 DEF TimerLapses, venue, Unknown
    <3>2. /\ \A d \in CommandId : commands'[d].status = commands[d].status
          /\ \A d \in CommandId \ {c} : commands'[d] = commands[d]
        BY <1>0, <2>5 DEF TimerLapses, Row
    <3> QED BY <3>1, <3>2 DEF WindowOK, AbsenceIsFinal, Unknown
  <2>6. ASSUME NEW c \in CommandId, NEW result \in Results, RecordResult(c, result)
        PROVE  WindowOK' /\ AbsenceIsFinal'
      BY <1>3, <2>6 DEF RecordResult, Record
  <2>7. ASSUME NEW c \in CommandId, NEW result \in Results, RecordRaises(c, result)
        PROVE  WindowOK' /\ AbsenceIsFinal'
      BY <1>1, <2>7 DEF RecordRaises, durable, venue
  <2> QED BY <1>5, <2>1, <2>2, <2>3, <2>4, <2>5, <2>6, <2>7 DEF DispatchNext
<1>6. CASE VenueNext
  <2>1. UNCHANGED commands
      BY <1>6 DEF VenueNext, Deliver, Refuse, Lose, RestingFill, EntryFill, ExternalClose, ForeignOrder,
         durable
  <2>2. ASSUME \A c \in CommandId : \/ order'[c] = order[c]
                                    \/ order[c] \in {"transit", "live"} /\ order'[c] # "transit"
        PROVE  WindowOK' /\ AbsenceIsFinal'
      BY <2>1, <2>2 DEF WindowOK, AbsenceIsFinal, Unknown
  <2>3. ASSUME NEW c \in CommandId, Deliver(c) PROVE WindowOK' /\ AbsenceIsFinal'
    <3>1. CASE \E state \in {"done", "live", "missed"} : order' = [order EXCEPT ![c] = state]
        BY <1>0, <2>2, <2>3, <3>1 DEF Deliver
    <3>2. CASE CancelHits(c) /\ order' = [order EXCEPT ![c] = "done", ![commands[c].payload.target] = "done"]
      <4>1. PICK t \in CommandId : t = commands[c].payload.target
          BY <1>0, <3>2, PayloadFields DEF CancelHits, OrderId
      <4>2. order[t] = "live" /\ order[c] = "transit" BY <2>3, <3>2, <4>1 DEF CancelHits, Deliver
      <4>3. \A d \in CommandId : IF d \in {c, t} THEN order'[d] = "done" ELSE order'[d] = order[d]
          BY <1>0, <3>2, <4>1
      <4> QED BY <2>2, <4>2, <4>3
    <3> QED BY <2>3, <3>1, <3>2 DEF Deliver, Fate
  <2>4. ASSUME NEW c \in CommandId, Refuse(c) \/ Lose(c) \/ RestingFill(c)
        PROVE  WindowOK' /\ AbsenceIsFinal'
      BY <1>0, <2>2, <2>4 DEF Refuse, Lose, RestingFill, Fate
  <2>5. ASSUME EntryFill PROVE WindowOK' /\ AbsenceIsFinal'
    <3> DEFINE state == IF entryFilled + 1 = TicketQuantity THEN "done" ELSE "live"
    <3>1. order' = [order EXCEPT ![EntryCommand] = state] /\ state # "transit" /\ order[EntryCommand] = "live"
        BY <2>5 DEF EntryFill, Fate
    <3> HIDE DEF state
    <3> QED BY <1>0, <2>2, <3>1
  <2>6. ASSUME ExternalClose \/ ForeignOrder PROVE WindowOK' /\ AbsenceIsFinal'
      BY <1>1, <2>1, <2>6 DEF ExternalClose, ForeignOrder
  <2> QED BY <1>6, <2>3, <2>4, <2>5, <2>6 DEF VenueNext
<1>7. CASE ReconNext
  <2>1. ASSUME NEW c \in CommandId, RecoverUnknown(c) PROVE WindowOK' /\ AbsenceIsFinal'
    <3>1. PICK decision \in RecoveryDecisions(c) :
             \E r \in RecoveryEvent(agg, c, commands[c].payload, decision) :
                Commit(r, RecoveredRows(c, decision), held)
        BY <2>1 DEF RecoverUnknown
    <3>2. PICK r \in RecoveryEvent(agg, c, commands[c].payload, decision) :
             Commit(r, RecoveredRows(c, decision), held)
        BY <3>1
    <3>3. r.prepare \subseteq Payload BY <1>0, RecoverySound DEF AllSound, Sound, WellFormed
    <3>4. Unknown(c) /\ UNCHANGED venue BY <2>1 DEF RecoverUnknown
    <3>5. RecoveredRows(c, decision) \in [CommandId -> Row]
      <4>1. /\ SetStatus(commands, c, "RECONCILED_ACCEPTED") \in [CommandId -> Row]
            /\ SetStatus(commands, c, "RECONCILED_ABSENT") \in [CommandId -> Row]
          BY <1>0, SetStatusRows DEF RowStatuses
      <4> QED BY <1>0, <4>1 DEF RecoveredRows
    <3> QED BY <3>2, <3>3, <3>4, <3>5, RecoverySettles, SettledCommit
  <2>2. ASSUME ReadSnapshot \/ ReconcileNoChange \/ StressRetry PROVE WindowOK' /\ AbsenceIsFinal'
      BY <1>1, <2>2 DEF ReadSnapshot, ReconcileNoChange, StressRetry, durable, venue
  <2>3. ASSUME \/ ReconcileTicket \/ (\E passed \in BOOLEAN : AssessStress(passed))
               \/ SettleTicket \/ RecordTradeReview
        PROVE  WindowOK' /\ AbsenceIsFinal'
      BY <1>2, <2>3, PlainTransactions
  <2> QED BY <1>7, <2>1, <2>2, <2>3 DEF ReconNext
<1>8. CASE Maintain \/ OwnerExit BY <1>2, <1>8, PlainTransactions
<1>9. CASE Crash \/ UNCHANGED vars BY <1>1, <1>9 DEF Crash, vars, durable, venue
<1> QED BY <1>4, <1>5, <1>6, <1>7, <1>8, <1>9 DEF Next

\* If no request outlives its visibility window on the network, what recovery has
\* declared absent neither rests nor executed nor can still arrive: a replacement
\* command cannot double it.
THEOREM AbsenceStands ==
    ASSUME BoundedDelivery
    PROVE  Spec => []AbsenceIsFinal
<1>1. Init => WindowOK /\ AbsenceIsFinal BY DEF Init, WindowOK, AbsenceIsFinal, Unknown
<1>2. IInv /\ (WindowOK /\ AbsenceIsFinal) /\ [Next]_vars => (WindowOK /\ AbsenceIsFinal)'
    BY AbsenceStep
<1> QED BY <1>1, <1>2, Invariance, PTL DEF Spec

-----------------------------------------------------------------------------
(* Every unknown outcome keeps its incident. *)

-----------------------------------------------------------------------------
(* Rows on their way. *)

\* Such an update keeps the order of the rows.
LEMMA LaterKeeps ==
    ASSUME NEW before, NEW after, Later(before, after), NEW a
    PROVE  /\ Filed(before) => Filed(after)
           /\ InTurn(before) => InTurn(after)
           /\ OneOpenCancel(before) => OneOpenCancel(after)
           /\ CancelsInStage(before, a) => CancelsInStage(after, a)
           /\ \A c \in CommandId : IncidentOf(after, c) = IncidentOf(before, c)
<1>1. Filed(before) => Filed(after) BY DEF Later, Filed
<1>2. InTurn(before) => InTurn(after) BY DEF Later, InTurn
<1>3. OneOpenCancel(before) => OneOpenCancel(after) BY DEF Later, OneOpenCancel
<1>4. CancelsInStage(before, a) => CancelsInStage(after, a) BY DEF Later, CancelsInStage, InStage
<1>5. \A c \in CommandId : IncidentOf(after, c) = IncidentOf(before, c) BY DEF Later, IncidentOf
<1> QED BY <1>1, <1>2, <1>3, <1>4, <1>5

\* mark_cancel_reconciled_absent is such an update.
LEMMA MarkingIsLater ==
    ASSUME NEW rows \in [CommandId -> Row], NEW targets
    PROVE  Later(rows, MarkAbsent(rows, targets))
BY DEF Later, MarkAbsent, UnknownCancels, OpenRows, DecidedRows, Row

\* Updates one after the other.
LEMMA LaterStill ==
    ASSUME NEW first, NEW second, NEW third, Later(first, second), Later(second, third)
    PROVE  Later(first, third)
BY DEF Later

\* The incidents of unknown outcomes tell kinds and purposes apart.
LEMMA IncidentsDiffer ==
    ASSUME NEW k \in Kinds, NEW l \in Kinds, NEW p, NEW q,
           k = "CANCEL_ORDER" => p \in CancelPurposes, l = "CANCEL_ORDER" => q \in CancelPurposes,
           UnknownIncident(k, p) = UnknownIncident(l, q)
    PROVE  k = l /\ (k = "CANCEL_ORDER" => p = q)
BY DEF UnknownIncident, Kinds, CancelPurposes

\* No other event opens or resolves them.
LEMMA UnknownIncidents ==
    ASSUME NEW k \in Kinds, NEW p
    PROVE  /\ UnknownIncident(k, p) # "none"
           /\ UnknownIncident(k, p) # "unknown"
           /\ UnknownIncident(k, p) # "post_fill_risk_facts_unavailable"
<1>1. CASE k = "CANCEL_ORDER" BY <1>1 DEF UnknownIncident
<1>2. CASE k # "CANCEL_ORDER" BY <1>2 DEF UnknownIncident, Kinds
<1> QED BY <1>1, <1>2

\* At most one row of an incident kind is open.
LEMMA OneOpenRow ==
    ASSUME NEW rows, Filed(rows), InTurn(rows), OneOpenCancel(rows),
           NEW c \in CommandId, NEW d \in CommandId,
           rows[c].status \in OpenRows, rows[d].status \in OpenRows,
           IncidentOf(rows, c) = IncidentOf(rows, d)
    PROVE  c = d
<1>1. /\ c[1] \in Kinds /\ d[1] \in Kinds /\ c[2] \in Nat /\ d[2] \in Nat
      /\ c = <<c[1], c[2]>> /\ d = <<d[1], d[2]>>
    BY DEF CommandId, Generations
<1>2. rows[c].status # "NONE" /\ rows[d].status # "NONE" BY DEF OpenRows
<1>3. /\ c[1] = "CANCEL_ORDER" => rows[c].payload.purpose \in CancelPurposes
      /\ d[1] = "CANCEL_ORDER" => rows[d].payload.purpose \in CancelPurposes
    BY <1>2 DEF Filed
<1>4. /\ c[1] = d[1]
      /\ c[1] = "CANCEL_ORDER" => rows[c].payload.purpose = rows[d].payload.purpose
    BY <1>1, <1>3, IncidentsDiffer DEF IncidentOf
<1>5. CASE c[1] = "CANCEL_ORDER" BY <1>4, <1>5 DEF OneOpenCancel
<1>6. CASE c[1] # "CANCEL_ORDER"
  <2>1. ~ (c[2] < d[2]) /\ ~ (d[2] < c[2]) BY <1>2, <1>4, <1>6 DEF InTurn, OpenRows, DecidedRows
  <2> QED BY <1>1, <1>4, <2>1
<1> QED BY <1>5, <1>6

\* It is filed where its generation is due.
LEMMA RowFiled ==
    ASSUME NEW rows \in [CommandId -> Row], NEW marked \in [CommandId -> Row], Later(rows, marked),
           Filed(marked), InTurn(marked), OneOpenCancel(marked),
           NEW a, NEW b, CancelsInStage(marked, a),
           NEW p \in Payload, NEW g \in Generations, GenerationAllowed(rows, p, g),
           Due(a, b, p)
    PROVE  /\ Filed(Filing(marked, p, g)) /\ InTurn(Filing(marked, p, g))
           /\ OneOpenCancel(Filing(marked, p, g))
           /\ \A c \in CommandId :
                 \/ Filing(marked, p, g)[c] = marked[c]
                 \/ /\ Filing(marked, p, g)[c].status = "PREPARED"
                    /\ c[1] = "CANCEL_ORDER" => InStage(Filing(marked, p, g), b, c)
<1> DEFINE new == <<p.kind, g>>
           after == Filing(marked, p, g)
<1>0. p.kind \in Kinds /\ new \in CommandId /\ new[1] = p.kind /\ new[2] = g
    BY PayloadFields DEF CommandId
<1>1. /\ after[new].status = "PREPARED" /\ after[new].payload = p
      /\ \A c \in CommandId : c # new => after[c] = marked[c]
    BY <1>0 DEF Filing
<1> HIDE DEF after
<1>2. p.kind = "CANCEL_ORDER" => p.purpose \in CancelPurposes BY DEF Due, Requests, CancelPurposes
<1>3. marked[new].status = "NONE" /\ rows[new].status = "NONE" BY <1>0 DEF GenerationAllowed, Later
<1>4. Filed(after)
  <2> SUFFICES ASSUME NEW c \in CommandId
               PROVE  /\ after[c].payload.kind = c[1]
                      /\ c[1] = "CANCEL_ORDER" /\ after[c].status # "NONE" =>
                            after[c].payload.purpose \in CancelPurposes
      BY DEF Filed
  <2>1. CASE c = new BY <1>0, <1>1, <1>2, <2>1
  <2>2. CASE c # new BY <1>1, <2>2 DEF Filed
  <2> QED BY <2>1, <2>2
<1>5. p.kind # "CANCEL_ORDER" =>
         \A c \in CommandId : c[1] = p.kind /\ c[2] < g => marked[c].status \in DecidedRows
  <2> SUFFICES ASSUME p.kind # "CANCEL_ORDER", NEW c \in CommandId, c[1] = p.kind, c[2] < g
               PROVE  marked[c].status \in DecidedRows
      OBVIOUS
  <2>1. c[2] \in Generations /\ c = <<p.kind, c[2]>> BY DEF CommandId
  <2>0. g - 1 \in Generations /\ g > 1 BY <2>1, BoundAssumption DEF Generations
  <2> DEFINE last == <<p.kind, g - 1>>
  <2>2. last \in CommandId /\ last[1] = p.kind /\ last[2] = g - 1 BY <1>0, <2>0 DEF CommandId
  <2>3. rows[last].status \in DecidedRows
    <3>1. NextGenerationAllowed(p, rows[last]) BY <2>0 DEF GenerationAllowed, Due
    <3> QED BY <3>1 DEF NextGenerationAllowed, DecidedRows
  <2>4. marked[last].status \in DecidedRows BY <2>2, <2>3 DEF Later
  <2>5. CASE c[2] = g - 1 BY <2>1, <2>4, <2>5
  <2>6. CASE c[2] # g - 1
    <3>1. c[2] < last[2] /\ marked[last].status # "NONE"
        BY <2>1, <2>2, <2>4, <2>6 DEF Generations, DecidedRows
    <3> QED BY <2>2, <3>1 DEF InTurn
  <2> QED BY <2>5, <2>6
<1>6. InTurn(after)
  <2> SUFFICES ASSUME NEW c \in CommandId, NEW d \in CommandId, c[1] = d[1], c[1] # "CANCEL_ORDER",
                      c[2] < d[2], after[d].status # "NONE"
               PROVE  after[c].status \in DecidedRows
      BY DEF InTurn
  <2>1. CASE d = new BY <1>0, <1>1, <1>5, <2>1 DEF CommandId, Generations
  <2>2. CASE d # new /\ c # new BY <1>1, <2>2 DEF InTurn
  <2>3. CASE d # new /\ c = new
    <3>1. marked[new].status \in DecidedRows BY <1>0, <1>1, <2>3 DEF InTurn
    <3> QED BY <1>3, <3>1 DEF DecidedRows
  <2> QED BY <2>1, <2>2, <2>3
<1>7. ASSUME NEW c \in CommandId, p.kind = "CANCEL_ORDER", c[1] = "CANCEL_ORDER",
             marked[c].status \in OpenRows, marked[c].payload.purpose = p.purpose
      PROVE  FALSE
    BY <1>7 DEF CancelsInStage, InStage, Due, Requests
<1>8. OneOpenCancel(after)
  <2> SUFFICES ASSUME NEW c \in CommandId, NEW d \in CommandId,
                      c[1] = "CANCEL_ORDER", d[1] = "CANCEL_ORDER",
                      after[c].payload.purpose = after[d].payload.purpose,
                      after[c].status \in OpenRows, after[d].status \in OpenRows
               PROVE  c = d
      BY DEF OneOpenCancel
  <2>1. CASE c # new /\ d # new BY <1>1, <2>1 DEF OneOpenCancel
  <2>2. CASE c = new /\ d # new BY <1>0, <1>1, <1>7, <2>2
  <2>3. CASE c # new /\ d = new BY <1>0, <1>1, <1>7, <2>3
  <2> QED BY <2>1, <2>2, <2>3
<1>9. p.kind = "CANCEL_ORDER" => InStage(after, b, new) BY <1>1 DEF Due, Requests, InStage
<1> QED BY <1>0, <1>1, <1>4, <1>6, <1>8, <1>9 DEF after

-----------------------------------------------------------------------------
(* Transactions. *)

\* A careful reduction keeps the stages of the rows it leaves open.
LEMMA StagesKept ==
    ASSUME NEW rows, NEW a, CancelsInStage(rows, a), Filed(rows),
           NEW r, NEW incident, Careful(a, r, incident),
           \A c \in CommandId : rows[c].status \in OpenRows => IncidentOf(rows, c) # incident,
           incident = "unknown" => \A c \in CommandId :
              rows[c].status \in OpenRows /\ IncidentOf(rows, c) = CleanupIncident
              => rows[c].status = "OUTCOME_UNKNOWN"
    PROVE  CancelsInStage(rows, r.agg)
<1> SUFFICES ASSUME NEW c \in CommandId, c[1] = "CANCEL_ORDER", rows[c].status \in OpenRows
             PROVE  InStage(rows, r.agg, c)
    BY DEF CancelsInStage
<1>1. InStage(rows, a, c) /\ rows[c].payload.purpose \in CancelPurposes /\ IncidentOf(rows, c) # incident
    BY DEF CancelsInStage, Filed, OpenRows
<1>2. CASE rows[c].payload.purpose = "entry_remainder" BY <1>1, <1>2 DEF InStage, Careful
<1>3. CASE rows[c].payload.purpose = "runner_old_stop"
  <2>1. incident # "runner_old_stop_cancel_outcome_unknown"
      BY <1>1, <1>3 DEF IncidentOf, UnknownIncident
  <2> QED BY <1>1, <1>3, <2>1 DEF InStage, Careful
<1>4. CASE rows[c].payload.purpose = "reconciliation_cleanup"
  <2>1. IncidentOf(rows, c) = CleanupIncident BY <1>4 DEF IncidentOf, UnknownIncident, CleanupIncident
  <2>2. incident # "cancel_order_outcome_unknown" BY <1>1, <2>1 DEF CleanupIncident
  <2>3. InCleanup(r.agg) /\ rows[c].payload.target = r.agg.pendingCancel
      BY <1>1, <1>4, <2>2 DEF InStage, Careful
  <2>4. r.agg.status = "CANCEL_OUTCOME_UNKNOWN" => rows[c].status = "OUTCOME_UNKNOWN"
      BY <1>1, <1>4, <2>1 DEF InStage, Careful
  <2> QED BY <1>4, <2>3, <2>4 DEF InStage
<1> QED BY <1>1, <1>2, <1>3, <1>4 DEF CancelPurposes

\* A transaction keeps the fence when its reduction is careful for an incident whose row
\* it settles, and opens the incident of a row it makes unknown.
LEMMA FencedCommit ==
    ASSUME IInv, FenceInv, NEW rows \in [CommandId -> Row], Later(commands, rows),
           NEW au, NEW r, Commit(r, rows, au), r.prepare \subseteq Payload,
           NEW incident, Careful(agg, r, incident),
           \A c \in CommandId : MarkAbsent(rows, r.markAbsent)[c].status \in OpenRows =>
                                   IncidentOf(commands, c) # incident,
           incident = "unknown" => \A c \in CommandId :
              rows[c].status \in OpenRows /\ IncidentOf(commands, c) = CleanupIncident
              => rows[c].status = "OUTCOME_UNKNOWN",
           \A c \in CommandId : rows[c].status = "OUTCOME_UNKNOWN" =>
              commands[c].status = "OUTCOME_UNKNOWN" \/ IncidentOf(commands, c) \in r.open
    PROVE  FenceInv'
<1> DEFINE marked == MarkAbsent(rows, r.markAbsent)
<1>1. marked \in [CommandId -> Row] BY MarkAbsentRows
<1>2. Later(rows, marked) BY MarkingIsLater
<1>3. Later(commands, marked) BY <1>2, LaterStill
<1>4. /\ \A c \in CommandId : marked[c].status \in OpenRows => IncidentOf(commands, c) # incident
      /\ \/ r.prepare = {} /\ commands' = marked
         \/ \E p \in r.prepare, g \in Generations :
             /\ GenerationAllowed(rows, p, g)
             /\ commands' = [marked EXCEPT ![<<p.kind, g>>] =
                               [status |-> "PREPARED", timer |-> "running", payload |-> p]]
    BY DEF Commit
<1> HIDE DEF marked
<1>5. /\ Filed(marked) /\ InTurn(marked) /\ OneOpenCancel(marked) /\ CancelsInStage(marked, agg)
      /\ \A c \in CommandId : IncidentOf(marked, c) = IncidentOf(commands, c)
    BY <1>3, LaterKeeps DEF FenceInv
<1>6. CancelsInStage(marked, r.agg)
  <2>1. incident = "unknown" => \A c \in CommandId :
           marked[c].status \in OpenRows /\ IncidentOf(marked, c) = CleanupIncident
           => marked[c].status = "OUTCOME_UNKNOWN"
      BY <1>2, <1>5 DEF Later
  <2>2. \A c \in CommandId : marked[c].status \in OpenRows => IncidentOf(marked, c) # incident
      BY <1>4, <1>5
  <2> QED BY <1>5, <2>1, <2>2, StagesKept
<1>7. agg' = r.agg BY DEF Commit
<1>8. /\ Filed(commands') /\ InTurn(commands') /\ OneOpenCancel(commands')
      /\ \A c \in CommandId : \/ commands'[c] = marked[c]
                              \/ /\ commands'[c].status = "PREPARED"
                                 /\ c[1] = "CANCEL_ORDER" => InStage(commands', r.agg, c)
  <2>1. CASE commands' = marked BY <1>5, <2>1
  <2>2. CASE commands' # marked
    <3>1. PICK p \in r.prepare, g \in Generations :
             GenerationAllowed(rows, p, g) /\ commands' = Filing(marked, p, g)
        BY <1>4, <2>2 DEF Filing
    <3>2. p \in Payload /\ Due(agg, r.agg, p) BY DEF Careful, Due
    <3>3. /\ Filed(marked) /\ InTurn(marked) /\ OneOpenCancel(marked) /\ CancelsInStage(marked, agg)
          /\ GenerationAllowed(rows, p, g)
        BY <1>5, <3>1
    <3>4. /\ Filed(Filing(marked, p, g)) /\ InTurn(Filing(marked, p, g))
          /\ OneOpenCancel(Filing(marked, p, g))
          /\ \A c \in CommandId :
                 \/ Filing(marked, p, g)[c] = marked[c]
                 \/ /\ Filing(marked, p, g)[c].status = "PREPARED"
                    /\ c[1] = "CANCEL_ORDER" => InStage(Filing(marked, p, g), r.agg, c)
        BY ONLY <1>1, <1>2, <3>2, <3>3, RowFiled
    <3> QED BY <3>1, <3>4
  <2> QED BY <2>1, <2>2
<1>9. CancelsInStage(commands', agg')
  <2> SUFFICES ASSUME NEW c \in CommandId, c[1] = "CANCEL_ORDER", commands'[c].status \in OpenRows
               PROVE  InStage(commands', r.agg, c)
      BY <1>7 DEF CancelsInStage
  <2>1. CASE commands'[c] = marked[c]
    <3>1. InStage(marked, r.agg, c) BY <1>6, <2>1 DEF CancelsInStage
    <3> QED BY <2>1, <3>1 DEF InStage
  <2> QED BY <1>8, <2>1
<1>10. Fenced(commands', agg', incidents')
  <2> SUFFICES ASSUME agg'.status \notin ClosureStatuses, NEW c \in CommandId,
                      commands'[c].status = "OUTCOME_UNKNOWN"
               PROVE  IncidentOf(commands', c) \in incidents'
      BY DEF Fenced
  <2>1. commands'[c] = marked[c] BY <1>8
  <2>2. /\ IncidentOf(commands', c) = IncidentOf(marked, c)
        /\ IncidentOf(marked, c) = IncidentOf(commands, c)
      BY <1>5, <2>1 DEF IncidentOf
  <2>3. rows[c].status = "OUTCOME_UNKNOWN" BY <1>2, <2>1, MarkAbsentRows DEF marked
  <2>4. incidents' = (incidents \ r.resolve) \cup r.open BY <1>7 DEF Commit, Careful
  <2>5. CASE IncidentOf(commands, c) \in r.open BY <2>2, <2>4, <2>5
  <2>6. CASE commands[c].status = "OUTCOME_UNKNOWN"
    <3>1. agg.status \notin ClosureStatuses BY <1>7 DEF Careful
    <3>2. IncidentOf(commands, c) \in incidents
        BY <2>6, <3>1 DEF FenceInv, UnknownIsFenced, Unknown, IncidentOf
    <3>3. IncidentOf(commands, c) # incident BY <1>4, <2>1 DEF OpenRows
    <3>4. IncidentOf(commands, c) # "post_fill_risk_facts_unavailable"
      <4>1. c[1] \in Kinds BY DEF CommandId
      <4> QED BY <4>1, UnknownIncidents DEF IncidentOf
    <3>5. IncidentOf(commands, c) \notin r.resolve BY <3>3, <3>4 DEF Careful
    <3> QED BY <2>2, <2>4, <3>2, <3>5
  <2> QED BY <2>3, <2>5, <2>6
<1>11. UnknownIsFenced' BY <1>10 DEF Fenced, UnknownIsFenced, Unknown, IncidentOf
<1> QED BY <1>8, <1>9, <1>11 DEF FenceInv

-----------------------------------------------------------------------------
(* The events behind the transactions are careful. *)

\* The three results of a command.
LEMMA ThreeResults ==
    ASSUME NEW a, NEW accepted, NEW rejected, NEW unknown, NEW incident, NEW result \in Results,
           AllCareful(a, accepted, incident),
           AllCareful(a, rejected, incident) \/ AllCareful(a, rejected, "none"),
           \/ AllCareful(a, unknown, "none")
           \/ AllCareful(a, unknown, "unknown") /\ incident = CleanupIncident,
           AllOpen(unknown, incident)
    PROVE  \A r \in [ACCEPTED |-> accepted, REJECTED |-> rejected,
                     OUTCOME_UNKNOWN |-> unknown][result] : Answered(a, r, incident, result)
<1>1. CASE result = "ACCEPTED" BY <1>1 DEF AllCareful, Answered
<1>2. CASE result = "REJECTED" BY <1>2 DEF AllCareful, Answered
<1>3. CASE result = "OUTCOME_UNKNOWN" BY <1>3 DEF AllCareful, AllOpen, Answered
<1> QED BY <1>1, <1>2, <1>3 DEF Results

\* _cancel_result_event
LEMMA CancelResultCareful ==
    ASSUME NEW a \in Aggregate, NEW p \in Payload, p.kind = "CANCEL_ORDER", p.purpose \in CancelPurposes,
           NEW result \in Results, NEW r \in CancelResultEvent(a, p, result)
    PROVE  Answered(a, r, UnknownIncident(p.kind, p.purpose), result)
<1>0. a.status = CancelStatus(p.purpose) BY DEF CancelResultEvent
<1>1. CASE p.purpose = "entry_remainder"
  <2>1. UnknownIncident(p.kind, p.purpose) = "entry_remainder_cancel_outcome_unknown"
      BY <1>1 DEF UnknownIncident
  <2>2. r \in [ACCEPTED |-> EntryRemainderCancelConfirmed(a, p.target),
                REJECTED |-> EntryRemainderCancelRejected(a, p.target),
                OUTCOME_UNKNOWN |-> EntryRemainderCancelOutcomeUnknown(a, p.target)][result]
      BY <1>0, <1>1 DEF CancelResultEvent
  <2> QED BY <2>1, <2>2, ThreeResults, AcceptedEvents, RejectedEvents, UnknownEvents
          DEF CleanupIncident
<1>2. CASE p.purpose = "runner_old_stop"
  <2>1. UnknownIncident(p.kind, p.purpose) = "runner_old_stop_cancel_outcome_unknown"
      BY <1>2 DEF UnknownIncident
  <2>2. r \in [ACCEPTED |-> ProtectionCancelConfirmed(a, p.target),
                REJECTED |-> ProtectionCancelRejected(a, p.target),
                OUTCOME_UNKNOWN |-> ProtectionCancelOutcomeUnknown(a, p.target)][result]
      BY <1>0, <1>2 DEF CancelResultEvent
  <2> QED BY <2>1, <2>2, ThreeResults, AcceptedEvents, RejectedEvents, UnknownEvents
          DEF CleanupIncident
<1>3. CASE p.purpose = "reconciliation_cleanup"
  <2>1. UnknownIncident(p.kind, p.purpose) = "cancel_order_outcome_unknown" BY <1>3 DEF UnknownIncident
  <2>2. r \in [ACCEPTED |-> OwnedOrphanCancelConfirmed(a, p.target),
                REJECTED |-> CancelOrderRejected(a, p.target),
                OUTCOME_UNKNOWN |-> CancelOrderOutcomeUnknown(a, p.target)][result]
      BY <1>0, <1>3 DEF CancelResultEvent
  <2> QED BY <2>1, <2>2, ThreeResults, AcceptedEvents, RejectedEvents, UnknownEvents
          DEF CleanupIncident
<1> QED BY <1>1, <1>2, <1>3 DEF CancelPurposes

\* _command_result_event
LEMMA ResultCareful ==
    ASSUME NEW a \in Aggregate, NEW c, NEW p \in Payload,
           p.kind = "CANCEL_ORDER" => p.purpose \in CancelPurposes,
           NEW result \in Results, NEW r \in CommandResultEvent(a, c, p, result)
    PROVE  Answered(a, r, UnknownIncident(p.kind, p.purpose), result)
<1>1. CASE p.kind = "SET_LEVERAGE"
  <2>1. UnknownIncident(p.kind, p.purpose) = "leverage_outcome_unknown" BY <1>1 DEF UnknownIncident
  <2>2. r \in [ACCEPTED |-> LeverageConfirmed(a),
                REJECTED |-> LeverageRejected(a),
                OUTCOME_UNKNOWN |-> LeverageOutcomeUnknown(a)][result]
      BY <1>1 DEF CommandResultEvent
  <2> QED BY <2>1, <2>2, ThreeResults, AcceptedEvents, RejectedEvents, UnknownEvents
          DEF CleanupIncident
<1>2. CASE p.kind = "ENTRY"
  <2>1. UnknownIncident(p.kind, p.purpose) = "entry_outcome_unknown" BY <1>2 DEF UnknownIncident
  <2>2. r \in [ACCEPTED |-> EntryAccepted(a, c),
                REJECTED |-> EntryRejected(a),
                OUTCOME_UNKNOWN |-> EntryOutcomeUnknown(a)][result]
      BY <1>2 DEF CommandResultEvent
  <2> QED BY <2>1, <2>2, ThreeResults, AcceptedEvents, RejectedEvents, UnknownEvents
          DEF CleanupIncident
<1>3. CASE p.kind = "INITIAL_STOP"
  <2>1. UnknownIncident(p.kind, p.purpose) = "initial_stop_outcome_unknown" BY <1>3 DEF UnknownIncident
  <2>2. r \in [ACCEPTED |-> InitialStopConfirmed(a, c, a.positionQty),
                REJECTED |-> InitialStopRejected(a),
                OUTCOME_UNKNOWN |-> InitialStopOutcomeUnknown(a)][result]
      BY <1>3 DEF CommandResultEvent
  <2> QED BY <2>1, <2>2, ThreeResults, AcceptedEvents, RejectedEvents, UnknownEvents
          DEF CleanupIncident
<1>4. CASE p.kind = "TAKE_PROFIT"
  <2>1. UnknownIncident(p.kind, p.purpose) = "take_profit_outcome_unknown" BY <1>4 DEF UnknownIncident
  <2>2. r \in [ACCEPTED |-> TakeProfitConfirmed(a, c, p.qty),
                REJECTED |-> TakeProfitRejected(a),
                OUTCOME_UNKNOWN |-> TakeProfitOutcomeUnknown(a)][result]
      BY <1>4 DEF CommandResultEvent
  <2> QED BY <2>1, <2>2, ThreeResults, AcceptedEvents, RejectedEvents, UnknownEvents
          DEF CleanupIncident
<1>5. CASE p.kind = "REPLACE_PROTECTION"
  <2>1. UnknownIncident(p.kind, p.purpose) = "protection_replacement_outcome_unknown"
      BY <1>5 DEF UnknownIncident
  <2>2. r \in [ACCEPTED |-> ProtectionReplacementConfirmed(a, c, p.qty, p.price, p.target),
                REJECTED |-> ProtectionReplacementRejected(a),
                OUTCOME_UNKNOWN |-> ProtectionReplacementOutcomeUnknown(a)][result]
      BY <1>5 DEF CommandResultEvent
  <2> QED BY <2>1, <2>2, ThreeResults, AcceptedEvents, RejectedEvents, UnknownEvents
          DEF CleanupIncident
<1>6. CASE p.kind = "EXIT"
  <2>1. UnknownIncident(p.kind, p.purpose) = "exit_outcome_unknown" BY <1>6 DEF UnknownIncident
  <2>2. r \in [ACCEPTED |-> ExitAccepted(a),
                REJECTED |-> ExitRejected(a),
                OUTCOME_UNKNOWN |-> ExitOutcomeUnknown(a)][result]
      BY <1>6 DEF CommandResultEvent
  <2> QED BY <2>1, <2>2, ThreeResults, AcceptedEvents, RejectedEvents, UnknownEvents
          DEF CleanupIncident
<1>7. CASE p.kind = "CONTROLLED_FLATTEN"
  <2>1. UnknownIncident(p.kind, p.purpose) = "controlled_flatten_outcome_unknown"
      BY <1>7 DEF UnknownIncident
  <2>2. r \in [ACCEPTED |-> ControlledFlattenAccepted(a),
                REJECTED |-> ControlledFlattenRejected(a),
                OUTCOME_UNKNOWN |-> ControlledFlattenOutcomeUnknown(a)][result]
      BY <1>7 DEF CommandResultEvent
  <2> QED BY <2>1, <2>2, ThreeResults, AcceptedEvents, RejectedEvents, UnknownEvents
          DEF CleanupIncident
<1>8. CASE p.kind = "CANCEL_ORDER" BY <1>8, CancelResultCareful DEF CommandResultEvent
<1> QED BY <1>1, <1>2, <1>3, <1>4, <1>5, <1>6, <1>7, <1>8, PayloadFields DEF Kinds

\* _recovery_event: it settles its own row, a cancel found absent by its reduction.
LEMMA RecoveryCareful ==
    ASSUME NEW a \in Aggregate, NEW c, NEW p \in Payload, NEW decision,
           NEW r \in RecoveryEvent(a, c, p, decision)
    PROVE  /\ Careful(a, r, UnknownIncident(p.kind, p.purpose))
           /\ p.kind = "CANCEL_ORDER" =>
                 \/ decision = "RECONCILED_ABSENT" /\ p.target \in r.markAbsent
                 \/ decision = "CANCEL_TARGET_STILL_OPEN"
<1>1. CASE p.kind = "SET_LEVERAGE"
  <2>1. UnknownIncident(p.kind, p.purpose) = "leverage_outcome_unknown" BY <1>1 DEF UnknownIncident
  <2>2. r \in LeverageConfirmed(a) \/ r \in LeverageRejected(a) BY <1>1 DEF RecoveryEvent
  <2> QED BY <1>1, <2>1, <2>2, AcceptedEvents, AbsenceEvents, RejectedEvents DEF AllCareful
<1>2. CASE p.kind = "ENTRY"
  <2>1. UnknownIncident(p.kind, p.purpose) = "entry_outcome_unknown" BY <1>2 DEF UnknownIncident
  <2>2. r \in EntryAccepted(a, c) \/ r \in EntryAbsenceConfirmed(a) BY <1>2 DEF RecoveryEvent
  <2> QED BY <1>2, <2>1, <2>2, AcceptedEvents, AbsenceEvents, RejectedEvents DEF AllCareful
<1>3. CASE p.kind = "INITIAL_STOP"
  <2>1. UnknownIncident(p.kind, p.purpose) = "initial_stop_outcome_unknown" BY <1>3 DEF UnknownIncident
  <2>2. r \in InitialStopConfirmed(a, c, a.positionQty) \/ r \in InitialStopAbsenceConfirmed(a)
      BY <1>3 DEF RecoveryEvent
  <2> QED BY <1>3, <2>1, <2>2, AcceptedEvents, AbsenceEvents, RejectedEvents DEF AllCareful
<1>4. CASE p.kind = "TAKE_PROFIT"
  <2>1. UnknownIncident(p.kind, p.purpose) = "take_profit_outcome_unknown" BY <1>4 DEF UnknownIncident
  <2>2. r \in TakeProfitConfirmed(a, c, p.qty) \/ r \in TakeProfitAbsenceConfirmed(a)
      BY <1>4 DEF RecoveryEvent
  <2> QED BY <1>4, <2>1, <2>2, AcceptedEvents, AbsenceEvents, RejectedEvents DEF AllCareful
<1>5. CASE p.kind = "REPLACE_PROTECTION"
  <2>1. UnknownIncident(p.kind, p.purpose) = "protection_replacement_outcome_unknown"
      BY <1>5 DEF UnknownIncident
  <2>2. \/ r \in ProtectionReplacementConfirmed(a, c, p.qty, p.price, p.target)
        \/ r \in ProtectionReplacementAbsenceConfirmed(a)
      BY <1>5 DEF RecoveryEvent
  <2> QED BY <1>5, <2>1, <2>2, AcceptedEvents, AbsenceEvents, RejectedEvents DEF AllCareful
<1>6. CASE p.kind = "EXIT"
  <2>1. UnknownIncident(p.kind, p.purpose) = "exit_outcome_unknown" BY <1>6 DEF UnknownIncident
  <2>2. r \in ExitAccepted(a) \/ r \in ExitAbsenceConfirmed(a) BY <1>6 DEF RecoveryEvent
  <2> QED BY <1>6, <2>1, <2>2, AcceptedEvents, AbsenceEvents, RejectedEvents DEF AllCareful
<1>7. CASE p.kind = "CONTROLLED_FLATTEN"
  <2>1. UnknownIncident(p.kind, p.purpose) = "controlled_flatten_outcome_unknown"
      BY <1>7 DEF UnknownIncident
  <2>2. r \in ControlledFlattenAccepted(a) \/ r \in ControlledFlattenAbsenceConfirmed(a)
      BY <1>7 DEF RecoveryEvent
  <2> QED BY <1>7, <2>1, <2>2, AcceptedEvents, AbsenceEvents, RejectedEvents DEF AllCareful
<1>8. CASE p.kind = "CANCEL_ORDER"
  <2>0. r \in CancelRecoveryEvent(a, p, decision) BY <1>8 DEF RecoveryEvent
  <2>1. CASE p.purpose = "entry_remainder"
    <3>1. UnknownIncident(p.kind, p.purpose) = "entry_remainder_cancel_outcome_unknown"
        BY <1>8, <2>1 DEF UnknownIncident
    <3>2. /\ decision = "RECONCILED_ABSENT" /\ a.status = "PARTIAL_FILL_CANCEL_OUTCOME_UNKNOWN"
          /\ r \in EntryRemainderCancelConfirmed(a, p.target)
        BY <2>0, <2>1 DEF CancelRecoveryEvent
    <3> QED BY <3>1, <3>2, AcceptedEvents, MarkingEvents DEF AllCareful, AllMark
  <2>2. CASE p.purpose = "runner_old_stop"
    <3>1. UnknownIncident(p.kind, p.purpose) = "runner_old_stop_cancel_outcome_unknown"
        BY <1>8, <2>2 DEF UnknownIncident
    <3>2. decision = "RECONCILED_ABSENT" /\ r \in ProtectionCancelAbsenceConfirmed(a, p.target)
        BY <2>0, <2>2 DEF CancelRecoveryEvent
    <3> QED BY <3>1, <3>2, AbsenceEvents, MarkingEvents DEF AllCareful, AllMark
  <2>3. CASE p.purpose = "reconciliation_cleanup"
    <3>1. UnknownIncident(p.kind, p.purpose) = "cancel_order_outcome_unknown"
        BY <1>8, <2>3 DEF UnknownIncident
    <3>2. \/ /\ decision = "CANCEL_TARGET_STILL_OPEN"
             /\ r \in CancelOrderStillOpenConfirmed(a, p.target)
          \/ /\ decision = "RECONCILED_ABSENT" /\ a.status = "CANCEL_OUTCOME_UNKNOWN"
             /\ r \in CancelOrderAbsenceConfirmed(a, p.target)
        BY <2>0, <2>3 DEF CancelRecoveryEvent
    <3> QED BY <3>1, <3>2, AbsenceEvents, MarkingEvents DEF AllCareful, AllMark
  <2>4. p.purpose \in CancelPurposes BY <2>0 DEF CancelRecoveryEvent, CancelPurposes
  <2> QED BY <2>1, <2>2, <2>3, <2>4 DEF CancelPurposes
<1> QED BY <1>1, <1>2, <1>3, <1>4, <1>5, <1>6, <1>7, <1>8, PayloadFields DEF Kinds

\* reconcile_ticket: it settles a cleanup cancel whose outcome is unknown, or nothing.
LEMMA SnapshotCareful ==
    ASSUME NEW a \in Aggregate, NEW s, s.open \subseteq CommandId, NEW r \in SnapshotEvent(a, s)
    PROVE  \/ Careful(a, r, "none")
           \/ /\ a.status = "CANCEL_OUTCOME_UNKNOWN" /\ Careful(a, r, CleanupIncident)
              /\ a.pendingCancel \in r.markAbsent
<1>1. CASE a.status = "ENTRY_ACCEPTED"
  <2>1. r \in EntryFillEvent(a, s.qty)
      BY <1>1 DEF SnapshotEvent, ExitStatuses, FlattenStatuses, Tp1Statuses, RunnerStatuses
  <2>2. \/ r \in EntryPartiallyFilled(a, s.qty)
        \/ \E d \in Dispositions : r \in EntryFilled(a, s.qty, d)
      BY <2>1 DEF EntryFillEvent
  <2> QED BY <2>2, OtherEvents DEF AllCareful
<1>2. CASE a.status = "RECONCILIATION_PENDING"
  <2> DEFINE known == NextCleanupOrder(a)
             regular == {c \in s.open : NamespaceOf(c) = "regular"}
             shown == IF regular # {} THEN regular ELSE s.open
  <2>1. r \in CleanupEvent(a, s)
      BY <1>2 DEF SnapshotEvent, ExitStatuses, FlattenStatuses, Tp1Statuses, RunnerStatuses
  <2>2. /\ a.pendingCancel = NoOrder
        /\ \/ r \in UnownedOrderDetected(a) \/ r \in ReconciliationMatched(a)
           \/ known # NoOrder /\ r \in OwnedOrderAbsenceConfirmed(a, known)
           \/ known # NoOrder /\ r \in OwnedOrphanOrderDetected(a, known, "conditional")
           \/ \E c \in shown : r \in OwnedOrphanOrderDetected(a, c, NamespaceOf(c))
      BY <2>1 DEF CleanupEvent
  <2>3. \A c \in shown : c # NoOrder BY NoOrderAssumption
  <2> HIDE DEF known, shown
  <2>4. /\ AllCareful(a, UnownedOrderDetected(a), "none")
        /\ AllCareful(a, ReconciliationMatched(a), "none")
      BY OtherEvents
  <2>5. \A o, n : o # NoOrder => /\ AllCareful(a, OwnedOrderAbsenceConfirmed(a, o), "none")
                                /\ AllCareful(a, OwnedOrphanOrderDetected(a, o, n), "none")
      BY <2>2, OrphanEvents
  <2> QED BY <2>2, <2>3, <2>4, <2>5 DEF AllCareful
<1>3. CASE a.status \in {"CANCEL_REJECTED", "CANCEL_OUTCOME_UNKNOWN"}
  <2>1. r \in CancelFollowUpEvent(a, s)
      BY <1>3 DEF SnapshotEvent, ExitStatuses, FlattenStatuses, Tp1Statuses, RunnerStatuses
  <2>2. /\ a.pendingCancel # NoOrder
        /\ \/ r \in CancelOrderAbsenceConfirmed(a, a.pendingCancel)
           \/ /\ a.status = "CANCEL_REJECTED"
              /\ r \in OwnedOrphanOrderDetected(a, a.pendingCancel, NamespaceOf(a.pendingCancel))
      BY <1>3, <2>1 DEF CancelFollowUpEvent
  <2>3. CASE r \in CancelOrderAbsenceConfirmed(a, a.pendingCancel)
      BY <2>3, AbsenceEvents, MarkingEvents DEF AllCareful, AllMark, CleanupIncident
  <2>4. CASE /\ a.status = "CANCEL_REJECTED"
             /\ r \in OwnedOrphanOrderDetected(a, a.pendingCancel, NamespaceOf(a.pendingCancel))
      BY <2>2, <2>4, OrphanEvents DEF AllCareful
  <2> QED BY <2>2, <2>3, <2>4
<1>4. CASE a.status \notin {"ENTRY_ACCEPTED", "RECONCILIATION_PENDING", "CANCEL_REJECTED",
                            "CANCEL_OUTCOME_UNKNOWN"}
  <2>1. r \in PositionFlatConfirmed(a) \/ r \in ExternalFlatDetected(a) BY <1>4 DEF SnapshotEvent
  <2> QED BY <2>1, OtherEvents DEF AllCareful
<1> QED BY <1>1, <1>2, <1>3, <1>4

\* The maintenance of the Lifecycle worker settles nothing.
LEMMA MaintenanceCareful ==
    ASSUME NEW a \in Aggregate, NEW r \in MaintenanceEvent(a)
    PROVE  Careful(a, r, "none")
<1>1. \/ r \in ExitRequested(a)
      \/ \E floor \in Prices : r \in TakeProfitFilled(a, a.tp1Target, floor)
      \/ \E price \in Prices : r \in RunnerStopRequested(a, price)
    BY DEF MaintenanceEvent, FloorEvent, RunnerEvent
<1> QED BY <1>1, OtherEvents DEF AllCareful

-----------------------------------------------------------------------------
(* Every step keeps the fence. *)

\* A step that changes existing rows only, or neither rows nor incidents.
LEMMA RowsMoveOn ==
    ASSUME FenceInv, Later(commands, commands'), UNCHANGED agg, incidents \subseteq incidents',
           \A c \in CommandId : commands'[c].status = "OUTCOME_UNKNOWN" => Unknown(c)
    PROVE  FenceInv'
<1>1. /\ Filed(commands') /\ InTurn(commands') /\ OneOpenCancel(commands')
      /\ CancelsInStage(commands', agg)
    BY LaterKeeps DEF FenceInv
<1>2. UnknownIsFenced'
  <2> SUFFICES ASSUME agg'.status \notin ClosureStatuses, NEW c \in CommandId,
                      commands'[c].status = "OUTCOME_UNKNOWN"
               PROVE  UnknownIncident(c[1], commands'[c].payload.purpose) \in incidents'
      BY DEF UnknownIsFenced, Unknown
  <2>1. commands'[c].payload = commands[c].payload BY DEF Later
  <2>2. UnknownIncident(c[1], commands[c].payload.purpose) \in incidents
      BY DEF FenceInv, UnknownIsFenced
  <2> QED BY <2>1, <2>2
<1> QED BY <1>1, <1>2 DEF FenceInv

\* Nothing durable changes.
LEMMA NothingDurable ==
    ASSUME FenceInv, UNCHANGED durable
    PROVE  FenceInv'
<1>1. Later(commands, commands') /\ UNCHANGED <<agg, incidents, commands>> BY DEF Later, durable
<1> QED BY <1>1, RowsMoveOn DEF Unknown

\* The rows of a worker that moves row c on.
LEMMA MovedRows ==
    ASSUME NEW rows \in [CommandId -> Row], NEW c \in CommandId, NEW status \in RowStatuses,
           \/ rows[c].status = "PREPARED" /\ status \in {"CLAIMED", "SUPERSEDED"}
           \/ rows[c].status = "CLAIMED" /\ status \in Results
           \/ rows[c].status = "OUTCOME_UNKNOWN" /\ status \in DecidedRows
    PROVE  /\ SetStatus(rows, c, status) \in [CommandId -> Row]
           /\ SetStatus(rows, c, status)[c].status = status
           /\ \A d \in CommandId : d # c => SetStatus(rows, c, status)[d] = rows[d]
           /\ Later(rows, SetStatus(rows, c, status))
<1>1. /\ SetStatus(rows, c, status) \in [CommandId -> Row]
      /\ SetStatus(rows, c, status)[c].status = status
      /\ \A d \in CommandId : d # c => SetStatus(rows, c, status)[d] = rows[d]
    BY SetStatusRows
<1>2. SetStatus(rows, c, status)[c].payload = rows[c].payload BY DEF SetStatus
<1>3. ASSUME NEW d \in CommandId
      PROVE  LET after == SetStatus(rows, c, status)
             IN /\ after[d].payload = rows[d].payload
                /\ after[d].status = "NONE" <=> rows[d].status = "NONE"
                /\ rows[d].status \in DecidedRows => after[d].status \in DecidedRows
                /\ after[d].status \in OpenRows =>
                      /\ rows[d].status \in OpenRows
                      /\ rows[d].status = "OUTCOME_UNKNOWN" => after[d].status = "OUTCOME_UNKNOWN"
  <2>1. CASE d = c BY <1>1, <1>2, <2>1 DEF OpenRows, DecidedRows, Results
  <2>2. CASE d # c BY <1>1, <2>2
  <2> QED BY <2>1, <2>2
<1>4. Later(rows, SetStatus(rows, c, status)) BY <1>3 DEF Later
<1> QED BY <1>1, <1>4

\* A row that is settled was the only open one of its incident.
LEMMA SettledAlone ==
    ASSUME FenceInv, NEW c \in CommandId, commands[c].status \in OpenRows,
           NEW rows, Later(commands, rows), rows[c].status \notin OpenRows,
           NEW d \in CommandId, rows[d].status \in OpenRows
    PROVE  IncidentOf(commands, d) # IncidentOf(commands, c)
<1>1. commands[d].status \in OpenRows /\ d # c BY DEF Later
<1> QED BY <1>1, OneOpenRow DEF FenceInv

\* dispatch_one_command's transactions on a result
LEMMA ResultFenced ==
    ASSUME IInv, FenceInv, NEW c \in CommandId, commands[c].status = "CLAIMED", NEW result \in Results,
           \E r \in CommandResultEvent(agg, c, commands[c].payload, result) :
              Commit(r, SetStatus(commands, c, result), held)
    PROVE  FenceInv'
<1> DEFINE rows == SetStatus(commands, c, result)
           own == IncidentOf(commands, c)
<1>0. agg \in Aggregate /\ commands \in [CommandId -> Row] /\ commands[c].payload \in Payload
    BY DEF IInv, TypeOK, Row
<1>1. PICK r \in CommandResultEvent(agg, c, commands[c].payload, result) : Commit(r, rows, held) OBVIOUS
<1>2. /\ rows \in [CommandId -> Row] /\ rows[c].status = result /\ Later(commands, rows)
      /\ \A d \in CommandId : d # c => rows[d] = commands[d]
    BY <1>0, MovedRows DEF Results, RowStatuses
<1>3. /\ commands[c].payload.kind = c[1]
      /\ c[1] = "CANCEL_ORDER" => commands[c].payload.purpose \in CancelPurposes
    BY DEF FenceInv, Filed
<1>4. Answered(agg, r, own, result) BY <1>0, <1>1, <1>3, ResultCareful DEF IncidentOf
<1>5. r.prepare \subseteq Payload BY <1>0, <1>1, CommandResultSound DEF AllSound, Sound, WellFormed
<1>6. Later(rows, MarkAbsent(rows, r.markAbsent)) /\ Later(commands, MarkAbsent(rows, r.markAbsent))
    BY <1>2, MarkingIsLater, LaterStill
<1> DEFINE marked == MarkAbsent(rows, r.markAbsent)
<1>7. commands[c].status \in OpenRows BY DEF OpenRows
<1>8. \A d \in CommandId : IncidentOf(commands, d) # "none" /\ IncidentOf(commands, d) # "unknown"
    BY UnknownIncidents DEF IncidentOf, CommandId
<1>9. \A d \in CommandId : rows[d].status = "OUTCOME_UNKNOWN" =>
         commands[d].status = "OUTCOME_UNKNOWN" \/ (d = c /\ result = "OUTCOME_UNKNOWN")
    BY <1>2
<1> HIDE DEF rows, own
<1>10. CASE Careful(agg, r, "none") /\ (result = "OUTCOME_UNKNOWN" => own \in r.open)
  <2>1. \A d \in CommandId : rows[d].status = "OUTCOME_UNKNOWN" =>
           commands[d].status = "OUTCOME_UNKNOWN" \/ IncidentOf(commands, d) \in r.open
      BY <1>9, <1>10 DEF own
  <2> QED BY <1>1, <1>2, <1>5, <1>8, <1>10, <2>1, FencedCommit
<1>11. CASE Careful(agg, r, own) /\ result # "OUTCOME_UNKNOWN"
  <2>1. rows[c].status \notin OpenRows BY <1>2, <1>11 DEF OpenRows, Results
  <2>2. marked[c].status \notin OpenRows BY <1>6, <2>1 DEF Later
  <2>3. \A d \in CommandId : marked[d].status \in OpenRows => IncidentOf(commands, d) # own
      BY <1>6, <1>7, <2>2, SettledAlone DEF own
  <2>4. own # "unknown" BY <1>8 DEF own
  <2> QED BY <1>1, <1>2, <1>5, <1>9, <1>11, <2>3, <2>4, FencedCommit
<1>12. CASE /\ Careful(agg, r, "unknown") /\ result = "OUTCOME_UNKNOWN"
            /\ own = CleanupIncident /\ own \in r.open
  <2>1. \A d \in CommandId : rows[d].status = "OUTCOME_UNKNOWN" =>
           commands[d].status = "OUTCOME_UNKNOWN" \/ IncidentOf(commands, d) \in r.open
      BY <1>9, <1>12 DEF own
  <2>2. ASSUME NEW d \in CommandId, rows[d].status \in OpenRows, IncidentOf(commands, d) = CleanupIncident
        PROVE  rows[d].status = "OUTCOME_UNKNOWN"
    <3>1. commands[d].status \in OpenRows BY <1>2, <2>2 DEF Later
    <3>2. d = c BY <1>7, <1>12, <2>2, <3>1, OneOpenRow DEF FenceInv, own
    <3> QED BY <1>2, <1>12, <3>2
  <2> QED BY <1>1, <1>2, <1>5, <1>8, <1>12, <2>1, <2>2, FencedCommit
<1> QED BY <1>4, <1>10, <1>11, <1>12 DEF Answered

\* recover_unknown_command
LEMMA RecoveryFenced ==
    ASSUME IInv, FenceInv, NEW c \in CommandId, RecoverUnknown(c)
    PROVE  FenceInv'
<1> DEFINE own == IncidentOf(commands, c)
<1>0. agg \in Aggregate /\ commands \in [CommandId -> Row] /\ commands[c].payload \in Payload
    BY DEF IInv, TypeOK, Row
<1>1. PICK decision \in RecoveryDecisions(c) :
         \E r \in RecoveryEvent(agg, c, commands[c].payload, decision) :
            Commit(r, RecoveredRows(c, decision), held)
    BY DEF RecoverUnknown
<1> DEFINE rows == RecoveredRows(c, decision)
<1>2. PICK r \in RecoveryEvent(agg, c, commands[c].payload, decision) : Commit(r, rows, held) BY <1>1
<1>3. commands[c].status = "OUTCOME_UNKNOWN" /\ commands[c].payload.kind = c[1]
    BY DEF RecoverUnknown, Unknown, FenceInv, Filed
<1>4. /\ Careful(agg, r, own)
      /\ c[1] = "CANCEL_ORDER" =>
            \/ decision = "RECONCILED_ABSENT" /\ commands[c].payload.target \in r.markAbsent
            \/ decision = "CANCEL_TARGET_STILL_OPEN"
    BY <1>0, <1>2, <1>3, RecoveryCareful DEF IncidentOf
<1>5. r.prepare \subseteq Payload BY <1>0, <1>2, RecoverySound DEF AllSound, Sound, WellFormed
<1>6. ASSUME NEW status \in {"RECONCILED_ACCEPTED", "RECONCILED_ABSENT"}
      PROVE  /\ SetStatus(commands, c, status) \in [CommandId -> Row]
             /\ SetStatus(commands, c, status)[c].status = status
             /\ \A d \in CommandId : d # c => SetStatus(commands, c, status)[d] = commands[d]
             /\ Later(commands, SetStatus(commands, c, status))
    BY <1>0, <1>3, MovedRows DEF DecidedRows, RowStatuses
<1>7. /\ rows \in [CommandId -> Row] /\ Later(commands, rows)
      /\ \A d \in CommandId : rows[d].status = "OUTCOME_UNKNOWN" => commands[d].status = "OUTCOME_UNKNOWN"
      /\ ~ (c[1] = "CANCEL_ORDER" /\ decision = "RECONCILED_ABSENT") => rows[c].status \notin OpenRows
      /\ c[1] = "CANCEL_ORDER" /\ decision = "RECONCILED_ABSENT" => rows = commands
  <2>1. CASE c[1] = "CANCEL_ORDER" /\ decision = "RECONCILED_ABSENT"
    <3>1. rows = commands BY <2>1 DEF RecoveredRows
    <3>2. Later(commands, commands) BY DEF Later
    <3> HIDE DEF rows
    <3> QED BY <1>0, <2>1, <3>1, <3>2
  <2>2. CASE ~ (c[1] = "CANCEL_ORDER" /\ decision = "RECONCILED_ABSENT")
    <3>1. PICK status \in {"RECONCILED_ACCEPTED", "RECONCILED_ABSENT"} :
             rows = SetStatus(commands, c, status)
        BY <2>2 DEF RecoveredRows
    <3> HIDE DEF rows
    <3> QED BY <1>6, <2>2, <3>1 DEF OpenRows
  <2> QED BY <2>1, <2>2
<1> DEFINE marked == MarkAbsent(rows, r.markAbsent)
<1>8. Later(rows, marked) /\ Later(commands, marked) BY <1>7, MarkingIsLater, LaterStill
<1>9. marked[c].status \notin OpenRows
  <2>1. CASE c[1] = "CANCEL_ORDER" /\ decision = "RECONCILED_ABSENT"
    <3>1. rows = commands /\ commands[c].payload.target \in r.markAbsent BY <1>4, <1>7, <2>1
    <3> HIDE DEF rows
    <3>2. c \in UnknownCancels(rows, commands[c].payload.target) BY <1>3, <2>1, <3>1 DEF UnknownCancels
    <3> QED BY <3>1, <3>2 DEF MarkAbsent, OpenRows
  <2>2. CASE ~ (c[1] = "CANCEL_ORDER" /\ decision = "RECONCILED_ABSENT") BY <1>7, <1>8, <2>2 DEF Later
  <2> QED BY <2>1, <2>2
<1>10. commands[c].status \in OpenRows BY <1>3 DEF OpenRows
<1> HIDE DEF rows
<1>11. \A d \in CommandId : marked[d].status \in OpenRows => IncidentOf(commands, d) # own
    BY <1>8, <1>9, <1>10, SettledAlone
<1>12. own # "unknown" BY UnknownIncidents DEF IncidentOf, CommandId
<1> HIDE DEF own
<1> QED BY <1>2, <1>4, <1>5, <1>7, <1>11, <1>12, FencedCommit

\* The transactions that leave the rows to commit_reduction and settle nothing.
LEMMA PlainFenced ==
    ASSUME IInv, FenceInv, NEW r, NEW au, Commit(r, commands, au), r.prepare \subseteq Payload,
           Careful(agg, r, "none")
    PROVE  FenceInv'
<1>1. commands \in [CommandId -> Row] /\ Later(commands, commands) BY DEF IInv, TypeOK, Later
<1>2. \A c \in CommandId : IncidentOf(commands, c) # "none"
    BY UnknownIncidents DEF IncidentOf, CommandId
<1> QED BY <1>1, <1>2, FencedCommit

\* reconcile_ticket
LEMMA SnapshotFenced ==
    ASSUME IInv, FenceInv, ReconcileTicket
    PROVE  FenceInv'
<1>0. /\ agg \in Aggregate /\ commands \in [CommandId -> Row]
      /\ recon.qty \in Quantities /\ recon.open \subseteq CommandId
    BY DEF IInv, TypeOK
<1>1. PICK r \in SnapshotEvent(agg, recon) : Commit(r, commands, held) BY DEF ReconcileTicket
<1>2. r.prepare \subseteq Payload BY <1>0, <1>1, SnapshotSound DEF AllSound, Sound, WellFormed
<1>3. CASE Careful(agg, r, "none") BY <1>1, <1>2, <1>3, PlainFenced
<1>4. CASE /\ agg.status = "CANCEL_OUTCOME_UNKNOWN" /\ Careful(agg, r, CleanupIncident)
           /\ agg.pendingCancel \in r.markAbsent
  <2> DEFINE marked == MarkAbsent(commands, r.markAbsent)
  <2>1. ASSUME NEW d \in CommandId, marked[d].status \in OpenRows, IncidentOf(commands, d) = CleanupIncident
        PROVE  FALSE
    <3>1. commands[d].status \in OpenRows BY <1>0, <2>1, MarkingIsLater DEF Later
    <3>2. d[1] \in Kinds BY DEF CommandId
    <3>3. d[1] = "CANCEL_ORDER" BY <2>1, <3>2 DEF IncidentOf, UnknownIncident, CleanupIncident, Kinds
    <3>4. commands[d].payload.purpose \in CancelPurposes BY <3>1, <3>3 DEF FenceInv, Filed, OpenRows
    <3>5. commands[d].payload.purpose = "reconciliation_cleanup"
        BY <2>1, <3>3, <3>4 DEF IncidentOf, UnknownIncident, CleanupIncident, CancelPurposes
    <3>6. commands[d].payload.target = agg.pendingCancel /\ commands[d].status = "OUTCOME_UNKNOWN"
        BY <1>4, <3>1, <3>3, <3>5 DEF FenceInv, CancelsInStage, InStage
    <3>7. d \in UnknownCancels(commands, agg.pendingCancel) BY <3>3, <3>6 DEF UnknownCancels
    <3>8. marked[d].status = "RECONCILED_ABSENT" BY <1>4, <3>7 DEF MarkAbsent
    <3> QED BY <2>1, <3>8 DEF OpenRows
  <2>2. Later(commands, commands) BY DEF Later
  <2>3. CleanupIncident # "unknown" BY DEF CleanupIncident
  <2> QED BY <1>0, <1>1, <1>2, <1>4, <2>1, <2>2, <2>3, FencedCommit
<1> QED BY <1>0, <1>1, <1>3, <1>4, SnapshotCareful

\* reconcile_post_fill_stress, which also resolves the incident of its retries
LEMMA StressFenced ==
    ASSUME IInv, FenceInv, NEW passed \in BOOLEAN, AssessStress(passed)
    PROVE  FenceInv'
<1> DEFINE resolved == incidents \cap {"post_fill_risk_facts_unavailable"}
<1>0. agg \in Aggregate BY DEF IInv, TypeOK
<1>1. PICK r \in PostFillStressAssessed(agg, passed) :
         Commit([r EXCEPT !.resolve = resolved], commands, held)
    BY DEF AssessStress
<1>2. Sound(agg, r) /\ Careful(agg, r, "none")
    BY <1>0, ProtectionEvents, OtherEvents, EntryCommandType, ConstantTypes DEF AllSound, AllCareful
<1> DEFINE s == [r EXCEPT !.resolve = resolved]
<1>3. resolved \subseteq {"post_fill_risk_facts_unavailable"} OBVIOUS
<1> HIDE DEF resolved
<1>4. /\ s.resolve = resolved /\ s.agg = r.agg /\ s.prepare = r.prepare
      /\ s.closesIncidents = r.closesIncidents
    BY DEF PostFillStressAssessed, When, Transition
<1> HIDE DEF s
<1>5. Careful(agg, s, "none") BY <1>2, <1>3, <1>4 DEF Careful
<1>6. s.prepare \subseteq Payload BY <1>2, <1>4 DEF Sound, WellFormed
<1>7. Commit(s, commands, held) BY <1>1 DEF s
<1> QED BY <1>5, <1>6, <1>7, PlainFenced

\* Every step of the Ticket keeps its unknown outcomes fenced.
LEMMA FenceStep ==
    ASSUME IInv, FenceInv, [Next]_vars
    PROVE  FenceInv'
<1>0. agg \in Aggregate /\ commands \in [CommandId -> Row] BY DEF IInv, TypeOK
<1>1. ASSUME NEW change \in BOOLEAN, IssueTicket(change) PROVE FenceInv'
  <2>1. PICK r \in TicketIssued(change) : Commit(r, commands, Authorities) BY <1>1 DEF IssueTicket
  <2>2. r.prepare \subseteq Payload BY IssueEvent DEF WellFormed
  <2>3. Careful(agg, r, "none") BY <1>1, IssueCareful DEF IssueTicket, AllCareful
  <2> QED BY <2>1, <2>2, <2>3, PlainFenced
<1>2. CASE DispatchNext
  <2>1. ASSUME NEW c \in CommandId, ExpireClaim(c) PROVE FenceInv'
      BY <2>1, ResultFenced DEF ExpireClaim, LapsedClaim, Results
  <2>2. ASSUME NEW c \in CommandId, ClaimPrepared(c) \/ Supersede(c) PROVE FenceInv'
    <3>1. PICK status \in {"CLAIMED", "SUPERSEDED"} : commands' = SetStatus(commands, c, status)
        BY <2>2 DEF ClaimPrepared, Supersede
    <3>2. commands[c].status = "PREPARED" /\ UNCHANGED <<agg, incidents>>
        BY <2>2 DEF ClaimPrepared, Supersede, Selects, Claimable
    <3>3. /\ Later(commands, commands') /\ commands'[c].status = status
          /\ \A d \in CommandId : d # c => commands'[d] = commands[d]
        BY <1>0, <3>1, <3>2, MovedRows DEF RowStatuses
    <3>4. \A d \in CommandId : commands'[d].status = "OUTCOME_UNKNOWN" => Unknown(d) BY <3>3 DEF Unknown
    <3> QED BY <3>2, <3>3, <3>4, RowsMoveOn
  <2>3. ASSUME NEW c \in CommandId, PreflightRefuse(c) PROVE FenceInv'
    <3>1. commands[c].status = "CLAIMED" BY <2>3 DEF PreflightRefuse, IInv, LeaseInHand
    <3> QED BY <2>3, <3>1, ResultFenced DEF PreflightRefuse, Record, Results
  <2>4. ASSUME NEW c \in CommandId, Send(c) PROVE FenceInv' BY <2>4, NothingDurable DEF Send
  <2>5. ASSUME NEW c \in CommandId, TimerLapses(c) PROVE FenceInv'
    <3>1. commands' = [commands EXCEPT ![c].timer = "over"] /\ UNCHANGED <<agg, incidents>>
        BY <2>5 DEF TimerLapses
    <3>2. \A d \in CommandId : /\ commands'[d].status = commands[d].status
                               /\ commands'[d].payload = commands[d].payload
        BY <1>0, <3>1 DEF Row
    <3>3. /\ Later(commands, commands')
          /\ \A d \in CommandId : commands'[d].status = "OUTCOME_UNKNOWN" => Unknown(d)
        BY <3>2 DEF Later, Unknown
    <3> QED BY <3>1, <3>3, RowsMoveOn
  <2>6. ASSUME NEW c \in CommandId, NEW result \in Results, RecordResult(c, result) PROVE FenceInv'
    <3>1. commands[c].status = "CLAIMED" BY <2>6 DEF RecordResult, IInv, LeaseInHand
    <3> QED BY <2>6, <3>1, ResultFenced DEF RecordResult, Record
  <2>7. ASSUME NEW c \in CommandId, NEW result \in Results, RecordRaises(c, result) PROVE FenceInv'
      BY <2>7, NothingDurable DEF RecordRaises
  <2> QED BY <1>2, <2>1, <2>2, <2>3, <2>4, <2>5, <2>6, <2>7 DEF DispatchNext
<1>3. CASE VenueNext
  <2>1. UNCHANGED durable
      BY <1>3 DEF VenueNext, Deliver, Refuse, Lose, RestingFill, EntryFill, ExternalClose, ForeignOrder
  <2> QED BY <2>1, NothingDurable
<1>4. CASE ReconNext
  <2>1. ASSUME ReadSnapshot \/ ReconcileNoChange PROVE FenceInv'
      BY <2>1, NothingDurable DEF ReadSnapshot, ReconcileNoChange
  <2>2. ASSUME StressRetry PROVE FenceInv'
    <3>1. UNCHANGED <<agg, commands>> /\ incidents \subseteq incidents' BY <2>2 DEF StressRetry
    <3>2. /\ Later(commands, commands')
          /\ \A d \in CommandId : commands'[d].status = "OUTCOME_UNKNOWN" => Unknown(d)
        BY <3>1 DEF Later, Unknown
    <3> QED BY <3>1, <3>2, RowsMoveOn
  <2>3. ASSUME SettleTicket \/ RecordTradeReview PROVE FenceInv'
    <3>1. PICK r : (r \in BudgetSettled(agg) \/ r \in ReviewRecorded(agg)) /\ Commit(r, commands, held)
        BY <2>3 DEF SettleTicket, RecordTradeReview
    <3>2. Careful(agg, r, "none") BY <1>0, <3>1, OtherEvents DEF AllCareful
    <3>3. r.prepare \subseteq Payload BY <1>0, <3>1, StatusEvents DEF AllSound, Sound, WellFormed
    <3> QED BY <3>1, <3>2, <3>3, PlainFenced
  <2> QED BY <1>4, <2>1, <2>2, <2>3, RecoveryFenced, SnapshotFenced, StressFenced DEF ReconNext
<1>5. CASE Maintain \/ OwnerExit
  <2>1. PICK r : (r \in MaintenanceEvent(agg) \/ r \in ExitRequested(agg)) /\ Commit(r, commands, held)
      BY <1>5 DEF Maintain, OwnerExit
  <2>2. Careful(agg, r, "none") BY <1>0, <2>1, MaintenanceCareful, OtherEvents DEF AllCareful
  <2>3. r.prepare \subseteq Payload
      BY <1>0, <2>1, MaintenanceSound, FlatEvents DEF AllSound, Sound, WellFormed
  <2> QED BY <2>1, <2>2, <2>3, PlainFenced
<1>6. CASE Crash \/ UNCHANGED vars BY <1>6, NothingDurable DEF Crash, vars, durable
<1> QED BY <1>1, <1>2, <1>3, <1>4, <1>5, <1>6 DEF Next

\* Until closure every command row in OUTCOME_UNKNOWN has its incident open, through lost
\* answers, crashes, expired leases, recovery, retried cancels and external flattening:
\* no event resolves the incident of another command's unknown outcome.
THEOREM UnknownStaysFenced == Spec => []UnknownIsFenced
<1>1. Init => FenceInv
  <2> SUFFICES ASSUME Init PROVE FenceInv OBVIOUS
  <2>1. \A c \in CommandId : commands[c].status = "NONE" /\ commands[c].payload.kind = c[1]
      BY DEF Init, Command
  <2> QED BY <2>1 DEF FenceInv, Filed, InTurn, OneOpenCancel, CancelsInStage, UnknownIsFenced,
                     Unknown, OpenRows
<1>2. IInv /\ FenceInv /\ [Next]_vars => FenceInv' BY FenceStep
<1>3. FenceInv => UnknownIsFenced BY DEF FenceInv
<1> QED BY <1>1, <1>2, <1>3, Invariance, PTL DEF Spec

-----------------------------------------------------------------------------
(***************************************************************************)
(* Part III.  While the aggregate names an active stop, a live stop of at  *)
(* least the position's quantity rests at the venue, and a covered         *)
(* position never gets a worse one.                                        *)
(***************************************************************************)

\* Such a reduction, by the statuses it leads from and to.
LEMMA QuietMove ==
    ASSUME NEW a, NEW r, SameStops(a, r.agg), Plain(r), Calm(a.status, r.agg.status),
           r.agg.status \in FlatStatuses => a.status \in FlatStatuses,
           r.agg.status \in RunnerStatuses => r.agg.positionQty = a.positionQty
    PROVE  Quiet(a, r)
BY DEF Quiet, Tame, SameStops, Plain

\* A change of status alone keeps them.
LEMMA MovedStops ==
    ASSUME NEW a \in Aggregate, NEW s
    PROVE  /\ SameStops(a, Moved(a, s)) /\ Moved(a, s).status = s
           /\ Moved(a, s).positionQty = a.positionQty
BY DEF SameStops, Moved, Aggregate

\* The events of leverage and ENTRY that lead to no fill.
LEMMA QuietEntry ==
    ASSUME NEW a \in Aggregate, NEW o
    PROVE  /\ AllQuiet(a, LeverageConfirmed(a))
           /\ AllQuiet(a, LeverageRejected(a))
           /\ AllQuiet(a, LeverageOutcomeUnknown(a))
           /\ AllQuiet(a, EntryOutcomeUnknown(a))
           /\ AllQuiet(a, EntryRejected(a))
           /\ AllQuiet(a, EntryAbsenceConfirmed(a))
           /\ AllQuiet(a, EntryRemainderCancelConfirmed(a, o))
           /\ AllQuiet(a, EntryRemainderCancelRejected(a, o))
           /\ AllQuiet(a, EntryRemainderCancelOutcomeUnknown(a, o))
<1> USE DEF AllQuiet, When, Calm, Plain, StopKinds, FlatStatuses, OpeningStatuses, ReplacingStatuses,
        UnprotectedStatuses, BeforeFill, EntryStatuses, ProtectionStatuses, Tp1Statuses, RunnerStatuses,
        CleanupStatuses, ClosureStatuses
<1>1. ASSUME NEW r \in LeverageConfirmed(a) PROVE Quiet(a, r)
  <2>1. /\ a.status \in {"LEVERAGE_PENDING", "LEVERAGE_OUTCOME_UNKNOWN"}
        /\ r.agg = Moved(a, "LEVERAGE_CONFIRMED")
        /\ r.prepare = {Command("ENTRY", TicketQuantity)}
      BY DEF LeverageConfirmed, Transition
  <2> QED BY <2>1, MovedStops, CommandKinds, QuietMove
<1>2. ASSUME NEW r \in LeverageRejected(a) PROVE Quiet(a, r)
  <2>1. /\ a.status \in {"LEVERAGE_PENDING", "LEVERAGE_OUTCOME_UNKNOWN"}
        /\ r.agg = [a EXCEPT !.status = "LEVERAGE_REJECTED", !.laneHeld = FALSE]
        /\ r.prepare = {}
      BY DEF LeverageRejected, Transition
  <2>2. SameStops(a, r.agg) /\ r.agg.status = "LEVERAGE_REJECTED" /\ r.agg.positionQty = a.positionQty
      BY <2>1 DEF SameStops, Aggregate
  <2> QED BY <2>1, <2>2, QuietMove
<1>3. ASSUME NEW r \in LeverageOutcomeUnknown(a) PROVE Quiet(a, r)
  <2>1. /\ a.status = "LEVERAGE_PENDING" /\ r.agg = Moved(a, "LEVERAGE_OUTCOME_UNKNOWN")
        /\ r.prepare = {}
      BY DEF LeverageOutcomeUnknown, Transition
  <2> QED BY <2>1, MovedStops, CommandKinds, QuietMove
<1>4. ASSUME NEW r \in EntryOutcomeUnknown(a) PROVE Quiet(a, r)
  <2>1. /\ a.status \in {"ENTRY_PENDING", "LEVERAGE_CONFIRMED"}
        /\ r.agg = Moved(a, "ENTRY_OUTCOME_UNKNOWN")
        /\ r.prepare = {}
      BY DEF EntryOutcomeUnknown, Transition
  <2> QED BY <2>1, MovedStops, CommandKinds, QuietMove
<1>5. ASSUME NEW r \in EntryRejected(a) PROVE Quiet(a, r)
  <2>1. /\ a.status \in {"ENTRY_PENDING", "LEVERAGE_CONFIRMED"}
        /\ r.agg = [a EXCEPT !.status = "ENTRY_REJECTED", !.laneHeld = FALSE]
        /\ r.prepare = {}
      BY DEF EntryRejected, Transition
  <2>2. SameStops(a, r.agg) /\ r.agg.status = "ENTRY_REJECTED" /\ r.agg.positionQty = a.positionQty
      BY <2>1 DEF SameStops, Aggregate
  <2> QED BY <2>1, <2>2, QuietMove
<1>6. ASSUME NEW r \in EntryAbsenceConfirmed(a) PROVE Quiet(a, r)
  <2>1. /\ a.status = "ENTRY_OUTCOME_UNKNOWN"
        /\ r.agg = [a EXCEPT !.status = "ENTRY_RECONCILED_ABSENT", !.laneHeld = FALSE]
        /\ r.prepare = {}
      BY DEF EntryAbsenceConfirmed, Transition
  <2>2. SameStops(a, r.agg) /\ r.agg.status = "ENTRY_RECONCILED_ABSENT" /\ r.agg.positionQty = a.positionQty
      BY <2>1 DEF SameStops, Aggregate
  <2> QED BY <2>1, <2>2, QuietMove
<1>7. ASSUME NEW r \in EntryRemainderCancelConfirmed(a, o) PROVE Quiet(a, r)
  <2>1. /\ a.status \in {"PARTIAL_FILL_INCIDENT", "PARTIAL_FILL_CANCEL_OUTCOME_UNKNOWN"}
        /\ r.agg = Moved(a, "CONTROLLED_FLATTEN_PENDING")
        /\ r.prepare = {Command("CONTROLLED_FLATTEN", a.positionQty)}
      BY DEF EntryRemainderCancelConfirmed, Transition
  <2> QED BY <2>1, MovedStops, CommandKinds, QuietMove
<1>8. ASSUME NEW r \in EntryRemainderCancelRejected(a, o) PROVE Quiet(a, r)
  <2>1. /\ a.status = "PARTIAL_FILL_INCIDENT" /\ r.agg = Moved(a, "PARTIAL_FILL_CANCEL_REJECTED")
        /\ r.prepare = {}
      BY DEF EntryRemainderCancelRejected, Transition
  <2> QED BY <2>1, MovedStops, CommandKinds, QuietMove
<1>9. ASSUME NEW r \in EntryRemainderCancelOutcomeUnknown(a, o) PROVE Quiet(a, r)
  <2>1. /\ a.status = "PARTIAL_FILL_INCIDENT"
        /\ r.agg = Moved(a, "PARTIAL_FILL_CANCEL_OUTCOME_UNKNOWN")
        /\ r.prepare = {}
      BY DEF EntryRemainderCancelOutcomeUnknown, Transition
  <2> QED BY <2>1, MovedStops, CommandKinds, QuietMove
<1> HIDE DEF AllQuiet, When, Calm, Plain, StopKinds, FlatStatuses, OpeningStatuses, ReplacingStatuses,
        UnprotectedStatuses, BeforeFill, EntryStatuses, ProtectionStatuses, Tp1Statuses, RunnerStatuses,
        CleanupStatuses, ClosureStatuses
<1> QED BY <1>1, <1>2, <1>3, <1>4, <1>5, <1>6, <1>7, <1>8, <1>9 DEF AllQuiet

\* The events of initial protection and TP1 that confirm no stop.
LEMMA QuietProtection ==
    ASSUME NEW a \in Aggregate, NEW o, NEW q
    PROVE  /\ AllQuiet(a, InitialStopRejected(a))
           /\ AllQuiet(a, InitialStopOutcomeUnknown(a))
           /\ AllQuiet(a, InitialStopAbsenceConfirmed(a))
           /\ AllQuiet(a, TakeProfitConfirmed(a, o, q))
           /\ AllQuiet(a, TakeProfitRejected(a))
           /\ AllQuiet(a, TakeProfitOutcomeUnknown(a))
           /\ AllQuiet(a, TakeProfitAbsenceConfirmed(a))
           /\ AllQuiet(a, ProtectionReplacementRejected(a))
           /\ AllQuiet(a, ProtectionReplacementOutcomeUnknown(a))
           /\ AllQuiet(a, ProtectionCancelConfirmed(a, o))
           /\ AllQuiet(a, ProtectionCancelRejected(a, o))
           /\ AllQuiet(a, ProtectionCancelOutcomeUnknown(a, o))
           /\ AllQuiet(a, ProtectionCancelAbsenceConfirmed(a, o))
<1> USE DEF AllQuiet, When, Calm, Plain, StopKinds, FlatStatuses, OpeningStatuses, ReplacingStatuses,
        UnprotectedStatuses, BeforeFill, EntryStatuses, ProtectionStatuses, Tp1Statuses, RunnerStatuses,
        CleanupStatuses, ClosureStatuses
<1>1. ASSUME NEW r \in InitialStopRejected(a) PROVE Quiet(a, r)
  <2>1. /\ a.status = "PROTECTION_PENDING" /\ r.agg = Moved(a, "EXIT_PENDING")
        /\ r.prepare = {Command("EXIT", a.positionQty)}
      BY DEF InitialStopRejected, Transition
  <2> QED BY <2>1, MovedStops, CommandKinds, QuietMove
<1>2. ASSUME NEW r \in InitialStopOutcomeUnknown(a) PROVE Quiet(a, r)
  <2>1. /\ a.status = "PROTECTION_PENDING" /\ r.agg = Moved(a, "INITIAL_STOP_OUTCOME_UNKNOWN")
        /\ r.prepare = {}
      BY DEF InitialStopOutcomeUnknown, Transition
  <2> QED BY <2>1, MovedStops, CommandKinds, QuietMove
<1>3. ASSUME NEW r \in InitialStopAbsenceConfirmed(a) PROVE Quiet(a, r)
  <2>1. /\ a.status = "INITIAL_STOP_OUTCOME_UNKNOWN" /\ r.agg = Moved(a, "EXIT_PENDING")
        /\ r.prepare = {Command("EXIT", a.positionQty)}
      BY DEF InitialStopAbsenceConfirmed, Transition
  <2> QED BY <2>1, MovedStops, CommandKinds, QuietMove
<1>4. ASSUME NEW r \in TakeProfitConfirmed(a, o, q) PROVE Quiet(a, r)
  <2>1. /\ a.status \in {"TP1_PENDING", "POST_FILL_RISK_PENDING", "TP1_OUTCOME_UNKNOWN"}
        /\ r.agg = [a EXCEPT !.status = "POSITION_PROTECTED", !.tp1Order = o]
        /\ r.prepare = {}
      BY DEF TakeProfitConfirmed, Transition
  <2>2. SameStops(a, r.agg) /\ r.agg.status = "POSITION_PROTECTED" /\ r.agg.positionQty = a.positionQty
      BY <2>1 DEF SameStops, Aggregate
  <2> QED BY <2>1, <2>2, QuietMove
<1>5. ASSUME NEW r \in TakeProfitRejected(a) PROVE Quiet(a, r)
  <2>1. /\ a.status = "TP1_PENDING" /\ r.agg = Moved(a, "TP1_REJECTED")
        /\ r.prepare = {}
      BY DEF TakeProfitRejected, Transition
  <2> QED BY <2>1, MovedStops, CommandKinds, QuietMove
<1>6. ASSUME NEW r \in TakeProfitOutcomeUnknown(a) PROVE Quiet(a, r)
  <2>1. /\ a.status = "TP1_PENDING" /\ r.agg = Moved(a, "TP1_OUTCOME_UNKNOWN")
        /\ r.prepare = {}
      BY DEF TakeProfitOutcomeUnknown, Transition
  <2> QED BY <2>1, MovedStops, CommandKinds, QuietMove
<1>7. ASSUME NEW r \in TakeProfitAbsenceConfirmed(a) PROVE Quiet(a, r)
  <2>1. /\ a.status = "TP1_OUTCOME_UNKNOWN" /\ r.agg = Moved(a, "TP1_PENDING")
        /\ r.prepare = {Command("TAKE_PROFIT", a.tp1Target)}
      BY DEF TakeProfitAbsenceConfirmed, Transition
  <2> QED BY <2>1, MovedStops, CommandKinds, QuietMove
<1>8. ASSUME NEW r \in ProtectionReplacementRejected(a) PROVE Quiet(a, r)
  <2>1. /\ a.status = "RUNNER_REPLACEMENT_PENDING"
        /\ r.agg = Moved(a, "RUNNER_REPLACEMENT_REJECTED")
        /\ r.prepare = {}
      BY DEF ProtectionReplacementRejected, Transition
  <2> QED BY <2>1, MovedStops, CommandKinds, QuietMove
<1>9. ASSUME NEW r \in ProtectionReplacementOutcomeUnknown(a) PROVE Quiet(a, r)
  <2>1. /\ a.status = "RUNNER_REPLACEMENT_PENDING"
        /\ r.agg = Moved(a, "RUNNER_REPLACEMENT_OUTCOME_UNKNOWN")
        /\ r.prepare = {}
      BY DEF ProtectionReplacementOutcomeUnknown, Transition
  <2> QED BY <2>1, MovedStops, CommandKinds, QuietMove
<1>10. ASSUME NEW r \in ProtectionCancelConfirmed(a, o) PROVE Quiet(a, r)
  <2>1. /\ a.status = "RUNNER_OLD_STOP_CANCEL_PENDING" /\ r.agg = WithoutReplacedStop(a, o)
        /\ r.prepare = {}
      BY DEF ProtectionCancelConfirmed, Transition
  <2>2. SameStops(a, r.agg) /\ r.agg.status = "RUNNER_PROTECTED" /\ r.agg.positionQty = a.positionQty
      BY <2>1 DEF SameStops, Aggregate, WithoutReplacedStop
  <2> QED BY <2>1, <2>2, QuietMove
<1>11. ASSUME NEW r \in ProtectionCancelRejected(a, o) PROVE Quiet(a, r)
  <2>1. /\ a.status = "RUNNER_OLD_STOP_CANCEL_PENDING"
        /\ r.agg = Moved(a, "RUNNER_OLD_STOP_CANCEL_REJECTED")
        /\ r.prepare = {}
      BY DEF ProtectionCancelRejected, Transition
  <2> QED BY <2>1, MovedStops, CommandKinds, QuietMove
<1>12. ASSUME NEW r \in ProtectionCancelOutcomeUnknown(a, o) PROVE Quiet(a, r)
  <2>1. /\ a.status = "RUNNER_OLD_STOP_CANCEL_PENDING"
        /\ r.agg = Moved(a, "RUNNER_OLD_STOP_CANCEL_OUTCOME_UNKNOWN")
        /\ r.prepare = {}
      BY DEF ProtectionCancelOutcomeUnknown, Transition
  <2> QED BY <2>1, MovedStops, CommandKinds, QuietMove
<1>13. ASSUME NEW r \in ProtectionCancelAbsenceConfirmed(a, o) PROVE Quiet(a, r)
  <2>1. /\ a.status = "RUNNER_OLD_STOP_CANCEL_OUTCOME_UNKNOWN" /\ r.agg = WithoutReplacedStop(a, o)
        /\ r.prepare = {}
      BY DEF ProtectionCancelAbsenceConfirmed, Transition
  <2>2. SameStops(a, r.agg) /\ r.agg.status = "RUNNER_PROTECTED" /\ r.agg.positionQty = a.positionQty
      BY <2>1 DEF SameStops, Aggregate, WithoutReplacedStop
  <2> QED BY <2>1, <2>2, QuietMove
<1> HIDE DEF AllQuiet, When, Calm, Plain, StopKinds, FlatStatuses, OpeningStatuses, ReplacingStatuses,
        UnprotectedStatuses, BeforeFill, EntryStatuses, ProtectionStatuses, Tp1Statuses, RunnerStatuses,
        CleanupStatuses, ClosureStatuses
<1> QED BY <1>1, <1>2, <1>3, <1>4, <1>5, <1>6, <1>7, <1>8, <1>9, <1>10, <1>11, <1>12, <1>13 DEF AllQuiet

\* Exits, controlled flattens and the steps of closure.
LEMMA QuietExit ==
    ASSUME NEW a \in Aggregate, NEW o
    PROVE  /\ AllQuiet(a, ExitRequested(a))
           /\ AllQuiet(a, ExitAccepted(a))
           /\ AllQuiet(a, ExitRejected(a))
           /\ AllQuiet(a, ExitOutcomeUnknown(a))
           /\ AllQuiet(a, ExitAbsenceConfirmed(a))
           /\ AllQuiet(a, ControlledFlattenAccepted(a))
           /\ AllQuiet(a, ControlledFlattenRejected(a))
           /\ AllQuiet(a, ControlledFlattenOutcomeUnknown(a))
           /\ AllQuiet(a, ControlledFlattenAbsenceConfirmed(a))
           /\ AllQuiet(a, CancelOrderRejected(a, o))
           /\ AllQuiet(a, CancelOrderOutcomeUnknown(a, o))
           /\ AllQuiet(a, CancelOrderStillOpenConfirmed(a, o))
           /\ AllQuiet(a, ReconciliationMatched(a))
           /\ AllQuiet(a, BudgetSettled(a))
           /\ AllQuiet(a, ReviewRecorded(a))
<1> USE DEF AllQuiet, When, Calm, Plain, StopKinds, FlatStatuses, OpeningStatuses, ReplacingStatuses,
        UnprotectedStatuses, BeforeFill, EntryStatuses, ProtectionStatuses, Tp1Statuses, RunnerStatuses,
        CleanupStatuses, ClosureStatuses
<1>1. ASSUME NEW r \in ExitRequested(a) PROVE Quiet(a, r)
  <2>1. /\ a.status \in {"POSITION_PROTECTED", "RUNNER_PROTECTED", "EXIT_REJECTED"}
        /\ r.agg = Moved(a, "EXIT_PENDING")
        /\ r.prepare = {Command("EXIT", a.positionQty)}
      BY DEF ExitRequested, Transition
  <2> QED BY <2>1, MovedStops, CommandKinds, QuietMove
<1>2. ASSUME NEW r \in ExitAccepted(a) PROVE Quiet(a, r)
  <2>1. /\ a.status \in {"EXIT_PENDING", "EXIT_OUTCOME_UNKNOWN"}
        /\ r.agg = Moved(a, "EXIT_ACCEPTED")
        /\ r.prepare = {}
      BY DEF ExitAccepted, Transition
  <2> QED BY <2>1, MovedStops, CommandKinds, QuietMove
<1>3. ASSUME NEW r \in ExitRejected(a) PROVE Quiet(a, r)
  <2>1. /\ a.status = "EXIT_PENDING" /\ r.agg = Moved(a, "EXIT_REJECTED")
        /\ r.prepare = {}
      BY DEF ExitRejected, Transition
  <2> QED BY <2>1, MovedStops, CommandKinds, QuietMove
<1>4. ASSUME NEW r \in ExitOutcomeUnknown(a) PROVE Quiet(a, r)
  <2>1. /\ a.status = "EXIT_PENDING" /\ r.agg = Moved(a, "EXIT_OUTCOME_UNKNOWN")
        /\ r.prepare = {}
      BY DEF ExitOutcomeUnknown, Transition
  <2> QED BY <2>1, MovedStops, CommandKinds, QuietMove
<1>5. ASSUME NEW r \in ExitAbsenceConfirmed(a) PROVE Quiet(a, r)
  <2>1. /\ a.status = "EXIT_OUTCOME_UNKNOWN" /\ r.agg = Moved(a, "EXIT_REJECTED")
        /\ r.prepare = {}
      BY DEF ExitAbsenceConfirmed, Transition
  <2> QED BY <2>1, MovedStops, CommandKinds, QuietMove
<1>6. ASSUME NEW r \in ControlledFlattenAccepted(a) PROVE Quiet(a, r)
  <2>1. /\ a.status \in {"CONTROLLED_FLATTEN_PENDING", "CONTROLLED_FLATTEN_OUTCOME_UNKNOWN"}
        /\ r.agg = Moved(a, "CONTROLLED_FLATTEN_ACCEPTED")
        /\ r.prepare = {}
      BY DEF ControlledFlattenAccepted, Transition
  <2> QED BY <2>1, MovedStops, CommandKinds, QuietMove
<1>7. ASSUME NEW r \in ControlledFlattenRejected(a) PROVE Quiet(a, r)
  <2>1. /\ a.status = "CONTROLLED_FLATTEN_PENDING"
        /\ r.agg = Moved(a, "CONTROLLED_FLATTEN_REJECTED")
        /\ r.prepare = {}
      BY DEF ControlledFlattenRejected, Transition
  <2> QED BY <2>1, MovedStops, CommandKinds, QuietMove
<1>8. ASSUME NEW r \in ControlledFlattenOutcomeUnknown(a) PROVE Quiet(a, r)
  <2>1. /\ a.status = "CONTROLLED_FLATTEN_PENDING"
        /\ r.agg = Moved(a, "CONTROLLED_FLATTEN_OUTCOME_UNKNOWN")
        /\ r.prepare = {}
      BY DEF ControlledFlattenOutcomeUnknown, Transition
  <2> QED BY <2>1, MovedStops, CommandKinds, QuietMove
<1>9. ASSUME NEW r \in ControlledFlattenAbsenceConfirmed(a) PROVE Quiet(a, r)
  <2>1. /\ a.status = "CONTROLLED_FLATTEN_OUTCOME_UNKNOWN"
        /\ r.agg = Moved(a, "CONTROLLED_FLATTEN_REJECTED")
        /\ r.prepare = {}
      BY DEF ControlledFlattenAbsenceConfirmed, Transition
  <2> QED BY <2>1, MovedStops, CommandKinds, QuietMove
<1>10. ASSUME NEW r \in CancelOrderRejected(a, o) PROVE Quiet(a, r)
  <2>1. /\ a.status = "RECONCILIATION_PENDING" /\ r.agg = Moved(a, "CANCEL_REJECTED")
        /\ r.prepare = {}
      BY DEF CancelOrderRejected, Transition
  <2> QED BY <2>1, MovedStops, CommandKinds, QuietMove
<1>11. ASSUME NEW r \in CancelOrderOutcomeUnknown(a, o) PROVE Quiet(a, r)
  <2>1. /\ a.status = "RECONCILIATION_PENDING" /\ r.agg = Moved(a, "CANCEL_OUTCOME_UNKNOWN")
        /\ r.prepare = {}
      BY DEF CancelOrderOutcomeUnknown, Transition
  <2> QED BY <2>1, MovedStops, CommandKinds, QuietMove
<1>12. ASSUME NEW r \in CancelOrderStillOpenConfirmed(a, o) PROVE Quiet(a, r)
  <2>1. /\ a.status = "CANCEL_OUTCOME_UNKNOWN" /\ r.agg = Moved(a, "CANCEL_REJECTED")
        /\ r.prepare = {}
      BY DEF CancelOrderStillOpenConfirmed, Transition
  <2> QED BY <2>1, MovedStops, CommandKinds, QuietMove
<1>13. ASSUME NEW r \in ReconciliationMatched(a) PROVE Quiet(a, r)
  <2>1. /\ a.status = "RECONCILIATION_PENDING" /\ r.agg = Moved(a, "SETTLEMENT_PENDING")
        /\ r.prepare = {}
      BY DEF ReconciliationMatched, Transition
  <2> QED BY <2>1, MovedStops, CommandKinds, QuietMove
<1>14. ASSUME NEW r \in BudgetSettled(a) PROVE Quiet(a, r)
  <2>1. /\ a.status = "SETTLEMENT_PENDING" /\ r.agg = Moved(a, "REVIEW_PENDING")
        /\ r.prepare = {}
      BY DEF BudgetSettled, Transition
  <2> QED BY <2>1, MovedStops, CommandKinds, QuietMove
<1>15. ASSUME NEW r \in ReviewRecorded(a) PROVE Quiet(a, r)
  <2>1. /\ a.status = "REVIEW_PENDING" /\ r.agg = Moved(a, "TERMINAL")
        /\ r.prepare = {}
      BY DEF ReviewRecorded, Transition
  <2> QED BY <2>1, MovedStops, CommandKinds, QuietMove
<1> HIDE DEF AllQuiet, When, Calm, Plain, StopKinds, FlatStatuses, OpeningStatuses, ReplacingStatuses,
        UnprotectedStatuses, BeforeFill, EntryStatuses, ProtectionStatuses, Tp1Statuses, RunnerStatuses,
        CleanupStatuses, ClosureStatuses
<1> QED BY <1>1, <1>2, <1>3, <1>4, <1>5, <1>6, <1>7, <1>8, <1>9, <1>10, <1>11, <1>12, <1>13, <1>14, <1>15 DEF AllQuiet

\* Partial fills, the stress decision, and the cleanup of owned orders.
LEMMA QuietOther ==
    ASSUME NEW a \in Aggregate, NEW o, NEW q, NEW n, NEW passed \in BOOLEAN
    PROVE  /\ AllQuiet(a, EntryPartiallyFilled(a, q))
           /\ AllQuiet(a, PostFillStressAssessed(a, passed))
           /\ AllQuiet(a, OwnedOrphanOrderDetected(a, o, n))
           /\ AllQuiet(a, OwnedOrderAbsenceConfirmed(a, o))
           /\ AllQuiet(a, UnownedOrderDetected(a))
           /\ AllQuiet(a, OwnedOrphanCancelConfirmed(a, o))
           /\ AllQuiet(a, CancelOrderAbsenceConfirmed(a, o))
<1> USE DEF AllQuiet, When, Calm, Plain, StopKinds, FlatStatuses, OpeningStatuses, ReplacingStatuses,
        UnprotectedStatuses, BeforeFill, EntryStatuses, ProtectionStatuses, Tp1Statuses, RunnerStatuses,
        CleanupStatuses, ClosureStatuses
<1>1. ASSUME NEW r \in EntryPartiallyFilled(a, q) PROVE Quiet(a, r)
  <2>1. /\ a.status \in {"ENTRY_PENDING", "LEVERAGE_CONFIRMED", "ENTRY_ACCEPTED"}
        /\ r.agg = [a EXCEPT !.status = "PARTIAL_FILL_INCIDENT", !.positionQty = q]
        /\ r.prepare = {CancelCommand(a.entryOrder, "regular", "entry_remainder")}
      BY DEF EntryPartiallyFilled, Transition
  <2>2. SameStops(a, r.agg) /\ r.agg.status = "PARTIAL_FILL_INCIDENT" BY <2>1 DEF SameStops, Aggregate
  <2>3. \A p \in r.prepare : p.kind = "CANCEL_ORDER" /\ p.target = a.entryOrder
      BY <2>1 DEF CancelCommand
  <2> QED BY <2>1, <2>2, <2>3 DEF Quiet, Tame, SameStops
<1>2. ASSUME NEW r \in PostFillStressAssessed(a, passed) PROVE Quiet(a, r)
  <2>1. /\ a.status = "POST_FILL_RISK_PENDING"
        /\ \/ r.agg = [a EXCEPT !.status = "TP1_PENDING", !.laneHeld = FALSE, !.tp1Target = Tp1Quantity]
           \/ r.agg = Moved(a, "CONTROLLED_FLATTEN_PENDING")
        /\ \/ r.prepare = {Command("TAKE_PROFIT", Tp1Quantity)}
           \/ r.prepare = {Command("CONTROLLED_FLATTEN", a.positionQty)}
      BY DEF PostFillStressAssessed, Transition
  <2>2. SameStops(a, r.agg) /\ r.agg.status \in {"TP1_PENDING", "CONTROLLED_FLATTEN_PENDING"}
      BY <2>1 DEF SameStops, Aggregate, Moved
  <2> QED BY <2>1, <2>2, CommandKinds, QuietMove
<1>3. ASSUME NEW r, a.status \in FlatStatuses, r.agg.status = "RECONCILIATION_PENDING",
             r.agg.entryOrder = a.entryOrder,
             \/ r.agg.activeStop = NoOrder
             \/ r.agg.activeStop = a.activeStop /\ r.agg.activeStopPrice = a.activeStopPrice,
             \A p \in r.prepare : p.kind = "CANCEL_ORDER"
      PROVE  Quiet(a, r)
    BY <1>3 DEF Quiet, Tame
<1>4. /\ ClearCleanupOrder(a, o).status = "RECONCILIATION_PENDING"
      /\ ClearCleanupOrder(a, o).entryOrder = a.entryOrder
      /\ \/ ClearCleanupOrder(a, o).activeStop = NoOrder
         \/ /\ ClearCleanupOrder(a, o).activeStop = a.activeStop
            /\ ClearCleanupOrder(a, o).activeStopPrice = a.activeStopPrice
    BY DEF ClearCleanupOrder, Aggregate
<1>5. ASSUME NEW r \in OwnedOrphanOrderDetected(a, o, n) PROVE Quiet(a, r)
  <2>1. /\ a.status \in {"RECONCILIATION_PENDING", "CANCEL_REJECTED"}
        /\ r.agg = [a EXCEPT !.status = "RECONCILIATION_PENDING", !.pendingCancel = o]
        /\ r.prepare = {CleanupCancel(o, n)}
      BY DEF OwnedOrphanOrderDetected, Transition
  <2>2. SameStops(a, r.agg) /\ r.agg.status = "RECONCILIATION_PENDING" BY <2>1 DEF SameStops, Aggregate
  <2>3. \A p \in r.prepare : p.kind = "CANCEL_ORDER" BY <2>1 DEF CleanupCancel, CancelCommand
  <2> QED BY <1>3, <2>1, <2>2, <2>3 DEF SameStops
<1>6. ASSUME NEW r \in OwnedOrderAbsenceConfirmed(a, o) PROVE Quiet(a, r)
  <2>1. /\ a.status = "RECONCILIATION_PENDING"
        /\ r.agg = ClearCleanupOrder(a, o) /\ r.prepare = {}
      BY DEF OwnedOrderAbsenceConfirmed, Transition
  <2>2. /\ r.agg.status = "RECONCILIATION_PENDING" /\ r.agg.entryOrder = a.entryOrder
        /\ \/ r.agg.activeStop = NoOrder
           \/ r.agg.activeStop = a.activeStop /\ r.agg.activeStopPrice = a.activeStopPrice
      BY <1>4, <2>1
  <2>3. a.status \in FlatStatuses BY <2>1
  <2>4. \A p \in r.prepare : p.kind = "CANCEL_ORDER" BY <2>1
  <2> QED BY <2>2, <2>3, <2>4 DEF Quiet, Tame
<1>7. AllQuiet(a, UnownedOrderDetected(a)) BY <1>3 DEF UnownedOrderDetected, Transition
<1>8. ASSUME NEW r \in OwnedOrphanCancelConfirmed(a, o) PROVE Quiet(a, r)
  <2>1. /\ a.status = "RECONCILIATION_PENDING"
        /\ r.agg = ClearCleanupOrder(a, o) /\ r.prepare = {}
      BY DEF OwnedOrphanCancelConfirmed, Transition
  <2>2. /\ r.agg.status = "RECONCILIATION_PENDING" /\ r.agg.entryOrder = a.entryOrder
        /\ \/ r.agg.activeStop = NoOrder
           \/ r.agg.activeStop = a.activeStop /\ r.agg.activeStopPrice = a.activeStopPrice
      BY <1>4, <2>1
  <2>3. a.status \in FlatStatuses BY <2>1
  <2>4. \A p \in r.prepare : p.kind = "CANCEL_ORDER" BY <2>1
  <2> QED BY <2>2, <2>3, <2>4 DEF Quiet, Tame
<1>9. ASSUME NEW r \in CancelOrderAbsenceConfirmed(a, o) PROVE Quiet(a, r)
  <2>1. /\ a.status \in {"CANCEL_REJECTED", "CANCEL_OUTCOME_UNKNOWN"}
        /\ r.agg = ClearCleanupOrder(a, o) /\ r.prepare = {}
      BY DEF CancelOrderAbsenceConfirmed, Transition
  <2>2. /\ r.agg.status = "RECONCILIATION_PENDING" /\ r.agg.entryOrder = a.entryOrder
        /\ \/ r.agg.activeStop = NoOrder
           \/ r.agg.activeStop = a.activeStop /\ r.agg.activeStopPrice = a.activeStopPrice
      BY <1>4, <2>1
  <2>3. a.status \in FlatStatuses BY <2>1
  <2>4. \A p \in r.prepare : p.kind = "CANCEL_ORDER" BY <2>1
  <2> QED BY <2>2, <2>3, <2>4 DEF Quiet, Tame
<1> HIDE DEF AllQuiet, When, Calm, Plain, StopKinds, FlatStatuses, OpeningStatuses, ReplacingStatuses,
        UnprotectedStatuses, BeforeFill, EntryStatuses, ProtectionStatuses, Tp1Statuses, RunnerStatuses,
        CleanupStatuses, ClosureStatuses
<1> QED BY <1>1, <1>2, <1>5, <1>6, <1>7, <1>8, <1>9 DEF AllQuiet

\* The two events that conclude flatness cancel what is left and touch nothing else.
LEMMA FlatIsTame ==
    ASSUME NEW a \in Aggregate, NEW r, r \in PositionFlatConfirmed(a) \/ r \in ExternalFlatDetected(a)
    PROVE  Tame(a, r)
<1> DEFINE cleanup == NextCleanupOrder(a)
<1>1. /\ \/ r.agg = [a EXCEPT !.status = "RECONCILIATION_PENDING", !.positionQty = 0,
                             !.pendingCancel = IF cleanup # NoOrder THEN cleanup ELSE a.pendingCancel,
                             !.laneHeld = FALSE]
         \/ r.agg = [a EXCEPT !.status = "RECONCILIATION_PENDING", !.positionQty = 0,
                             !.pendingCancel = cleanup]
      /\ r.prepare \subseteq {CleanupCancel(cleanup, "conditional")}
    BY DEF PositionFlatConfirmed, ExternalFlatDetected, Transition, When
<1> HIDE DEF cleanup
<1>2. SameStops(a, r.agg) /\ r.agg.status = "RECONCILIATION_PENDING" BY <1>1 DEF SameStops, Aggregate
<1>3. \A p \in r.prepare : p.kind = "CANCEL_ORDER" BY <1>1 DEF CleanupCancel, CancelCommand
<1> QED BY <1>2, <1>3 DEF Tame, SameStops, Calm, StopKinds, FlatStatuses, OpeningStatuses,
        ReplacingStatuses, UnprotectedStatuses, BeforeFill, EntryStatuses, ProtectionStatuses,
        Tp1Statuses, RunnerStatuses, CleanupStatuses, ClosureStatuses

-----------------------------------------------------------------------------
(* Which events of the workers touch protection. *)

\* _command_result_event: the acceptance of ENTRY or of a stop does.
LEMMA QuietResult ==
    ASSUME NEW a \in Aggregate, NEW c, NEW p \in Payload, NEW result \in Results,
           NEW r \in CommandResultEvent(a, c, p, result),
           ~ (result = "ACCEPTED" /\ p.kind \in StopKinds \cup {"ENTRY"})
    PROVE  Quiet(a, r)
<1> USE DEF Results
<1>1. CASE p.kind = "SET_LEVERAGE"
  <2>1. r \in LeverageConfirmed(a) \/ r \in LeverageRejected(a) \/ r \in LeverageOutcomeUnknown(a)
      BY <1>1 DEF CommandResultEvent
  <2> QED BY <2>1, QuietEntry DEF AllQuiet
<1>2. CASE p.kind = "ENTRY"
  <2>1. r \in EntryRejected(a) \/ r \in EntryOutcomeUnknown(a) BY <1>2 DEF CommandResultEvent
  <2> QED BY <2>1, QuietEntry DEF AllQuiet
<1>3. CASE p.kind = "INITIAL_STOP"
  <2>1. r \in InitialStopRejected(a) \/ r \in InitialStopOutcomeUnknown(a)
      BY <1>3 DEF CommandResultEvent, StopKinds
  <2> QED BY <2>1, QuietProtection DEF AllQuiet
<1>4. CASE p.kind = "TAKE_PROFIT"
  <2>1. r \in TakeProfitConfirmed(a, c, p.qty) \/ r \in TakeProfitRejected(a) \/ r \in TakeProfitOutcomeUnknown(a)
      BY <1>4 DEF CommandResultEvent
  <2> QED BY <2>1, QuietProtection DEF AllQuiet
<1>5. CASE p.kind = "REPLACE_PROTECTION"
  <2>1. r \in ProtectionReplacementRejected(a) \/ r \in ProtectionReplacementOutcomeUnknown(a)
      BY <1>5 DEF CommandResultEvent, StopKinds
  <2> QED BY <2>1, QuietProtection DEF AllQuiet
<1>6. CASE p.kind = "EXIT"
  <2>1. r \in ExitAccepted(a) \/ r \in ExitRejected(a) \/ r \in ExitOutcomeUnknown(a)
      BY <1>6 DEF CommandResultEvent
  <2> QED BY <2>1, QuietExit DEF AllQuiet
<1>7. CASE p.kind = "CONTROLLED_FLATTEN"
  <2>1. \/ r \in ControlledFlattenAccepted(a) \/ r \in ControlledFlattenRejected(a)
        \/ r \in ControlledFlattenOutcomeUnknown(a)
      BY <1>7 DEF CommandResultEvent
  <2> QED BY <2>1, QuietExit DEF AllQuiet
<1>8. CASE p.kind = "CANCEL_ORDER"
  <2>0. r \in CancelResultEvent(a, p, result) BY <1>8 DEF CommandResultEvent
  <2>1. CASE p.purpose = "entry_remainder"
    <3>1. \/ r \in EntryRemainderCancelConfirmed(a, p.target)
          \/ r \in EntryRemainderCancelRejected(a, p.target)
          \/ r \in EntryRemainderCancelOutcomeUnknown(a, p.target)
        BY <2>0, <2>1 DEF CancelResultEvent
    <3> QED BY <3>1, QuietEntry DEF AllQuiet
  <2>2. CASE p.purpose = "runner_old_stop"
    <3>1. \/ r \in ProtectionCancelConfirmed(a, p.target) \/ r \in ProtectionCancelRejected(a, p.target)
          \/ r \in ProtectionCancelOutcomeUnknown(a, p.target)
        BY <2>0, <2>2 DEF CancelResultEvent
    <3> QED BY <3>1, QuietProtection DEF AllQuiet
  <2>3. CASE p.purpose \notin {"entry_remainder", "runner_old_stop"}
    <3>1. \/ r \in OwnedOrphanCancelConfirmed(a, p.target) \/ r \in CancelOrderRejected(a, p.target)
          \/ r \in CancelOrderOutcomeUnknown(a, p.target)
        BY <2>0, <2>3 DEF CancelResultEvent
    <3> QED BY <3>1, QuietExit, QuietOther DEF AllQuiet
  <2> QED BY <2>1, <2>2, <2>3
<1> QED BY <1>1, <1>2, <1>3, <1>4, <1>5, <1>6, <1>7, <1>8, PayloadFields DEF Kinds

\* _recovery_event: so does the same news from venue truth, and the absence of a replacement.
LEMMA QuietRecovery ==
    ASSUME NEW a \in Aggregate, NEW c, NEW p \in Payload, NEW decision,
           NEW r \in RecoveryEvent(a, c, p, decision),
           ~ (decision = "RECONCILED_SUBMITTED" /\ p.kind \in {"INITIAL_STOP", "ENTRY"}),
           p.kind # "REPLACE_PROTECTION"
    PROVE  Quiet(a, r)
<1>1. CASE p.kind = "SET_LEVERAGE"
  <2>1. r \in LeverageConfirmed(a) \/ r \in LeverageRejected(a) BY <1>1 DEF RecoveryEvent
  <2> QED BY <2>1, QuietEntry DEF AllQuiet
<1>2. CASE p.kind = "ENTRY"
  <2>1. r \in EntryAbsenceConfirmed(a) BY <1>2 DEF RecoveryEvent
  <2> QED BY <2>1, QuietEntry DEF AllQuiet
<1>3. CASE p.kind = "INITIAL_STOP"
  <2>1. r \in InitialStopAbsenceConfirmed(a) BY <1>3 DEF RecoveryEvent
  <2> QED BY <2>1, QuietProtection DEF AllQuiet
<1>4. CASE p.kind = "TAKE_PROFIT"
  <2>1. r \in TakeProfitConfirmed(a, c, p.qty) \/ r \in TakeProfitAbsenceConfirmed(a)
      BY <1>4 DEF RecoveryEvent
  <2> QED BY <2>1, QuietProtection DEF AllQuiet
<1>6. CASE p.kind = "EXIT"
  <2>1. r \in ExitAccepted(a) \/ r \in ExitAbsenceConfirmed(a) BY <1>6 DEF RecoveryEvent
  <2> QED BY <2>1, QuietExit DEF AllQuiet
<1>7. CASE p.kind = "CONTROLLED_FLATTEN"
  <2>1. r \in ControlledFlattenAccepted(a) \/ r \in ControlledFlattenAbsenceConfirmed(a)
      BY <1>7 DEF RecoveryEvent
  <2> QED BY <2>1, QuietExit DEF AllQuiet
<1>8. CASE p.kind = "CANCEL_ORDER"
  <2>0. r \in CancelRecoveryEvent(a, p, decision) BY <1>8 DEF RecoveryEvent
  <2>1. \/ r \in CancelOrderStillOpenConfirmed(a, p.target) \/ r \in CancelOrderAbsenceConfirmed(a, p.target)
        \/ r \in EntryRemainderCancelConfirmed(a, p.target)
        \/ r \in ProtectionCancelAbsenceConfirmed(a, p.target)
      BY <2>0 DEF CancelRecoveryEvent
  <2> QED BY <2>1, QuietEntry, QuietProtection, QuietExit, QuietOther DEF AllQuiet
<1> QED BY <1>1, <1>2, <1>3, <1>4, <1>6, <1>7, <1>8, PayloadFields DEF Kinds

\* reconcile_ticket: a complete fill does, and flatness, on a snapshot without a position.
LEMMA QuietSnapshot ==
    ASSUME NEW a \in Aggregate, NEW s, s.open \subseteq CommandId, NEW r \in SnapshotEvent(a, s)
    PROVE  \/ Quiet(a, r)
           \/ \E d \in Dispositions : r \in EntryFilled(a, s.qty, d)
           \/ s.qty = 0 /\ Tame(a, r)
<1>1. CASE a.status = "ENTRY_ACCEPTED"
  <2>1. r \in EntryFillEvent(a, s.qty)
      BY <1>1 DEF SnapshotEvent, ExitStatuses, FlattenStatuses, Tp1Statuses, RunnerStatuses
  <2>2. \/ r \in EntryPartiallyFilled(a, s.qty)
        \/ \E d \in Dispositions : r \in EntryFilled(a, s.qty, d)
      BY <2>1 DEF EntryFillEvent
  <2> QED BY <2>2, QuietOther DEF AllQuiet
<1>2. CASE a.status = "RECONCILIATION_PENDING"
  <2> DEFINE known == NextCleanupOrder(a)
             regular == {c \in s.open : NamespaceOf(c) = "regular"}
             shown == IF regular # {} THEN regular ELSE s.open
  <2>1. r \in CleanupEvent(a, s)
      BY <1>2 DEF SnapshotEvent, ExitStatuses, FlattenStatuses, Tp1Statuses, RunnerStatuses
  <2>2. \/ r \in UnownedOrderDetected(a) \/ r \in ReconciliationMatched(a)
        \/ r \in OwnedOrderAbsenceConfirmed(a, known)
        \/ r \in OwnedOrphanOrderDetected(a, known, "conditional")
        \/ \E c \in shown : r \in OwnedOrphanOrderDetected(a, c, NamespaceOf(c))
      BY <2>1 DEF CleanupEvent
  <2> HIDE DEF known, shown
  <2> QED BY <2>2, QuietExit, QuietOther DEF AllQuiet
<1>3. CASE a.status \in {"CANCEL_REJECTED", "CANCEL_OUTCOME_UNKNOWN"}
  <2>1. r \in CancelFollowUpEvent(a, s)
      BY <1>3 DEF SnapshotEvent, ExitStatuses, FlattenStatuses, Tp1Statuses, RunnerStatuses
  <2>2. \/ r \in CancelOrderAbsenceConfirmed(a, a.pendingCancel)
        \/ r \in OwnedOrphanOrderDetected(a, a.pendingCancel, NamespaceOf(a.pendingCancel))
      BY <2>1 DEF CancelFollowUpEvent
  <2> QED BY <2>2, QuietOther DEF AllQuiet
<1>4. CASE a.status \notin {"ENTRY_ACCEPTED", "RECONCILIATION_PENDING", "CANCEL_REJECTED",
                            "CANCEL_OUTCOME_UNKNOWN"}
  <2>1. s.qty = 0 /\ (r \in PositionFlatConfirmed(a) \/ r \in ExternalFlatDetected(a))
      BY <1>4 DEF SnapshotEvent
  <2> QED BY <2>1, FlatIsTame
<1> QED BY <1>1, <1>2, <1>3, <1>4

-----------------------------------------------------------------------------
(* The protection invariant. *)

\* commit_reduction lets the rows grow by what the reduction prepares.
LEMMA RowsGrow ==
    ASSUME NEW rows \in [CommandId -> Row], NEW r, NEW au, Commit(r, rows, au), r.prepare \subseteq Payload
    PROVE  Grown(rows, commands', r.prepare)
<1> DEFINE marked == MarkAbsent(rows, r.markAbsent)
<1>1. marked \in [CommandId -> Row] BY MarkAbsentRows
<1>2. \A c \in CommandId : Steady(rows[c], marked[c])
    BY DEF Steady, MarkAbsent, UnknownCancels, AcceptedRows
<1> HIDE DEF marked
<1>4. CASE commands' = marked BY <1>2, <1>4 DEF Grown
<1>5. CASE \E p \in r.prepare, g \in Generations :
             /\ GenerationAllowed(rows, p, g)
             /\ commands' = [marked EXCEPT ![<<p.kind, g>>] =
                               [status |-> "PREPARED", timer |-> "running", payload |-> p]]
  <2>1. PICK p \in r.prepare, g \in Generations :
             /\ GenerationAllowed(rows, p, g)
             /\ commands' = [marked EXCEPT ![<<p.kind, g>>] =
                               [status |-> "PREPARED", timer |-> "running", payload |-> p]]
      BY <1>5
  <2> DEFINE new == <<p.kind, g>>
  <2>2. new \in CommandId /\ new[1] = p.kind BY <2>1, PayloadFields DEF CommandId
  <2>3. rows[new].status = "NONE" BY <2>1 DEF GenerationAllowed
  <2>5. commands'[new] = [status |-> "PREPARED", timer |-> "running", payload |-> p] BY <1>1, <2>1, <2>2
  <2>6. \A c \in CommandId : c # new => commands'[c] = marked[c] BY <1>1, <2>1, <2>2
  <2> HIDE DEF new
  <2> QED BY <1>2, <2>1, <2>2, <2>3, <2>5, <2>6 DEF Grown
<1> QED BY <1>4, <1>5 DEF Commit, marked

\* ... from the rows its caller has moved on.
LEMMA CommitGrows ==
    ASSUME NEW rows \in [CommandId -> Row], NEW r, NEW au, Commit(r, rows, au), r.prepare \subseteq Payload,
           \A c \in CommandId : Steady(commands[c], rows[c])
    PROVE  Grown(commands, commands', r.prepare)
<1>1. Grown(rows, commands', r.prepare) BY RowsGrow
<1> QED BY <1>1 DEF Grown, Steady

\* A transaction that sees to it keeps the position covered.
LEMMA CoverStep ==
    ASSUME IInv, CoverInv, NEW prepare, Grown(commands, commands', prepare), prepare \subseteq Payload,
           Guarded(agg, agg', prepare), UNCHANGED <<order, position, entryFilled>>,
           recon' = recon \/ recon'.work = "idle"
    PROVE  CoverInv'
<1>0. /\ position \in Nat
      /\ \A c \in CommandId : commands[c] \in Row
    BY QuantityAssumption DEF IInv, TypeOK, Quantities
<1>1. \A c \in CommandId : IsStop(c) /\ commands[c].status # "NONE" => Steady(commands[c], commands'[c])
    BY DEF Grown
<1>2. \A c \in CommandId : commands[c].status \in AcceptedRows =>
         Steady(commands[c], commands'[c])
    BY DEF Grown, AcceptedRows
<1>3. HasStop(commands') => \/ HasStop(commands)
                            \/ recon'.work = "idle" /\ agg'.status \notin FlatStatuses
  <2> SUFFICES ASSUME NEW c \in CommandId, IsStop(c), commands'[c].status # "NONE"
               PROVE  \/ HasStop(commands)
                      \/ recon'.work = "idle" /\ agg'.status \notin FlatStatuses
      BY DEF HasStop
  <2>1. CASE commands[c].status # "NONE" BY <2>1 DEF HasStop
  <2>2. CASE commands[c].status = "NONE"
    <3>1. commands'[c].payload \in prepare /\ commands'[c].payload.kind \in StopKinds
        BY <2>2 DEF Grown, Steady, IsStop
    <3> QED BY <3>1 DEF Guarded
  <2> QED BY <2>1, <2>2
<1>4. EntryOver' <=> EntryOver BY DEF EntryOver
<1>5. StopNamed(agg, commands)'
  <2>1. CASE agg'.activeStop = agg.activeStop /\ (agg.activeStop # NoOrder => agg'.activeStopPrice = agg.activeStopPrice)
      BY <1>2, <2>1 DEF StopNamed, CoverInv, Steady, IsStop
  <2>2. CASE agg'.activeStop = NoOrder BY <2>2 DEF StopNamed
  <2>3. ASSUME NEW c \in CommandId, Adopts(agg, agg', c) PROVE StopNamed(agg, commands)'
    <3>1. Steady(commands[c], commands'[c]) BY <1>1, <2>3 DEF Adopts
    <3> QED BY <2>3, <3>1 DEF StopNamed, Adopts, Steady
  <2> QED BY <2>1, <2>2, <2>3 DEF Guarded
<1>6. StopsSized(commands)'
  <2> SUFFICES ASSUME NEW c \in CommandId, IsStop(c), commands'[c].status # "NONE"
               PROVE  /\ EntryOver /\ position <= commands'[c].payload.qty
                      /\ c[1] = "INITIAL_STOP" => commands'[c].payload.price = InitialStopPrice
      BY <1>4 DEF StopsSized
  <2>1. CASE commands[c].status # "NONE" BY <1>1, <2>1 DEF CoverInv, StopsSized, Steady
  <2>2. CASE commands[c].status = "NONE"
    <3>1. commands'[c].payload \in prepare /\ commands'[c].payload.kind = c[1] BY <2>2 DEF Grown, Steady
    <3> QED BY <3>1 DEF Guarded, IsStop
  <2> QED BY <2>1, <2>2
<1>7. StopsGone(agg, commands)'
  <2> SUFFICES ASSUME NEW c \in CommandId, IsStop(c), order[c] = "done", position > 0
               PROVE  commands'[c].status \in AcceptedRows /\ c # agg'.activeStop
      BY DEF StopsGone
  <2>1. commands[c].status \in AcceptedRows /\ c # agg.activeStop BY DEF CoverInv, StopsGone
  <2>2. commands'[c].status \in AcceptedRows BY <1>2, <2>1 DEF Steady
  <2>3. c # agg'.activeStop BY <2>1, NoOrderAssumption DEF Guarded, Adopts, AcceptedRows
  <2> QED BY <2>2, <2>3
<1>8. ASSUME NEW t \in CommandId, Superseded(agg, commands, t), agg'.status \notin FlatStatuses
      PROVE  Superseded(agg', commands', t)
  <2>1. commands'[t].status \in AcceptedRows /\ commands'[t].payload = commands[t].payload
      BY <1>2, <1>8 DEF Superseded, Steady
  <2>2. CASE agg'.activeStop = agg.activeStop /\ (agg.activeStop # NoOrder => agg'.activeStopPrice = agg.activeStopPrice)
      BY <1>8, <2>1, <2>2 DEF Superseded
  <2>3. ASSUME NEW c \in CommandId, Adopts(agg, agg', c) PROVE Superseded(agg', commands', t)
    <3>1. t # c /\ c # NoOrder BY <1>8, <2>3, NoOrderAssumption DEF Superseded, Adopts, AcceptedRows
    <3>2. /\ commands[t].payload.price \in Nat /\ agg.activeStopPrice \in Nat /\ agg'.activeStopPrice \in Nat
        BY <1>0, <2>3, BoundAssumption DEF IInv, TypeOK, Aggregate, Row, Payload, Prices, Adopts
    <3>3. commands[t].payload.price <= agg'.activeStopPrice BY <1>8, <2>3, <3>2 DEF Superseded, Adopts
    <3> QED BY <2>1, <2>3, <3>1, <3>3 DEF Superseded, Adopts
  <2> QED BY <1>8, <2>2, <2>3 DEF Guarded
<1>9. CancelsSafe(agg, commands)'
  <2> SUFFICES ASSUME NEW d \in CommandId, d[1] = "CANCEL_ORDER", commands'[d].status # "NONE",
                      IsStop(commands'[d].payload.target), agg'.status \notin FlatStatuses
               PROVE  Superseded(agg', commands', commands'[d].payload.target)
      BY DEF CancelsSafe, Superseded
  <2>1. CASE commands[d].status # "NONE"
    <3>1. commands'[d].payload = commands[d].payload BY <2>1 DEF Grown, Steady
    <3>2. Superseded(agg, commands, commands[d].payload.target)
        BY <2>1, <3>1 DEF CoverInv, CancelsSafe, Guarded
    <3> QED BY <1>8, <3>1, <3>2 DEF IsStop
  <2>2. CASE commands[d].status = "NONE"
    <3> DEFINE t == commands'[d].payload.target
    <3>1. commands'[d].payload \in prepare /\ commands'[d].payload.kind = d[1] BY <2>2 DEF Grown, Steady
    <3>2. Superseded(agg', commands, t) BY <3>1 DEF Guarded
    <3>3. Steady(commands[t], commands'[t]) BY <1>2, <3>2 DEF Superseded, IsStop
    <3> QED BY <3>2, <3>3 DEF Superseded, Steady
  <2> QED BY <2>1, <2>2
<1>10. FlatIsFlat(agg, commands)' BY <1>3 DEF FlatIsFlat, CoverInv, Guarded
<1>11. SnapshotBounds(commands)' BY <1>3, <1>4 DEF SnapshotBounds, CoverInv
<1>12. StageHolds(agg)' BY DEF Guarded, StageHolds
<1>13. position' <= entryFilled' BY DEF CoverInv
<1> QED BY <1>5, <1>6, <1>7, <1>9, <1>10, <1>11, <1>12, <1>13 DEF CoverInv

-----------------------------------------------------------------------------
(* The venue. *)

\* Such a move keeps the position covered.
LEMMA VenueCover ==
    ASSUME IInv, IInv', CoverInv, VenueMoves, UNCHANGED <<agg, commands, recon>>
    PROVE  CoverInv'
<1>0. /\ position \in Nat /\ position' \in Nat /\ agg.positionQty \in Nat /\ recon.qty \in Nat
      /\ \A c \in CommandId : commands[c].payload.qty \in Nat
    BY QuantityAssumption DEF IInv, TypeOK, Quantities, Aggregate, Row, Payload
<1>1. CASE EntryOver
  <2>1. EntryOver' /\ position' <= position BY <1>1 DEF VenueMoves
  <2>2. StopNamed(agg, commands)' BY DEF CoverInv, StopNamed, VenueMoves, IsStop
  <2>3. StopsSized(commands)'
    <3> SUFFICES ASSUME NEW c \in CommandId, IsStop(c), commands[c].status # "NONE"
                 PROVE  /\ EntryOver' /\ position' <= commands[c].payload.qty
                        /\ c[1] = "INITIAL_STOP" => commands[c].payload.price = InitialStopPrice
        BY DEF StopsSized
    <3>1. /\ position <= commands[c].payload.qty
          /\ c[1] = "INITIAL_STOP" => commands[c].payload.price = InitialStopPrice
        BY DEF CoverInv, StopsSized
    <3> QED BY <1>0, <2>1, <3>1
  <2>4. StopsGone(agg, commands)' BY <1>0, <2>1 DEF CoverInv, StopsGone, VenueMoves
  <2>5. CancelsSafe(agg, commands)' BY DEF CoverInv, CancelsSafe, Superseded
  <2>6. FlatIsFlat(agg, commands)' BY <1>0, <2>1 DEF CoverInv, FlatIsFlat
  <2>7. SnapshotBounds(commands)' BY <1>0, <2>1 DEF CoverInv, SnapshotBounds
  <2>8. StageHolds(agg)' BY <1>0, <2>1 DEF CoverInv, StageHolds
  <2> QED BY <2>2, <2>3, <2>4, <2>5, <2>6, <2>7, <2>8 DEF CoverInv, VenueMoves
<1>2. CASE ~ EntryOver
  <2>1. \A c \in CommandId : IsStop(c) => commands[c].status = "NONE" BY <1>2 DEF CoverInv, StopsSized
  <2>2. agg.activeStop = NoOrder BY <2>1 DEF CoverInv, StopNamed, AcceptedRows, IsStop
  <2>3. \A c \in CommandId : IsStop(c) => order'[c] = "unsent" BY <2>1 DEF IInv, DurableBeforeVenue
  <2>4. StopNamed(agg, commands)' BY <2>2 DEF StopNamed
  <2>5. StopsSized(commands)' /\ StopsGone(agg, commands)' BY <2>1, <2>3 DEF StopsSized, StopsGone
  <2>6. CancelsSafe(agg, commands)' BY DEF CoverInv, CancelsSafe, Superseded
  <2>7. ~ HasStop(commands) BY <2>1 DEF HasStop
  <2>8. FlatIsFlat(agg, commands)' /\ SnapshotBounds(commands)'
      BY <1>2, <2>7 DEF CoverInv, FlatIsFlat, SnapshotBounds
  <2>9. StageHolds(agg)' BY <2>2 DEF CoverInv, StageHolds
  <2> QED BY <2>4, <2>5, <2>6, <2>8, <2>9 DEF CoverInv, VenueMoves
<1> QED BY <1>1, <1>2

\* What leaves the position of the venue no larger.
LEMMA LessBounds ==
    ASSUME NEW q \in Nat, NEW n \in Nat
    PROVE  /\ Less(q, n) \in Nat /\ Less(q, n) <= q
           /\ q <= n => Less(q, n) = 0
BY DEF Less

\* Every step of the venue is such a move.
LEMMA VenueStep ==
    ASSUME IInv, CoverInv, VenueNext
    PROVE  VenueMoves
<1>0. /\ position \in Nat /\ entryFilled \in Nat /\ position <= entryFilled
      /\ order \in [CommandId -> OrderStates] /\ EntryCommand \in CommandId
      /\ \A c \in CommandId : commands[c].payload.qty \in Nat /\ commands[c].payload.target \in OrderId
    BY QuantityAssumption, EntryCommandType DEF IInv, TypeOK, Quantities, Row, Payload, CoverInv
<1>1. ASSUME NEW c \in CommandId, order[c] \in {"unsent", "transit"}, NEW state \in OrderStates,
             order' = [order EXCEPT ![c] = state], state # "done" \/ ~ IsStop(c),
             position' \in Nat, position' <= position, entryFilled' = entryFilled
      PROVE  VenueMoves
  <2>1. EntryOver => EntryOver' BY <1>0, <1>1 DEF EntryOver
  <2>2. \A d \in CommandId : order[d] \in {"live", "done"} => order'[d] = order[d] BY <1>0, <1>1
  <2>3. \A d \in CommandId : IsStop(d) /\ order'[d] = "done" => order[d] = "done" BY <1>0, <1>1
  <2> QED BY <1>0, <1>1, <2>1, <2>2, <2>3 DEF VenueMoves
<1>2. ASSUME NEW c \in CommandId, Deliver(c) PROVE VenueMoves
  <2>0. order[c] = "transit" /\ entryFilled' = entryFilled /\ c[1] \in Kinds
      BY <1>2 DEF Deliver, CommandId
  <2>1. CASE c[1] \in MarketKinds
    <3>1. position' = Less(position, commands[c].payload.qty) /\ Fate(c, "done")
        BY <1>2, <2>1 DEF Deliver, MarketKinds
    <3> QED BY <1>0, <1>1, <2>0, <2>1, <3>1, LessBounds DEF Fate, OrderStates, IsStop, StopKinds, MarketKinds
  <2>2. CASE c[1] = "CANCEL_ORDER" /\ CancelHits(c)
    <3> DEFINE t == commands[c].payload.target
    <3>1. /\ order' = [order EXCEPT ![c] = "done", ![t] = "done"] /\ position' = position
          /\ order[t] = "live" /\ t # NoOrder
        BY <1>2, <2>2 DEF Deliver, MarketKinds, CancelHits
    <3>2. t \in CommandId /\ t # c BY <1>0, <2>0, <3>1 DEF OrderId
    <3> HIDE DEF t
    <3>3. /\ order'[c] = "done" /\ order'[t] = "done"
          /\ \A d \in CommandId : d # c /\ d # t => order'[d] = order[d]
        BY <1>0, <3>1, <3>2
    <3>4. EntryOver => EntryOver' BY <1>0, <3>3 DEF EntryOver
    <3>5. ~ IsStop(c) BY <2>2 DEF IsStop, StopKinds
    <3>6. IsStop(t) /\ position > 0 => commands[t].status \in AcceptedRows /\ t # agg.activeStop
      <4> SUFFICES ASSUME IsStop(t), position > 0
                   PROVE  commands[t].status \in AcceptedRows /\ t # agg.activeStop
          OBVIOUS
      <4>1. commands[c].status # "NONE" /\ commands[t].status # "NONE"
          BY <2>0, <3>1, <3>2 DEF IInv, DurableBeforeVenue
      <4>2. agg.status \in FlatStatuses \/ Superseded(agg, commands, t)
          BY <2>2, <4>1 DEF CoverInv, CancelsSafe, t
      <4>3. agg.status \notin FlatStatuses BY <1>0, <3>2, <4>1 DEF CoverInv, FlatIsFlat, HasStop
      <4> QED BY <4>2, <4>3 DEF Superseded
    <3>7. \A d \in CommandId : IsStop(d) /\ order'[d] = "done" /\ position' > 0 /\ order[d] # "done" =>
             commands[d].status \in AcceptedRows /\ d # agg.activeStop
        BY <3>1, <3>3, <3>5, <3>6
    <3>8. \A d \in CommandId : order[d] \in {"live", "done"} => order'[d] \in {"live", "done"} BY <3>3
    <3> QED BY <1>0, <2>0, <3>1, <3>4, <3>7, <3>8 DEF VenueMoves
  <2>3. CASE c[1] \notin MarketKinds /\ ~ (c[1] = "CANCEL_ORDER" /\ CancelHits(c))
    <3>1. /\ position' = position
          /\ \E state \in OrderStates : /\ order' = [order EXCEPT ![c] = state]
                                        /\ state = "done" => c[1] = "SET_LEVERAGE"
        BY <1>2, <2>0, <2>3 DEF Deliver, Fate, OrderStates, MarketKinds, Kinds
    <3>2. PICK state \in OrderStates : /\ order' = [order EXCEPT ![c] = state]
                                       /\ state = "done" => c[1] = "SET_LEVERAGE"
        BY <3>1
    <3>3. state # "done" \/ ~ IsStop(c) BY <3>2 DEF IsStop, StopKinds
    <3>4. position' \in Nat /\ position' <= position BY <1>0, <3>1
    <3> QED BY <1>1, <2>0, <3>2, <3>3, <3>4
  <2> QED BY <2>1, <2>2, <2>3
<1>3. ASSUME NEW c \in CommandId, Refuse(c) \/ Lose(c) PROVE VenueMoves
  <2>1. /\ order[c] = "transit" /\ UNCHANGED <<position, entryFilled>>
        /\ \E state \in {"refused", "lost"} : order' = [order EXCEPT ![c] = state]
      BY <1>3 DEF Refuse, Lose, Fate
  <2>2. PICK state \in {"refused", "lost"} : order' = [order EXCEPT ![c] = state] BY <2>1
  <2>3. position' \in Nat /\ position' <= position BY <1>0, <2>1
  <2>4. state \in OrderStates /\ state # "done" BY DEF OrderStates
  <2> QED BY <1>1, <2>1, <2>2, <2>3, <2>4
<1>4. ASSUME NEW c \in CommandId, RestingFill(c) PROVE VenueMoves
  <2>1. /\ order[c] = "live" /\ order' = [order EXCEPT ![c] = "done"] /\ entryFilled' = entryFilled
        /\ position' = Less(position, commands[c].payload.qty)
      BY <1>4 DEF RestingFill, Fate
  <2>2. position' \in Nat /\ position' <= position BY <1>0, <2>1, LessBounds
  <2>3. IsStop(c) => position' = 0
    <3>1. commands[c].status # "NONE" BY <2>1 DEF IInv, DurableBeforeVenue
    <3>2. IsStop(c) => position <= commands[c].payload.qty BY <3>1 DEF CoverInv, StopsSized
    <3> QED BY <1>0, <2>1, <3>2, LessBounds
  <2>4. order'[c] = "done" /\ \A d \in CommandId : d # c => order'[d] = order[d] BY <1>0, <2>1
  <2> QED BY <1>0, <2>1, <2>2, <2>3, <2>4 DEF VenueMoves, EntryOver
<1>5. ASSUME EntryFill PROVE VenueMoves
  <2>1. /\ order[EntryCommand] = "live" /\ position' = position + 1 /\ entryFilled' = entryFilled + 1
        /\ \E state \in {"live", "done"} : order' = [order EXCEPT ![EntryCommand] = state]
      BY <1>5 DEF EntryFill, Fate
  <2>2. ~ IsStop(EntryCommand) /\ ~ EntryOver BY <2>1 DEF IsStop, StopKinds, EntryCommand, EntryOver
  <2> QED BY <1>0, <2>1, <2>2 DEF VenueMoves
<1>6. ASSUME ExternalClose PROVE VenueMoves BY <1>0, <1>6 DEF ExternalClose, VenueMoves, EntryOver
<1>7. ASSUME ForeignOrder PROVE VenueMoves BY <1>0, <1>7 DEF ForeignOrder, VenueMoves, EntryOver
<1> QED BY <1>2, <1>3, <1>4, <1>5, <1>6, <1>7 DEF VenueNext

-----------------------------------------------------------------------------
(* The events, one kind after the other. *)

\* A tame reduction is guarded if it concludes flatness only where the position is flat.
LEMMA TameGuarded ==
    ASSUME CoverInv, NEW r, Tame(agg, r),
           r.agg.status \in FlatStatuses /\ agg.status \notin FlatStatuses /\ HasStop(commands) => position = 0
    PROVE  Guarded(agg, r.agg, r.prepare)
<1>1. StageHolds(agg) BY DEF CoverInv
<1>2. ~ IsStop(agg.entryOrder) BY <1>1, NoOrderAssumption DEF StageHolds, IsStop, StopKinds
<1>3. r.agg.status \in ReplacingStatuses => r.agg.status \in RunnerStatuses
    BY DEF ReplacingStatuses, RunnerStatuses
<1>4. /\ r.agg.status \in RunnerStatuses \cup OpeningStatuses \cup UnprotectedStatuses =>
            r.agg.status \notin FlatStatuses
    BY DEF RunnerStatuses, OpeningStatuses, UnprotectedStatuses, FlatStatuses, Tp1Statuses, BeforeFill,
       EntryStatuses, ProtectionStatuses, CleanupStatuses, ClosureStatuses
<1>5. StageHolds(r.agg) BY <1>1, <1>3, <1>4 DEF StageHolds, Tame, Calm
<1> QED BY <1>2, <1>5 DEF Guarded, Tame, Calm

\* A quiet one always is.
LEMMA QuietGuarded ==
    ASSUME CoverInv, NEW r, Quiet(agg, r)
    PROVE  Guarded(agg, r.agg, r.prepare)
BY TameGuarded DEF Quiet

\* The stages are disjoint.
LEMMA StagesDiffer ==
    ASSUME NEW s
    PROVE  /\ s \in BeforeFill \cup {"CONTROLLED_FLATTEN_PENDING"} =>
                 s \notin RunnerStatuses \cup ReplacingStatuses \cup OpeningStatuses \cup FlatStatuses
           /\ s = "CONTROLLED_FLATTEN_PENDING" => s \notin UnprotectedStatuses
           /\ s \in ProtectionStatuses =>
                 s \notin RunnerStatuses \cup ReplacingStatuses \cup OpeningStatuses \cup FlatStatuses
           /\ s \in OpeningStatuses =>
                 s \notin RunnerStatuses \cup ReplacingStatuses \cup UnprotectedStatuses \cup FlatStatuses
           /\ s \in RunnerStatuses =>
                 s \notin OpeningStatuses \cup UnprotectedStatuses \cup FlatStatuses
<1> USE DEF RunnerStatuses, ReplacingStatuses, OpeningStatuses, FlatStatuses, UnprotectedStatuses,
        BeforeFill, EntryStatuses, ProtectionStatuses, Tp1Statuses, CleanupStatuses, ClosureStatuses
<1>1. s \in BeforeFill \cup {"CONTROLLED_FLATTEN_PENDING"} =>
         s \notin RunnerStatuses \cup ReplacingStatuses \cup OpeningStatuses \cup FlatStatuses
    OBVIOUS
<1>2. s = "CONTROLLED_FLATTEN_PENDING" => s \notin UnprotectedStatuses OBVIOUS
<1>3. s \in ProtectionStatuses =>
         s \notin RunnerStatuses \cup ReplacingStatuses \cup OpeningStatuses \cup FlatStatuses
    OBVIOUS
<1>4. s \in OpeningStatuses =>
         s \notin RunnerStatuses \cup ReplacingStatuses \cup UnprotectedStatuses \cup FlatStatuses
    OBVIOUS
<1>5. s \in RunnerStatuses => s \notin OpeningStatuses \cup UnprotectedStatuses \cup FlatStatuses
    OBVIOUS
<1> HIDE DEF RunnerStatuses, ReplacingStatuses, OpeningStatuses, FlatStatuses, UnprotectedStatuses,
        BeforeFill, EntryStatuses, ProtectionStatuses, Tp1Statuses, CleanupStatuses, ClosureStatuses
<1> QED BY <1>1, <1>2, <1>3, <1>4, <1>5

\* The Ticket is issued.
LEMMA IssueGuarded ==
    ASSUME CoverInv, agg.status = "UNISSUED", NEW change \in BOOLEAN, NEW r \in TicketIssued(change)
    PROVE  Guarded(agg, r.agg, r.prepare)
<1>1. /\ r.agg = [NoAggregate EXCEPT !.status = IF change THEN "LEVERAGE_PENDING" ELSE "ENTRY_PENDING",
                                     !.laneHeld = TRUE]
      /\ r.prepare \subseteq {Command("SET_LEVERAGE", 0), Command("ENTRY", TicketQuantity)}
    BY DEF TicketIssued, Transition
<1>2. /\ r.agg.status \in {"LEVERAGE_PENDING", "ENTRY_PENDING"}
      /\ r.agg.activeStop = NoOrder /\ r.agg.entryOrder = NoOrder
    BY <1>1 DEF NoAggregate
<1>3. \A p \in r.prepare : p.kind \notin StopKinds \cup {"CANCEL_ORDER"}
    BY <1>1, CommandKinds DEF StopKinds
<1>4. agg.status \in BeforeFill /\ r.agg.status \in BeforeFill BY <1>2 DEF BeforeFill, EntryStatuses
<1>5. agg.activeStop = NoOrder BY <1>4 DEF CoverInv, StageHolds, UnprotectedStatuses
<1>6. StageHolds(r.agg) BY <1>2, <1>4, StagesDiffer DEF StageHolds
<1> QED BY <1>2, <1>3, <1>4, <1>5, <1>6, StagesDiffer DEF Guarded

\* The ENTRY order is accepted.
LEMMA EntryAcceptedGuarded ==
    ASSUME IInv, CoverInv, NEW c \in CommandId, c[1] = "ENTRY", NEW r \in EntryAccepted(agg, c)
    PROVE  Guarded(agg, r.agg, r.prepare)
<1>1. /\ agg.status \in {"ENTRY_PENDING", "LEVERAGE_CONFIRMED", "ENTRY_OUTCOME_UNKNOWN"}
      /\ r.agg = [agg EXCEPT !.status = "ENTRY_ACCEPTED", !.entryOrder = c] /\ r.prepare = {}
    BY DEF EntryAccepted, When, Transition
<1>2. /\ r.agg.status = "ENTRY_ACCEPTED" /\ r.agg.entryOrder = c
      /\ r.agg.activeStop = agg.activeStop /\ r.agg.activeStopPrice = agg.activeStopPrice
    BY <1>1 DEF IInv, TypeOK, Aggregate
<1>3. agg.status \in BeforeFill /\ r.agg.status \in BeforeFill
    BY <1>1, <1>2 DEF BeforeFill, EntryStatuses
<1>4. agg.activeStop = NoOrder BY <1>3 DEF CoverInv, StageHolds, UnprotectedStatuses
<1>5. StageHolds(r.agg) BY <1>2, <1>3, <1>4, StagesDiffer DEF StageHolds
<1> QED BY <1>1, <1>2, <1>3, <1>4, <1>5, StagesDiffer DEF Guarded

\* The ENTRY order has filled: the snapshot that says so was read after its end.
LEMMA EntryFilledGuarded ==
    ASSUME IInv, CoverInv, recon.work = "snapshot", recon'.work = "idle", NEW d \in Dispositions,
           NEW r \in EntryFilled(agg, recon.qty, d)
    PROVE  Guarded(agg, r.agg, r.prepare)
<1> DEFINE updated == [agg EXCEPT !.positionQty = recon.qty, !.disposition = d]
<1>1. /\ agg.status \in {"ENTRY_PENDING", "LEVERAGE_CONFIRMED", "ENTRY_ACCEPTED"}
      /\ recon.qty = TicketQuantity
      /\ \/ r.agg = Moved(updated, "CONTROLLED_FLATTEN_PENDING")
         \/ r.agg = Moved(updated, "PROTECTION_PENDING")
      /\ \/ r.prepare = {Command("CONTROLLED_FLATTEN", recon.qty)}
         \/ r.prepare = {StopCommand("INITIAL_STOP", recon.qty, InitialStopPrice, NoOrder)}
    BY DEF EntryFilled, When, Transition
<1>2. /\ r.agg.status \in {"CONTROLLED_FLATTEN_PENDING", "PROTECTION_PENDING"}
      /\ r.agg.entryOrder = agg.entryOrder
      /\ r.agg.activeStop = agg.activeStop /\ r.agg.activeStopPrice = agg.activeStopPrice
    BY <1>1 DEF IInv, TypeOK, Aggregate, Moved
<1> HIDE DEF updated
<1>3. agg.status \in BeforeFill BY <1>1 DEF BeforeFill, EntryStatuses
<1>4. agg.activeStop = NoOrder BY <1>3 DEF CoverInv, StageHolds, UnprotectedStatuses
<1>5. EntryOver BY <1>1 DEF CoverInv, SnapshotBounds
<1>6. position <= recon.qty BY <1>1, QuantityAssumption DEF IInv, TypeOK, Quantities
<1>7. r.agg.status \notin RunnerStatuses \cup ReplacingStatuses \cup OpeningStatuses \cup FlatStatuses
    BY <1>2, StagesDiffer DEF ProtectionStatuses
<1>8. StageHolds(r.agg)
  <2>1. agg.entryOrder # NoOrder => agg.entryOrder[1] = "ENTRY" BY DEF CoverInv, StageHolds
  <2> QED BY <1>2, <1>4, <1>7, <2>1 DEF StageHolds
<1>9. \A p \in r.prepare :
         /\ p.kind # "CANCEL_ORDER"
         /\ p.kind \in StopKinds => p.qty = recon.qty /\ p.price = InitialStopPrice
    BY <1>1 DEF Command, StopCommand, StopKinds
<1>10. agg.status \notin FlatStatuses BY <1>3, StagesDiffer
<1> QED BY <1>2, <1>5, <1>6, <1>7, <1>8, <1>9, <1>10 DEF Guarded

\* The initial stop is confirmed.
LEMMA InitialStopGuarded ==
    ASSUME IInv, CoverInv, NEW c \in CommandId, c[1] = "INITIAL_STOP",
           commands[c].status \in {"CLAIMED", "OUTCOME_UNKNOWN"}, commands'[c].status \in AcceptedRows,
           order[c] \in {"live", "done"}, NEW q, NEW r \in InitialStopConfirmed(agg, c, q)
    PROVE  Guarded(agg, r.agg, r.prepare)
<1> DEFINE updated == [agg EXCEPT !.protectedQty = q, !.initialStop = c,
                                  !.activeStop = c, !.activeStopPrice = InitialStopPrice]
<1>1. /\ agg.status \in ProtectionStatuses
      /\ \/ r.agg = Moved(updated, "CONTROLLED_FLATTEN_PENDING")
         \/ r.agg = Moved(updated, "POST_FILL_RISK_PENDING")
      /\ r.prepare \subseteq {Command("CONTROLLED_FLATTEN", agg.positionQty)}
    BY DEF InitialStopConfirmed, When, Transition, ProtectionStatuses
<1>2. /\ r.agg.status \in {"CONTROLLED_FLATTEN_PENDING", "POST_FILL_RISK_PENDING"}
      /\ r.agg.entryOrder = agg.entryOrder
      /\ r.agg.activeStop = c /\ r.agg.activeStopPrice = InitialStopPrice
    BY <1>1 DEF IInv, TypeOK, Aggregate, Moved
<1> HIDE DEF updated
<1>3. agg.activeStop = NoOrder BY <1>1 DEF CoverInv, StageHolds, UnprotectedStatuses
<1>4. IsStop(c) /\ commands[c].payload.price = InitialStopPrice
    BY DEF CoverInv, StopsSized, IsStop, StopKinds
<1>5. Adopts(agg, r.agg, c) BY <1>2, <1>3, <1>4 DEF Adopts
<1>6. r.agg.status \notin RunnerStatuses \cup ReplacingStatuses \cup UnprotectedStatuses \cup FlatStatuses
    BY <1>2, StagesDiffer DEF OpeningStatuses
<1>7. StageHolds(r.agg)
  <2>1. agg.entryOrder # NoOrder => agg.entryOrder[1] = "ENTRY" BY DEF CoverInv, StageHolds
  <2> QED BY <1>2, <1>6, <2>1 DEF StageHolds
<1>8. \A p \in r.prepare : p.kind \notin StopKinds \cup {"CANCEL_ORDER"}
    BY <1>1, CommandKinds DEF StopKinds
<1>9. agg.status \notin FlatStatuses BY <1>1, StagesDiffer
<1> QED BY <1>5, <1>6, <1>7, <1>8, <1>9 DEF Guarded

\* A replacement is confirmed: the stop it supersedes may go.
LEMMA ReplacementGuarded ==
    ASSUME IInv, CoverInv, NEW c \in CommandId, c[1] = "REPLACE_PROTECTION",
           commands[c].status \in {"CLAIMED", "OUTCOME_UNKNOWN"}, commands'[c].status \in AcceptedRows,
           order[c] \in {"live", "done"}, NEW q, NEW t,
           NEW r \in ProtectionReplacementConfirmed(agg, c, q, commands[c].payload.price, t)
    PROVE  Guarded(agg, r.agg, r.prepare)
<1> DEFINE price == commands[c].payload.price
<1>1. /\ agg.status \in ReplacingStatuses /\ t = agg.activeStop /\ price = agg.pendingStopPrice
      /\ r.agg = [agg EXCEPT !.status = "RUNNER_OLD_STOP_CANCEL_PENDING",
                             !.protectedQty = q, !.activeStop = c,
                             !.activeStopPrice = price, !.replacedStop = t,
                             !.pendingStopPrice = NoPrice]
      /\ r.prepare = {CancelCommand(t, "conditional", "runner_old_stop")}
    BY DEF ProtectionReplacementConfirmed, When, Transition, ReplacingStatuses
<1>2. /\ r.agg.status = "RUNNER_OLD_STOP_CANCEL_PENDING" /\ r.agg.entryOrder = agg.entryOrder
      /\ r.agg.activeStop = c /\ r.agg.activeStopPrice = price /\ r.agg.positionQty = agg.positionQty
    BY <1>1 DEF IInv, TypeOK, Aggregate
<1> HIDE DEF price
<1>3. agg.status \in RunnerStatuses /\ r.agg.status \in RunnerStatuses /\ r.agg.status \notin ReplacingStatuses
    BY <1>1, <1>2 DEF ReplacingStatuses, RunnerStatuses
<1>4. agg.activeStop # NoOrder /\ position <= agg.positionQty /\ agg.activeStopPrice <= price
    BY <1>1, <1>3 DEF CoverInv, StageHolds
<1>5. /\ IsStop(t) /\ commands[t].status \in AcceptedRows
      /\ commands[t].payload.price = agg.activeStopPrice
    BY <1>1, <1>4 DEF CoverInv, StopNamed
<1>6. IsStop(c) /\ t # c /\ c # NoOrder BY <1>5, NoOrderAssumption DEF IsStop, StopKinds, AcceptedRows
<1>7. Adopts(agg, r.agg, c) BY <1>2, <1>4, <1>6 DEF Adopts, price
<1>8. Superseded(r.agg, commands, t) BY <1>2, <1>4, <1>5, <1>6 DEF Superseded
<1>9. StageHolds(r.agg)
  <2>1. agg.entryOrder # NoOrder => agg.entryOrder[1] = "ENTRY" BY DEF CoverInv, StageHolds
  <2> QED BY <1>2, <1>3, <1>4, <1>6, <2>1, StagesDiffer DEF StageHolds
<1>10. \A p \in r.prepare : p.kind \notin StopKinds /\ p.target = t BY <1>1 DEF CancelCommand, StopKinds
<1> QED BY <1>3, <1>7, <1>8, <1>9, <1>10, StagesDiffer DEF Guarded

\* A replacement is requested, for the exposure that is left.
LEMMA RequestGuarded ==
    ASSUME IInv, CoverInv, NEW r, NEW price,
           agg.activeStop # NoOrder, agg.activeStopPrice <= price,
           agg.status \in RunnerStatuses \cup OpeningStatuses,
           r.agg.status = "RUNNER_REPLACEMENT_PENDING", r.agg.entryOrder = agg.entryOrder,
           r.agg.activeStop = agg.activeStop, r.agg.activeStopPrice = agg.activeStopPrice,
           r.agg.pendingStopPrice = price, position <= r.agg.positionQty,
           r.prepare = {StopCommand("REPLACE_PROTECTION", r.agg.positionQty, price, agg.activeStop)}
    PROVE  Guarded(agg, r.agg, r.prepare)
<1>1. r.agg.status \in RunnerStatuses BY DEF RunnerStatuses
<1>2. r.agg.status \notin OpeningStatuses \cup UnprotectedStatuses \cup FlatStatuses /\ agg.status \notin FlatStatuses
    BY <1>1, StagesDiffer
<1>3. StageHolds(r.agg)
  <2>1. agg.entryOrder # NoOrder => agg.entryOrder[1] = "ENTRY" BY DEF CoverInv, StageHolds
  <2> QED BY <1>2, <2>1 DEF StageHolds
<1>4. IsStop(agg.activeStop) /\ commands[agg.activeStop].status # "NONE"
    BY DEF CoverInv, StopNamed, AcceptedRows
<1>5. HasStop(commands) /\ EntryOver BY <1>4 DEF HasStop, CoverInv, StopsSized, IsStop
<1>6. \A p \in r.prepare : p.kind = "REPLACE_PROTECTION" /\ p.qty = r.agg.positionQty BY DEF StopCommand
<1> QED BY <1>2, <1>3, <1>5, <1>6 DEF Guarded

-----------------------------------------------------------------------------
(* Every step keeps the position covered. *)

\* A guarded transaction.
LEMMA CommitCover ==
    ASSUME IInv, CoverInv, NEW rows \in [CommandId -> Row], NEW r, NEW au, Commit(r, rows, au),
           r.prepare \subseteq Payload, \A c \in CommandId : Steady(commands[c], rows[c]),
           Guarded(agg, r.agg, r.prepare), UNCHANGED venue, recon' = recon \/ recon'.work = "idle"
    PROVE  CoverInv'
<1>1. Grown(commands, commands', r.prepare) BY CommitGrows
<1>2. agg' = r.agg BY DEF Commit
<1>3. UNCHANGED <<order, position, entryFilled>> BY DEF venue
<1>4. Guarded(agg, agg', r.prepare) BY <1>2
<1> QED BY <1>1, <1>3, <1>4, CoverStep

\* A row that a worker moves on keeps its payload.
LEMMA SteadyRows ==
    ASSUME IInv, NEW c \in CommandId, NEW status \in RowStatuses, status # "NONE",
           commands[c].status \notin AcceptedRows \cup {"NONE"}
    PROVE  /\ SetStatus(commands, c, status) \in [CommandId -> Row]
           /\ SetStatus(commands, c, status)[c].status = status
           /\ \A d \in CommandId : Steady(commands[d], SetStatus(commands, c, status)[d])
<1>1. commands \in [CommandId -> Row] BY DEF IInv, TypeOK
<1>2. /\ SetStatus(commands, c, status) \in [CommandId -> Row]
      /\ SetStatus(commands, c, status)[c].status = status
      /\ \A d \in CommandId : d # c => SetStatus(commands, c, status)[d] = commands[d]
    BY <1>1, SetStatusRows
<1>3. SetStatus(commands, c, status)[c].payload = commands[c].payload BY <1>1 DEF SetStatus
<1>4. \A d \in CommandId : Steady(commands[d], SetStatus(commands, c, status)[d])
    BY <1>2, <1>3 DEF Steady
<1> QED BY <1>2, <1>4

\* Nothing but rows, timers and workers changes.
LEMMA RowsCover ==
    ASSUME IInv, CoverInv, \A c \in CommandId : Steady(commands[c], commands'[c]),
           UNCHANGED <<agg, venue>>, recon' = recon \/ recon'.work = "idle"
    PROVE  CoverInv'
<1>1. Grown(commands, commands', {}) BY DEF Grown
<1>2. Guarded(agg, agg', {}) BY DEF Guarded, CoverInv
<1> QED BY <1>1, <1>2, CoverStep DEF venue

\* dispatch_one_command's transactions on a result
LEMMA ResultCover ==
    ASSUME IInv, FenceInv, CoverInv, NEW c \in CommandId, commands[c].status = "CLAIMED",
           NEW result \in Results, result = "ACCEPTED" => order[c] \in {"live", "done"},
           \E r \in CommandResultEvent(agg, c, commands[c].payload, result) :
              Commit(r, SetStatus(commands, c, result), held),
           UNCHANGED <<venue, recon>>
    PROVE  CoverInv'
<1> DEFINE rows == SetStatus(commands, c, result)
           p == commands[c].payload
<1>0. agg \in Aggregate /\ p \in Payload BY DEF IInv, TypeOK, Row
<1>1. PICK r \in CommandResultEvent(agg, c, p, result) : Commit(r, rows, held) OBVIOUS
<1>2. p.kind = c[1] BY DEF FenceInv, Filed
<1>3. /\ rows \in [CommandId -> Row] /\ rows[c].status = result
      /\ \A d \in CommandId : Steady(commands[d], rows[d])
    BY SteadyRows DEF Results, RowStatuses, AcceptedRows
<1>4. r.prepare \subseteq Payload BY <1>0, <1>1, CommandResultSound DEF AllSound, Sound, WellFormed
<1> HIDE DEF rows
<1>5. Guarded(agg, r.agg, r.prepare)
  <2>1. CASE ~ (result = "ACCEPTED" /\ p.kind \in StopKinds \cup {"ENTRY"})
      BY <1>0, <1>1, <2>1, QuietResult, QuietGuarded
  <2>2. CASE result = "ACCEPTED" /\ p.kind = "ENTRY"
    <3>1. r \in EntryAccepted(agg, c) BY <1>1, <2>2 DEF CommandResultEvent
    <3> QED BY <1>2, <2>2, <3>1, EntryAcceptedGuarded
  <2>3. CASE result = "ACCEPTED" /\ p.kind \in StopKinds
    <3>1. commands'[c].status \in AcceptedRows
      <4>1. Grown(rows, commands', r.prepare) BY <1>1, <1>3, <1>4, RowsGrow
      <4> QED BY <1>3, <2>3, <4>1 DEF Grown, Steady, AcceptedRows
    <3>2. CASE p.kind = "INITIAL_STOP"
      <4>1. r \in InitialStopConfirmed(agg, c, agg.positionQty)
          BY <1>1, <2>3, <3>2 DEF CommandResultEvent
      <4> QED BY <1>2, <2>3, <3>1, <3>2, <4>1, InitialStopGuarded
    <3>3. CASE p.kind = "REPLACE_PROTECTION"
      <4>1. r \in ProtectionReplacementConfirmed(agg, c, p.qty, p.price, p.target)
          BY <1>1, <2>3, <3>3 DEF CommandResultEvent
      <4> QED BY <1>2, <2>3, <3>1, <3>3, <4>1, ReplacementGuarded
    <3> QED BY <2>3, <3>2, <3>3 DEF StopKinds
  <2> QED BY <2>1, <2>2, <2>3
<1> QED BY <1>1, <1>3, <1>4, <1>5, CommitCover

\* recover_unknown_command
LEMMA RecoveryCover ==
    ASSUME IInv, FenceInv, CoverInv, NEW c \in CommandId, RecoverUnknown(c)
    PROVE  CoverInv'
<1> DEFINE p == commands[c].payload
<1>0. agg \in Aggregate /\ p \in Payload /\ commands \in [CommandId -> Row] BY DEF IInv, TypeOK, Row
<1>1. PICK decision \in RecoveryDecisions(c) :
         \E r \in RecoveryEvent(agg, c, p, decision) : Commit(r, RecoveredRows(c, decision), held)
    BY DEF RecoverUnknown
<1> DEFINE rows == RecoveredRows(c, decision)
<1>2. PICK r \in RecoveryEvent(agg, c, p, decision) : Commit(r, rows, held) BY <1>1
<1>3. commands[c].status = "OUTCOME_UNKNOWN" /\ p.kind = c[1] /\ UNCHANGED <<venue, recon>>
    BY DEF RecoverUnknown, Unknown, FenceInv, Filed
<1>4. /\ rows \in [CommandId -> Row] /\ \A d \in CommandId : Steady(commands[d], rows[d])
      /\ decision = "RECONCILED_SUBMITTED" => rows[c].status = "RECONCILED_ACCEPTED"
  <2>1. CASE c[1] = "CANCEL_ORDER" /\ decision = "RECONCILED_ABSENT"
    <3>1. rows = commands BY <2>1 DEF RecoveredRows
    <3> HIDE DEF rows
    <3> QED BY <1>0, <2>1, <3>1 DEF Steady
  <2>2. CASE ~ (c[1] = "CANCEL_ORDER" /\ decision = "RECONCILED_ABSENT")
    <3>1. PICK status \in {"RECONCILED_ACCEPTED", "RECONCILED_ABSENT"} :
             /\ rows = SetStatus(commands, c, status)
             /\ decision = "RECONCILED_SUBMITTED" => status = "RECONCILED_ACCEPTED"
        BY <2>2 DEF RecoveredRows
    <3> HIDE DEF rows
    <3> QED BY <1>3, <3>1, SteadyRows DEF RowStatuses, AcceptedRows
  <2> QED BY <2>1, <2>2
<1>5. r.prepare \subseteq Payload BY <1>0, <1>2, RecoverySound DEF AllSound, Sound, WellFormed
<1> HIDE DEF rows
<1>6. ASSUME decision = "RECONCILED_SUBMITTED", p.kind \in StopKinds
      PROVE  commands'[c].status \in AcceptedRows /\ order[c] \in {"live", "done"}
  <2>1. Grown(rows, commands', r.prepare) BY <1>2, <1>4, <1>5, RowsGrow
  <2>2. decision \in OrderTruth(c) BY <1>1, <1>3, <1>6 DEF RecoveryDecisions, StopKinds
  <2> QED BY <1>4, <1>6, <2>1, <2>2 DEF Grown, Steady, AcceptedRows, OrderTruth
<1>7. Guarded(agg, r.agg, r.prepare)
  <2>1. CASE decision = "RECONCILED_SUBMITTED" /\ p.kind = "ENTRY"
    <3>1. r \in EntryAccepted(agg, c) BY <1>2, <2>1 DEF RecoveryEvent
    <3> QED BY <1>3, <2>1, <3>1, EntryAcceptedGuarded
  <2>2. CASE decision = "RECONCILED_SUBMITTED" /\ p.kind = "INITIAL_STOP"
    <3>1. r \in InitialStopConfirmed(agg, c, agg.positionQty) BY <1>2, <2>2 DEF RecoveryEvent
    <3>2. commands'[c].status \in AcceptedRows /\ order[c] \in {"live", "done"}
        BY <1>6, <2>2 DEF StopKinds
    <3> QED BY <1>3, <2>2, <3>1, <3>2, InitialStopGuarded
  <2>3. CASE decision = "RECONCILED_SUBMITTED" /\ p.kind = "REPLACE_PROTECTION"
    <3>1. r \in ProtectionReplacementConfirmed(agg, c, p.qty, p.price, p.target)
        BY <1>2, <2>3 DEF RecoveryEvent
    <3>2. commands'[c].status \in AcceptedRows /\ order[c] \in {"live", "done"}
        BY <1>6, <2>3 DEF StopKinds
    <3> QED BY <1>3, <2>3, <3>1, <3>2, ReplacementGuarded
  <2>4. CASE decision # "RECONCILED_SUBMITTED" /\ p.kind = "REPLACE_PROTECTION"
    <3>1. r \in ProtectionReplacementAbsenceConfirmed(agg) BY <1>2, <2>4 DEF RecoveryEvent
    <3>2. /\ agg.status = "RUNNER_REPLACEMENT_OUTCOME_UNKNOWN" /\ agg.activeStop # NoOrder
          /\ r.agg = Moved(agg, "RUNNER_REPLACEMENT_PENDING")
          /\ r.prepare = {StopCommand("REPLACE_PROTECTION", agg.positionQty, agg.pendingStopPrice,
                                      agg.activeStop)}
        BY <3>1 DEF ProtectionReplacementAbsenceConfirmed, When, Transition
    <3>3. /\ SameStops(agg, r.agg) /\ r.agg.status = "RUNNER_REPLACEMENT_PENDING"
          /\ r.agg.positionQty = agg.positionQty
        BY <1>0, <3>2, MovedStops
    <3>4. agg.status \in RunnerStatuses /\ agg.status \in ReplacingStatuses
        BY <3>2 DEF RunnerStatuses, ReplacingStatuses
    <3>5. position <= agg.positionQty /\ agg.activeStopPrice <= agg.pendingStopPrice
        BY <3>4 DEF CoverInv, StageHolds
    <3> QED BY <3>2, <3>3, <3>4, <3>5, RequestGuarded DEF SameStops
  <2>5. CASE /\ ~ (decision = "RECONCILED_SUBMITTED" /\ p.kind \in {"INITIAL_STOP", "ENTRY"})
             /\ p.kind # "REPLACE_PROTECTION"
      BY <1>0, <1>2, <2>5, QuietRecovery, QuietGuarded
  <2> QED BY <2>1, <2>2, <2>3, <2>4, <2>5
<1> QED BY <1>2, <1>3, <1>4, <1>5, <1>7, CommitCover

\* A transaction that leaves the rows to commit_reduction
LEMMA PlainCover ==
    ASSUME IInv, CoverInv, NEW r, NEW au, Commit(r, commands, au), r.prepare \subseteq Payload,
           Guarded(agg, r.agg, r.prepare), UNCHANGED venue, recon' = recon \/ recon'.work = "idle"
    PROVE  CoverInv'
<1>1. commands \in [CommandId -> Row] /\ \A c \in CommandId : Steady(commands[c], commands[c])
    BY DEF IInv, TypeOK, Steady
<1> QED BY <1>1, CommitCover

\* reconcile_ticket
LEMMA SnapshotCover ==
    ASSUME IInv, CoverInv, ReconcileTicket
    PROVE  CoverInv'
<1>0. /\ agg \in Aggregate /\ recon.qty \in Quantities /\ recon.open \subseteq CommandId
      /\ recon.work = "snapshot" /\ recon'.work = "idle" /\ UNCHANGED venue /\ position \in Nat
    BY QuantityAssumption DEF IInv, TypeOK, ReconcileTicket, IdleRecon, Quantities
<1>1. PICK r \in SnapshotEvent(agg, recon) : Commit(r, commands, held) BY DEF ReconcileTicket
<1>2. r.prepare \subseteq Payload BY <1>0, <1>1, SnapshotSound DEF AllSound, Sound, WellFormed
<1>3. Guarded(agg, r.agg, r.prepare)
  <2>1. CASE Quiet(agg, r) BY <2>1, QuietGuarded
  <2>2. CASE \E d \in Dispositions : r \in EntryFilled(agg, recon.qty, d)
      BY <1>0, <2>2, EntryFilledGuarded
  <2>3. CASE recon.qty = 0 /\ Tame(agg, r)
    <3>1. HasStop(commands) => position = 0 BY <1>0, <2>3 DEF CoverInv, SnapshotBounds
    <3> QED BY <2>3, <3>1, TameGuarded
  <2> QED BY <1>0, <1>1, <2>1, <2>2, <2>3, QuietSnapshot
<1> QED BY <1>0, <1>1, <1>2, <1>3, PlainCover

\* reconcile_post_fill_stress
LEMMA StressCover ==
    ASSUME IInv, CoverInv, NEW passed \in BOOLEAN, AssessStress(passed)
    PROVE  CoverInv'
<1> DEFINE resolved == incidents \cap {"post_fill_risk_facts_unavailable"}
<1>0. agg \in Aggregate BY DEF IInv, TypeOK
<1>1. PICK r \in PostFillStressAssessed(agg, passed) :
         Commit([r EXCEPT !.resolve = resolved], commands, held)
    BY DEF AssessStress
<1>2. Sound(agg, r) /\ Quiet(agg, r)
    BY <1>0, ProtectionEvents, QuietOther, EntryCommandType, ConstantTypes DEF AllSound, AllQuiet
<1> DEFINE s == [r EXCEPT !.resolve = resolved]
<1> HIDE DEF resolved
<1>3. s.agg = r.agg /\ s.prepare = r.prepare BY DEF PostFillStressAssessed, When, Transition
<1> HIDE DEF s
<1>4. Guarded(agg, s.agg, s.prepare) BY <1>2, <1>3, QuietGuarded
<1>5. s.prepare \subseteq Payload BY <1>2, <1>3 DEF Sound, WellFormed
<1>6. Commit(s, commands, held) /\ UNCHANGED <<venue, recon>> BY <1>1 DEF s, AssessStress
<1> QED BY <1>4, <1>5, <1>6, PlainCover

\* maintain_ticket_lifecycle, on facts read at the venue
LEMMA MaintenanceGuarded ==
    ASSUME IInv, CoverInv, NEW r \in MaintenanceEvent(agg)
    PROVE  Guarded(agg, r.agg, r.prepare)
<1>0. /\ agg \in Aggregate /\ position \in Nat /\ agg.positionQty \in Nat /\ agg.tp1Target \in Nat
      /\ agg.activeStopPrice \in Nat
    BY QuantityAssumption, BoundAssumption DEF IInv, TypeOK, Quantities, Aggregate, Prices
<1>1. CASE r \in ExitRequested(agg) BY <1>0, <1>1, QuietExit, QuietGuarded DEF AllQuiet
<1>2. ASSUME NEW floor \in Prices, floor > InitialStopPrice, r \in TakeProfitFilled(agg, agg.tp1Target, floor),
             position + agg.tp1Target = agg.positionQty
      PROVE  Guarded(agg, r.agg, r.prepare)
  <2> DEFINE runner == agg.positionQty - agg.tp1Target
  <2>1. /\ agg.status = "POSITION_PROTECTED" /\ agg.activeStop # NoOrder
        /\ r.agg = [agg EXCEPT !.status = "RUNNER_REPLACEMENT_PENDING", !.positionQty = runner,
                               !.tp1Order = NoOrder, !.pendingStopPrice = floor]
        /\ r.prepare = {StopCommand("REPLACE_PROTECTION", runner, floor, agg.activeStop)}
      BY <1>2 DEF TakeProfitFilled, When, Transition
  <2>2. position = runner BY <1>0, <1>2
  <2> HIDE DEF runner
  <2>3. /\ r.agg.status = "RUNNER_REPLACEMENT_PENDING" /\ r.agg.positionQty = runner
        /\ r.agg.entryOrder = agg.entryOrder /\ r.agg.activeStop = agg.activeStop
        /\ r.agg.activeStopPrice = agg.activeStopPrice /\ r.agg.pendingStopPrice = floor
      BY <1>0, <2>1 DEF Aggregate
  <2>4. agg.status \in OpeningStatuses BY <2>1 DEF OpeningStatuses, Tp1Statuses
  <2>5. agg.activeStopPrice <= floor
    <3>1. agg.activeStopPrice = InitialStopPrice BY <2>4 DEF CoverInv, StageHolds
    <3> QED BY <1>2, <3>1, BoundAssumption DEF InitialStopPrice, Prices
  <2>6. position <= r.agg.positionQty BY <1>0, <2>2, <2>3
  <2> QED BY <2>1, <2>3, <2>4, <2>5, <2>6, RequestGuarded
<1>3. ASSUME NEW price \in Prices, r \in RunnerStopRequested(agg, price), position = agg.positionQty
      PROVE  Guarded(agg, r.agg, r.prepare)
  <2>1. /\ agg.status = "RUNNER_PROTECTED" /\ agg.activeStop # NoOrder /\ price > agg.activeStopPrice
        /\ r.agg = [agg EXCEPT !.status = "RUNNER_REPLACEMENT_PENDING", !.pendingStopPrice = price]
        /\ r.prepare = {StopCommand("REPLACE_PROTECTION", agg.positionQty, price, agg.activeStop)}
      BY <1>3 DEF RunnerStopRequested, When, Transition
  <2>2. /\ r.agg.status = "RUNNER_REPLACEMENT_PENDING" /\ r.agg.positionQty = agg.positionQty
        /\ r.agg.entryOrder = agg.entryOrder /\ r.agg.activeStop = agg.activeStop
        /\ r.agg.activeStopPrice = agg.activeStopPrice /\ r.agg.pendingStopPrice = price
      BY <1>0, <2>1 DEF Aggregate
  <2>3. agg.status \in RunnerStatuses BY <2>1 DEF RunnerStatuses
  <2>4. agg.activeStopPrice <= price /\ position <= r.agg.positionQty
      BY <1>0, <1>3, <2>1, <2>2, BoundAssumption DEF Prices
  <2> QED BY <2>1, <2>2, <2>3, <2>4, RequestGuarded
<1>4. \/ r \in ExitRequested(agg)
      \/ /\ position + agg.tp1Target = agg.positionQty
         /\ \E floor \in Prices : floor > InitialStopPrice /\ r \in TakeProfitFilled(agg, agg.tp1Target, floor)
      \/ position = agg.positionQty /\ \E price \in Prices : r \in RunnerStopRequested(agg, price)
    BY DEF MaintenanceEvent, FloorEvent, RunnerEvent
<1> QED BY <1>1, <1>2, <1>3, <1>4

\* Every step of the Ticket, its workers and its venue.
LEMMA CoverNext ==
    ASSUME IInv, IInv', FenceInv, CoverInv, [Next]_vars
    PROVE  CoverInv'
<1>0. agg \in Aggregate /\ commands \in [CommandId -> Row] BY DEF IInv, TypeOK
<1>1. ASSUME NEW change \in BOOLEAN, IssueTicket(change) PROVE CoverInv'
  <2>1. PICK r \in TicketIssued(change) : Commit(r, commands, Authorities) BY <1>1 DEF IssueTicket
  <2>2. r.prepare \subseteq Payload BY IssueEvent DEF WellFormed
  <2>3. Guarded(agg, r.agg, r.prepare) BY <1>1, IssueGuarded DEF IssueTicket
  <2>4. UNCHANGED <<venue, recon>> BY <1>1 DEF IssueTicket
  <2> QED BY <2>1, <2>2, <2>3, <2>4, PlainCover
<1>2. CASE DispatchNext
  <2>1. ASSUME NEW c \in CommandId, ExpireClaim(c) PROVE CoverInv'
      BY <2>1, ResultCover DEF ExpireClaim, LapsedClaim, Results
  <2>2. ASSUME NEW c \in CommandId, ClaimPrepared(c) \/ Supersede(c) PROVE CoverInv'
    <3>1. PICK status \in {"CLAIMED", "SUPERSEDED"} : commands' = SetStatus(commands, c, status)
        BY <2>2 DEF ClaimPrepared, Supersede
    <3>2. commands[c].status = "PREPARED" /\ UNCHANGED <<agg, venue, recon>>
        BY <2>2 DEF ClaimPrepared, Supersede, Selects, Claimable
    <3>3. \A d \in CommandId : Steady(commands[d], commands'[d])
        BY <3>1, <3>2, SteadyRows DEF RowStatuses, AcceptedRows
    <3> QED BY <3>2, <3>3, RowsCover
  <2>3. ASSUME NEW c \in CommandId, PreflightRefuse(c) PROVE CoverInv'
    <3>1. commands[c].status = "CLAIMED" BY <2>3 DEF PreflightRefuse, IInv, LeaseInHand
    <3> QED BY <2>3, <3>1, ResultCover DEF PreflightRefuse, Record, Results
  <2>4. ASSUME NEW c \in CommandId, Send(c) PROVE CoverInv'
    <3>1. /\ order' = [order EXCEPT ![c] = "transit"] /\ UNCHANGED <<agg, commands, recon, position, entryFilled>>
          /\ order[c] = "unsent"
        BY <2>4 DEF Send, durable, IInv, LeaseInHand
    <3>2. order \in [CommandId -> OrderStates] /\ position \in Nat
        BY QuantityAssumption DEF IInv, TypeOK, Quantities
    <3>3. \A d \in CommandId : d # c => order'[d] = order[d] BY <3>1, <3>2
    <3>4. VenueMoves BY <3>1, <3>2, <3>3, EntryCommandType DEF VenueMoves, EntryOver, CoverInv
    <3> QED BY <3>1, <3>4, VenueCover
  <2>5. ASSUME NEW c \in CommandId, TimerLapses(c) PROVE CoverInv'
    <3>1. commands' = [commands EXCEPT ![c].timer = "over"] /\ UNCHANGED <<agg, venue, recon>>
        BY <2>5 DEF TimerLapses
    <3>2. \A d \in CommandId : Steady(commands[d], commands'[d]) BY <1>0, <3>1 DEF Row, Steady
    <3> QED BY <3>1, <3>2, RowsCover
  <2>6. ASSUME NEW c \in CommandId, NEW result \in Results, RecordResult(c, result) PROVE CoverInv'
    <3>1. commands[c].status = "CLAIMED" BY <2>6 DEF RecordResult, IInv, LeaseInHand
    <3>2. result = "ACCEPTED" => order[c] \in {"live", "done"} BY <2>6 DEF RecordResult, Answers
    <3> QED BY <2>6, <3>1, <3>2, ResultCover DEF RecordResult, Record
  <2>7. ASSUME NEW c \in CommandId, NEW result \in Results, RecordRaises(c, result) PROVE CoverInv'
    <3>1. UNCHANGED <<agg, commands, venue, recon>> BY <2>7 DEF RecordRaises, durable
    <3> QED BY <3>1, RowsCover DEF Steady
  <2> QED BY <1>2, <2>1, <2>2, <2>3, <2>4, <2>5, <2>6, <2>7 DEF DispatchNext
<1>3. CASE VenueNext
  <2>1. UNCHANGED <<agg, commands, recon>>
      BY <1>3 DEF VenueNext, Deliver, Refuse, Lose, RestingFill, EntryFill, ExternalClose, ForeignOrder,
         durable
  <2> QED BY <1>3, <2>1, VenueStep, VenueCover
<1>4. CASE ReconNext
  <2>1. ASSUME ReadSnapshot PROVE CoverInv'
    <3>1. /\ recon'.work = "snapshot" /\ recon'.qty = position
          /\ UNCHANGED <<agg, commands, order, position, entryFilled>>
        BY <2>1 DEF ReadSnapshot, durable, venue
    <3>2. /\ position \in Nat /\ position <= entryFilled /\ entryFilled \in 0 .. TicketQuantity
          /\ order[EntryCommand] \in OrderStates
        BY QuantityAssumption, EntryCommandType DEF IInv, TypeOK, Quantities, CoverInv
    <3>3. position = TicketQuantity => EntryOver
        BY <3>2, QuantityAssumption DEF EntryOver, IInv, EntryFillsBounded, OrderStates
    <3>4. SnapshotBounds(commands)' BY <3>1, <3>2, <3>3 DEF SnapshotBounds, EntryOver
    <3>5. /\ StopNamed(agg, commands)' /\ StopsSized(commands)' /\ StopsGone(agg, commands)'
          /\ CancelsSafe(agg, commands)' /\ FlatIsFlat(agg, commands)' /\ StageHolds(agg)'
      <4>1. StopNamed(agg, commands)' /\ FlatIsFlat(agg, commands)' /\ StageHolds(agg)'
          BY <3>1 DEF CoverInv, StopNamed, FlatIsFlat, StageHolds
      <4>2. StopsSized(commands)' /\ StopsGone(agg, commands)'
          BY <3>1 DEF CoverInv, StopsSized, StopsGone, EntryOver
      <4>3. CancelsSafe(agg, commands)' BY <3>1 DEF CoverInv, CancelsSafe, Superseded
      <4> QED BY <4>1, <4>2, <4>3
    <3> QED BY <3>1, <3>2, <3>4, <3>5 DEF CoverInv
  <2>2. ASSUME ReconcileNoChange \/ StressRetry PROVE CoverInv'
    <3>1. UNCHANGED <<agg, commands, venue>> /\ (recon' = recon \/ recon'.work = "idle")
        BY <2>2 DEF ReconcileNoChange, StressRetry, durable, IdleRecon
    <3> QED BY <3>1, RowsCover DEF Steady
  <2>3. ASSUME SettleTicket \/ RecordTradeReview PROVE CoverInv'
    <3>1. PICK r : (r \in BudgetSettled(agg) \/ r \in ReviewRecorded(agg)) /\ Commit(r, commands, held)
        BY <2>3 DEF SettleTicket, RecordTradeReview
    <3>2. Guarded(agg, r.agg, r.prepare) BY <1>0, <3>1, QuietExit, QuietGuarded DEF AllQuiet
    <3>3. r.prepare \subseteq Payload BY <1>0, <3>1, StatusEvents DEF AllSound, Sound, WellFormed
    <3>4. UNCHANGED <<venue, recon>> BY <2>3 DEF SettleTicket, RecordTradeReview
    <3> QED BY <3>1, <3>2, <3>3, <3>4, PlainCover
  <2> QED BY <1>4, <2>1, <2>2, <2>3, RecoveryCover, SnapshotCover, StressCover DEF ReconNext
<1>5. CASE Maintain \/ OwnerExit
  <2>1. PICK r : (r \in MaintenanceEvent(agg) \/ r \in ExitRequested(agg)) /\ Commit(r, commands, held)
      BY <1>5 DEF Maintain, OwnerExit
  <2>2. Guarded(agg, r.agg, r.prepare)
      BY <1>0, <2>1, MaintenanceGuarded, QuietExit, QuietGuarded DEF AllQuiet
  <2>3. r.prepare \subseteq Payload
      BY <1>0, <2>1, MaintenanceSound, FlatEvents DEF AllSound, Sound, WellFormed
  <2>4. UNCHANGED <<venue, recon>> BY <1>5 DEF Maintain, OwnerExit
  <2> QED BY <2>1, <2>2, <2>3, <2>4, PlainCover
<1>6. CASE Crash \/ UNCHANGED vars
  <2>1. UNCHANGED <<agg, commands, venue>> /\ (recon' = recon \/ recon'.work = "idle")
      BY <1>6 DEF Crash, vars, durable, venue, IdleRecon
  <2> QED BY <2>1, RowsCover DEF Steady
<1> QED BY <1>1, <1>2, <1>3, <1>4, <1>5, <1>6 DEF Next

\* The three invariants together.
LEMMA CoverInvariance == Spec => [](IInv /\ FenceInv /\ CoverInv)
<1>1. Init => FenceInv /\ CoverInv
  <2> SUFFICES ASSUME Init PROVE FenceInv /\ CoverInv OBVIOUS
  <2>1. \A c \in CommandId : commands[c].status = "NONE" /\ commands[c].payload.kind = c[1] /\ order[c] = "unsent"
      BY DEF Init, Command
  <2>2. FenceInv
      BY <2>1 DEF FenceInv, Filed, InTurn, OneOpenCancel, CancelsInStage, UnknownIsFenced, Unknown,
         OpenRows
  <2>3. /\ agg.status = "UNISSUED" /\ agg.activeStop = NoOrder /\ agg.entryOrder = NoOrder
        /\ position = 0 /\ entryFilled = 0 /\ recon.work = "idle"
      BY DEF Init, NoAggregate, IdleRecon
  <2>4. agg.status \in BeforeFill BY <2>3 DEF BeforeFill
  <2>5. StageHolds(agg) BY <2>3, <2>4, StagesDiffer DEF StageHolds
  <2>6. StopNamed(agg, commands) /\ StopsSized(commands) /\ StopsGone(agg, commands)
      BY <2>1, <2>3 DEF StopNamed, StopsSized, StopsGone
  <2>7. CancelsSafe(agg, commands) /\ FlatIsFlat(agg, commands) /\ SnapshotBounds(commands)
      BY <2>1, <2>3 DEF CancelsSafe, FlatIsFlat, SnapshotBounds
  <2> QED BY <2>2, <2>3, <2>5, <2>6, <2>7 DEF CoverInv
<1>2. IInv /\ FenceInv /\ [Next]_vars => FenceInv' BY FenceStep
<1>3. IInv /\ IInv' /\ FenceInv /\ CoverInv /\ [Next]_vars => CoverInv' BY CoverNext
<1> QED BY <1>1, <1>2, <1>3, Invariance, PTL DEF Spec

\* The stop that the aggregate names rests at the venue while a position is open.
LEMMA ActiveStopRests ==
    ASSUME IInv, CoverInv, agg.activeStop # NoOrder, position > 0
    PROVE  agg.activeStop \in CommandId /\ Protective(agg.activeStop)
<1> DEFINE s == agg.activeStop
<1>1. IsStop(s) /\ commands[s].status \in AcceptedRows /\ order[s] \in {"live", "done"}
    BY DEF CoverInv, StopNamed
<1>2. s \in CommandId /\ s[1] \in StopKinds /\ commands[s].status # "NONE"
    BY <1>1 DEF IsStop, AcceptedRows
<1>3. position <= commands[s].payload.qty BY <1>1, <1>2 DEF CoverInv, StopsSized
<1>4. order[s] = "live" BY <1>1, <1>2 DEF CoverInv, StopsGone
<1>5. position \in Nat /\ commands[s].payload.qty \in Nat
    BY <1>2, QuantityAssumption DEF IInv, TypeOK, Quantities, Row, Payload
<1> QED BY <1>2, <1>3, <1>4, <1>5 DEF Protective

\* While the aggregate names an active stop, an open position is covered by a live stop of at
\* least its quantity: through lost answers, crashes, TP1, the replacement of the stop, the cancel
\* of the old one, exits, flattens and closes outside the kernel.
THEOREM StopCovers == Spec => []StopCoversExposure
<1>1. IInv /\ CoverInv => StopCoversExposure
  <2> SUFFICES ASSUME IInv, CoverInv, agg.activeStop # NoOrder, position > 0
               PROVE  \E c \in CommandId : Protective(c)
      BY DEF StopCoversExposure
  <2> QED BY ActiveStopRests
<1> QED BY <1>1, CoverInvariance, PTL

\* commit_reduction keeps it, whatever it inserts.
LEMMA CommitKeeps ==
    ASSUME NEW rows \in [CommandId -> Row], NEW r, NEW au, Commit(r, rows, au),
           NEW c \in CommandId, rows[c].status # "NONE"
    PROVE  RowKept(rows, commands', c)
<1> DEFINE marked == MarkAbsent(rows, r.markAbsent)
<1>1. marked \in [CommandId -> Row] BY MarkAbsentRows
<1>2. RowKept(rows, marked, c) BY DEF RowKept, MarkAbsent
<1> HIDE DEF marked
<1>3. CASE commands' = marked BY <1>2, <1>3 DEF RowKept
<1>4. CASE \E p \in r.prepare, g \in Generations :
             /\ GenerationAllowed(rows, p, g)
             /\ commands' = [marked EXCEPT ![<<p.kind, g>>] =
                               [status |-> "PREPARED", timer |-> "running", payload |-> p]]
  <2>1. PICK p \in r.prepare, g \in Generations :
             /\ GenerationAllowed(rows, p, g)
             /\ commands' = [marked EXCEPT ![<<p.kind, g>>] =
                               [status |-> "PREPARED", timer |-> "running", payload |-> p]]
      BY <1>4
  <2> DEFINE new == <<p.kind, g>>
  <2>2. c # new BY <2>1 DEF GenerationAllowed
  <2>3. commands' = [marked EXCEPT ![new] = [status |-> "PREPARED", timer |-> "running", payload |-> p]]
      BY <2>1
  <2> HIDE DEF new
  <2>4. commands'[c] = marked[c] BY <1>1, <2>2, <2>3
  <2> QED BY <1>2, <2>4 DEF RowKept
<1> QED BY <1>3, <1>4 DEF Commit, marked

\* So does moving a row on first.
LEMMA SetStatusKeeps ==
    ASSUME NEW rows \in [CommandId -> Row], NEW c \in CommandId, NEW status \in RowStatuses, status # "NONE",
           NEW d \in CommandId, rows[d].status # "NONE"
    PROVE  SetStatus(rows, c, status) \in [CommandId -> Row] /\ RowKept(rows, SetStatus(rows, c, status), d)
<1>1. SetStatus(rows, c, status) \in [CommandId -> Row] BY SetStatusRows
<1>2. RowKept(rows, SetStatus(rows, c, status), d) BY DEF SetStatus, RowKept
<1> QED BY <1>1, <1>2

\* Every step keeps it.
LEMMA PayloadsStay ==
    ASSUME IInv, [Next]_vars, NEW d \in CommandId, commands[d].status # "NONE"
    PROVE  RowKept(commands, commands', d)
<1>0. commands \in [CommandId -> Row] BY DEF IInv, TypeOK
<1>1. ASSUME NEW r, NEW au, Commit(r, commands, au) PROVE RowKept(commands, commands', d)
    BY <1>0, <1>1, CommitKeeps
<1>2. ASSUME NEW r, NEW c \in CommandId, NEW status \in RowStatuses, status # "NONE",
             Commit(r, SetStatus(commands, c, status), held)
      PROVE  RowKept(commands, commands', d)
  <2> DEFINE rows == SetStatus(commands, c, status)
  <2>1. rows \in [CommandId -> Row] /\ RowKept(commands, rows, d) BY <1>0, <1>2, SetStatusKeeps
  <2>2. Commit(r, rows, held) BY <1>2
  <2> HIDE DEF rows
  <2>3. RowKept(rows, commands', d) BY <2>1, <2>2, CommitKeeps DEF RowKept
  <2> QED BY <2>1, <2>3 DEF RowKept
<1>3. ASSUME UNCHANGED commands PROVE RowKept(commands, commands', d) BY <1>3 DEF RowKept
<1>4. CASE DispatchNext
  <2>1. ASSUME NEW c \in CommandId, ExpireClaim(c) PROVE RowKept(commands, commands', d)
    <3>1. PICK r : Commit(r, SetStatus(commands, c, "OUTCOME_UNKNOWN"), held) BY <2>1 DEF ExpireClaim
    <3> QED BY <1>2, <3>1 DEF RowStatuses
  <2>2. ASSUME NEW c \in CommandId, ClaimPrepared(c) \/ Supersede(c) PROVE RowKept(commands, commands', d)
    <3>1. PICK status \in {"CLAIMED", "SUPERSEDED"} : commands' = SetStatus(commands, c, status)
        BY <2>2 DEF ClaimPrepared, Supersede
    <3> QED BY <1>0, <3>1, SetStatusKeeps DEF RowStatuses
  <2>3. ASSUME NEW c \in CommandId, NEW result \in Results, Record(c, result)
        PROVE  RowKept(commands, commands', d)
    <3>1. PICK r : Commit(r, SetStatus(commands, c, result), held) BY <2>3 DEF Record
    <3> QED BY <1>2, <2>3, <3>1 DEF RowStatuses, Results
  <2>4. ASSUME NEW c \in CommandId, Send(c) \/ \E result \in Results : RecordRaises(c, result)
        PROVE  RowKept(commands, commands', d)
      BY <1>3, <2>4 DEF Send, RecordRaises, durable
  <2>5. ASSUME NEW c \in CommandId, TimerLapses(c) PROVE RowKept(commands, commands', d)
      BY <1>0, <2>5 DEF TimerLapses, Row, RowKept
  <2> QED BY <1>4, <2>1, <2>2, <2>3, <2>4, <2>5 DEF DispatchNext, PreflightRefuse, RecordResult, Results
<1>5. CASE VenueNext
    BY <1>3, <1>5 DEF VenueNext, Deliver, Refuse, Lose, RestingFill, EntryFill, ExternalClose,
       ForeignOrder, durable
<1>6. CASE ReconNext
  <2>1. ASSUME NEW c \in CommandId, RecoverUnknown(c) PROVE RowKept(commands, commands', d)
    <3>1. PICK decision, r : Commit(r, RecoveredRows(c, decision), held) BY <2>1 DEF RecoverUnknown
    <3>2. \/ RecoveredRows(c, decision) = commands
          \/ \E status \in {"RECONCILED_ACCEPTED", "RECONCILED_ABSENT"} :
                RecoveredRows(c, decision) = SetStatus(commands, c, status)
        BY DEF RecoveredRows
    <3> QED BY <1>1, <1>2, <3>1, <3>2 DEF RowStatuses
  <2>2. ASSUME ReadSnapshot \/ ReconcileNoChange \/ StressRetry PROVE RowKept(commands, commands', d)
      BY <1>3, <2>2 DEF ReadSnapshot, ReconcileNoChange, StressRetry, durable
  <2>3. ASSUME NEW passed \in BOOLEAN, AssessStress(passed) PROVE RowKept(commands, commands', d)
    <3>1. PICK r : Commit(r, commands, held) BY <2>3 DEF AssessStress
    <3> QED BY <1>1, <3>1
  <2>4. ASSUME ReconcileTicket \/ SettleTicket \/ RecordTradeReview PROVE RowKept(commands, commands', d)
    <3>1. PICK r : Commit(r, commands, held)
        BY <2>4 DEF ReconcileTicket, SettleTicket, RecordTradeReview
    <3> QED BY <1>1, <3>1
  <2> QED BY <1>6, <2>1, <2>2, <2>3, <2>4 DEF ReconNext
<1>7. CASE (\E change \in BOOLEAN : IssueTicket(change)) \/ Maintain \/ OwnerExit
  <2>1. PICK r, au : Commit(r, commands, au) BY <1>7 DEF IssueTicket, Maintain, OwnerExit
  <2> QED BY <1>1, <2>1
<1>8. CASE Crash \/ UNCHANGED vars BY <1>3, <1>8 DEF Crash, vars, durable
<1> QED BY <1>4, <1>5, <1>6, <1>7, <1>8 DEF Next

\* A stop that leaves an open position was cancelled after a better one had become active.
LEMMA StopsLeave ==
    ASSUME IInv, CoverInv, [Next]_vars, NEW c \in CommandId, IsStop(c), order[c] = "live", order'[c] # "live",
           position' > 0
    PROVE  /\ UNCHANGED <<agg, commands>> /\ agg.activeStop # NoOrder
           /\ commands[c].payload.price <= agg.activeStopPrice
<1>0. /\ order \in [CommandId -> OrderStates] /\ position \in Nat /\ commands[c].status # "NONE"
      /\ commands[c].payload.qty \in Nat /\ position <= commands[c].payload.qty
      /\ \A d \in CommandId : commands[d].payload.target \in OrderId
    BY QuantityAssumption DEF IInv, TypeOK, Quantities, Row, Payload, CoverInv, StopsSized,
       DurableBeforeVenue
<1>1. ASSUME UNCHANGED order PROVE FALSE BY <1>1
<1>2. ASSUME NEW d \in CommandId, order[d] # "live", NEW state, order' = [order EXCEPT ![d] = state] PROVE FALSE
    BY <1>0, <1>2
<1>3. CASE VenueNext
  <2>1. UNCHANGED <<agg, commands>>
      BY <1>3 DEF VenueNext, Deliver, Refuse, Lose, RestingFill, EntryFill, ExternalClose, ForeignOrder,
         durable
  <2>2. ASSUME NEW d \in CommandId, Deliver(d)
        PROVE  agg.activeStop # NoOrder /\ commands[c].payload.price <= agg.activeStopPrice
    <3>1. order[d] = "transit" BY <2>2 DEF Deliver
    <3>2. CASE d[1] = "CANCEL_ORDER" /\ CancelHits(d)
      <4> DEFINE t == commands[d].payload.target
      <4>1. order' = [order EXCEPT ![d] = "done", ![t] = "done"] /\ position' = position
          BY <2>2, <3>2 DEF Deliver, MarketKinds
      <4>2. t \in CommandId BY <1>0, <3>2 DEF CancelHits, OrderId
      <4>3. t = c BY <1>0, <3>1, <4>1, <4>2
      <4>4. commands[d].status # "NONE" BY <3>1 DEF IInv, DurableBeforeVenue
      <4>5. agg.status \in FlatStatuses \/ Superseded(agg, commands, c)
          BY <3>2, <4>3, <4>4 DEF CoverInv, CancelsSafe
      <4>6. agg.status \notin FlatStatuses BY <1>0, <4>1 DEF CoverInv, FlatIsFlat, HasStop
      <4> QED BY <4>5, <4>6 DEF Superseded
    <3>3. CASE ~ (d[1] = "CANCEL_ORDER" /\ CancelHits(d))
      <4>1. PICK state : order' = [order EXCEPT ![d] = state] BY <2>2, <3>3 DEF Deliver, Fate, CommandId
      <4> QED BY <1>2, <3>1, <4>1
    <3> QED BY <3>2, <3>3
  <2>3. ASSUME NEW d \in CommandId, Refuse(d) \/ Lose(d) PROVE FALSE
    <3>1. PICK state : order' = [order EXCEPT ![d] = state] /\ order[d] # "live"
        BY <2>3 DEF Refuse, Lose, Fate
    <3> QED BY <1>2, <3>1
  <2>4. ASSUME NEW d \in CommandId, RestingFill(d) PROVE FALSE
    <3>1. order' = [order EXCEPT ![d] = "done"] /\ position' = Less(position, commands[d].payload.qty)
        BY <2>4 DEF RestingFill, Fate
    <3>2. d = c BY <1>0, <3>1
    <3> QED BY <1>0, <3>1, <3>2, LessBounds
  <2>5. ASSUME EntryFill PROVE FALSE
    <3>1. PICK state : order' = [order EXCEPT ![EntryCommand] = state] BY <2>5 DEF EntryFill, Fate
    <3>2. c # EntryCommand BY DEF IsStop, StopKinds, EntryCommand
    <3> QED BY <1>0, <3>1, <3>2
  <2>6. ASSUME ExternalClose \/ ForeignOrder PROVE FALSE BY <1>1, <2>6 DEF ExternalClose, ForeignOrder
  <2> QED BY <1>3, <2>1, <2>2, <2>3, <2>4, <2>5, <2>6 DEF VenueNext
<1>4. CASE DispatchNext
  <2>1. ASSUME NEW d \in CommandId, Send(d) PROVE FALSE
    <3>1. order[d] = "unsent" /\ order' = [order EXCEPT ![d] = "transit"]
        BY <2>1 DEF Send, IInv, LeaseInHand
    <3> QED BY <1>2, <3>1
  <2> QED BY <1>1, <1>4, <2>1 DEF DispatchNext, ExpireClaim, ClaimPrepared, Supersede, PreflightRefuse,
                                  TimerLapses, RecordResult, RecordRaises, Record, venue
<1>5. CASE ~ VenueNext /\ ~ DispatchNext
    BY <1>1, <1>5 DEF Next, IssueTicket, ReconNext, RecoverUnknown, ReadSnapshot, ReconcileTicket,
       ReconcileNoChange, AssessStress, StressRetry, SettleTicket, RecordTradeReview, Maintain,
       OwnerExit, Crash, venue, vars
<1> QED BY <1>3, <1>4, <1>5

\* No step does.
LEMMA NoLoosening ==
    ASSUME IInv, IInv', CoverInv, CoverInv', [Next]_vars
    PROVE  ~ Loosens
<1> SUFFICES ASSUME NEW c \in CommandId, Protective(c), position' > 0
             PROVE  \E d \in CommandId :
                       Protective(d)' /\ commands'[d].payload.price >= commands[c].payload.price
    BY DEF Loosens
<1>0. /\ commands[c].status # "NONE" /\ IsStop(c) /\ order[c] = "live" /\ position <= commands[c].payload.qty
      /\ position \in Nat /\ position' \in Nat /\ commands[c].payload.price \in Nat
    BY QuantityAssumption, BoundAssumption DEF Protective, IInv, DurableBeforeVenue, IsStop, TypeOK,
       Quantities, Row, Payload, Prices
<1>1. commands'[c].status # "NONE" /\ commands'[c].payload = commands[c].payload
    BY <1>0, PayloadsStay DEF RowKept
<1>2. CASE order'[c] = "live"
  <2>1. position' <= commands'[c].payload.qty BY <1>0, <1>1 DEF CoverInv, StopsSized
  <2>2. Protective(c)'
      BY <1>0, <1>1, <1>2, <2>1, QuantityAssumption DEF Protective, IInv, TypeOK, Row, Payload,
         Quantities
  <2> QED BY <1>0, <1>1, <2>2
<1>3. CASE order'[c] # "live"
  <2>1. agg.activeStop # NoOrder /\ UNCHANGED <<agg, commands>>
        /\ commands[c].payload.price <= agg.activeStopPrice
      BY <1>0, <1>3, StopsLeave
  <2> DEFINE s == agg.activeStop
  <2>2. IsStop(s) /\ commands[s].status # "NONE" /\ commands[s].payload.price = agg.activeStopPrice
      BY <2>1 DEF CoverInv, StopNamed, AcceptedRows
  <2>3. s \in CommandId /\ s[1] \in StopKinds BY <2>2 DEF IsStop
  <2>4. order'[s] \in {"live", "done"} BY <2>1 DEF CoverInv, StopNamed
  <2>5. order'[s] = "live" BY <2>1, <2>2, <2>3, <2>4 DEF CoverInv, StopsGone
  <2>6. position' <= commands[s].payload.qty BY <2>1, <2>2, <2>3 DEF CoverInv, StopsSized
  <2>7. commands[s].payload.qty \in Nat /\ commands[s].payload.price \in Nat
      BY <2>3, QuantityAssumption, BoundAssumption DEF IInv, TypeOK, Quantities, Row, Payload, Prices
  <2>8. commands'[s] = commands[s] /\ position' \in Nat BY <1>0, <2>1
  <2>9. commands'[s].payload.price >= commands[c].payload.price BY <1>0, <2>1, <2>2, <2>7, <2>8
  <2> HIDE DEF s
  <2>10. s[1] \in StopKinds /\ order'[s] = "live" /\ commands'[s].payload.qty >= position'
      BY <2>3, <2>5, <2>6, <2>7, <2>8
  <2> QED BY <2>3, <2>9, <2>10 DEF Protective
<1> QED BY <1>2, <1>3

\* A covered position never gets a worse stop: whatever is cancelled or replaced, a live stop
\* at the same price or better remains until the position is flat.
THEOREM ProtectionHolds == Spec => ProtectionNeverLoosens
<1>1. ASSUME IInv, IInv', CoverInv, CoverInv', [Next]_vars
      PROVE  [\A c \in CommandId :
                Protective(c) /\ position' > 0 =>
                   \E d \in CommandId :
                      Protective(d)' /\ commands'[d].payload.price >= commands[c].payload.price]_vars
    BY <1>1, NoLoosening DEF Loosens
<1> QED BY <1>1, CoverInvariance, PTL DEF Spec, ProtectionNeverLoosens

-----------------------------------------------------------------------------
(***************************************************************************)
(* Part IV.  TicketExecution implements TicketLife when nobody closes the  *)
(* position while ENTRY rests and no request outlives its window.          *)
(***************************************************************************)

-----------------------------------------------------------------------------
(* The events that stay in their stage. *)

\* A change of status alone keeps them.
LEMMA MovedCourse ==
    ASSUME NEW a \in Aggregate, NEW s
    PROVE  SameCourse(a, Moved(a, s)) /\ Moved(a, s).status = s
BY DEF SameCourse, Moved, Aggregate

\* The commands of a managed Ticket.
LEMMA OrderedCommands ==
    ASSUME NEW s, NEW k, NEW q, NEW price, NEW o, NEW n
    PROVE  /\ k # "ENTRY" /\ s \in WorkingStatuses => Ordered(s, Command(k, q)) /\ Ordered(s, StopCommand(k, q, price, o))
           /\ Ordered(s, CancelCommand(o, n, "runner_old_stop"))
           /\ Ordered(s, CleanupCancel(o, n))
BY DEF Ordered, Command, StopCommand, CancelCommand, CleanupCancel, ClosingKinds, StopKinds, MarketKinds

\* Such a reduction, field by field.
LEMMA WithinMove ==
    ASSUME NEW a, NEW r, Together(a.status, r.agg.status), r.release = {}, SameCourse(a, r.agg),
           r.agg.status # "POST_FILL_RISK_PENDING", \A p \in r.prepare : Ordered(r.agg.status, p)
    PROVE  Within(a, r)
BY DEF Within, SameCourse

\* ... and one that only moves the status.
LEMMA WithinMoved ==
    ASSUME NEW a \in Aggregate, NEW r, NEW s, r.agg = Moved(a, s), r.release = {}, Together(a.status, s),
           s # "POST_FILL_RISK_PENDING", \A p \in r.prepare : Ordered(s, p)
    PROVE  Within(a, r)
BY MovedCourse, WithinMove

\* The unknown and refused outcomes of leverage, ENTRY and its remainder.
LEMMA EntryWithin ==
    ASSUME NEW a \in Aggregate, NEW o
    PROVE  /\ \A r \in LeverageOutcomeUnknown(a) : Within(a, r)
           /\ \A r \in EntryOutcomeUnknown(a) : Within(a, r)
           /\ \A r \in EntryRemainderCancelRejected(a, o) : Within(a, r)
           /\ \A r \in EntryRemainderCancelOutcomeUnknown(a, o) : Within(a, r)
<1> USE DEF Together, LeverageStatuses, EntryStatuses, PartialFillStatuses, WorkingStatuses,
        ProtectionStatuses, Tp1Statuses, RunnerStatuses, ExitStatuses, FlattenStatuses, CleanupStatuses
<1>1. ASSUME NEW r \in LeverageOutcomeUnknown(a) PROVE Within(a, r)
  <2>1. /\ a.status = "LEVERAGE_PENDING" /\ r.release = {}
        /\ r.agg = Moved(a, "LEVERAGE_OUTCOME_UNKNOWN") /\ r.prepare = {}
      BY <1>1 DEF LeverageOutcomeUnknown, When, Transition
  <2> QED BY <2>1, WithinMoved
<1>2. ASSUME NEW r \in EntryOutcomeUnknown(a) PROVE Within(a, r)
  <2>1. /\ a.status \in {"ENTRY_PENDING", "LEVERAGE_CONFIRMED"} /\ r.release = {}
        /\ r.agg = Moved(a, "ENTRY_OUTCOME_UNKNOWN") /\ r.prepare = {}
      BY <1>2 DEF EntryOutcomeUnknown, When, Transition
  <2> QED BY <2>1, WithinMoved
<1>3. ASSUME NEW r \in EntryRemainderCancelRejected(a, o) PROVE Within(a, r)
  <2>1. /\ a.status = "PARTIAL_FILL_INCIDENT" /\ r.release = {}
        /\ r.agg = Moved(a, "PARTIAL_FILL_CANCEL_REJECTED") /\ r.prepare = {}
      BY <1>3 DEF EntryRemainderCancelRejected, When, Transition
  <2> QED BY <2>1, WithinMoved
<1>4. ASSUME NEW r \in EntryRemainderCancelOutcomeUnknown(a, o) PROVE Within(a, r)
  <2>1. /\ a.status = "PARTIAL_FILL_INCIDENT" /\ r.release = {}
        /\ r.agg = Moved(a, "PARTIAL_FILL_CANCEL_OUTCOME_UNKNOWN") /\ r.prepare = {}
      BY <1>4 DEF EntryRemainderCancelOutcomeUnknown, When, Transition
  <2> QED BY <2>1, WithinMoved
<1> HIDE DEF Together, LeverageStatuses, EntryStatuses, PartialFillStatuses, WorkingStatuses,
        ProtectionStatuses, Tp1Statuses, RunnerStatuses, ExitStatuses, FlattenStatuses, CleanupStatuses
<1> QED BY <1>1, <1>2, <1>3, <1>4

\* The events of initial protection and TP1.
LEMMA ProtectionWithin ==
    ASSUME NEW a \in Aggregate, NEW o, NEW q
    PROVE  /\ \A r \in InitialStopRejected(a) : Within(a, r)
           /\ \A r \in InitialStopOutcomeUnknown(a) : Within(a, r)
           /\ \A r \in InitialStopAbsenceConfirmed(a) : Within(a, r)
           /\ \A r \in TakeProfitConfirmed(a, o, q) : Within(a, r)
           /\ \A r \in TakeProfitRejected(a) : Within(a, r)
           /\ \A r \in TakeProfitOutcomeUnknown(a) : Within(a, r)
           /\ \A r \in TakeProfitAbsenceConfirmed(a) : Within(a, r)
           /\ \A r \in TakeProfitFilled(a, o, q) : Within(a, r)
<1> USE DEF Together, LeverageStatuses, EntryStatuses, PartialFillStatuses, WorkingStatuses,
        ProtectionStatuses, Tp1Statuses, RunnerStatuses, ExitStatuses, FlattenStatuses, CleanupStatuses
<1>1. ASSUME NEW r \in InitialStopRejected(a) PROVE Within(a, r)
  <2>1. /\ a.status = "PROTECTION_PENDING" /\ r.release = {}
        /\ r.agg = Moved(a, "EXIT_PENDING")
        /\ r.prepare = {Command("EXIT", a.positionQty)}
      BY <1>1 DEF InitialStopRejected, When, Transition
  <2>2. \A p \in r.prepare : Ordered("EXIT_PENDING", p)
      BY <2>1 DEF Ordered, Command, StopCommand, ClosingKinds, StopKinds, MarketKinds
  <2> QED BY <2>1, <2>2, WithinMoved
<1>2. ASSUME NEW r \in InitialStopOutcomeUnknown(a) PROVE Within(a, r)
  <2>1. /\ a.status = "PROTECTION_PENDING" /\ r.release = {}
        /\ r.agg = Moved(a, "INITIAL_STOP_OUTCOME_UNKNOWN") /\ r.prepare = {}
      BY <1>2 DEF InitialStopOutcomeUnknown, When, Transition
  <2> QED BY <2>1, WithinMoved
<1>3. ASSUME NEW r \in InitialStopAbsenceConfirmed(a) PROVE Within(a, r)
  <2>1. /\ a.status = "INITIAL_STOP_OUTCOME_UNKNOWN" /\ r.release = {}
        /\ r.agg = Moved(a, "EXIT_PENDING")
        /\ r.prepare = {Command("EXIT", a.positionQty)}
      BY <1>3 DEF InitialStopAbsenceConfirmed, When, Transition
  <2>2. \A p \in r.prepare : Ordered("EXIT_PENDING", p)
      BY <2>1 DEF Ordered, Command, StopCommand, ClosingKinds, StopKinds, MarketKinds
  <2> QED BY <2>1, <2>2, WithinMoved
<1>4. ASSUME NEW r \in TakeProfitConfirmed(a, o, q) PROVE Within(a, r)
  <2>1. /\ a.status \in {"TP1_PENDING", "POST_FILL_RISK_PENDING", "TP1_OUTCOME_UNKNOWN"} /\ r.release = {}
        /\ r.agg = [a EXCEPT !.status = "POSITION_PROTECTED", !.tp1Order = o]
        /\ r.prepare = {}
      BY <1>4 DEF TakeProfitConfirmed, When, Transition
  <2>2. SameCourse(a, r.agg) /\ r.agg.status = "POSITION_PROTECTED" BY <2>1 DEF SameCourse, Aggregate
  <2> QED BY <2>1, <2>2, WithinMove
<1>5. ASSUME NEW r \in TakeProfitRejected(a) PROVE Within(a, r)
  <2>1. /\ a.status = "TP1_PENDING" /\ r.release = {}
        /\ r.agg = Moved(a, "TP1_REJECTED") /\ r.prepare = {}
      BY <1>5 DEF TakeProfitRejected, When, Transition
  <2> QED BY <2>1, WithinMoved
<1>6. ASSUME NEW r \in TakeProfitOutcomeUnknown(a) PROVE Within(a, r)
  <2>1. /\ a.status = "TP1_PENDING" /\ r.release = {}
        /\ r.agg = Moved(a, "TP1_OUTCOME_UNKNOWN") /\ r.prepare = {}
      BY <1>6 DEF TakeProfitOutcomeUnknown, When, Transition
  <2> QED BY <2>1, WithinMoved
<1>7. ASSUME NEW r \in TakeProfitAbsenceConfirmed(a) PROVE Within(a, r)
  <2>1. /\ a.status = "TP1_OUTCOME_UNKNOWN" /\ r.release = {}
        /\ r.agg = Moved(a, "TP1_PENDING")
        /\ r.prepare = {Command("TAKE_PROFIT", a.tp1Target)}
      BY <1>7 DEF TakeProfitAbsenceConfirmed, When, Transition
  <2>2. \A p \in r.prepare : Ordered("TP1_PENDING", p)
      BY <2>1 DEF Ordered, Command, StopCommand, ClosingKinds, StopKinds, MarketKinds
  <2> QED BY <2>1, <2>2, WithinMoved
<1>8. ASSUME NEW r \in TakeProfitFilled(a, o, q) PROVE Within(a, r)
  <2>1. /\ a.status = "POSITION_PROTECTED" /\ r.release = {}
        /\ r.agg = [a EXCEPT !.status = "RUNNER_REPLACEMENT_PENDING", !.positionQty = a.positionQty - o,
                               !.tp1Order = NoOrder, !.pendingStopPrice = q]
        /\ r.prepare = {StopCommand("REPLACE_PROTECTION", a.positionQty - o, q, a.activeStop)}
      BY <1>8 DEF TakeProfitFilled, When, Transition
  <2>2. SameCourse(a, r.agg) /\ r.agg.status = "RUNNER_REPLACEMENT_PENDING"
      BY <2>1 DEF SameCourse, Aggregate
  <2>3. \A p \in r.prepare : Ordered(r.agg.status, p) BY <2>1, <2>2, OrderedCommands
  <2> QED BY <2>1, <2>2, <2>3, WithinMove
<1> HIDE DEF Together, LeverageStatuses, EntryStatuses, PartialFillStatuses, WorkingStatuses,
        ProtectionStatuses, Tp1Statuses, RunnerStatuses, ExitStatuses, FlattenStatuses, CleanupStatuses
<1> QED BY <1>1, <1>2, <1>3, <1>4, <1>5, <1>6, <1>7, <1>8

\* The events of the runner stop, except the adoption of a replacement.
LEMMA RunnerWithin ==
    ASSUME NEW a \in Aggregate, NEW o
    PROVE  /\ \A r \in RunnerStopRequested(a, o) : Within(a, r)
           /\ \A r \in ProtectionReplacementRejected(a) : Within(a, r)
           /\ \A r \in ProtectionReplacementOutcomeUnknown(a) : Within(a, r)
           /\ \A r \in ProtectionReplacementAbsenceConfirmed(a) : Within(a, r)
           /\ \A r \in ProtectionCancelConfirmed(a, o) : Within(a, r)
           /\ \A r \in ProtectionCancelRejected(a, o) : Within(a, r)
           /\ \A r \in ProtectionCancelOutcomeUnknown(a, o) : Within(a, r)
           /\ \A r \in ProtectionCancelAbsenceConfirmed(a, o) : Within(a, r)
<1> USE DEF Together, LeverageStatuses, EntryStatuses, PartialFillStatuses, WorkingStatuses,
        ProtectionStatuses, Tp1Statuses, RunnerStatuses, ExitStatuses, FlattenStatuses, CleanupStatuses
<1>1. ASSUME NEW r \in RunnerStopRequested(a, o) PROVE Within(a, r)
  <2>1. /\ a.status = "RUNNER_PROTECTED" /\ r.release = {}
        /\ r.agg = [a EXCEPT !.status = "RUNNER_REPLACEMENT_PENDING", !.pendingStopPrice = o]
        /\ r.prepare = {StopCommand("REPLACE_PROTECTION", a.positionQty, o, a.activeStop)}
      BY <1>1 DEF RunnerStopRequested, When, Transition
  <2>2. SameCourse(a, r.agg) /\ r.agg.status = "RUNNER_REPLACEMENT_PENDING"
      BY <2>1 DEF SameCourse, Aggregate
  <2>3. \A p \in r.prepare : Ordered(r.agg.status, p) BY <2>1, <2>2, OrderedCommands
  <2> QED BY <2>1, <2>2, <2>3, WithinMove
<1>2. ASSUME NEW r \in ProtectionReplacementRejected(a) PROVE Within(a, r)
  <2>1. /\ a.status = "RUNNER_REPLACEMENT_PENDING" /\ r.release = {}
        /\ r.agg = Moved(a, "RUNNER_REPLACEMENT_REJECTED") /\ r.prepare = {}
      BY <1>2 DEF ProtectionReplacementRejected, When, Transition
  <2> QED BY <2>1, WithinMoved
<1>3. ASSUME NEW r \in ProtectionReplacementOutcomeUnknown(a) PROVE Within(a, r)
  <2>1. /\ a.status = "RUNNER_REPLACEMENT_PENDING" /\ r.release = {}
        /\ r.agg = Moved(a, "RUNNER_REPLACEMENT_OUTCOME_UNKNOWN") /\ r.prepare = {}
      BY <1>3 DEF ProtectionReplacementOutcomeUnknown, When, Transition
  <2> QED BY <2>1, WithinMoved
<1>4. ASSUME NEW r \in ProtectionReplacementAbsenceConfirmed(a) PROVE Within(a, r)
  <2>1. /\ a.status = "RUNNER_REPLACEMENT_OUTCOME_UNKNOWN" /\ r.release = {}
        /\ r.agg = Moved(a, "RUNNER_REPLACEMENT_PENDING")
        /\ r.prepare = {StopCommand("REPLACE_PROTECTION", a.positionQty, a.pendingStopPrice, a.activeStop)}
      BY <1>4 DEF ProtectionReplacementAbsenceConfirmed, When, Transition
  <2>2. \A p \in r.prepare : Ordered("RUNNER_REPLACEMENT_PENDING", p)
      BY <2>1 DEF Ordered, Command, StopCommand, ClosingKinds, StopKinds, MarketKinds
  <2> QED BY <2>1, <2>2, WithinMoved
<1>5. ASSUME NEW r \in ProtectionCancelConfirmed(a, o) PROVE Within(a, r)
  <2>1. /\ a.status = "RUNNER_OLD_STOP_CANCEL_PENDING" /\ r.release = {}
        /\ r.agg = WithoutReplacedStop(a, o)
        /\ r.prepare = {}
      BY <1>5 DEF ProtectionCancelConfirmed, When, Transition
  <2>2. SameCourse(a, r.agg) /\ r.agg.status = "RUNNER_PROTECTED"
      BY <2>1 DEF SameCourse, Aggregate, WithoutReplacedStop
  <2> QED BY <2>1, <2>2, WithinMove
<1>6. ASSUME NEW r \in ProtectionCancelRejected(a, o) PROVE Within(a, r)
  <2>1. /\ a.status = "RUNNER_OLD_STOP_CANCEL_PENDING" /\ r.release = {}
        /\ r.agg = Moved(a, "RUNNER_OLD_STOP_CANCEL_REJECTED") /\ r.prepare = {}
      BY <1>6 DEF ProtectionCancelRejected, When, Transition
  <2> QED BY <2>1, WithinMoved
<1>7. ASSUME NEW r \in ProtectionCancelOutcomeUnknown(a, o) PROVE Within(a, r)
  <2>1. /\ a.status = "RUNNER_OLD_STOP_CANCEL_PENDING" /\ r.release = {}
        /\ r.agg = Moved(a, "RUNNER_OLD_STOP_CANCEL_OUTCOME_UNKNOWN") /\ r.prepare = {}
      BY <1>7 DEF ProtectionCancelOutcomeUnknown, When, Transition
  <2> QED BY <2>1, WithinMoved
<1>8. ASSUME NEW r \in ProtectionCancelAbsenceConfirmed(a, o) PROVE Within(a, r)
  <2>1. /\ a.status = "RUNNER_OLD_STOP_CANCEL_OUTCOME_UNKNOWN" /\ r.release = {}
        /\ r.agg = WithoutReplacedStop(a, o)
        /\ r.prepare = {}
      BY <1>8 DEF ProtectionCancelAbsenceConfirmed, When, Transition
  <2>2. SameCourse(a, r.agg) /\ r.agg.status = "RUNNER_PROTECTED"
      BY <2>1 DEF SameCourse, Aggregate, WithoutReplacedStop
  <2> QED BY <2>1, <2>2, WithinMove
<1> HIDE DEF Together, LeverageStatuses, EntryStatuses, PartialFillStatuses, WorkingStatuses,
        ProtectionStatuses, Tp1Statuses, RunnerStatuses, ExitStatuses, FlattenStatuses, CleanupStatuses
<1> QED BY <1>1, <1>2, <1>3, <1>4, <1>5, <1>6, <1>7, <1>8

\* The events of exits and flattens.
LEMMA ExitWithin ==
    ASSUME NEW a \in Aggregate
    PROVE  /\ \A r \in ExitRequested(a) : Within(a, r)
           /\ \A r \in ExitAccepted(a) : Within(a, r)
           /\ \A r \in ExitRejected(a) : Within(a, r)
           /\ \A r \in ExitOutcomeUnknown(a) : Within(a, r)
           /\ \A r \in ExitAbsenceConfirmed(a) : Within(a, r)
           /\ \A r \in ControlledFlattenAccepted(a) : Within(a, r)
           /\ \A r \in ControlledFlattenRejected(a) : Within(a, r)
           /\ \A r \in ControlledFlattenOutcomeUnknown(a) : Within(a, r)
           /\ \A r \in ControlledFlattenAbsenceConfirmed(a) : Within(a, r)
           /\ \A r \in BudgetSettled(a) : Within(a, r)
<1> USE DEF Together, LeverageStatuses, EntryStatuses, PartialFillStatuses, WorkingStatuses,
        ProtectionStatuses, Tp1Statuses, RunnerStatuses, ExitStatuses, FlattenStatuses, CleanupStatuses
<1>1. ASSUME NEW r \in ExitRequested(a) PROVE Within(a, r)
  <2>1. /\ a.status \in {"POSITION_PROTECTED", "RUNNER_PROTECTED", "EXIT_REJECTED"} /\ r.release = {}
        /\ r.agg = Moved(a, "EXIT_PENDING")
        /\ r.prepare = {Command("EXIT", a.positionQty)}
      BY <1>1 DEF ExitRequested, When, Transition
  <2>2. \A p \in r.prepare : Ordered("EXIT_PENDING", p)
      BY <2>1 DEF Ordered, Command, StopCommand, ClosingKinds, StopKinds, MarketKinds
  <2> QED BY <2>1, <2>2, WithinMoved
<1>2. ASSUME NEW r \in ExitAccepted(a) PROVE Within(a, r)
  <2>1. /\ a.status \in {"EXIT_PENDING", "EXIT_OUTCOME_UNKNOWN"} /\ r.release = {}
        /\ r.agg = Moved(a, "EXIT_ACCEPTED") /\ r.prepare = {}
      BY <1>2 DEF ExitAccepted, When, Transition
  <2> QED BY <2>1, WithinMoved
<1>3. ASSUME NEW r \in ExitRejected(a) PROVE Within(a, r)
  <2>1. /\ a.status = "EXIT_PENDING" /\ r.release = {}
        /\ r.agg = Moved(a, "EXIT_REJECTED") /\ r.prepare = {}
      BY <1>3 DEF ExitRejected, When, Transition
  <2> QED BY <2>1, WithinMoved
<1>4. ASSUME NEW r \in ExitOutcomeUnknown(a) PROVE Within(a, r)
  <2>1. /\ a.status = "EXIT_PENDING" /\ r.release = {}
        /\ r.agg = Moved(a, "EXIT_OUTCOME_UNKNOWN") /\ r.prepare = {}
      BY <1>4 DEF ExitOutcomeUnknown, When, Transition
  <2> QED BY <2>1, WithinMoved
<1>5. ASSUME NEW r \in ExitAbsenceConfirmed(a) PROVE Within(a, r)
  <2>1. /\ a.status = "EXIT_OUTCOME_UNKNOWN" /\ r.release = {}
        /\ r.agg = Moved(a, "EXIT_REJECTED") /\ r.prepare = {}
      BY <1>5 DEF ExitAbsenceConfirmed, When, Transition
  <2> QED BY <2>1, WithinMoved
<1>6. ASSUME NEW r \in ControlledFlattenAccepted(a) PROVE Within(a, r)
  <2>1. /\ a.status \in {"CONTROLLED_FLATTEN_PENDING", "CONTROLLED_FLATTEN_OUTCOME_UNKNOWN"} /\ r.release = {}
        /\ r.agg = Moved(a, "CONTROLLED_FLATTEN_ACCEPTED") /\ r.prepare = {}
      BY <1>6 DEF ControlledFlattenAccepted, When, Transition
  <2> QED BY <2>1, WithinMoved
<1>7. ASSUME NEW r \in ControlledFlattenRejected(a) PROVE Within(a, r)
  <2>1. /\ a.status = "CONTROLLED_FLATTEN_PENDING" /\ r.release = {}
        /\ r.agg = Moved(a, "CONTROLLED_FLATTEN_REJECTED") /\ r.prepare = {}
      BY <1>7 DEF ControlledFlattenRejected, When, Transition
  <2> QED BY <2>1, WithinMoved
<1>8. ASSUME NEW r \in ControlledFlattenOutcomeUnknown(a) PROVE Within(a, r)
  <2>1. /\ a.status = "CONTROLLED_FLATTEN_PENDING" /\ r.release = {}
        /\ r.agg = Moved(a, "CONTROLLED_FLATTEN_OUTCOME_UNKNOWN") /\ r.prepare = {}
      BY <1>8 DEF ControlledFlattenOutcomeUnknown, When, Transition
  <2> QED BY <2>1, WithinMoved
<1>9. ASSUME NEW r \in ControlledFlattenAbsenceConfirmed(a) PROVE Within(a, r)
  <2>1. /\ a.status = "CONTROLLED_FLATTEN_OUTCOME_UNKNOWN" /\ r.release = {}
        /\ r.agg = Moved(a, "CONTROLLED_FLATTEN_REJECTED") /\ r.prepare = {}
      BY <1>9 DEF ControlledFlattenAbsenceConfirmed, When, Transition
  <2> QED BY <2>1, WithinMoved
<1>10. ASSUME NEW r \in BudgetSettled(a) PROVE Within(a, r)
  <2>1. /\ a.status = "SETTLEMENT_PENDING" /\ r.release = {}
        /\ r.agg = Moved(a, "REVIEW_PENDING") /\ r.prepare = {}
      BY <1>10 DEF BudgetSettled, When, Transition
  <2> QED BY <2>1, WithinMoved
<1> HIDE DEF Together, LeverageStatuses, EntryStatuses, PartialFillStatuses, WorkingStatuses,
        ProtectionStatuses, Tp1Statuses, RunnerStatuses, ExitStatuses, FlattenStatuses, CleanupStatuses
<1> QED BY <1>1, <1>2, <1>3, <1>4, <1>5, <1>6, <1>7, <1>8, <1>9, <1>10

\* The events of cleanup that clear no order.
LEMMA CleanupWithin ==
    ASSUME NEW a \in Aggregate, NEW o, NEW n
    PROVE  /\ \A r \in OwnedOrphanOrderDetected(a, o, n) : Within(a, r)
           /\ \A r \in UnownedOrderDetected(a) : Within(a, r)
           /\ \A r \in CancelOrderRejected(a, o) : Within(a, r)
           /\ \A r \in CancelOrderOutcomeUnknown(a, o) : Within(a, r)
           /\ \A r \in CancelOrderStillOpenConfirmed(a, o) : Within(a, r)
<1> USE DEF Together, LeverageStatuses, EntryStatuses, PartialFillStatuses, WorkingStatuses,
        ProtectionStatuses, Tp1Statuses, RunnerStatuses, ExitStatuses, FlattenStatuses, CleanupStatuses
<1>1. ASSUME NEW r \in OwnedOrphanOrderDetected(a, o, n) PROVE Within(a, r)
  <2>1. /\ a.status \in {"RECONCILIATION_PENDING", "CANCEL_REJECTED"} /\ r.release = {}
        /\ r.agg = [a EXCEPT !.status = "RECONCILIATION_PENDING", !.pendingCancel = o]
        /\ r.prepare = {CleanupCancel(o, n)}
      BY <1>1 DEF OwnedOrphanOrderDetected, When, Transition
  <2>2. SameCourse(a, r.agg) /\ r.agg.status = "RECONCILIATION_PENDING"
      BY <2>1 DEF SameCourse, Aggregate
  <2>3. \A p \in r.prepare : Ordered(r.agg.status, p) BY <2>1, <2>2, OrderedCommands
  <2> QED BY <2>1, <2>2, <2>3, WithinMove
<1>2. ASSUME NEW r \in UnownedOrderDetected(a) PROVE Within(a, r)
  <2>1. /\ a.status = "RECONCILIATION_PENDING" /\ r.release = {}
        /\ r.agg = a
        /\ r.prepare = {}
      BY <1>2 DEF UnownedOrderDetected, When, Transition
  <2>2. SameCourse(a, r.agg) /\ r.agg.status = "RECONCILIATION_PENDING"
      BY <2>1 DEF SameCourse, Aggregate
  <2> QED BY <2>1, <2>2, WithinMove
<1>3. ASSUME NEW r \in CancelOrderRejected(a, o) PROVE Within(a, r)
  <2>1. /\ a.status = "RECONCILIATION_PENDING" /\ r.release = {}
        /\ r.agg = Moved(a, "CANCEL_REJECTED") /\ r.prepare = {}
      BY <1>3 DEF CancelOrderRejected, When, Transition
  <2> QED BY <2>1, WithinMoved
<1>4. ASSUME NEW r \in CancelOrderOutcomeUnknown(a, o) PROVE Within(a, r)
  <2>1. /\ a.status = "RECONCILIATION_PENDING" /\ r.release = {}
        /\ r.agg = Moved(a, "CANCEL_OUTCOME_UNKNOWN") /\ r.prepare = {}
      BY <1>4 DEF CancelOrderOutcomeUnknown, When, Transition
  <2> QED BY <2>1, WithinMoved
<1>5. ASSUME NEW r \in CancelOrderStillOpenConfirmed(a, o) PROVE Within(a, r)
  <2>1. /\ a.status = "CANCEL_OUTCOME_UNKNOWN" /\ r.release = {}
        /\ r.agg = Moved(a, "CANCEL_REJECTED") /\ r.prepare = {}
      BY <1>5 DEF CancelOrderStillOpenConfirmed, When, Transition
  <2> QED BY <2>1, WithinMoved
<1> HIDE DEF Together, LeverageStatuses, EntryStatuses, PartialFillStatuses, WorkingStatuses,
        ProtectionStatuses, Tp1Statuses, RunnerStatuses, ExitStatuses, FlattenStatuses, CleanupStatuses
<1> QED BY <1>1, <1>2, <1>3, <1>4, <1>5

\* The events that clear an order of a flat position.
LEMMA ClearingWithin ==
    ASSUME NEW a \in Aggregate, NEW o, NEW r,
           \/ r \in OwnedOrderAbsenceConfirmed(a, o) \/ r \in OwnedOrphanCancelConfirmed(a, o)
           \/ r \in CancelOrderAbsenceConfirmed(a, o)
    PROVE  Within(a, r)
<1>1. /\ a.status \in CleanupStatuses /\ r.agg = ClearCleanupOrder(a, o)
      /\ r.prepare = {} /\ r.release = {}
  <2>1. CASE r \in OwnedOrderAbsenceConfirmed(a, o)
      BY <2>1 DEF OwnedOrderAbsenceConfirmed, When, Transition, CleanupStatuses
  <2>2. CASE r \in OwnedOrphanCancelConfirmed(a, o)
      BY <2>2 DEF OwnedOrphanCancelConfirmed, When, Transition, CleanupStatuses
  <2>3. CASE r \in CancelOrderAbsenceConfirmed(a, o)
      BY <2>3 DEF CancelOrderAbsenceConfirmed, When, Transition, CleanupStatuses
  <2> QED BY <2>1, <2>2, <2>3
<1>2. /\ r.agg.status = "RECONCILIATION_PENDING" /\ r.agg.entryOrder = a.entryOrder
      /\ r.agg.laneHeld = a.laneHeld
    BY <1>1 DEF ClearCleanupOrder, Aggregate
<1> QED BY <1>1, <1>2 DEF Within, Together, CleanupStatuses

\* The adoption of a stop.
LEMMA AdoptionWithin ==
    ASSUME NEW a \in Aggregate, NEW c \in CommandId, NEW q, NEW price, NEW old, NEW r,
           \/ r \in InitialStopConfirmed(a, c, q) \/ r \in ProtectionReplacementConfirmed(a, c, q, price, old)
    PROVE  Within(a, r)
<1>0. c # NoOrder BY NoOrderAssumption
<1>1. CASE r \in InitialStopConfirmed(a, c, q)
  <2> DEFINE updated == [a EXCEPT !.protectedQty = q, !.initialStop = c, !.activeStop = c,
                                  !.activeStopPrice = InitialStopPrice]
  <2>1. /\ a.status \in {"PROTECTION_PENDING", "INITIAL_STOP_OUTCOME_UNKNOWN"} /\ r.release = {}
        /\ \/ r.agg = Moved(updated, "CONTROLLED_FLATTEN_PENDING")
              /\ r.prepare = {Command("CONTROLLED_FLATTEN", a.positionQty)}
           \/ r.agg = Moved(updated, "POST_FILL_RISK_PENDING") /\ r.prepare = {}
      BY <1>1 DEF InitialStopConfirmed, When, Transition
  <2>2. /\ r.agg.entryOrder = a.entryOrder /\ r.agg.laneHeld = a.laneHeld /\ r.agg.activeStop = c
        /\ r.agg.status \in {"CONTROLLED_FLATTEN_PENDING", "POST_FILL_RISK_PENDING"}
      BY <2>1 DEF Moved, Aggregate
  <2>3. a.status \in WorkingStatuses /\ r.agg.status \in WorkingStatuses
      BY <2>1, <2>2 DEF WorkingStatuses, ProtectionStatuses, FlattenStatuses
  <2>4. \A p \in r.prepare : Ordered(r.agg.status, p) BY <2>1, <2>3, OrderedCommands
  <2> QED BY <1>0, <2>1, <2>2, <2>3, <2>4 DEF Within, Together
<1>2. CASE r \in ProtectionReplacementConfirmed(a, c, q, price, old)
  <2>1. /\ a.status \in {"RUNNER_REPLACEMENT_PENDING", "RUNNER_REPLACEMENT_OUTCOME_UNKNOWN"}
        /\ r.agg = [a EXCEPT !.status = "RUNNER_OLD_STOP_CANCEL_PENDING", !.protectedQty = q,
                             !.activeStop = c, !.activeStopPrice = price, !.replacedStop = old,
                             !.pendingStopPrice = NoPrice]
        /\ r.prepare = {CancelCommand(old, "conditional", "runner_old_stop")} /\ r.release = {}
      BY <1>2 DEF ProtectionReplacementConfirmed, When, Transition
  <2>2. /\ r.agg.entryOrder = a.entryOrder /\ r.agg.laneHeld = a.laneHeld /\ r.agg.activeStop = c
        /\ r.agg.status = "RUNNER_OLD_STOP_CANCEL_PENDING"
      BY <2>1 DEF Aggregate
  <2>3. a.status \in WorkingStatuses /\ r.agg.status \in WorkingStatuses
      BY <2>1, <2>2 DEF WorkingStatuses, RunnerStatuses
  <2>4. \A p \in r.prepare : Ordered(r.agg.status, p) BY <2>1, OrderedCommands
  <2> QED BY <1>0, <2>1, <2>2, <2>3, <2>4 DEF Within, Together
<1> QED BY <1>1, <1>2

-----------------------------------------------------------------------------
(* The other events of the workers. *)

\* _command_result_event
LEMMA LifeResult ==
    ASSUME NEW a \in Aggregate, NEW c \in CommandId, NEW p \in Payload, NEW result \in Results,
           NEW r \in CommandResultEvent(a, c, p, result)
    PROVE  \/ Within(a, r)
           \/ p.kind = "SET_LEVERAGE" /\ (r \in LeverageConfirmed(a) \/ r \in LeverageRejected(a))
           \/ p.kind = "ENTRY" /\ result = "ACCEPTED" /\ r \in EntryAccepted(a, c)
           \/ p.kind = "ENTRY" /\ result = "REJECTED" /\ r \in EntryRejected(a)
           \/ /\ p.kind = "CANCEL_ORDER" /\ p.purpose = "entry_remainder" /\ result = "ACCEPTED"
              /\ r \in EntryRemainderCancelConfirmed(a, p.target)
<1> USE DEF Results
<1>1. CASE p.kind = "SET_LEVERAGE"
  <2>1. r \in LeverageConfirmed(a) \/ r \in LeverageRejected(a) \/ r \in LeverageOutcomeUnknown(a)
      BY <1>1 DEF CommandResultEvent
  <2> QED BY <1>1, <2>1, EntryWithin
<1>2. CASE p.kind = "ENTRY"
  <2>1. \/ result = "ACCEPTED" /\ r \in EntryAccepted(a, c)
        \/ result = "REJECTED" /\ r \in EntryRejected(a)
        \/ r \in EntryOutcomeUnknown(a)
      BY <1>2 DEF CommandResultEvent
  <2> QED BY <1>2, <2>1, EntryWithin
<1>3. CASE p.kind = "INITIAL_STOP"
  <2>1. \/ r \in InitialStopConfirmed(a, c, a.positionQty)
        \/ r \in InitialStopRejected(a) \/ r \in InitialStopOutcomeUnknown(a)
      BY <1>3 DEF CommandResultEvent
  <2> QED BY <2>1, ProtectionWithin, AdoptionWithin
<1>4. CASE p.kind = "TAKE_PROFIT"
  <2>1. r \in TakeProfitConfirmed(a, c, p.qty) \/ r \in TakeProfitRejected(a) \/ r \in TakeProfitOutcomeUnknown(a)
      BY <1>4 DEF CommandResultEvent
  <2> QED BY <2>1, ProtectionWithin
<1>5. CASE p.kind = "REPLACE_PROTECTION"
  <2>1. \/ r \in ProtectionReplacementConfirmed(a, c, p.qty, p.price, p.target)
        \/ r \in ProtectionReplacementRejected(a) \/ r \in ProtectionReplacementOutcomeUnknown(a)
      BY <1>5 DEF CommandResultEvent
  <2> QED BY <2>1, RunnerWithin, AdoptionWithin
<1>6. CASE p.kind = "EXIT"
  <2>1. r \in ExitAccepted(a) \/ r \in ExitRejected(a) \/ r \in ExitOutcomeUnknown(a)
      BY <1>6 DEF CommandResultEvent
  <2> QED BY <2>1, ExitWithin
<1>7. CASE p.kind = "CONTROLLED_FLATTEN"
  <2>1. \/ r \in ControlledFlattenAccepted(a) \/ r \in ControlledFlattenRejected(a)
        \/ r \in ControlledFlattenOutcomeUnknown(a)
      BY <1>7 DEF CommandResultEvent
  <2> QED BY <2>1, ExitWithin
<1>8. CASE p.kind = "CANCEL_ORDER"
  <2>0. r \in CancelResultEvent(a, p, result) BY <1>8 DEF CommandResultEvent
  <2>1. CASE p.purpose = "entry_remainder"
    <3>1. \/ result = "ACCEPTED" /\ r \in EntryRemainderCancelConfirmed(a, p.target)
          \/ r \in EntryRemainderCancelRejected(a, p.target)
          \/ r \in EntryRemainderCancelOutcomeUnknown(a, p.target)
        BY <2>0, <2>1 DEF CancelResultEvent
    <3> QED BY <1>8, <2>1, <3>1, EntryWithin
  <2>2. CASE p.purpose = "runner_old_stop"
    <3>1. \/ r \in ProtectionCancelConfirmed(a, p.target) \/ r \in ProtectionCancelRejected(a, p.target)
          \/ r \in ProtectionCancelOutcomeUnknown(a, p.target)
        BY <2>0, <2>2 DEF CancelResultEvent
    <3> QED BY <3>1, RunnerWithin
  <2>3. CASE p.purpose \notin {"entry_remainder", "runner_old_stop"}
    <3>1. \/ r \in OwnedOrphanCancelConfirmed(a, p.target) \/ r \in CancelOrderRejected(a, p.target)
          \/ r \in CancelOrderOutcomeUnknown(a, p.target)
        BY <2>0, <2>3 DEF CancelResultEvent
    <3> QED BY <3>1, CleanupWithin, ClearingWithin
  <2> QED BY <2>1, <2>2, <2>3
<1> QED BY <1>1, <1>2, <1>3, <1>4, <1>5, <1>6, <1>7, <1>8, PayloadFields DEF Kinds

\* _recovery_event
LEMMA LifeRecovery ==
    ASSUME NEW a \in Aggregate, NEW c \in CommandId, NEW p \in Payload, NEW decision,
           NEW r \in RecoveryEvent(a, c, p, decision)
    PROVE  \/ Within(a, r)
           \/ p.kind = "SET_LEVERAGE" /\ (r \in LeverageConfirmed(a) \/ r \in LeverageRejected(a))
           \/ p.kind = "ENTRY" /\ decision = "RECONCILED_SUBMITTED" /\ r \in EntryAccepted(a, c)
           \/ p.kind = "ENTRY" /\ decision # "RECONCILED_SUBMITTED" /\ r \in EntryAbsenceConfirmed(a)
           \/ /\ p.kind = "CANCEL_ORDER" /\ p.purpose = "entry_remainder" /\ decision = "RECONCILED_ABSENT"
              /\ r \in EntryRemainderCancelConfirmed(a, p.target)
<1>1. CASE p.kind = "SET_LEVERAGE"
  <2>1. r \in LeverageConfirmed(a) \/ r \in LeverageRejected(a) BY <1>1 DEF RecoveryEvent
  <2> QED BY <1>1, <2>1
<1>2. CASE p.kind = "ENTRY"
  <2>1. \/ decision = "RECONCILED_SUBMITTED" /\ r \in EntryAccepted(a, c)
        \/ decision # "RECONCILED_SUBMITTED" /\ r \in EntryAbsenceConfirmed(a)
      BY <1>2 DEF RecoveryEvent
  <2> QED BY <1>2, <2>1
<1>3. CASE p.kind = "INITIAL_STOP"
  <2>1. r \in InitialStopConfirmed(a, c, a.positionQty) \/ r \in InitialStopAbsenceConfirmed(a)
      BY <1>3 DEF RecoveryEvent
  <2> QED BY <2>1, ProtectionWithin, AdoptionWithin
<1>4. CASE p.kind = "TAKE_PROFIT"
  <2>1. r \in TakeProfitConfirmed(a, c, p.qty) \/ r \in TakeProfitAbsenceConfirmed(a)
      BY <1>4 DEF RecoveryEvent
  <2> QED BY <2>1, ProtectionWithin
<1>5. CASE p.kind = "REPLACE_PROTECTION"
  <2>1. \/ r \in ProtectionReplacementConfirmed(a, c, p.qty, p.price, p.target)
        \/ r \in ProtectionReplacementAbsenceConfirmed(a)
      BY <1>5 DEF RecoveryEvent
  <2> QED BY <2>1, RunnerWithin, AdoptionWithin
<1>6. CASE p.kind = "EXIT"
  <2>1. r \in ExitAccepted(a) \/ r \in ExitAbsenceConfirmed(a) BY <1>6 DEF RecoveryEvent
  <2> QED BY <2>1, ExitWithin
<1>7. CASE p.kind = "CONTROLLED_FLATTEN"
  <2>1. r \in ControlledFlattenAccepted(a) \/ r \in ControlledFlattenAbsenceConfirmed(a)
      BY <1>7 DEF RecoveryEvent
  <2> QED BY <2>1, ExitWithin
<1>8. CASE p.kind = "CANCEL_ORDER"
  <2>0. r \in CancelRecoveryEvent(a, p, decision) BY <1>8 DEF RecoveryEvent
  <2>1. \/ r \in CancelOrderStillOpenConfirmed(a, p.target) \/ r \in CancelOrderAbsenceConfirmed(a, p.target)
        \/ /\ p.purpose = "entry_remainder" /\ decision = "RECONCILED_ABSENT"
           /\ r \in EntryRemainderCancelConfirmed(a, p.target)
        \/ r \in ProtectionCancelAbsenceConfirmed(a, p.target)
      BY <2>0 DEF CancelRecoveryEvent
  <2> QED BY <1>8, <2>1, RunnerWithin, CleanupWithin, ClearingWithin
<1> QED BY <1>1, <1>2, <1>3, <1>4, <1>5, <1>6, <1>7, <1>8, PayloadFields DEF Kinds

\* reconcile_ticket
LEMMA LifeSnapshot ==
    ASSUME NEW a \in Aggregate, NEW s, s.open \subseteq CommandId, NEW r \in SnapshotEvent(a, s)
    PROVE  \/ Within(a, r)
           \/ r \in EntryPartiallyFilled(a, s.qty)
           \/ \E d \in Dispositions : r \in EntryFilled(a, s.qty, d)
           \/ s.qty = 0 /\ (r \in PositionFlatConfirmed(a) \/ r \in ExternalFlatDetected(a))
           \/ r \in ReconciliationMatched(a)
<1>1. CASE a.status = "ENTRY_ACCEPTED"
  <2>1. r \in EntryFillEvent(a, s.qty)
      BY <1>1 DEF SnapshotEvent, ExitStatuses, FlattenStatuses, Tp1Statuses, RunnerStatuses
  <2> QED BY <2>1 DEF EntryFillEvent
<1>2. CASE a.status = "RECONCILIATION_PENDING"
  <2> DEFINE known == NextCleanupOrder(a)
             regular == {c \in s.open : NamespaceOf(c) = "regular"}
             shown == IF regular # {} THEN regular ELSE s.open
  <2>1. r \in CleanupEvent(a, s)
      BY <1>2 DEF SnapshotEvent, ExitStatuses, FlattenStatuses, Tp1Statuses, RunnerStatuses
  <2>2. \/ r \in UnownedOrderDetected(a) \/ r \in ReconciliationMatched(a)
        \/ r \in OwnedOrderAbsenceConfirmed(a, known)
        \/ r \in OwnedOrphanOrderDetected(a, known, "conditional")
        \/ \E c \in shown : r \in OwnedOrphanOrderDetected(a, c, NamespaceOf(c))
      BY <2>1 DEF CleanupEvent
  <2> HIDE DEF known, shown
  <2> QED BY <2>2, CleanupWithin, ClearingWithin
<1>3. CASE a.status \in {"CANCEL_REJECTED", "CANCEL_OUTCOME_UNKNOWN"}
  <2>1. r \in CancelFollowUpEvent(a, s)
      BY <1>3 DEF SnapshotEvent, ExitStatuses, FlattenStatuses, Tp1Statuses, RunnerStatuses
  <2>2. \/ r \in CancelOrderAbsenceConfirmed(a, a.pendingCancel)
        \/ r \in OwnedOrphanOrderDetected(a, a.pendingCancel, NamespaceOf(a.pendingCancel))
      BY <2>1 DEF CancelFollowUpEvent
  <2> QED BY <2>2, CleanupWithin, ClearingWithin
<1>4. CASE a.status \notin {"ENTRY_ACCEPTED", "RECONCILIATION_PENDING", "CANCEL_REJECTED",
                            "CANCEL_OUTCOME_UNKNOWN"}
    BY <1>4 DEF SnapshotEvent
<1> QED BY <1>1, <1>2, <1>3, <1>4

\* maintain_ticket_lifecycle
LEMMA LifeMaintenance ==
    ASSUME agg \in Aggregate, NEW r \in MaintenanceEvent(agg)
    PROVE  Within(agg, r)
<1>1. \/ r \in ExitRequested(agg)
      \/ \E floor \in Prices : r \in TakeProfitFilled(agg, agg.tp1Target, floor)
      \/ \E price \in Prices : r \in RunnerStopRequested(agg, price)
    BY DEF MaintenanceEvent, FloorEvent, RunnerEvent
<1> QED BY <1>1, ExitWithin, ProtectionWithin, RunnerWithin

-----------------------------------------------------------------------------
(* Transactions along the Ticket's life. *)

\* A transaction that sees to it keeps the Ticket on its way.
LEMMA LifeStep ==
    ASSUME IInv, LifeInv, NEW prepare, Grown(commands, commands', prepare), OneEntry(commands, commands'),
           Proceeds(agg, agg', prepare), UNCHANGED <<order, position, entryFilled>>,
           recon' = recon \/ recon'.work = "idle"
    PROVE  LifeInv'
<1>0. EntryCommand \in CommandId /\ EntryCommand[1] = "ENTRY" BY EntryCommandType DEF EntryCommand
<1>1. RowsInStage(agg, commands)'
  <2>1. agg'.status = "UNISSUED" => \A c \in CommandId : commands'[c].status = "NONE"
      BY DEF Proceeds, Grown, Steady, LifeInv, RowsInStage
  <2>2. agg'.status \in LeverageStatuses => commands'[EntryCommand].status = "NONE"
    <3> SUFFICES ASSUME agg'.status \in LeverageStatuses PROVE commands'[EntryCommand].status = "NONE"
        OBVIOUS
    <3>1. commands[EntryCommand].status = "NONE" BY <1>0 DEF Proceeds, LifeInv, RowsInStage
    <3>2. \A p \in prepare : p.kind # "ENTRY" BY DEF Proceeds, Timely
    <3> QED BY <1>0, <3>1, <3>2 DEF Grown, Steady
  <2>3. \A c \in CommandId : c[1] = "ENTRY" /\ commands'[c].status # "NONE" => c = EntryCommand
      BY DEF OneEntry, LifeInv, RowsInStage
  <2> QED BY <2>1, <2>2, <2>3 DEF RowsInStage
<1>2. EntryRefused(agg, commands)' /\ EntryNamed(agg)' /\ EntryLedger'
    BY DEF Proceeds, LifeInv, EntryRefused, EntryNamed, EntryLedger
<1>3. EntryEnded(agg, commands)'
  <2>1. ASSUME NEW c \in CommandId, c[1] \in ClosingKinds, commands'[c].status # "NONE"
        PROVE  order[EntryCommand] = "done"
    <3>1. CASE commands[c].status # "NONE" BY <2>1, <3>1 DEF LifeInv, EntryEnded
    <3>2. CASE commands[c].status = "NONE" BY <2>1, <3>2 DEF Grown, Steady, Proceeds, Timely
    <3> QED BY <3>1, <3>2
  <2> QED BY <2>1 DEF EntryEnded, Proceeds
<1>4. CancelsHit(commands)'
  <2> SUFFICES ASSUME NEW c \in CommandId, c[1] = "CANCEL_ORDER"
               PROVE  /\ order[c] # "live"
                      /\ order[c] = "done" => /\ commands'[c].payload.target \in CommandId
                                              /\ order[commands'[c].payload.target] = "done"
                      /\ commands'[c].status # "NONE" /\ commands'[c].payload.purpose = "entry_remainder" =>
                            /\ commands'[c].payload.target = EntryCommand
                            /\ commands'[c].payload.namespace = "regular"
      BY DEF CancelsHit
  <2>1. CASE Steady(commands[c], commands'[c]) BY <2>1 DEF Steady, LifeInv, CancelsHit
  <2>2. CASE ~ Steady(commands[c], commands'[c])
    <3>1. /\ commands[c].status = "NONE" /\ commands'[c].payload \in prepare
          /\ commands'[c].payload.kind = c[1]
        BY <2>2 DEF Grown
    <3>2. order[c] = "unsent" BY <3>1 DEF IInv, DurableBeforeVenue
    <3> QED BY <3>1, <3>2 DEF Proceeds, Timely
  <2> QED BY <2>1, <2>2
<1>5. SnapshotHolds(agg)' BY DEF LifeInv, SnapshotHolds, Proceeds
<1>6. StagesKeep(agg)' BY DEF Proceeds, StagesKeep
<1> QED BY <1>1, <1>2, <1>3, <1>4, <1>5, <1>6 DEF LifeInv, Proceeds

\* The stages are disjoint.
LEMMA StagesApart ==
    ASSUME NEW s
    PROVE  /\ s \in LeverageStatuses => s \in EntryStatuses /\ s \notin PartialFillStatuses
           /\ s \in EntryStatuses => s \in EnteringStatuses
           /\ s \in PartialFillStatuses => s \in EnteringStatuses /\ s \notin EntryStatuses
           /\ s \in EnteringStatuses =>
                 /\ s \in FundedStatuses
                 /\ s \notin WorkingStatuses \cup FlatStatuses \cup RejectedStatuses \cup {"UNISSUED"}
           /\ s \in WorkingStatuses =>
                 /\ s \in FundedStatuses
                 /\ s \notin EnteringStatuses \cup LeverageStatuses \cup FlatStatuses \cup RejectedStatuses \cup {"UNISSUED"}
           /\ s \in CleanupStatuses =>
                 /\ s \in FundedStatuses /\ s \in FlatStatuses
                 /\ s \notin EnteringStatuses \cup WorkingStatuses \cup RejectedStatuses \cup {"UNISSUED"}
           /\ s \in FlatStatuses =>
                 s \notin EnteringStatuses \cup LeverageStatuses \cup PartialFillStatuses \cup WorkingStatuses
                          \cup RejectedStatuses \cup {"UNISSUED"}
           /\ s \in ClosureStatuses => s \in FlatStatuses /\ s \notin FundedStatuses
           /\ s \in RejectedStatuses =>
                 s \notin FundedStatuses \cup EnteringStatuses \cup LeverageStatuses \cup PartialFillStatuses
                          \cup WorkingStatuses \cup FlatStatuses \cup {"UNISSUED"}
           /\ s = "UNISSUED" => s \notin FundedStatuses \cup RejectedStatuses
           /\ s = "POST_FILL_RISK_PENDING" => s \in WorkingStatuses
<1> USE DEF LeverageStatuses, EntryStatuses, PartialFillStatuses, EnteringStatuses, FundedStatuses,
        WorkingStatuses, FlatStatuses, RejectedStatuses, CleanupStatuses, ClosureStatuses,
        ProtectionStatuses, Tp1Statuses, RunnerStatuses, ExitStatuses, FlattenStatuses
<1>1. s \in LeverageStatuses => s \in EntryStatuses /\ s \notin PartialFillStatuses OBVIOUS
<1>2. s \in EntryStatuses => s \in EnteringStatuses OBVIOUS
<1>3. s \in PartialFillStatuses => s \in EnteringStatuses /\ s \notin EntryStatuses OBVIOUS
<1>4. s \in EnteringStatuses =>
         /\ s \in FundedStatuses
         /\ s \notin WorkingStatuses \cup FlatStatuses \cup RejectedStatuses \cup {"UNISSUED"}
    OBVIOUS
<1>5. s \in WorkingStatuses =>
         /\ s \in FundedStatuses
         /\ s \notin EnteringStatuses \cup LeverageStatuses \cup FlatStatuses \cup RejectedStatuses \cup {"UNISSUED"}
    OBVIOUS
<1>6. s \in CleanupStatuses =>
         /\ s \in FundedStatuses /\ s \in FlatStatuses
         /\ s \notin EnteringStatuses \cup WorkingStatuses \cup RejectedStatuses \cup {"UNISSUED"}
    OBVIOUS
<1>7. s \in FlatStatuses =>
         s \notin EnteringStatuses \cup LeverageStatuses \cup PartialFillStatuses \cup WorkingStatuses
                  \cup RejectedStatuses \cup {"UNISSUED"}
    OBVIOUS
<1>8. s \in ClosureStatuses => s \in FlatStatuses /\ s \notin FundedStatuses OBVIOUS
<1>9. s \in RejectedStatuses =>
         s \notin FundedStatuses \cup EnteringStatuses \cup LeverageStatuses \cup PartialFillStatuses
                  \cup WorkingStatuses \cup FlatStatuses \cup {"UNISSUED"}
    OBVIOUS
<1>10. s = "UNISSUED" => s \notin FundedStatuses \cup RejectedStatuses OBVIOUS
<1>11. s = "POST_FILL_RISK_PENDING" => s \in WorkingStatuses OBVIOUS
<1> HIDE DEF LeverageStatuses, EntryStatuses, PartialFillStatuses, EnteringStatuses, FundedStatuses,
        WorkingStatuses, FlatStatuses, RejectedStatuses, CleanupStatuses, ClosureStatuses,
        ProtectionStatuses, Tp1Statuses, RunnerStatuses, ExitStatuses, FlattenStatuses
<1> QED BY <1>1, <1>2, <1>3, <1>4, <1>5, <1>6, <1>7, <1>8, <1>9, <1>10, <1>11

-----------------------------------------------------------------------------
(* The events, one after the other. *)

\* Nothing that stays in its stage leaves the Ticket's way.
LEMMA WithinAdvances ==
    ASSUME LifeInv, NEW r, Within(agg, r), Pays(r)
    PROVE  Advances(r)
<1> DEFINE b == r.agg
<1>1. /\ b.entryOrder = agg.entryOrder /\ b.laneHeld = agg.laneHeld /\ r.release = {}
      /\ b.activeStop = agg.activeStop \/ b.activeStop # NoOrder \/ b.status \in CleanupStatuses
      /\ b.status = "POST_FILL_RISK_PENDING" => b.activeStop # NoOrder
      /\ \A p \in r.prepare : Ordered(b.status, p)
      /\ Together(agg.status, b.status)
    BY DEF Within
<1> HIDE DEF b
<1>2. \/ agg.status \in LeverageStatuses /\ b.status \in LeverageStatuses
      \/ agg.status \in EntryStatuses /\ b.status \in EntryStatuses /\ b.status \notin LeverageStatuses
      \/ agg.status \in PartialFillStatuses /\ b.status \in PartialFillStatuses
      \/ agg.status \in WorkingStatuses /\ b.status \in WorkingStatuses
      \/ agg.status \in CleanupStatuses /\ b.status \in CleanupStatuses
      \/ agg.status \in ClosureStatuses /\ b.status \in ClosureStatuses /\ "TERMINAL" \notin {agg.status, b.status}
    BY <1>1 DEF Together, ClosureStatuses
<1>3. /\ agg.status \in FundedStatuses <=> b.status \in FundedStatuses
      /\ agg.status # "UNISSUED" /\ b.status # "UNISSUED"
      /\ agg.status \notin RejectedStatuses /\ b.status \notin RejectedStatuses
    BY <1>2, StagesApart
<1>4. /\ b.status \in LeverageStatuses => agg.status \in LeverageStatuses
      /\ b.status \in PartialFillStatuses => agg.status \in PartialFillStatuses
      /\ b.status \in EnteringStatuses => agg.status \in EnteringStatuses
      /\ b.status \in WorkingStatuses => agg.status \in WorkingStatuses
      /\ b.status \in FlatStatuses => agg.status \in FlatStatuses
    BY <1>2, StagesApart
<1>5. EntryRefused(b, commands') /\ EntryNamed(b) BY <1>1, <1>3 DEF EntryRefused, EntryNamed, LifeInv
<1>6. b.status \in WorkingStatuses \cup FlatStatuses => order[EntryCommand] = "done"
    BY <1>4 DEF LifeInv, EntryEnded
<1>7. \A p \in r.prepare : Timely(b, p) BY <1>1, <1>6 DEF Ordered, Timely
<1>8. StagesKeep(b)
  <2>1. b.status \in WorkingStatuses => b.status \notin CleanupStatuses BY StagesApart
  <2> QED BY <1>1, <1>4, <2>1 DEF StagesKeep, LifeInv
<1>9. "budget" \in held' <=> b.status \in FundedStatuses BY <1>1, <1>3 DEF Pays, LifeInv
<1>10. Passes(agg, b)
  <2>1. "TERMINAL" \notin {agg.status, b.status} \/ agg.status \in FundedStatuses BY <1>2, StagesApart
  <2>2. "TERMINAL" \notin FundedStatuses BY StagesApart DEF ClosureStatuses
  <2> QED BY <1>1, <1>3, <2>1, <2>2 DEF Passes, StageAt
<1> QED BY <1>3, <1>4, <1>5, <1>6, <1>7, <1>8, <1>9, <1>10 DEF Advances, Proceeds, b

\* The Ticket is issued.
LEMMA IssueAdvances ==
    ASSUME LifeInv, agg.status = "UNISSUED", NEW change \in BOOLEAN, NEW r \in TicketIssued(change),
           "budget" \in held'
    PROVE  Advances(r)
<1>1. /\ r.agg = [NoAggregate EXCEPT !.status = IF change THEN "LEVERAGE_PENDING" ELSE "ENTRY_PENDING",
                                     !.laneHeld = TRUE]
      /\ r.prepare = {IF change THEN Command("SET_LEVERAGE", 0) ELSE Command("ENTRY", TicketQuantity)}
    BY DEF TicketIssued, Transition
<1>2. /\ r.agg.status = (IF change THEN "LEVERAGE_PENDING" ELSE "ENTRY_PENDING")
      /\ r.agg.laneHeld = TRUE /\ r.agg.entryOrder = NoOrder
    BY <1>1 DEF NoAggregate
<1>3. r.agg.status \in EntryStatuses /\ r.agg.status # "POST_FILL_RISK_PENDING"
    BY <1>2 DEF EntryStatuses
<1>4. \A p \in r.prepare : Timely(r.agg, p)
  <2>1. \A p \in r.prepare : /\ p.kind \notin ClosingKinds \cup {"CANCEL_ORDER"}
                             /\ p.kind = "ENTRY" => ~ change
      BY <1>1, CommandKinds DEF ClosingKinds, StopKinds, MarketKinds
  <2>2. ~ change => r.agg.status \notin LeverageStatuses BY <1>2 DEF LeverageStatuses
  <2> QED BY <2>1, <2>2 DEF Timely
<1>5. StagesKeep(r.agg) /\ EntryNamed(r.agg) /\ EntryRefused(r.agg, commands')
    BY <1>2, <1>3, StagesApart DEF StagesKeep, EntryNamed, EntryRefused
<1>6. Passes(agg, r.agg) BY <1>2, <1>3, StagesApart DEF Passes, StageAt
<1> QED BY <1>3, <1>4, <1>5, <1>6, StagesApart DEF Advances, Proceeds

\* Leverage is confirmed and ENTRY prepared.
LEMMA LeverageAdvances ==
    ASSUME agg \in Aggregate, LifeInv, NEW r \in LeverageConfirmed(agg), Pays(r)
    PROVE  Advances(r)
<1>1. /\ agg.status \in LeverageStatuses /\ r.agg = Moved(agg, "LEVERAGE_CONFIRMED")
      /\ r.prepare = {Command("ENTRY", TicketQuantity)} /\ r.release = {}
    BY DEF LeverageConfirmed, When, Transition, LeverageStatuses
<1>2. SameCourse(agg, r.agg) /\ r.agg.status = "LEVERAGE_CONFIRMED" BY <1>1, MovedCourse
<1>3. r.agg.status \in EntryStatuses /\ r.agg.status \notin LeverageStatuses /\ r.agg.status # "POST_FILL_RISK_PENDING"
    BY <1>2 DEF EntryStatuses, LeverageStatuses
<1>4. agg.status \in EnteringStatuses /\ r.agg.status \in EnteringStatuses BY <1>1, <1>3, StagesApart
<1>5. agg.laneHeld /\ r.agg.laneHeld BY <1>2, <1>4 DEF LifeInv, StagesKeep, SameCourse
<1>6. \A p \in r.prepare : Timely(r.agg, p)
    BY <1>1, <1>3, CommandKinds DEF Timely, ClosingKinds, StopKinds, MarketKinds
<1>7. StagesKeep(r.agg) /\ EntryNamed(r.agg) /\ EntryRefused(r.agg, commands')
  <2>1. EntryNamed(agg) BY DEF LifeInv
  <2> QED BY <1>2, <1>3, <1>4, <1>5, <2>1, StagesApart DEF StagesKeep, EntryNamed, EntryRefused, SameCourse
<1>8. Passes(agg, r.agg) BY <1>4, <1>5, StagesApart DEF Passes, StageAt
<1>9. "budget" \in held' <=> r.agg.status \in FundedStatuses
    BY <1>1, <1>4, StagesApart DEF Pays, LifeInv
<1> QED BY <1>3, <1>4, <1>6, <1>7, <1>8, <1>9, StagesApart DEF Advances, Proceeds

\* Leverage or ENTRY is refused, or ENTRY is absent: no order of the Ticket can arrive.
LEMMA RefusalAdvances ==
    ASSUME agg \in Aggregate, LifeInv, NEW r, Pays(r),
           r \in LeverageRejected(agg) \/ r \in EntryRejected(agg) \/ r \in EntryAbsenceConfirmed(agg),
           order[EntryCommand] \notin {"transit", "live", "done"},
           commands'[EntryCommand].status \notin {"PREPARED", "CLAIMED"}
    PROVE  Advances(r)
<1>1. /\ agg.status \in EntryStatuses /\ r.prepare = {} /\ r.release = TerminalRelease
      /\ \E s \in RejectedStatuses : r.agg = [agg EXCEPT !.status = s, !.laneHeld = FALSE]
  <2>1. CASE r \in LeverageRejected(agg)
      BY <2>1 DEF LeverageRejected, When, Transition, EntryStatuses, RejectedStatuses
  <2>2. CASE r \in EntryRejected(agg)
      BY <2>2 DEF EntryRejected, When, Transition, EntryStatuses, RejectedStatuses
  <2>3. CASE r \in EntryAbsenceConfirmed(agg)
      BY <2>3 DEF EntryAbsenceConfirmed, When, Transition, EntryStatuses, RejectedStatuses
  <2> QED BY <2>1, <2>2, <2>3
<1>2. r.agg.status \in RejectedStatuses /\ r.agg.laneHeld = FALSE /\ r.agg.entryOrder = agg.entryOrder
    BY <1>1 DEF Aggregate
<1>3. agg.laneHeld /\ agg.status # "UNISSUED" BY <1>1, StagesApart DEF LifeInv, StagesKeep
<1>4. r.agg.status # "POST_FILL_RISK_PENDING" /\ r.agg.status # "UNISSUED" BY <1>2 DEF RejectedStatuses
<1>5. StagesKeep(r.agg) /\ EntryNamed(r.agg) /\ EntryRefused(r.agg, commands')
  <2>1. EntryNamed(agg) BY DEF LifeInv
  <2> QED BY <1>2, <1>4, <2>1, StagesApart DEF StagesKeep, EntryNamed, EntryRefused
<1>6. Passes(agg, r.agg) BY <1>2, <1>3, <1>4, StagesApart DEF Passes, StageAt
<1>7. "budget" \in held' <=> r.agg.status \in FundedStatuses
    BY <1>1, <1>2, StagesApart DEF Pays, TerminalRelease
<1> QED BY <1>1, <1>2, <1>4, <1>5, <1>6, <1>7, StagesApart DEF Advances, Proceeds

\* ENTRY is accepted: its order has arrived.
LEMMA AcceptanceAdvances ==
    ASSUME agg \in Aggregate, LifeInv, NEW r \in EntryAccepted(agg, EntryCommand), Pays(r),
           order[EntryCommand] \in Arrived
    PROVE  Advances(r)
<1>1. /\ agg.status \in EntryStatuses /\ r.prepare = {} /\ r.release = {}
      /\ r.agg = [agg EXCEPT !.status = "ENTRY_ACCEPTED", !.entryOrder = EntryCommand]
    BY DEF EntryAccepted, When, Transition, EntryStatuses
<1>2. /\ r.agg.status = "ENTRY_ACCEPTED" /\ r.agg.laneHeld = agg.laneHeld /\ r.agg.entryOrder = EntryCommand
    BY <1>1 DEF Aggregate
<1>3. r.agg.status \in EntryStatuses /\ r.agg.status \notin LeverageStatuses /\ r.agg.status # "POST_FILL_RISK_PENDING"
    BY <1>2 DEF EntryStatuses, LeverageStatuses
<1>4. agg.status \in EnteringStatuses /\ r.agg.status \in EnteringStatuses BY <1>1, <1>3, StagesApart
<1>5. agg.laneHeld /\ r.agg.laneHeld BY <1>2, <1>4 DEF LifeInv, StagesKeep
<1>6. StagesKeep(r.agg) /\ EntryNamed(r.agg) /\ EntryRefused(r.agg, commands')
    BY <1>2, <1>3, <1>4, <1>5, StagesApart DEF StagesKeep, EntryNamed, EntryRefused
<1>7. Passes(agg, r.agg) BY <1>4, <1>5, StagesApart DEF Passes, StageAt
<1>8. "budget" \in held' <=> r.agg.status \in FundedStatuses
    BY <1>1, <1>4, StagesApart DEF Pays, LifeInv
<1> QED BY <1>1, <1>3, <1>4, <1>6, <1>7, <1>8, StagesApart DEF Advances, Proceeds

\* ENTRY has filled: the whole quantity was seen, so its order has ended.
LEMMA FillAdvances ==
    ASSUME IInv, LifeInv, recon.work = "snapshot", recon'.work = "idle", NEW d \in Dispositions,
           NEW r \in EntryFilled(agg, recon.qty, d), Pays(r)
    PROVE  Advances(r)
<1> DEFINE updated == [agg EXCEPT !.positionQty = recon.qty, !.disposition = d]
<1>0. /\ agg \in Aggregate /\ entryFilled \in 0 .. TicketQuantity /\ order[EntryCommand] \in OrderStates
    BY EntryCommandType DEF IInv, TypeOK, Quantities
<1>1. /\ agg.status \in {"ENTRY_PENDING", "LEVERAGE_CONFIRMED", "ENTRY_ACCEPTED"}
      /\ recon.qty = TicketQuantity /\ r.release = {}
      /\ \/ r.agg = Moved(updated, "CONTROLLED_FLATTEN_PENDING")
         \/ r.agg = Moved(updated, "PROTECTION_PENDING")
      /\ \/ r.prepare = {Command("CONTROLLED_FLATTEN", recon.qty)}
         \/ r.prepare = {StopCommand("INITIAL_STOP", recon.qty, InitialStopPrice, NoOrder)}
    BY DEF EntryFilled, When, Transition
<1>2. /\ r.agg.status \in {"CONTROLLED_FLATTEN_PENDING", "PROTECTION_PENDING"}
      /\ r.agg.entryOrder = agg.entryOrder /\ r.agg.laneHeld = agg.laneHeld
    BY <1>0, <1>1 DEF Aggregate, Moved
<1> HIDE DEF updated
<1>3. agg.status \in EnteringStatuses BY <1>1, StagesApart DEF EntryStatuses
<1>4. r.agg.status \in WorkingStatuses /\ r.agg.status # "POST_FILL_RISK_PENDING"
    BY <1>2 DEF WorkingStatuses, FlattenStatuses, ProtectionStatuses
<1>5. order[EntryCommand] = "done"
  <2>1. entryFilled = TicketQuantity BY <1>0, <1>1, QuantityAssumption DEF LifeInv, SnapshotHolds
  <2>2. order[EntryCommand] \in Arrived BY <2>1, QuantityAssumption DEF LifeInv, EntryLedger
  <2>3. order[EntryCommand] # "live" BY <2>1, QuantityAssumption DEF IInv, EntryFillsBounded
  <2> QED BY <2>2, <2>3 DEF Arrived
<1>6. agg.laneHeld /\ r.agg.laneHeld BY <1>2, <1>3 DEF LifeInv, StagesKeep
<1>7. \A p \in r.prepare : Timely(r.agg, p)
  <2>1. \A p \in r.prepare : p.kind \notin {"ENTRY", "CANCEL_ORDER"} BY <1>1, CommandKinds
  <2> QED BY <1>5, <2>1 DEF Timely
<1>8. StagesKeep(r.agg) /\ EntryNamed(r.agg) /\ EntryRefused(r.agg, commands')
  <2>1. EntryNamed(agg) BY DEF LifeInv
  <2> QED BY <1>2, <1>4, <1>6, <2>1, StagesApart DEF StagesKeep, EntryNamed, EntryRefused
<1>9. Passes(agg, r.agg) BY <1>3, <1>4, <1>6, StagesApart DEF Passes, StageAt
<1>10. "budget" \in held' <=> r.agg.status \in FundedStatuses
    BY <1>1, <1>3, <1>4, StagesApart DEF Pays, LifeInv
<1> QED BY <1>4, <1>5, <1>7, <1>8, <1>9, <1>10, StagesApart DEF Advances, Proceeds

\* ENTRY has filled in part: its remainder is cancelled by the name it arrived under.
LEMMA PartialAdvances ==
    ASSUME IInv, LifeInv, recon.work = "snapshot", recon'.work = "idle",
           NEW r \in EntryPartiallyFilled(agg, recon.qty), Pays(r)
    PROVE  Advances(r)
<1>0. agg \in Aggregate /\ entryFilled \in Nat /\ recon.qty \in Nat
    BY QuantityAssumption DEF IInv, TypeOK, Quantities
<1>1. /\ agg.status \in {"ENTRY_PENDING", "LEVERAGE_CONFIRMED", "ENTRY_ACCEPTED"}
      /\ 0 < recon.qty /\ agg.entryOrder # NoOrder /\ r.release = {}
      /\ r.agg = [agg EXCEPT !.status = "PARTIAL_FILL_INCIDENT", !.positionQty = recon.qty]
      /\ r.prepare = {CancelCommand(agg.entryOrder, "regular", "entry_remainder")}
    BY DEF EntryPartiallyFilled, When, Transition
<1>2. /\ r.agg.status = "PARTIAL_FILL_INCIDENT"
      /\ r.agg.entryOrder = agg.entryOrder /\ r.agg.laneHeld = agg.laneHeld
    BY <1>0, <1>1 DEF Aggregate
<1>3. agg.status \in EnteringStatuses BY <1>1, StagesApart DEF EntryStatuses
<1>4. r.agg.status \in PartialFillStatuses /\ r.agg.status # "POST_FILL_RISK_PENDING"
    BY <1>2 DEF PartialFillStatuses
<1>5. entryFilled > 0 BY <1>0, <1>1 DEF LifeInv, SnapshotHolds
<1>6. agg.laneHeld /\ r.agg.laneHeld BY <1>2, <1>3 DEF LifeInv, StagesKeep
<1>7. \A p \in r.prepare : Timely(r.agg, p)
  <2>1. agg.entryOrder = EntryCommand BY <1>1 DEF LifeInv, EntryNamed
  <2>2. \A p \in r.prepare : p.kind = "CANCEL_ORDER" /\ p.target = EntryCommand /\ p.namespace = "regular"
      BY <1>1, <2>1 DEF CancelCommand
  <2> QED BY <2>2 DEF Timely, ClosingKinds, StopKinds, MarketKinds
<1>8. StagesKeep(r.agg) /\ EntryNamed(r.agg) /\ EntryRefused(r.agg, commands')
  <2>1. EntryNamed(agg) BY DEF LifeInv
  <2>2. r.agg.status \notin WorkingStatuses \cup FlatStatuses \cup RejectedStatuses BY <1>4, StagesApart
  <2> QED BY <1>2, <1>4, <1>5, <1>6, <2>1, <2>2 DEF StagesKeep, EntryNamed, EntryRefused
<1>9. Passes(agg, r.agg) BY <1>3, <1>4, <1>6, StagesApart DEF Passes, StageAt
<1>10. "budget" \in held' <=> r.agg.status \in FundedStatuses
    BY <1>1, <1>3, <1>4, StagesApart DEF Pays, LifeInv
<1> QED BY <1>4, <1>7, <1>8, <1>9, <1>10, StagesApart DEF Advances, Proceeds

\* The ENTRY remainder is cancelled.
LEMMA RemainderAdvances ==
    ASSUME agg \in Aggregate, LifeInv, NEW o, NEW r \in EntryRemainderCancelConfirmed(agg, o), Pays(r),
           order[EntryCommand] = "done"
    PROVE  Advances(r)
<1>1. /\ agg.status \in PartialFillStatuses /\ r.release = {}
      /\ r.agg = Moved(agg, "CONTROLLED_FLATTEN_PENDING")
      /\ r.prepare = {Command("CONTROLLED_FLATTEN", agg.positionQty)}
    BY DEF EntryRemainderCancelConfirmed, When, Transition, PartialFillStatuses
<1>2. SameCourse(agg, r.agg) /\ r.agg.status = "CONTROLLED_FLATTEN_PENDING" BY <1>1, MovedCourse
<1>3. agg.status \in EnteringStatuses BY <1>1, StagesApart
<1>4. r.agg.status \in WorkingStatuses /\ r.agg.status # "POST_FILL_RISK_PENDING"
    BY <1>2 DEF WorkingStatuses, FlattenStatuses
<1>5. agg.laneHeld /\ r.agg.laneHeld BY <1>2, <1>3 DEF LifeInv, StagesKeep, SameCourse
<1>6. \A p \in r.prepare : Timely(r.agg, p) BY <1>1, CommandKinds DEF Timely
<1>7. StagesKeep(r.agg) /\ EntryNamed(r.agg) /\ EntryRefused(r.agg, commands')
  <2>1. EntryNamed(agg) BY DEF LifeInv
  <2> QED BY <1>2, <1>4, <1>5, <2>1, StagesApart DEF StagesKeep, EntryNamed, EntryRefused, SameCourse
<1>8. Passes(agg, r.agg) BY <1>3, <1>4, <1>5, StagesApart DEF Passes, StageAt
<1>9. "budget" \in held' <=> r.agg.status \in FundedStatuses
    BY <1>1, <1>3, <1>4, StagesApart DEF Pays, LifeInv
<1> QED BY <1>1, <1>4, <1>6, <1>7, <1>8, <1>9, StagesApart DEF Advances, Proceeds

\* The stress decision hands the lane on under the stop, or keeps it and flattens.
LEMMA StressAdvances ==
    ASSUME agg \in Aggregate, LifeInv, NEW passed \in BOOLEAN, NEW r \in PostFillStressAssessed(agg, passed), Pays(r)
    PROVE  Advances(r)
<1>1. /\ agg.status = "POST_FILL_RISK_PENDING" /\ r.release \subseteq {"lane"}
      /\ \/ /\ r.agg = [agg EXCEPT !.status = "TP1_PENDING", !.laneHeld = FALSE, !.tp1Target = Tp1Quantity]
            /\ r.prepare = {Command("TAKE_PROFIT", Tp1Quantity)}
         \/ /\ r.agg = Moved(agg, "CONTROLLED_FLATTEN_PENDING")
            /\ r.prepare = {Command("CONTROLLED_FLATTEN", agg.positionQty)}
    BY DEF PostFillStressAssessed, When, Transition
<1>2. /\ r.agg.status \in {"TP1_PENDING", "CONTROLLED_FLATTEN_PENDING"}
      /\ r.agg.entryOrder = agg.entryOrder /\ r.agg.activeStop = agg.activeStop
      /\ r.agg.laneHeld = agg.laneHeld \/ r.agg.laneHeld = FALSE
    BY <1>1 DEF Aggregate, Moved
<1>3. agg.status \in WorkingStatuses BY <1>1 DEF WorkingStatuses
<1>4. r.agg.status \in WorkingStatuses /\ r.agg.status # "POST_FILL_RISK_PENDING"
    BY <1>2 DEF WorkingStatuses, FlattenStatuses, Tp1Statuses
<1>5. agg.activeStop # NoOrder /\ order[EntryCommand] = "done"
    BY <1>1, <1>3 DEF LifeInv, StagesKeep, EntryEnded
<1>6. \A p \in r.prepare : Timely(r.agg, p)
  <2>1. \A p \in r.prepare : p.kind \notin {"ENTRY", "CANCEL_ORDER"} BY <1>1, CommandKinds
  <2> QED BY <1>5, <2>1 DEF Timely
<1>7. StagesKeep(r.agg) /\ EntryNamed(r.agg) /\ EntryRefused(r.agg, commands')
  <2>1. EntryNamed(agg) BY DEF LifeInv
  <2> QED BY <1>2, <1>4, <1>5, <2>1, StagesApart DEF StagesKeep, EntryNamed, EntryRefused
<1>8. Passes(agg, r.agg) BY <1>2, <1>3, <1>4, StagesApart DEF Passes, StageAt
<1>9. "budget" \in held' <=> r.agg.status \in FundedStatuses
    BY <1>1, <1>3, <1>4, StagesApart DEF Pays, LifeInv
<1> QED BY <1>3, <1>4, <1>5, <1>6, <1>7, <1>8, <1>9, StagesApart DEF Advances, Proceeds

\* Flatness is confirmed or detected: the snapshot without a position is still true.
LEMMA FlatAdvances ==
    ASSUME agg \in Aggregate, LifeInv, recon.work = "snapshot", recon.qty = 0, NEW r, Pays(r),
           r \in PositionFlatConfirmed(agg) \/ r \in ExternalFlatDetected(agg)
    PROVE  Advances(r)
<1> DEFINE cleanup == NextCleanupOrder(agg)
<1>1. /\ agg.status \in WorkingStatuses /\ r.release \subseteq {"lane"}
      /\ r.prepare \subseteq {CleanupCancel(cleanup, "conditional")}
      /\ r.agg.status = "RECONCILIATION_PENDING" /\ r.agg.entryOrder = agg.entryOrder
      /\ r.agg.laneHeld = agg.laneHeld \/ r.agg.laneHeld = FALSE
  <2>1. CASE r \in PositionFlatConfirmed(agg)
    <3>1. /\ agg.status \in ExitStatuses \cup FlattenStatuses /\ r.release \subseteq {"lane"}
          /\ r.prepare \subseteq {CleanupCancel(cleanup, "conditional")}
          /\ r.agg = [agg EXCEPT !.status = "RECONCILIATION_PENDING", !.positionQty = 0,
                                 !.pendingCancel = IF cleanup # NoOrder THEN cleanup ELSE @, !.laneHeld = FALSE]
        BY <2>1 DEF PositionFlatConfirmed, When, Transition
    <3> QED BY <3>1 DEF Aggregate, WorkingStatuses
  <2>2. CASE r \in ExternalFlatDetected(agg)
    <3>1. /\ agg.status \in Tp1Statuses \cup RunnerStatuses /\ r.release = {}
          /\ r.prepare = {CleanupCancel(cleanup, "conditional")}
          /\ r.agg = [agg EXCEPT !.status = "RECONCILIATION_PENDING", !.positionQty = 0,
                                 !.pendingCancel = cleanup]
        BY <2>2 DEF ExternalFlatDetected, When, Transition
    <3> QED BY <3>1 DEF Aggregate, WorkingStatuses
  <2> QED BY <2>1, <2>2
<1> HIDE DEF cleanup
<1>2. r.agg.status \in CleanupStatuses /\ r.agg.status # "POST_FILL_RISK_PENDING"
    BY <1>1 DEF CleanupStatuses
<1>3. position = 0 /\ order[EntryCommand] = "done" BY <1>1 DEF LifeInv, SnapshotHolds, EntryEnded
<1>4. \A p \in r.prepare : Timely(r.agg, p)
    BY <1>1 DEF CleanupCancel, CancelCommand, Timely, ClosingKinds, StopKinds, MarketKinds
<1>5. StagesKeep(r.agg) /\ EntryNamed(r.agg) /\ EntryRefused(r.agg, commands')
  <2>1. EntryNamed(agg) BY DEF LifeInv
  <2> QED BY <1>1, <1>2, <1>3, <2>1, StagesApart DEF StagesKeep, EntryNamed, EntryRefused
<1>6. Passes(agg, r.agg) BY <1>1, <1>2, StagesApart DEF Passes, StageAt
<1>7. "budget" \in held' <=> r.agg.status \in FundedStatuses
    BY <1>1, <1>2, StagesApart DEF Pays, LifeInv
<1> QED BY <1>2, <1>3, <1>4, <1>5, <1>6, <1>7, StagesApart DEF Advances, Proceeds

\* Closure: the capital is released, and the review ends the Ticket.
LEMMA ClosureAdvances ==
    ASSUME agg \in Aggregate, LifeInv, NEW r, Pays(r), r \in ReconciliationMatched(agg) \/ r \in ReviewRecorded(agg)
    PROVE  Advances(r)
<1>1. /\ r.prepare = {} /\ SameCourse(agg, r.agg)
      /\ \/ /\ agg.status = "RECONCILIATION_PENDING" /\ r.agg.status = "SETTLEMENT_PENDING"
            /\ "budget" \in r.release
         \/ agg.status = "REVIEW_PENDING" /\ r.agg.status = "TERMINAL"
  <2>1. CASE r \in ReconciliationMatched(agg)
    <3>1. /\ agg.status = "RECONCILIATION_PENDING" /\ r.agg = Moved(agg, "SETTLEMENT_PENDING")
          /\ r.prepare = {} /\ "budget" \in r.release
        BY <2>1 DEF ReconciliationMatched, When, Transition
    <3> QED BY <3>1, MovedCourse
  <2>2. CASE r \in ReviewRecorded(agg)
    <3>1. agg.status = "REVIEW_PENDING" /\ r.agg = Moved(agg, "TERMINAL") /\ r.prepare = {}
        BY <2>2 DEF ReviewRecorded, When, Transition
    <3> QED BY <3>1, MovedCourse
  <2> QED BY <2>1, <2>2
<1>2. agg.status \in FlatStatuses /\ r.agg.status \in ClosureStatuses /\ r.agg.status # "POST_FILL_RISK_PENDING"
    BY <1>1 DEF FlatStatuses, CleanupStatuses, ClosureStatuses
<1>3. position = 0 /\ order[EntryCommand] = "done" BY <1>2 DEF LifeInv, StagesKeep, EntryEnded
<1>4. StagesKeep(r.agg) /\ EntryNamed(r.agg) /\ EntryRefused(r.agg, commands')
  <2>1. EntryNamed(agg) BY DEF LifeInv
  <2> QED BY <1>1, <1>2, <1>3, <2>1, StagesApart DEF StagesKeep, EntryNamed, EntryRefused, SameCourse
<1>5. "budget" \in held' <=> r.agg.status \in FundedStatuses
  <2>1. agg.status = "REVIEW_PENDING" => agg.status \notin FundedStatuses
      BY StagesApart DEF ClosureStatuses
  <2> QED BY <1>1, <1>2, <2>1, StagesApart DEF Pays, LifeInv
<1>6. Passes(agg, r.agg)
  <2>1. /\ agg.status = "RECONCILIATION_PENDING" => agg.status \in FundedStatuses
        /\ agg.status = "REVIEW_PENDING" => agg.status \notin FundedStatuses \cup RejectedStatuses
        /\ r.agg.status \notin FundedStatuses \cup RejectedStatuses
      BY <1>2, StagesApart DEF CleanupStatuses, ClosureStatuses
  <2> QED BY <1>1, <2>1 DEF Passes, StageAt, SameCourse
<1> QED BY <1>1, <1>2, <1>3, <1>4, <1>5, <1>6, StagesApart DEF Advances, Proceeds

-----------------------------------------------------------------------------
(* Every transaction keeps the Ticket on its way. *)

\* commit_reduction files ENTRY once.
LEMMA OneEntryRow ==
    ASSUME NEW rows \in [CommandId -> Row], NEW r, NEW au, Commit(r, rows, au), r.prepare \subseteq Payload,
           \A c \in CommandId : Steady(commands[c], rows[c])
    PROVE  OneEntry(commands, commands')
<1> DEFINE marked == MarkAbsent(rows, r.markAbsent)
<1>1. marked \in [CommandId -> Row] /\ \A c \in CommandId : marked[c].status # "NONE" => commands[c].status # "NONE"
    BY MarkAbsentRows DEF Steady
<1> HIDE DEF marked
<1>2. CASE commands' = marked BY <1>1, <1>2 DEF OneEntry
<1>3. ASSUME NEW p \in r.prepare, NEW g \in Generations, GenerationAllowed(rows, p, g),
             commands' = [marked EXCEPT ![<<p.kind, g>>] =
                            [status |-> "PREPARED", timer |-> "running", payload |-> p]]
      PROVE  OneEntry(commands, commands')
  <2>1. p.kind = "ENTRY" => g = 1 BY <1>3 DEF GenerationAllowed, OneShotKinds
  <2>2. <<p.kind, g>>[1] = p.kind OBVIOUS
  <2>3. \A c \in CommandId : c # <<p.kind, g>> => commands'[c] = marked[c] BY <1>1, <1>3
  <2>4. \A c \in CommandId : c = <<p.kind, g>> /\ c[1] = "ENTRY" => c = EntryCommand
      BY <2>1, <2>2 DEF EntryCommand
  <2> QED BY <1>1, <2>3, <2>4 DEF OneEntry
<1> QED BY <1>2, <1>3 DEF Commit, marked

\* The budget row follows.
LEMMA CommitPays ==
    ASSUME NEW rows, NEW r, Commit(r, rows, held)
    PROVE  Pays(r)
BY DEF Commit, ClearedDomain, Pays

\* A transaction whose event advances.
LEMMA CommitLife ==
    ASSUME IInv, LifeInv, NEW rows \in [CommandId -> Row], NEW r, NEW au, Commit(r, rows, au),
           r.prepare \subseteq Payload, \A c \in CommandId : Steady(commands[c], rows[c]),
           Advances(r), UNCHANGED venue, recon' = recon \/ recon'.work = "idle"
    PROVE  Lives
<1>1. Grown(commands, commands', r.prepare) /\ OneEntry(commands, commands') BY CommitGrows, OneEntryRow
<1>2. agg' = r.agg BY DEF Commit
<1>3. Proceeds(agg, agg', r.prepare) /\ Passes(agg, agg') BY <1>2 DEF Advances
<1>4. UNCHANGED <<order, position, entryFilled>> BY DEF venue
<1> QED BY <1>1, <1>3, <1>4, LifeStep DEF Lives

\* ... and leaves the rows to commit_reduction.
LEMMA PlainLife ==
    ASSUME IInv, LifeInv, NEW r, NEW au, Commit(r, commands, au), r.prepare \subseteq Payload,
           Advances(r), UNCHANGED venue, recon' = recon \/ recon'.work = "idle"
    PROVE  Lives
<1>1. commands \in [CommandId -> Row] /\ \A c \in CommandId : Steady(commands[c], commands[c])
    BY DEF IInv, TypeOK, Steady
<1> QED BY <1>1, CommitLife

\* Nothing but rows, timers and workers changes, and no row is queued again.
LEMMA RowsLife ==
    ASSUME IInv, LifeInv, \A c \in CommandId : Steady(commands[c], commands'[c]),
           \/ commands'[EntryCommand].status \notin {"PREPARED", "CLAIMED"}
           \/ commands[EntryCommand].status \in {"PREPARED", "CLAIMED"},
           UNCHANGED <<agg, held, venue>>, recon' = recon \/ recon'.work = "idle"
    PROVE  Lives
<1>1. Grown(commands, commands', {}) /\ OneEntry(commands, commands') BY DEF Grown, OneEntry, Steady
<1>2. EntryRefused(agg, commands') BY DEF LifeInv, EntryRefused
<1>3. Proceeds(agg, agg, {}) BY <1>2 DEF Proceeds, LifeInv, EntryEnded
<1>4. Proceeds(agg, agg', {}) /\ UNCHANGED <<order, position, entryFilled>> BY <1>3 DEF venue
<1>5. LifeInv' BY <1>1, <1>4, LifeStep
<1> QED BY <1>5 DEF Lives, Passes

\* A reduction that prepares nothing leaves a decided ENTRY row alone.
LEMMA RefusedRow ==
    ASSUME IInv, NEW rows \in [CommandId -> Row], NEW r, Sound(agg, r), Commit(r, rows, held), r.prepare = {},
           rows[EntryCommand].status \notin {"PREPARED", "CLAIMED"}
    PROVE  commands'[EntryCommand].status \notin {"PREPARED", "CLAIMED"}
<1>0. EntryCommand \in CommandId BY EntryCommandType
<1>1. RowStep(rows[EntryCommand], commands'[EntryCommand])
  <2>1. WellFormed(r) /\ incidents \subseteq IncidentKinds /\ held \in SUBSET Authorities
      BY DEF IInv, TypeOK, Sound
  <2> QED BY <1>0, <2>1, CommitSound
<1>2. Grown(rows, commands', {}) BY RowsGrow
<1>3. commands'[EntryCommand].status = "NONE" <=> rows[EntryCommand].status = "NONE"
    BY <1>0, <1>2 DEF Grown, Steady
<1> QED BY <1>1, <1>3 DEF RowStep

\* dispatch_one_command's transactions on a result
LEMMA ResultLife ==
    ASSUME IInv, FenceInv, LifeInv, NEW c \in CommandId, commands[c].status = "CLAIMED",
           NEW result \in Results, result = "ACCEPTED" => order[c] \in Arrived,
           result = "REJECTED" => order[c] \in {"unsent", "refused"},
           \E r \in CommandResultEvent(agg, c, commands[c].payload, result) :
              Commit(r, SetStatus(commands, c, result), held),
           UNCHANGED <<venue, recon>>
    PROVE  Lives
<1> DEFINE rows == SetStatus(commands, c, result)
           p == commands[c].payload
<1>0. agg \in Aggregate /\ p \in Payload /\ EntryCommand \in CommandId /\ EntryCommand[1] = "ENTRY"
    BY EntryCommandType DEF IInv, TypeOK, Row, EntryCommand
<1>1. PICK r \in CommandResultEvent(agg, c, p, result) : Commit(r, rows, held) OBVIOUS
<1>2. p.kind = c[1] BY DEF FenceInv, Filed
<1>3. /\ rows \in [CommandId -> Row] /\ rows[c].status = result
      /\ \A d \in CommandId : Steady(commands[d], rows[d])
    BY SteadyRows DEF Results, RowStatuses, AcceptedRows
<1>4. Sound(agg, r) /\ r.prepare \subseteq Payload
    BY <1>0, <1>1, CommandResultSound DEF AllSound, Sound, WellFormed
<1>5. c[1] = "ENTRY" => c = EntryCommand BY DEF LifeInv, RowsInStage
<1> HIDE DEF rows
<1>6. Pays(r) BY <1>1, CommitPays
<1>7. Advances(r)
  <2>1. CASE Within(agg, r) BY <1>6, <2>1, WithinAdvances
  <2>2. CASE p.kind = "SET_LEVERAGE" /\ r \in LeverageConfirmed(agg)
      BY <1>0, <1>6, <2>2, LeverageAdvances
  <2>3. CASE p.kind = "SET_LEVERAGE" /\ r \in LeverageRejected(agg)
    <3>1. agg.status \in LeverageStatuses /\ r.prepare = {}
        BY <2>3 DEF LeverageRejected, When, Transition, LeverageStatuses
    <3>2. commands[EntryCommand].status = "NONE" BY <3>1 DEF LifeInv, RowsInStage
    <3>3. rows[EntryCommand].status = "NONE" /\ order[EntryCommand] = "unsent"
        BY <1>0, <1>3, <3>2 DEF Steady, IInv, DurableBeforeVenue
    <3>4. commands'[EntryCommand].status \notin {"PREPARED", "CLAIMED"}
        BY <1>1, <1>3, <1>4, <3>1, <3>3, RefusedRow
    <3> QED BY <1>0, <1>6, <2>3, <3>3, <3>4, RefusalAdvances
  <2>4. CASE p.kind = "ENTRY" /\ result = "ACCEPTED" /\ r \in EntryAccepted(agg, c)
      BY <1>0, <1>2, <1>5, <1>6, <2>4, AcceptanceAdvances
  <2>5. CASE p.kind = "ENTRY" /\ result = "REJECTED" /\ r \in EntryRejected(agg)
    <3>1. r.prepare = {} BY <2>5 DEF EntryRejected, When, Transition
    <3>2. c = EntryCommand BY <1>2, <1>5, <2>5
    <3>3. commands'[EntryCommand].status \notin {"PREPARED", "CLAIMED"}
        BY <1>1, <1>3, <1>4, <2>5, <3>1, <3>2, RefusedRow
    <3> QED BY <1>0, <1>6, <2>5, <3>2, <3>3, RefusalAdvances
  <2>6. CASE /\ p.kind = "CANCEL_ORDER" /\ p.purpose = "entry_remainder" /\ result = "ACCEPTED"
             /\ r \in EntryRemainderCancelConfirmed(agg, p.target)
    <3>0. c[1] = "CANCEL_ORDER" /\ CancelsHit(commands) /\ commands[c].status # "NONE"
        BY <1>2, <2>6 DEF LifeInv
    <3>1. /\ order[c] # "live"
          /\ order[c] = "done" => order[p.target] = "done"
          /\ p.target = EntryCommand
        BY <2>6, <3>0 DEF CancelsHit
    <3>2. order[EntryCommand] = "done" BY <2>6, <3>1 DEF Arrived
    <3> QED BY <1>0, <1>6, <2>6, <3>2, RemainderAdvances
  <2> QED BY <1>0, <1>1, <2>1, <2>2, <2>3, <2>4, <2>5, <2>6, LifeResult
<1> QED BY <1>1, <1>3, <1>4, <1>7, CommitLife

\* recover_unknown_command
LEMMA RecoveryLife ==
    ASSUME IInv, FenceInv, LifeInv, WindowOK, NEW c \in CommandId, RecoverUnknown(c)
    PROVE  Lives
<1> DEFINE p == commands[c].payload
<1>0. /\ agg \in Aggregate /\ p \in Payload /\ commands \in [CommandId -> Row]
      /\ EntryCommand \in CommandId /\ EntryCommand[1] = "ENTRY"
    BY EntryCommandType DEF IInv, TypeOK, Row, EntryCommand
<1>1. PICK decision \in RecoveryDecisions(c) :
         \E r \in RecoveryEvent(agg, c, p, decision) : Commit(r, RecoveredRows(c, decision), held)
    BY DEF RecoverUnknown
<1> DEFINE rows == RecoveredRows(c, decision)
<1>2. PICK r \in RecoveryEvent(agg, c, p, decision) : Commit(r, rows, held) BY <1>1
<1>3. commands[c].status = "OUTCOME_UNKNOWN" /\ p.kind = c[1] /\ UNCHANGED <<venue, recon>>
    BY DEF RecoverUnknown, Unknown, FenceInv, Filed
<1>4. /\ rows \in [CommandId -> Row] /\ \A d \in CommandId : Steady(commands[d], rows[d])
      /\ c[1] # "CANCEL_ORDER" /\ decision # "RECONCILED_SUBMITTED" => rows[c].status = "RECONCILED_ABSENT"
  <2>1. CASE c[1] = "CANCEL_ORDER" /\ decision = "RECONCILED_ABSENT"
    <3>1. rows = commands BY <2>1 DEF RecoveredRows
    <3> HIDE DEF rows
    <3> QED BY <1>0, <2>1, <3>1 DEF Steady
  <2>2. CASE ~ (c[1] = "CANCEL_ORDER" /\ decision = "RECONCILED_ABSENT")
    <3>1. PICK status \in {"RECONCILED_ACCEPTED", "RECONCILED_ABSENT"} :
             /\ rows = SetStatus(commands, c, status)
             /\ decision # "RECONCILED_SUBMITTED" => status = "RECONCILED_ABSENT"
        BY <2>2 DEF RecoveredRows
    <3> HIDE DEF rows
    <3> QED BY <1>3, <3>1, SteadyRows DEF RowStatuses, AcceptedRows
  <2> QED BY <2>1, <2>2
<1>5. Sound(agg, r) /\ r.prepare \subseteq Payload
    BY <1>0, <1>2, RecoverySound DEF AllSound, Sound, WellFormed
<1>6. c[1] = "ENTRY" => c = EntryCommand BY <1>3 DEF LifeInv, RowsInStage
<1>7. c[1] = "ENTRY" => decision \in OrderTruth(c) BY <1>1 DEF RecoveryDecisions
<1>8. c[1] = "CANCEL_ORDER" => decision \in CancelTruth(c) BY <1>1 DEF RecoveryDecisions
<1> HIDE DEF rows
<1>9. Pays(r) BY <1>2, CommitPays
<1>10. Advances(r)
  <2>1. CASE Within(agg, r) BY <1>9, <2>1, WithinAdvances
  <2>2. CASE p.kind = "SET_LEVERAGE" /\ r \in LeverageConfirmed(agg)
      BY <1>0, <1>9, <2>2, LeverageAdvances
  <2>3. CASE p.kind = "SET_LEVERAGE" /\ r \in LeverageRejected(agg)
    <3>1. agg.status \in LeverageStatuses /\ r.prepare = {}
        BY <2>3 DEF LeverageRejected, When, Transition, LeverageStatuses
    <3>2. commands[EntryCommand].status = "NONE" BY <3>1 DEF LifeInv, RowsInStage
    <3>3. rows[EntryCommand].status = "NONE" /\ order[EntryCommand] = "unsent"
        BY <1>0, <1>4, <3>2 DEF Steady, IInv, DurableBeforeVenue
    <3>4. commands'[EntryCommand].status \notin {"PREPARED", "CLAIMED"}
        BY <1>2, <1>4, <1>5, <3>1, <3>3, RefusedRow
    <3> QED BY <1>0, <1>9, <2>3, <3>3, <3>4, RefusalAdvances
  <2>4. CASE p.kind = "ENTRY" /\ decision = "RECONCILED_SUBMITTED" /\ r \in EntryAccepted(agg, c)
    <3>1. order[EntryCommand] \in Arrived BY <1>3, <1>6, <1>7, <2>4 DEF OrderTruth, Arrived
    <3> QED BY <1>0, <1>3, <1>6, <1>9, <2>4, <3>1, AcceptanceAdvances
  <2>5. CASE p.kind = "ENTRY" /\ decision # "RECONCILED_SUBMITTED" /\ r \in EntryAbsenceConfirmed(agg)
    <3>1. r.prepare = {} BY <2>5 DEF EntryAbsenceConfirmed, When, Transition
    <3>2. c = EntryCommand BY <1>3, <1>6, <2>5
    <3>3. order[EntryCommand] \notin {"live", "done"} /\ commands[EntryCommand].timer = "over"
        BY <1>3, <1>7, <2>5, <3>2 DEF OrderTruth
    <3>4. order[EntryCommand] # "transit" BY <1>0, <1>3, <3>2, <3>3 DEF WindowOK, Unknown
    <3>5. rows[EntryCommand].status = "RECONCILED_ABSENT" BY <1>0, <1>4, <2>5, <3>2
    <3>6. commands'[EntryCommand].status \notin {"PREPARED", "CLAIMED"}
        BY <1>2, <1>4, <1>5, <3>1, <3>5, RefusedRow
    <3> QED BY <1>0, <1>9, <2>5, <3>3, <3>4, <3>6, RefusalAdvances
  <2>6. CASE /\ p.kind = "CANCEL_ORDER" /\ p.purpose = "entry_remainder" /\ decision = "RECONCILED_ABSENT"
             /\ r \in EntryRemainderCancelConfirmed(agg, p.target)
    <3>0. CancelsHit(commands) BY DEF LifeInv
    <3>1. p.target = EntryCommand /\ p.namespace = "regular" BY <1>3, <2>6, <3>0 DEF CancelsHit
    <3>2. agg.entryOrder = EntryCommand BY <2>6, <3>1 DEF EntryRemainderCancelConfirmed, When
    <3>3. order[EntryCommand] \in Arrived BY <1>0, <3>2, NoOrderAssumption DEF LifeInv, EntryNamed
    <3>4. NamespaceOf(EntryCommand) = "regular" BY <1>0 DEF NamespaceOf, StopKinds
    <3>5. order[EntryCommand] # "live" BY <1>3, <1>8, <2>6, <3>1, <3>4 DEF CancelTruth
    <3>6. order[EntryCommand] = "done" BY <3>3, <3>5 DEF Arrived
    <3> QED BY <1>0, <1>9, <2>6, <3>6, RemainderAdvances
  <2> QED BY <1>0, <1>2, <2>1, <2>2, <2>3, <2>4, <2>5, <2>6, LifeRecovery
<1> QED BY <1>2, <1>3, <1>4, <1>5, <1>10, CommitLife

\* reconcile_ticket
LEMMA SnapshotLife ==
    ASSUME IInv, LifeInv, ReconcileTicket
    PROVE  Lives
<1>0. /\ agg \in Aggregate /\ recon.qty \in Quantities /\ recon.open \subseteq CommandId
      /\ recon.work = "snapshot" /\ recon'.work = "idle" /\ UNCHANGED venue
    BY DEF IInv, TypeOK, ReconcileTicket, IdleRecon
<1>1. PICK r \in SnapshotEvent(agg, recon) : Commit(r, commands, held) BY DEF ReconcileTicket
<1>2. r.prepare \subseteq Payload BY <1>0, <1>1, SnapshotSound DEF AllSound, Sound, WellFormed
<1>3. Pays(r) BY <1>1, CommitPays
<1>4. Advances(r)
  <2>1. CASE Within(agg, r) BY <1>3, <2>1, WithinAdvances
  <2>2. CASE r \in EntryPartiallyFilled(agg, recon.qty) BY <1>0, <1>3, <2>2, PartialAdvances
  <2>3. CASE \E d \in Dispositions : r \in EntryFilled(agg, recon.qty, d)
      BY <1>0, <1>3, <2>3, FillAdvances
  <2>4. CASE recon.qty = 0 /\ (r \in PositionFlatConfirmed(agg) \/ r \in ExternalFlatDetected(agg))
      BY <1>0, <1>3, <2>4, FlatAdvances
  <2>5. CASE r \in ReconciliationMatched(agg) BY <1>0, <1>3, <2>5, ClosureAdvances
  <2> QED BY <1>0, <1>1, <2>1, <2>2, <2>3, <2>4, <2>5, LifeSnapshot
<1> QED BY <1>0, <1>1, <1>2, <1>4, PlainLife

\* reconcile_post_fill_stress
LEMMA StressLife ==
    ASSUME IInv, LifeInv, NEW passed \in BOOLEAN, AssessStress(passed)
    PROVE  Lives
<1> DEFINE resolved == incidents \cap {"post_fill_risk_facts_unavailable"}
<1>0. agg \in Aggregate BY DEF IInv, TypeOK
<1>1. PICK r \in PostFillStressAssessed(agg, passed) :
         Commit([r EXCEPT !.resolve = resolved], commands, held)
    BY DEF AssessStress
<1>2. Sound(agg, r) BY <1>0, ProtectionEvents, EntryCommandType, ConstantTypes DEF AllSound
<1> DEFINE s == [r EXCEPT !.resolve = resolved]
<1> HIDE DEF resolved
<1>3. s.agg = r.agg /\ s.prepare = r.prepare /\ s.release = r.release
    BY DEF PostFillStressAssessed, When, Transition
<1> HIDE DEF s
<1>4. Commit(s, commands, held) /\ UNCHANGED <<venue, recon>> BY <1>1 DEF s, AssessStress
<1>5. Pays(r) BY <1>3, <1>4, CommitPays DEF Pays
<1>6. Advances(r) BY <1>0, <1>1, <1>5, StressAdvances
<1>7. s.prepare \subseteq Payload /\ Advances(s) BY <1>2, <1>3, <1>6 DEF Sound, WellFormed, Advances
<1> QED BY <1>4, <1>7, PlainLife

-----------------------------------------------------------------------------
(* The venue keeps it on its way too. *)

\* Such a move keeps the invariant.
LEMMA VenueLife ==
    ASSUME IInv, IInv', CoverInv, LifeInv, VenueCourse, UNCHANGED <<agg, commands, held, recon>>
    PROVE  Lives
<1>0. /\ EntryCommand \in CommandId /\ EntryCommand[1] = "ENTRY"
      /\ position \in Nat /\ position' \in Nat /\ entryFilled \in Nat /\ recon.qty \in Nat
      /\ position <= entryFilled
    BY EntryCommandType, QuantityAssumption DEF EntryCommand, IInv, TypeOK, Quantities, CoverInv
<1>1. order[EntryCommand] = "done" => order'[EntryCommand] = "done" /\ position' <= position
    BY <1>0 DEF VenueCourse
<1>2. entryFilled <= entryFilled' /\ entryFilled' \in Nat BY <1>0 DEF VenueCourse
<1>3. RowsInStage(agg, commands)' BY DEF LifeInv, RowsInStage
<1>4. EntryRefused(agg, commands)'
  <2> SUFFICES ASSUME agg.status \in RejectedStatuses
               PROVE  /\ order'[EntryCommand] \notin {"transit", "live", "done"}
                      /\ commands[EntryCommand].status \notin {"PREPARED", "CLAIMED"}
      BY DEF EntryRefused
  <2>1. /\ order[EntryCommand] \notin {"transit", "live", "done"}
        /\ commands[EntryCommand].status \notin {"PREPARED", "CLAIMED"}
      BY DEF LifeInv, EntryRefused
  <2> QED BY <1>0, <2>1 DEF VenueCourse
<1>5. EntryNamed(agg)' BY <1>0 DEF LifeInv, EntryNamed, VenueCourse
<1>6. EntryLedger'
  <2>1. order[EntryCommand] \notin Arrived => entryFilled = 0 BY DEF LifeInv, EntryLedger
  <2>2. order[EntryCommand] = "live" => position = entryFilled BY DEF LifeInv, EntryLedger
  <2>3. order'[EntryCommand] \notin Arrived => entryFilled' = 0 BY <1>0, <2>1 DEF VenueCourse, Arrived
  <2>4. CASE order[EntryCommand] = "live"
    <3>1. position' = entryFilled' BY <1>0, <2>2, <2>4 DEF VenueCourse
    <3> QED BY <2>3, <3>1 DEF EntryLedger
  <2>5. CASE order[EntryCommand] # "live"
    <3>1. order'[EntryCommand] = "live" => order[EntryCommand] \notin Arrived
        BY <1>0, <2>5 DEF VenueCourse, Arrived
    <3>2. entryFilled' = entryFilled /\ position' <= position BY <2>5 DEF VenueCourse
    <3>3. order'[EntryCommand] = "live" => position' = entryFilled' BY <1>0, <2>1, <3>1, <3>2
    <3> QED BY <2>3, <3>3 DEF EntryLedger
  <2> QED BY <2>4, <2>5
<1>7. EntryEnded(agg, commands)' BY <1>1 DEF LifeInv, EntryEnded
<1>8. CancelsHit(commands)'
  <2> SUFFICES ASSUME NEW c \in CommandId, c[1] = "CANCEL_ORDER"
               PROVE  /\ order'[c] # "live"
                      /\ order'[c] = "done" => /\ commands[c].payload.target \in CommandId
                                               /\ order'[commands[c].payload.target] = "done"
                      /\ commands[c].status # "NONE" /\ commands[c].payload.purpose = "entry_remainder" =>
                            commands[c].payload.target = EntryCommand /\ commands[c].payload.namespace = "regular"
      BY DEF CancelsHit
  <2>1. /\ order[c] # "live"
        /\ order[c] = "done" => /\ commands[c].payload.target \in CommandId
                                /\ order[commands[c].payload.target] = "done"
        /\ commands[c].status # "NONE" /\ commands[c].payload.purpose = "entry_remainder" =>
              commands[c].payload.target = EntryCommand /\ commands[c].payload.namespace = "regular"
      BY DEF LifeInv, CancelsHit
  <2>2. \A d \in CommandId : order[d] = "done" => order'[d] = "done" BY DEF VenueCourse
  <2> QED BY <2>1, <2>2 DEF VenueCourse
<1>9. SnapshotHolds(agg)'
  <2> SUFFICES ASSUME recon.work = "snapshot"
               PROVE  /\ recon.qty <= entryFilled'
                      /\ recon.qty = 0 /\ agg.status \in PartialFillStatuses \cup WorkingStatuses => position' = 0
      BY DEF SnapshotHolds
  <2>1. /\ recon.qty <= entryFilled
        /\ recon.qty = 0 /\ agg.status \in PartialFillStatuses \cup WorkingStatuses => position = 0
      BY DEF LifeInv, SnapshotHolds
  <2>2. recon.qty <= entryFilled' BY <1>0, <1>2, <2>1
  <2>3. CASE agg.status \in PartialFillStatuses
    <3>1. entryFilled > 0 BY <2>3 DEF LifeInv, StagesKeep
    <3>2. order[EntryCommand] = "live" => position = entryFilled BY DEF LifeInv, EntryLedger
    <3>3. position = 0 => position' <= position BY <1>0, <3>1, <3>2 DEF VenueCourse
    <3> QED BY <1>0, <2>1, <2>2, <3>3
  <2>4. CASE agg.status \in WorkingStatuses
    <3>1. order[EntryCommand] = "done" BY <2>4 DEF LifeInv, EntryEnded
    <3> QED BY <1>0, <1>1, <2>1, <2>2, <3>1
  <2> QED BY <2>2, <2>3, <2>4
<1>10. StagesKeep(agg)'
  <2>1. agg.status \in FlatStatuses => position' = 0
    <3>1. agg.status \in FlatStatuses => order[EntryCommand] = "done" /\ position = 0
        BY DEF LifeInv, EntryEnded, StagesKeep
    <3> QED BY <1>0, <1>1, <3>1
  <2>2. agg.status \in PartialFillStatuses => entryFilled' > 0
    <3>1. agg.status \in PartialFillStatuses => entryFilled > 0 BY DEF LifeInv, StagesKeep
    <3> QED BY <1>0, <1>2, <3>1
  <2> QED BY <2>1, <2>2 DEF LifeInv, StagesKeep
<1>11. LifeInv' BY <1>3, <1>4, <1>5, <1>6, <1>7, <1>8, <1>9, <1>10 DEF LifeInv
<1> QED BY <1>11 DEF Lives, Passes

\* A request that moves on without the position.
LEMMA RequestCourse ==
    ASSUME IInv, NEW c \in CommandId, NEW state \in OrderStates, order' = [order EXCEPT ![c] = state],
           order[c] \in {"unsent", "transit"}, state # "unsent",
           order[c] = "unsent" => commands[c].status = "CLAIMED",
           c[1] = "CANCEL_ORDER" => state \notin Arrived,
           entryFilled' = entryFilled, position' <= position,
           position' = position \/ order[EntryCommand] # "live"
    PROVE  VenueCourse
<1>0. order \in [CommandId -> OrderStates] /\ EntryCommand \in CommandId
    BY EntryCommandType DEF IInv, TypeOK
<1>1. order'[c] = state /\ \A d \in CommandId : d # c => order'[d] = order[d] BY <1>0
<1> QED BY <1>0, <1>1 DEF VenueCourse, Arrived

\* While a closing order stands or travels, ENTRY has ended.
LEMMA ClosingAfterEntry ==
    ASSUME IInv, LifeInv, NEW c \in CommandId, c[1] \in ClosingKinds, order[c] # "unsent"
    PROVE  order[EntryCommand] = "done"
BY DEF IInv, DurableBeforeVenue, LifeInv, EntryEnded

\* Every step of the venue is such a move, provided nobody closes the position while ENTRY rests.
LEMMA VenueCourses ==
    ASSUME ExternalCloses # "always", IInv, CoverInv, LifeInv, VenueNext
    PROVE  VenueCourse
<1>0. /\ position \in Nat /\ entryFilled \in Nat /\ EntryCommand \in CommandId /\ EntryCommand[1] = "ENTRY"
      /\ order \in [CommandId -> OrderStates]
      /\ \A c \in CommandId : commands[c].payload.qty \in Nat /\ commands[c].payload.target \in OrderId
    BY QuantityAssumption, EntryCommandType DEF EntryCommand, IInv, TypeOK, Quantities, Row, Payload
<1>1. ASSUME NEW c \in CommandId, Deliver(c) PROVE VenueCourse
  <2>0. order[c] = "transit" /\ entryFilled' = entryFilled /\ c[1] \in Kinds
      BY <1>1 DEF Deliver, CommandId
  <2>1. CASE c[1] \in MarketKinds
    <3>1. position' = Less(position, commands[c].payload.qty) /\ Fate(c, "done")
        BY <1>1, <2>1 DEF Deliver, MarketKinds
    <3>2. position' <= position BY <1>0, <3>1, LessBounds
    <3>3. order[EntryCommand] = "done" BY <2>0, <2>1, ClosingAfterEntry DEF ClosingKinds
    <3>4. c[1] # "CANCEL_ORDER" /\ order' = [order EXCEPT ![c] = "done"]
        BY <2>1, <3>1 DEF MarketKinds, Fate
    <3> QED BY <2>0, <3>2, <3>3, <3>4, RequestCourse DEF OrderStates
  <2>2. CASE c[1] = "CANCEL_ORDER" /\ CancelHits(c)
    <3> DEFINE t == commands[c].payload.target
    <3>1. /\ order' = [order EXCEPT ![c] = "done", ![t] = "done"] /\ position' = position
          /\ order[t] = "live" /\ t # NoOrder
        BY <1>1, <2>2 DEF Deliver, MarketKinds, CancelHits
    <3>2. t \in CommandId /\ t # c BY <1>0, <2>0, <3>1 DEF OrderId
    <3>3. /\ order'[c] = "done" /\ order'[t] = "done"
          /\ \A d \in CommandId : d # c /\ d # t => order'[d] = order[d]
      <4> HIDE DEF t
      <4> QED BY <1>0, <3>1, <3>2
    <3>4. \A d \in CommandId : d[1] = "CANCEL_ORDER" =>
             /\ order[d] # "live" => order'[d] # "live"
             /\ order'[d] = "done" => \/ order[d] = "done"
                                      \/ /\ commands[d].payload.target \in CommandId
                                         /\ order'[commands[d].payload.target] = "done"
      <4> SUFFICES ASSUME NEW d \in CommandId, d[1] = "CANCEL_ORDER"
                   PROVE  /\ order[d] # "live" => order'[d] # "live"
                          /\ order'[d] = "done" => \/ order[d] = "done"
                                                   \/ /\ commands[d].payload.target \in CommandId
                                                      /\ order'[commands[d].payload.target] = "done"
          OBVIOUS
      <4>1. order[d] # "live" BY DEF LifeInv, CancelsHit
      <4>2. d # t BY <3>1, <4>1
      <4>3. CASE d = c BY <3>2, <3>3, <4>3
      <4>4. CASE d # c BY <3>3, <4>2, <4>4
      <4> QED BY <4>3, <4>4
    <3> HIDE DEF t
    <3>5. order[EntryCommand] = "unsent" => order'[EntryCommand] = "unsent" BY <1>0, <2>0, <3>1, <3>3
    <3>6. position' <= position BY <1>0, <3>1
    <3> QED BY <1>0, <2>0, <3>1, <3>3, <3>4, <3>5, <3>6 DEF VenueCourse, Arrived
  <2>3. CASE c[1] \notin MarketKinds /\ ~ (c[1] = "CANCEL_ORDER" /\ CancelHits(c))
    <3>1. /\ position' = position
          /\ \E state \in {"done", "missed", "live"} :
                /\ order' = [order EXCEPT ![c] = state]
                /\ c[1] = "CANCEL_ORDER" => state \notin Arrived
        BY <1>1, <2>0, <2>3 DEF Deliver, Fate, Arrived, MarketKinds, Kinds
    <3>2. PICK state \in {"done", "missed", "live"} :
                /\ order' = [order EXCEPT ![c] = state]
                /\ c[1] = "CANCEL_ORDER" => state \notin Arrived
        BY <3>1
    <3>3. position' <= position /\ state \in OrderStates /\ state # "unsent"
        BY <1>0, <3>1 DEF OrderStates
    <3> QED BY <2>0, <3>1, <3>2, <3>3, RequestCourse
  <2> QED BY <2>1, <2>2, <2>3
<1>2. ASSUME NEW c \in CommandId, Refuse(c) \/ Lose(c) PROVE VenueCourse
  <2>1. /\ order[c] = "transit" /\ UNCHANGED <<position, entryFilled>>
        /\ \E state \in {"refused", "lost"} : order' = [order EXCEPT ![c] = state]
      BY <1>2 DEF Refuse, Lose, Fate
  <2>2. PICK state \in {"refused", "lost"} : order' = [order EXCEPT ![c] = state] BY <2>1
  <2>3. position' <= position /\ state \in OrderStates /\ state # "unsent" /\ state \notin Arrived
      BY <1>0, <2>1 DEF OrderStates, Arrived
  <2> QED BY <2>1, <2>2, <2>3, RequestCourse
<1>3. ASSUME NEW c \in CommandId, RestingFill(c) PROVE VenueCourse
  <2>1. /\ order[c] = "live" /\ order' = [order EXCEPT ![c] = "done"] /\ entryFilled' = entryFilled
        /\ position' = Less(position, commands[c].payload.qty) /\ c[1] \in StopKinds \cup {"TAKE_PROFIT"}
      BY <1>3 DEF RestingFill, Fate
  <2>2. position' <= position BY <1>0, <2>1, LessBounds
  <2>3. order[EntryCommand] = "done" BY <2>1, ClosingAfterEntry DEF ClosingKinds
  <2>4. order'[c] = "done" /\ \A d \in CommandId : d # c => order'[d] = order[d] BY <1>0, <2>1
  <2>5. c[1] # "CANCEL_ORDER" BY <2>1 DEF StopKinds
  <2> QED BY <1>0, <2>1, <2>2, <2>3, <2>4, <2>5 DEF VenueCourse, Arrived
<1>4. ASSUME EntryFill PROVE VenueCourse
  <2>1. /\ order[EntryCommand] = "live" /\ position' = position + 1 /\ entryFilled' = entryFilled + 1
        /\ \E state \in Arrived : order' = [order EXCEPT ![EntryCommand] = state]
      BY <1>4 DEF EntryFill, Fate, Arrived
  <2>2. /\ order'[EntryCommand] \in Arrived
        /\ \A d \in CommandId : d # EntryCommand => order'[d] = order[d]
      BY <1>0, <2>1
  <2>3. \A d \in CommandId : d[1] = "CANCEL_ORDER" => d # EntryCommand BY <1>0
  <2> QED BY <1>0, <2>1, <2>2, <2>3 DEF VenueCourse
<1>5. ASSUME ExternalClose \/ ForeignOrder PROVE VenueCourse
  <2>1. /\ UNCHANGED <<order, entryFilled>> /\ position' <= position
        /\ position' = position \/ order[EntryCommand] # "live"
      BY <1>0, <1>5 DEF ExternalClose, ForeignOrder
  <2> QED BY <2>1 DEF VenueCourse
<1> QED BY <1>1, <1>2, <1>3, <1>4, <1>5 DEF VenueNext

\* Every step of the Ticket, its workers and its venue.
LEMMA LifeNext ==
    ASSUME ExternalCloses # "always", IInv, IInv', FenceInv, CoverInv, WindowOK, LifeInv, [Next]_vars
    PROVE  Lives
<1>0. agg \in Aggregate /\ commands \in [CommandId -> Row] /\ EntryCommand \in CommandId
    BY EntryCommandType DEF IInv, TypeOK
<1>1. ASSUME UNCHANGED <<agg, commands, held, venue>>, recon' = recon \/ recon'.work = "idle" PROVE Lives
    BY <1>0, <1>1, RowsLife DEF Steady, LifeInv, EntryRefused
<1>2. ASSUME NEW change \in BOOLEAN, IssueTicket(change) PROVE Lives
  <2>1. PICK r \in TicketIssued(change) : Commit(r, commands, Authorities) BY <1>2 DEF IssueTicket
  <2>2. r.prepare \subseteq Payload BY IssueEvent DEF WellFormed
  <2>3. "budget" \in held'
    <3>0. /\ r.release = {}
          /\ r.agg = [NoAggregate EXCEPT !.status = IF change THEN "LEVERAGE_PENDING" ELSE "ENTRY_PENDING",
                                         !.laneHeld = TRUE]
        BY DEF TicketIssued, Transition
    <3>1. r.release = {} /\ r.agg.status \in {"LEVERAGE_PENDING", "ENTRY_PENDING"}
        BY <3>0 DEF NoAggregate
    <3>2. ClearedDomain(r.agg.status) = {} BY <3>1 DEF ClearedDomain, RejectedStatuses
    <3> QED BY <2>1, <3>1, <3>2 DEF Commit, Authorities
  <2>4. Advances(r) BY <1>2, <2>3, IssueAdvances DEF IssueTicket
  <2>5. UNCHANGED <<venue, recon>> BY <1>2 DEF IssueTicket
  <2> QED BY <2>1, <2>2, <2>4, <2>5, PlainLife
<1>3. CASE DispatchNext
  <2>1. ASSUME NEW c \in CommandId, ExpireClaim(c) PROVE Lives
    <3>1. /\ commands[c].status = "CLAIMED" /\ UNCHANGED <<venue, recon>>
          /\ \E r \in CommandResultEvent(agg, c, commands[c].payload, "OUTCOME_UNKNOWN") :
                Commit(r, SetStatus(commands, c, "OUTCOME_UNKNOWN"), held)
        BY <2>1 DEF ExpireClaim, LapsedClaim
    <3> QED BY <3>1, ResultLife DEF Results
  <2>2. ASSUME NEW c \in CommandId, ClaimPrepared(c) \/ Supersede(c) PROVE Lives
    <3>1. PICK status \in {"CLAIMED", "SUPERSEDED"} : commands' = SetStatus(commands, c, status)
        BY <2>2 DEF ClaimPrepared, Supersede
    <3>2. commands[c].status = "PREPARED" /\ UNCHANGED <<agg, held, venue, recon>>
        BY <2>2 DEF ClaimPrepared, Supersede, Selects, Claimable
    <3>3. \A d \in CommandId : Steady(commands[d], commands'[d])
        BY <3>1, <3>2, SteadyRows DEF RowStatuses, AcceptedRows
    <3>4. \/ commands'[EntryCommand].status = commands[EntryCommand].status
          \/ commands[EntryCommand].status = "PREPARED"
        BY <1>0, <3>1, <3>2 DEF SetStatus
    <3>5. \/ commands'[EntryCommand].status \notin {"PREPARED", "CLAIMED"}
          \/ commands[EntryCommand].status \in {"PREPARED", "CLAIMED"}
        BY <3>4
    <3> QED BY <3>2, <3>3, <3>5, RowsLife
  <2>3. ASSUME NEW c \in CommandId, PreflightRefuse(c) PROVE Lives
    <3>1. commands[c].status = "CLAIMED" /\ order[c] = "unsent"
        BY <2>3 DEF PreflightRefuse, IInv, LeaseInHand
    <3>2. /\ UNCHANGED <<venue, recon>>
          /\ \E r \in CommandResultEvent(agg, c, commands[c].payload, "REJECTED") :
                Commit(r, SetStatus(commands, c, "REJECTED"), held)
        BY <2>3 DEF PreflightRefuse, Record
    <3> QED BY <3>1, <3>2, ResultLife DEF Results
  <2>4. ASSUME NEW c \in CommandId, Send(c) PROVE Lives
    <3>1. /\ order' = [order EXCEPT ![c] = "transit"]
          /\ UNCHANGED <<agg, commands, held, recon, position, entryFilled>>
          /\ order[c] = "unsent" /\ commands[c].status = "CLAIMED"
        BY <2>4 DEF Send, durable, IInv, LeaseInHand
    <3>2. position' <= position BY <3>1, QuantityAssumption DEF IInv, TypeOK, Quantities
    <3>3. VenueCourse BY <3>1, <3>2, RequestCourse DEF OrderStates, Arrived
    <3> QED BY <3>1, <3>3, VenueLife
  <2>5. ASSUME NEW c \in CommandId, TimerLapses(c) PROVE Lives
    <3>1. /\ commands' = [commands EXCEPT ![c].timer = "over"] /\ UNCHANGED <<agg, held, venue, recon>>
        BY <2>5 DEF TimerLapses
    <3>2. \A d \in CommandId : Steady(commands[d], commands'[d]) /\ commands'[d].status = commands[d].status
        BY <1>0, <3>1 DEF Row, Steady
    <3>3. \/ commands'[EntryCommand].status \notin {"PREPARED", "CLAIMED"}
          \/ commands[EntryCommand].status \in {"PREPARED", "CLAIMED"}
        BY <1>0, <3>2
    <3> QED BY <3>1, <3>2, <3>3, RowsLife
  <2>6. ASSUME NEW c \in CommandId, NEW result \in Results, RecordResult(c, result) PROVE Lives
    <3>1. commands[c].status = "CLAIMED" BY <2>6 DEF RecordResult, IInv, LeaseInHand
    <3>2. /\ result = "ACCEPTED" => order[c] \in Arrived
          /\ result = "REJECTED" => order[c] \in {"unsent", "refused"}
        BY <2>6 DEF RecordResult, Answers, Arrived
    <3>3. /\ UNCHANGED <<venue, recon>>
          /\ \E r \in CommandResultEvent(agg, c, commands[c].payload, result) :
                Commit(r, SetStatus(commands, c, result), held)
        BY <2>6 DEF RecordResult, Record
    <3> QED BY <3>1, <3>2, <3>3, ResultLife
  <2>7. ASSUME NEW c \in CommandId, NEW result \in Results, RecordRaises(c, result) PROVE Lives
      BY <1>1, <2>7 DEF RecordRaises, durable
  <2> QED BY <1>3, <2>1, <2>2, <2>3, <2>4, <2>5, <2>6, <2>7 DEF DispatchNext
<1>4. CASE VenueNext
  <2>1. UNCHANGED <<agg, commands, held, recon>>
      BY <1>4 DEF VenueNext, Deliver, Refuse, Lose, RestingFill, EntryFill, ExternalClose, ForeignOrder,
         durable
  <2> QED BY <1>4, <2>1, VenueCourses, VenueLife
<1>5. CASE ReconNext
  <2>1. ASSUME ReadSnapshot PROVE Lives
    <3>1. /\ recon'.work = "snapshot" /\ recon'.qty = position
          /\ UNCHANGED <<agg, commands, held, order, position, entryFilled>>
        BY <2>1 DEF ReadSnapshot, durable, venue
    <3>2. position <= entryFilled BY DEF CoverInv
    <3>3. SnapshotHolds(agg)' BY <3>1, <3>2 DEF SnapshotHolds
    <3>4. RowsInStage(agg, commands)' /\ EntryRefused(agg, commands)' /\ EntryNamed(agg)'
        BY <3>1 DEF LifeInv, RowsInStage, EntryRefused, EntryNamed
    <3>5. EntryLedger' /\ EntryEnded(agg, commands)' /\ StagesKeep(agg)'
        BY <3>1 DEF LifeInv, EntryLedger, EntryEnded, StagesKeep
    <3>6. CancelsHit(commands)' BY <3>1 DEF LifeInv, CancelsHit
    <3>7. LifeInv' BY <3>1, <3>3, <3>4, <3>5, <3>6 DEF LifeInv
    <3> QED BY <3>1, <3>7 DEF Lives, Passes
  <2>2. ASSUME ReconcileNoChange \/ StressRetry PROVE Lives
      BY <1>1, <2>2 DEF ReconcileNoChange, StressRetry, durable, IdleRecon
  <2>3. ASSUME SettleTicket \/ RecordTradeReview PROVE Lives
    <3>1. PICK r : (r \in BudgetSettled(agg) \/ r \in ReviewRecorded(agg)) /\ Commit(r, commands, held)
        BY <2>3 DEF SettleTicket, RecordTradeReview
    <3>2. Pays(r) BY <3>1, CommitPays
    <3>3. Advances(r)
      <4>1. CASE r \in BudgetSettled(agg) BY <1>0, <3>2, <4>1, ExitWithin, WithinAdvances
      <4>2. CASE r \in ReviewRecorded(agg) BY <1>0, <3>2, <4>2, ClosureAdvances
      <4> QED BY <3>1, <4>1, <4>2
    <3>4. r.prepare \subseteq Payload BY <1>0, <3>1, StatusEvents DEF AllSound, Sound, WellFormed
    <3>5. UNCHANGED <<venue, recon>> BY <2>3 DEF SettleTicket, RecordTradeReview
    <3> QED BY <3>1, <3>3, <3>4, <3>5, PlainLife
  <2> QED BY <1>5, <2>1, <2>2, <2>3, RecoveryLife, SnapshotLife, StressLife DEF ReconNext
<1>6. CASE Maintain \/ OwnerExit
  <2>1. PICK r : (r \in MaintenanceEvent(agg) \/ r \in ExitRequested(agg)) /\ Commit(r, commands, held)
      BY <1>6 DEF Maintain, OwnerExit
  <2>2. Pays(r) BY <2>1, CommitPays
  <2>3. Within(agg, r) BY <1>0, <2>1, LifeMaintenance, ExitWithin
  <2>4. r.prepare \subseteq Payload
      BY <1>0, <2>1, MaintenanceSound, FlatEvents DEF AllSound, Sound, WellFormed
  <2>5. UNCHANGED <<venue, recon>> BY <1>6 DEF Maintain, OwnerExit
  <2> QED BY <2>1, <2>2, <2>3, <2>4, <2>5, WithinAdvances, PlainLife
<1>7. CASE Crash \/ UNCHANGED vars BY <1>1, <1>7 DEF Crash, vars, durable, venue, IdleRecon
<1> QED BY <1>2, <1>3, <1>4, <1>5, <1>6, <1>7 DEF Next

\* The invariants together.
LEMMA LifeInvariance ==
    ASSUME ExternalCloses # "always", BoundedDelivery
    PROVE  Spec => [](IInv /\ FenceInv /\ CoverInv /\ WindowOK /\ AbsenceIsFinal /\ LifeInv)
<1>1. Init => WindowOK /\ AbsenceIsFinal /\ LifeInv
  <2> SUFFICES ASSUME Init PROVE WindowOK /\ AbsenceIsFinal /\ LifeInv OBVIOUS
  <2>1. \A c \in CommandId : commands[c].status = "NONE" /\ order[c] = "unsent" BY DEF Init
  <2>2. /\ agg.status = "UNISSUED" /\ agg.entryOrder = NoOrder
        /\ position = 0 /\ entryFilled = 0 /\ recon.work = "idle" /\ held = {}
      BY DEF Init, NoAggregate, IdleRecon
  <2>3. WindowOK /\ AbsenceIsFinal BY <2>1 DEF WindowOK, AbsenceIsFinal, Unknown
  <2>4. /\ agg.status \notin LeverageStatuses \cup RejectedStatuses \cup WorkingStatuses
        /\ agg.status \notin EnteringStatuses \cup PartialFillStatuses \cup FlatStatuses \cup FundedStatuses
      BY <2>2 DEF LeverageStatuses, RejectedStatuses, WorkingStatuses, EnteringStatuses,
         PartialFillStatuses, FlatStatuses, FundedStatuses, EntryStatuses, ProtectionStatuses,
         Tp1Statuses, RunnerStatuses, ExitStatuses, FlattenStatuses, CleanupStatuses, ClosureStatuses
  <2>5. RowsInStage(agg, commands) /\ EntryRefused(agg, commands) /\ EntryNamed(agg)
      BY <2>1, <2>2, <2>4 DEF RowsInStage, EntryRefused, EntryNamed
  <2>6. EntryLedger /\ EntryEnded(agg, commands) /\ CancelsHit(commands)
      BY <2>1, <2>2, <2>4, EntryCommandType DEF EntryLedger, EntryEnded, CancelsHit
  <2>7. SnapshotHolds(agg) /\ StagesKeep(agg) BY <2>2, <2>4 DEF SnapshotHolds, StagesKeep
  <2> QED BY <2>2, <2>3, <2>4, <2>5, <2>6, <2>7 DEF LifeInv
<1>2. IInv /\ WindowOK /\ AbsenceIsFinal /\ [Next]_vars => WindowOK' /\ AbsenceIsFinal' BY AbsenceStep
<1>3. IInv /\ IInv' /\ FenceInv /\ CoverInv /\ WindowOK /\ LifeInv /\ [Next]_vars => LifeInv'
    BY LifeNext DEF Lives
<1> QED BY <1>1, <1>2, <1>3, CoverInvariance, PTL DEF Spec

-----------------------------------------------------------------------------
(* The simulation. *)

\* StageOf reads the authorities, StageAt the aggregate.
LEMMA StageReads == IInv /\ LifeInv => StageOf = StageAt(agg)
<1> SUFFICES ASSUME IInv, LifeInv PROVE StageOf = StageAt(agg) OBVIOUS
<1>1. agg.laneHeld \in BOOLEAN /\ (agg.laneHeld <=> "lane" \in held)
    BY DEF IInv, TypeOK, Aggregate, LaneFlagAgrees
<1>2. "budget" \in held <=> agg.status \in FundedStatuses BY DEF LifeInv
<1>3. CASE agg.status = "UNISSUED" BY <1>3 DEF StageOf, StageAt
<1>4. CASE agg.status # "UNISSUED" /\ agg.laneHeld BY <1>1, <1>4 DEF StageOf, StageAt
<1>5. CASE agg.status # "UNISSUED" /\ ~ agg.laneHeld /\ agg.status \in FundedStatuses
    BY <1>1, <1>2, <1>5 DEF StageOf, StageAt
<1>6. CASE agg.status # "UNISSUED" /\ ~ agg.laneHeld /\ agg.status \notin FundedStatuses
    BY <1>1, <1>2, <1>6 DEF StageOf, StageAt
<1> QED BY <1>1, <1>3, <1>4, <1>5, <1>6

\* The aggregate and the venue never change in the same step.
LEMMA OneSideMoves ==
    ASSUME [Next]_vars
    PROVE  agg' = agg \/ UNCHANGED venue
<1>1. CASE DispatchNext
    BY <1>1 DEF DispatchNext, ExpireClaim, ClaimPrepared, Supersede, PreflightRefuse, Send, TimerLapses,
       RecordResult, RecordRaises, Record, durable
<1>2. CASE VenueNext
    BY <1>2 DEF VenueNext, Deliver, Refuse, Lose, RestingFill, EntryFill, ExternalClose, ForeignOrder,
       durable
<1>3. CASE ReconNext
    BY <1>3 DEF ReconNext, RecoverUnknown, ReadSnapshot, ReconcileTicket, ReconcileNoChange,
       AssessStress, StressRetry, SettleTicket, RecordTradeReview, durable
<1>4. CASE (\E change \in BOOLEAN : IssueTicket(change)) \/ Maintain \/ OwnerExit \/ Crash \/ UNCHANGED vars
    BY <1>4 DEF IssueTicket, Maintain, OwnerExit, Crash, vars
<1> QED BY <1>1, <1>2, <1>3, <1>4 DEF Next

\* ENTRY has no row, so nothing was sent or filled.
LEMMA NothingBefore == IInv /\ CoverInv /\ LifeInv => NothingYet
<1> SUFFICES ASSUME IInv, CoverInv, LifeInv, agg.status = "UNISSUED" PROVE ~ (position > 0) /\ ~ Covered
    BY DEF NothingYet
<1>1. \A c \in CommandId : order[c] = "unsent" BY DEF LifeInv, RowsInStage, IInv, DurableBeforeVenue
<1>2. entryFilled = 0 BY <1>1, EntryCommandType DEF IInv, EntryFillsBounded
<1>3. position \in Nat /\ position <= entryFilled
    BY QuantityAssumption DEF IInv, TypeOK, Quantities, CoverInv
<1>4. ~ Covered BY <1>1 DEF Covered, Protective
<1> QED BY <1>2, <1>3, <1>4

\* The stages that do not hold the lane: working under a stop, flat, or rejected.
LEMMA CalmOffLane == IInv /\ CoverInv /\ LifeInv => OffLaneCalm
<1> SUFFICES ASSUME IInv, CoverInv, LifeInv, agg.status # "UNISSUED", ~ agg.laneHeld
             PROVE  /\ order[EntryCommand] # "live"
                    /\ position > 0 => Covered
                    /\ agg.status \notin FundedStatuses => ~ (position > 0)
    BY DEF OffLaneCalm
<1>0. /\ position \in Nat /\ entryFilled \in Nat /\ position <= entryFilled /\ agg.status \in Statuses
    BY QuantityAssumption DEF IInv, TypeOK, Quantities, CoverInv, Aggregate
<1>1. agg.status \notin EnteringStatuses BY DEF LifeInv, StagesKeep
<1>2. agg.status \in WorkingStatuses \cup FlatStatuses \cup RejectedStatuses
    BY <1>0, <1>1 DEF Statuses, EnteringStatuses, WorkingStatuses, FlatStatuses, RejectedStatuses,
       EntryStatuses, PartialFillStatuses, ProtectionStatuses, Tp1Statuses, RunnerStatuses,
       ExitStatuses, FlattenStatuses, CleanupStatuses, ClosureStatuses
<1>3. CASE agg.status \in WorkingStatuses
  <2>1. order[EntryCommand] = "done" /\ agg.activeStop # NoOrder
      BY <1>3 DEF LifeInv, EntryEnded, StagesKeep
  <2>2. position > 0 => Covered BY <2>1, ActiveStopRests DEF Covered
  <2> QED BY <1>3, <2>1, <2>2 DEF FundedStatuses
<1>4. CASE agg.status \in FlatStatuses
  <2>1. order[EntryCommand] = "done" /\ position = 0 BY <1>4 DEF LifeInv, EntryEnded, StagesKeep
  <2> QED BY <2>1
<1>5. CASE agg.status \in RejectedStatuses
  <2>1. order[EntryCommand] \notin {"transit", "live", "done"} BY <1>5 DEF LifeInv, EntryRefused
  <2>2. entryFilled = 0 BY <2>1 DEF LifeInv, EntryLedger, Arrived
  <2> QED BY <1>0, <2>1, <2>2
<1> QED BY <1>2, <1>3, <1>4, <1>5

\* A stop that stands still covers what stands still.
LEMMA CoverStands ==
    ASSUME IInv, IInv', [Next]_vars, UNCHANGED venue
    PROVE  Covered' = Covered
<1>1. UNCHANGED <<order, position>> BY DEF venue
<1>2. ASSUME NEW c \in CommandId PROVE Protective(c)' = Protective(c)
  <2>1. CASE order[c] = "live"
    <3>1. commands[c].status # "NONE" BY <2>1 DEF IInv, DurableBeforeVenue
    <3>2. commands'[c].payload = commands[c].payload BY <3>1, PayloadsStay DEF RowKept
    <3> QED BY <1>1, <3>2 DEF Protective
  <2>2. CASE order[c] # "live"
    <3>1. Protective(c)' = FALSE /\ Protective(c) = FALSE BY <1>1, <2>2 DEF Protective
    <3> QED BY <3>1
  <2> QED BY <2>1, <2>2
<1> QED BY <1>2 DEF Covered

\* The position shrinks only, once ENTRY is over.
LEMMA NoGrowth ==
    ASSUME IInv, IInv', [Next]_vars, order[EntryCommand] # "live"
    PROVE  position' <= position
<1>0. /\ position \in Nat /\ \A c \in CommandId : commands[c].payload.qty \in Nat
    BY QuantityAssumption DEF IInv, TypeOK, Quantities, Row, Payload
<1>1. CASE UNCHANGED position BY <1>0, <1>1
<1>2. CASE VenueNext
  <2>1. ASSUME NEW c \in CommandId, Deliver(c) \/ RestingFill(c) PROVE position' <= position
    <3>1. position' = position \/ position' = Less(position, commands[c].payload.qty)
        BY <2>1 DEF Deliver, RestingFill, CommandId
    <3> QED BY <1>0, <3>1, LessBounds
  <2>2. ASSUME NEW c \in CommandId, Refuse(c) \/ Lose(c) PROVE position' <= position
      BY <1>0, <2>2 DEF Refuse, Lose
  <2>3. ~ EntryFill BY DEF EntryFill
  <2>4. CASE ExternalClose \/ ForeignOrder BY <1>0, <2>4 DEF ExternalClose, ForeignOrder
  <2> QED BY <1>2, <2>1, <2>2, <2>3, <2>4 DEF VenueNext
<1>3. CASE ~ VenueNext
  <2>1. UNCHANGED position
    <3>1. CASE DispatchNext
        BY <3>1 DEF DispatchNext, ExpireClaim, ClaimPrepared, Supersede, PreflightRefuse, Send,
           TimerLapses, RecordResult, RecordRaises, Record, venue
    <3>2. CASE ReconNext
        BY <3>2 DEF ReconNext, RecoverUnknown, ReadSnapshot, ReconcileTicket, ReconcileNoChange,
           AssessStress, StressRetry, SettleTicket, RecordTradeReview, venue
    <3>3. CASE (\E change \in BOOLEAN : IssueTicket(change)) \/ Maintain \/ OwnerExit \/ Crash \/ UNCHANGED vars
        BY <3>3 DEF IssueTicket, Maintain, OwnerExit, Crash, vars, venue
    <3> QED BY <1>3, <3>1, <3>2, <3>3 DEF Next
  <2> QED BY <1>1, <2>1
<1> QED BY <1>2, <1>3

\* What a stage says of the aggregate.
LEMMA StageFacts ==
    ASSUME NEW a
    PROVE  /\ StageAt(a) = "none" => a.status = "UNISSUED"
           /\ StageAt(a) \in {"open", "settling", "closed"} => a.status # "UNISSUED" /\ ~ a.laneHeld
           /\ StageAt(a) \in {"settling", "closed"} => a.status \notin FundedStatuses
           /\ StageAt(a) \in {"none", "entry", "open", "settling", "closed"}
BY DEF StageAt

\* The step of TicketLife that a step of the Ticket is.
LEMMA LifeSimulates ==
    ASSUME IInv, IInv', CoverInv, CoverInv', LifeInv, LifeInv', Passes(agg, agg'), [Next]_vars
    PROVE  [Life!Next]_(Life!vars)
<1>0. position \in Nat /\ position' \in Nat BY QuantityAssumption DEF IInv, TypeOK, Quantities
<1>1. StageOf = StageAt(agg) /\ NothingYet /\ OffLaneCalm BY StageReads, NothingBefore, CalmOffLane
<1>2. (StageOf = StageAt(agg))' /\ NothingYet' /\ OffLaneCalm'
    BY StageReads, NothingBefore, CalmOffLane, PTL
<1>3. CASE StageOf' = StageOf
  <2>0. (position > 0)' \in BOOLEAN /\ (\E c \in CommandId : Protective(c))' \in BOOLEAN
    <3>1. (position > 0)' \in BOOLEAN BY <1>0
    <3>2. (\E c \in CommandId : Protective(c))' \in BOOLEAN BY Zenon
    <3> QED BY <3>1, <3>2
  <2>1. CASE StageOf = "none"
    <3>1. agg.status = "UNISSUED" /\ agg'.status = "UNISSUED" BY <1>1, <1>2, <1>3, <2>1, StageFacts
    <3>2. ~ (position > 0) /\ ~ (position > 0)' /\ ~ Covered /\ ~ Covered'
        BY <1>1, <1>2, <3>1 DEF NothingYet
    <3>3. (position > 0)' = (position > 0) BY <1>0, <3>2
    <3>4. (\E c \in CommandId : Protective(c))' = \E c \in CommandId : Protective(c)
        BY <3>2, Zenon DEF Covered
    <3>5. UNCHANGED (Life!vars) BY <1>3, <3>3, <3>4, Zenon DEF Life!vars
    <3> QED BY <3>5
  <2>2. CASE StageOf = "entry"
    <3>1. Life!Enter BY <1>3, <2>0, <2>2, Zenon DEF Life!Enter
    <3> QED BY <3>1 DEF Life!Next
  <2>3. CASE StageOf \in {"open", "settling", "closed"}
    <3>1. /\ agg.status # "UNISSUED" /\ ~ agg.laneHeld
          /\ agg'.status # "UNISSUED" /\ ~ agg'.laneHeld
        BY <1>1, <1>2, <1>3, <2>3, StageFacts
    <3>2. order[EntryCommand] # "live" /\ ((position > 0)' => Covered')
        BY <1>1, <1>2, <3>1 DEF OffLaneCalm
    <3>3. position' <= position BY <3>2, NoGrowth
    <3>4. (position > 0)' => position > 0 BY <1>0, <3>3
    <3>5. (position > 0)' = FALSE \/ (position > 0)' = (position > 0) BY <1>0, <3>4
    <3>6. Life!Manage BY <1>3, <2>0, <2>3, <3>2, <3>5, Zenon DEF Life!Manage, Covered
    <3> QED BY <3>6 DEF Life!Next
  <2> QED BY <1>1, <2>1, <2>2, <2>3, StageFacts
<1>4. CASE StageOf' # StageOf
  <2>1. agg' # agg BY <1>1, <1>2, <1>4
  <2>2. UNCHANGED venue BY <2>1, OneSideMoves
  <2>3. Covered' = Covered /\ (position > 0)' = (position > 0) BY <2>2, CoverStands DEF venue
  <2>4. \/ StageOf = "none" /\ StageOf' = "entry"
        \/ StageOf = "entry" /\ StageOf' \in {"open", "closed"}
        \/ StageOf = "open" /\ StageOf' = "settling"
        \/ StageOf = "settling" /\ StageOf' = "closed"
      BY <1>1, <1>2, <1>4 DEF Passes
  <2>5. StageOf' \in {"open", "settling", "closed"} => ((position > 0)' => Covered')
      BY <1>2, StageFacts DEF OffLaneCalm
  <2>6. StageOf' \in {"settling", "closed"} => ~ (position > 0)' BY <1>2, StageFacts DEF OffLaneCalm
  <2>7. CASE StageOf = "none" /\ StageOf' = "entry"
      BY <2>3, <2>7, Zenon DEF Life!Next, Life!Issue, Covered
  <2>8. CASE StageOf = "entry" /\ StageOf' = "open"
      BY <2>3, <2>5, <2>8, Zenon DEF Life!Next, Life!HandOnLane, Covered
  <2>9. CASE StageOf = "entry" /\ StageOf' = "closed"
      BY <2>3, <2>6, <2>9, Zenon DEF Life!Next, Life!Refuse, Covered
  <2>10. CASE StageOf = "open" /\ StageOf' = "settling"
      BY <2>3, <2>6, <2>10, Zenon DEF Life!Next, Life!ReleaseCapital, Covered
  <2>11. CASE StageOf = "settling" /\ StageOf' = "closed"
      BY <2>3, <2>11, Zenon DEF Life!Next, Life!Close, Covered
  <2> QED BY <2>4, <2>7, <2>8, <2>9, <2>10, <2>11
<1> QED BY <1>3, <1>4

\* Every behaviour of one Ticket under crashes, lost requests, late answers and restarts is one that
\* TicketLife allows.  Two hypotheses on the outside world are needed: no request outlives its
\* visibility window, and nobody closes the position by hand while the ENTRY order still fills it.
THEOREM LifeImplemented ==
    ASSUME ExternalCloses # "always", BoundedDelivery
    PROVE  Spec => ImplementsTicketLife
<1>1. Init => Life!Init
  <2> SUFFICES ASSUME Init PROVE Life!Init OBVIOUS
  <2>1. /\ agg.status = "UNISSUED" /\ position = 0 /\ \A c \in CommandId : order[c] = "unsent"
      BY DEF Init, NoAggregate
  <2>2. StageOf = "none" /\ ~ (position > 0) /\ ~ Covered BY <2>1 DEF StageOf, Covered, Protective
  <2> QED BY <2>2 DEF Life!Init, Covered
<1> DEFINE Inv == IInv /\ FenceInv /\ CoverInv /\ WindowOK /\ AbsenceIsFinal /\ LifeInv
<1>2. Inv /\ Inv' /\ [Next]_vars => [Life!Next]_(Life!vars)
  <2> SUFFICES ASSUME Inv, Inv', [Next]_vars PROVE [Life!Next]_(Life!vars) OBVIOUS
  <2>1. Passes(agg, agg') BY LifeNext DEF Lives
  <2> QED BY <2>1, LifeSimulates
<1>3. Spec => []Inv BY LifeInvariance
<1> HIDE DEF Inv
<1> QED BY <1>1, <1>2, <1>3, PTL DEF Spec, ImplementsTicketLife, Life!Spec
=============================================================================
