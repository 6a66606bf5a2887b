-------------------------- MODULE TicketInvariants --------------------------
(***************************************************************************)
(* What is always true of a Ticket under way, beyond the properties that   *)
(* TicketExecution states: the inductive invariants IInv, FenceInv,        *)
(* CoverInv and LifeInv, and what an event, a transaction and a step of    *)
(* the venue must see to in order to keep them.  TicketExecutionProofs     *)
(* proves them.                                                            *)
(***************************************************************************)
EXTENDS TicketRefinement

-----------------------------------------------------------------------------
(* What the reductions preserve (reduce_event). *)

LaneStep(a, r) == r.agg.laneHeld = IF "lane" \in r.release THEN FALSE ELSE a.laneHeld

WellFormed(r) ==
    /\ r.agg \in Aggregate
    /\ r.prepare \subseteq Payload
    /\ r.open \subseteq IncidentKinds

Sound(a, r) == WellFormed(r) /\ LaneStep(a, r)

\* What the reductions below build on: an aggregate that keeps, or has lost, the lane.
Kept(a, x) == x \in Aggregate /\ x.laneHeld = a.laneHeld
Freed(x) == x \in Aggregate /\ x.laneHeld = FALSE

AllSound(a, reductions) == \A r \in reductions : Sound(a, r)

BeforeFill == EntryStatuses \cup {"UNISSUED"}
AfterReplacement ==
    {"RUNNER_OLD_STOP_CANCEL_PENDING", "RUNNER_OLD_STOP_CANCEL_REJECTED",
     "RUNNER_OLD_STOP_CANCEL_OUTCOME_UNKNOWN"} \cup CleanupStatuses \cup ClosureStatuses

\* A cleanup cancel is under way.
InCleanup(a) ==
    a.status \in {"RECONCILIATION_PENDING", "CANCEL_OUTCOME_UNKNOWN"} /\ a.pendingCancel # NoOrder

\* A cancel is requested where none of its purpose is open.
Requests(a, b, p) ==
    \/ p.purpose = "entry_remainder" /\ a.status \in BeforeFill /\ b.status \notin BeforeFill
    \/ /\ p.purpose = "runner_old_stop"
       /\ a.status \notin AfterReplacement /\ b.status \in AfterReplacement
    \/ /\ p.purpose = "reconciliation_cleanup"
       /\ ~ InCleanup(a) /\ InCleanup(b)
       /\ p.target = b.pendingCancel /\ b.status = "RECONCILIATION_PENDING"

\* The reduction r of a resolves at most the one unknown outcome that it settles, and
\* leaves the stage of every open cancel unless that is the one it settles.
Careful(a, r, incident) ==
    /\ r.resolve \subseteq {incident, "post_fill_risk_facts_unavailable"}
    /\ r.closesIncidents => r.agg.status \in ClosureStatuses
    /\ a.status \in ClosureStatuses => r.agg.status \in ClosureStatuses
    /\ a.status \notin BeforeFill => r.agg.status \notin BeforeFill
    /\ incident # "runner_old_stop_cancel_outcome_unknown" /\ a.status \in AfterReplacement
       => r.agg.status \in AfterReplacement
    /\ incident # "cancel_order_outcome_unknown" /\ InCleanup(a)
       => InCleanup(r.agg) /\ r.agg.pendingCancel = a.pendingCancel
    /\ incident # "unknown" /\ r.agg.status = "CANCEL_OUTCOME_UNKNOWN" => a.status = r.agg.status
    /\ \A p \in r.prepare :
          IF p.kind = "CANCEL_ORDER" THEN Requests(a, r.agg, p) ELSE p.purpose = "none"

AllCareful(a, reductions, incident) == \A r \in reductions : Careful(a, r, incident)
AllOpen(reductions, incident) ==
    \A r \in reductions : incident \in r.open /\ ~ r.closesIncidents
AllMark(reductions, target) == \A r \in reductions : target \in r.markAbsent

\* Most events neither start from nor lead into the stages of the cancels.
Ordinary(a, x) ==
    /\ a.status \notin AfterReplacement
    /\ a.status \in BeforeFill \/ x.status \notin BeforeFill
    /\ x.status # "CANCEL_OUTCOME_UNKNOWN"

-----------------------------------------------------------------------------
(* Leases, windows, and the incident of every unknown outcome. *)

\* The command a worker has in hand is leased to it, and unsent until the venue
\* call starts.
LeaseInHand ==
    /\ dispatcher.phase # "idle" =>
          dispatcher.cmd \in CommandId /\ commands[dispatcher.cmd].status = "CLAIMED"
    /\ dispatcher.phase = "claimed" => order[dispatcher.cmd] = "unsent"

\* An ENTRY order that has not arrived has no fills, one that rests is not full.
EntryFillsBounded ==
    /\ order[EntryCommand] \in {"unsent", "transit"} => entryFilled = 0
    /\ order[EntryCommand] = "live" => entryFilled < TicketQuantity

IInv == TypeOK /\ DurableBeforeVenue /\ LeaseInHand /\ EntryFillsBounded /\ LaneFlagAgrees

\* What a transaction may do to a row beyond its caller's update: settle an
\* unknown cancel, or insert a new row.
RowStep(before, after) ==
    \/ after = before
    \/ before.status = "OUTCOME_UNKNOWN" /\ after.status = "RECONCILED_ABSENT"
    \/ before.status = "NONE" /\ after.status = "PREPARED"

\* A caller's update of the rows never takes a dispatched command back.
Fresh == {"NONE", "PREPARED", "SUPERSEDED"}
Forward(rows) ==
    \A c \in CommandId : commands[c].status \notin Fresh => rows[c].status \notin Fresh
KeepsClaims(rows) ==
    \A c \in CommandId : commands[c].status = "CLAIMED" => rows[c].status = "CLAIMED"

\* A step takes to the network only a request that has never been there.
Resends ==
    \E c \in CommandId : order[c] # "unsent" /\ order'[c] = "transit" /\ order[c] # "transit"

\* A request is off the network when the visibility window of its row has passed.
WindowOK ==
    \A c \in CommandId : Unknown(c) /\ commands[c].timer = "over" => order[c] # "transit"

Placing(c) == c[1] \notin {"SET_LEVERAGE", "CANCEL_ORDER"}

\* How a transaction may change the row of one command.
Settles(c, row) ==
    \/ row = commands[c]
    \/ row.status \notin {"OUTCOME_UNKNOWN", "RECONCILED_ABSENT"}
    \/ row.status = "OUTCOME_UNKNOWN" /\ row.timer = "running"
    \/ row.status = "RECONCILED_ABSENT" /\ (Placing(c) => order[c] \notin {"transit", "live", "done"})

OpenRows == {"PREPARED", "CLAIMED", "OUTCOME_UNKNOWN"}
DecidedRows == {"ACCEPTED", "REJECTED", "RECONCILED_ACCEPTED", "RECONCILED_ABSENT"}
CancelPurposes == {"entry_remainder", "runner_old_stop", "reconciliation_cleanup"}
CleanupIncident == "cancel_order_outcome_unknown"

\* The incident an unknown outcome of row c has, or would have.
IncidentOf(rows, c) == UnknownIncident(c[1], rows[c].payload.purpose)

\* A row is of the kind it is filed under, a cancel has one of the three purposes.
Filed(rows) ==
    \A c \in CommandId :
        /\ rows[c].payload.kind = c[1]
        /\ c[1] = "CANCEL_ORDER" /\ rows[c].status # "NONE" =>
              rows[c].payload.purpose \in CancelPurposes

\* A kind other than the cancels gets its next generation only when the earlier ones
\* are decided.
InTurn(rows) ==
    \A c \in CommandId, d \in CommandId :
        /\ c[1] = d[1] /\ c[1] # "CANCEL_ORDER"
        /\ c[2] < d[2] /\ rows[d].status # "NONE"
        => rows[c].status \in DecidedRows

\* Of the cancels of one purpose at most one is open.
OneOpenCancel(rows) ==
    \A c \in CommandId, d \in CommandId :
        /\ c[1] = "CANCEL_ORDER" /\ d[1] = "CANCEL_ORDER"
        /\ rows[c].payload.purpose = rows[d].payload.purpose
        /\ rows[c].status \in OpenRows /\ rows[d].status \in OpenRows
        => c = d

\* An open cancel finds the aggregate where it was requested, or further.
InStage(rows, a, c) ==
    LET purpose == rows[c].payload.purpose
    IN /\ purpose = "entry_remainder" => a.status \notin BeforeFill
       /\ purpose = "runner_old_stop" => a.status \in AfterReplacement
       /\ purpose = "reconciliation_cleanup" =>
             /\ InCleanup(a) /\ rows[c].payload.target = a.pendingCancel
             /\ a.status = "CANCEL_OUTCOME_UNKNOWN" => rows[c].status = "OUTCOME_UNKNOWN"

CancelsInStage(rows, a) ==
    \A c \in CommandId : c[1] = "CANCEL_ORDER" /\ rows[c].status \in OpenRows => InStage(rows, a, c)

FenceInv ==
    /\ Filed(commands) /\ InTurn(commands) /\ OneOpenCancel(commands)
    /\ CancelsInStage(commands, agg) /\ UnknownIsFenced

\* What an update of existing rows does: payloads stay, decisions stay, and an
\* unknown outcome is only ever decided.
Later(before, after) ==
    \A c \in CommandId :
        /\ after[c].payload = before[c].payload
        /\ after[c].status = "NONE" <=> before[c].status = "NONE"
        /\ before[c].status \in DecidedRows => after[c].status \in DecidedRows
        /\ after[c].status \in OpenRows =>
              /\ before[c].status \in OpenRows
              /\ before[c].status = "OUTCOME_UNKNOWN" => after[c].status = "OUTCOME_UNKNOWN"

\* The new row of commit_reduction.
Filing(rows, p, g) ==
    [rows EXCEPT ![<<p.kind, g>>] = [status |-> "PREPARED", timer |-> "running", payload |-> p]]

\* How a prepared command may be related to the change of the aggregate.
Due(a, b, p) == IF p.kind = "CANCEL_ORDER" THEN Requests(a, b, p) ELSE p.purpose = "none"

\* Unknown rows of a row set are fenced.
Fenced(rows, a, open) ==
    a.status \notin ClosureStatuses =>
        \A c \in CommandId : rows[c].status = "OUTCOME_UNKNOWN" => IncidentOf(rows, c) \in open

\* The reduction r of a result settles its own row, or fences it.
Answered(a, r, incident, result) ==
    \/ Careful(a, r, "none") /\ (result = "OUTCOME_UNKNOWN" => incident \in r.open)
    \/ Careful(a, r, incident) /\ result # "OUTCOME_UNKNOWN"
    \/ /\ Careful(a, r, "unknown") /\ result = "OUTCOME_UNKNOWN"
       /\ incident = CleanupIncident /\ incident \in r.open

-----------------------------------------------------------------------------
(* The stop that covers the position. *)

FlatStatuses == CleanupStatuses \cup ClosureStatuses
OpeningStatuses == Tp1Statuses \cup {"POST_FILL_RISK_PENDING"}
ReplacingStatuses == {"RUNNER_REPLACEMENT_PENDING", "RUNNER_REPLACEMENT_OUTCOME_UNKNOWN"}
UnprotectedStatuses == BeforeFill \cup ProtectionStatuses

\* A change of status that enters no stage in which a stop is named, confirmed or replaced.
Calm(s, t) ==
    /\ s \in FlatStatuses => t \in FlatStatuses
    /\ t \in RunnerStatuses => s \in RunnerStatuses
    /\ t \in ReplacingStatuses => s \in ReplacingStatuses
    /\ t \in OpeningStatuses => s \in OpeningStatuses
    /\ t \in UnprotectedStatuses => s \in UnprotectedStatuses

\* A reduction that leaves protection alone: it prepares no stop, and it forgets or
\* cancels one only where the position is flat.
Tame(a, r) ==
    LET b == r.agg
    IN /\ Calm(a.status, b.status)
       /\ b.entryOrder = a.entryOrder
       /\ \/ b.activeStop = a.activeStop /\ b.activeStopPrice = a.activeStopPrice
          \/ b.activeStop = NoOrder /\ b.status \in FlatStatuses
       /\ b.status \in RunnerStatuses =>
             b.positionQty = a.positionQty /\ b.pendingStopPrice = a.pendingStopPrice
       /\ \A p \in r.prepare :
             /\ p.kind \notin StopKinds
             /\ p.kind = "CANCEL_ORDER" => p.target = a.entryOrder \/ b.status \in FlatStatuses

\* ... and does not itself conclude that the position is flat.
Quiet(a, r) == Tame(a, r) /\ (r.agg.status \in FlatStatuses => a.status \in FlatStatuses)

AllQuiet(a, reductions) == \A r \in reductions : Quiet(a, r)

Plain(r) == \A p \in r.prepare : p.kind \notin StopKinds \cup {"CANCEL_ORDER"}

\* The fields of the aggregate that protection depends on.
SameStops(a, b) ==
    /\ b.entryOrder = a.entryOrder /\ b.activeStop = a.activeStop
    /\ b.activeStopPrice = a.activeStopPrice /\ b.pendingStopPrice = a.pendingStopPrice

AcceptedRows == {"ACCEPTED", "RECONCILED_ACCEPTED"}
IsStop(c) == c \in CommandId /\ c[1] \in StopKinds
HasStop(rows) == \E c \in CommandId : IsStop(c) /\ rows[c].status # "NONE"

\* The ENTRY order can no longer fill.
EntryOver == order[EntryCommand] \in {"lost", "refused", "missed", "done"}

\* The stop the aggregate names was accepted, and its price is the one recorded.
StopNamed(a, rows) ==
    a.activeStop # NoOrder =>
        /\ IsStop(a.activeStop) /\ rows[a.activeStop].status \in AcceptedRows
        /\ order[a.activeStop] \in {"live", "done"}
        /\ rows[a.activeStop].payload.price = a.activeStopPrice

\* A stop is requested only after the ENTRY order has ended, for the whole position.
StopsSized(rows) ==
    \A c \in CommandId : IsStop(c) /\ rows[c].status # "NONE" =>
        /\ EntryOver /\ position <= rows[c].payload.qty
        /\ c[1] = "INITIAL_STOP" => rows[c].payload.price = InitialStopPrice

\* A stop that is gone from an open position was superseded.
StopsGone(a, rows) ==
    \A c \in CommandId : IsStop(c) /\ order[c] = "done" /\ position > 0 =>
        rows[c].status \in AcceptedRows /\ c # a.activeStop

\* Until flatness a stop is cancelled only when a better one is active.
Superseded(a, rows, t) ==
    /\ rows[t].status \in AcceptedRows
    /\ a.activeStop # NoOrder /\ t # a.activeStop
    /\ rows[t].payload.price <= a.activeStopPrice

CancelsSafe(a, rows) ==
    \A d \in CommandId :
        d[1] = "CANCEL_ORDER" /\ rows[d].status # "NONE" /\ IsStop(rows[d].payload.target) =>
            a.status \in FlatStatuses \/ Superseded(a, rows, rows[d].payload.target)

\* Once a stop has been requested, cleanup and closure mean that the position is flat,
\* and a snapshot bounds the position from above.
FlatIsFlat(a, rows) == HasStop(rows) /\ a.status \in FlatStatuses => position = 0
SnapshotBounds(rows) ==
    recon.work = "snapshot" =>
        /\ HasStop(rows) => position <= recon.qty
        /\ recon.qty = TicketQuantity => EntryOver

\* What the stages of the aggregate say of its stops.
StageHolds(a) ==
    /\ a.status \in RunnerStatuses => a.activeStop # NoOrder /\ position <= a.positionQty
    /\ a.status \in ReplacingStatuses => a.activeStopPrice <= a.pendingStopPrice
    /\ a.status \in OpeningStatuses => a.activeStopPrice = InitialStopPrice
    /\ a.status \in UnprotectedStatuses => a.activeStop = NoOrder
    /\ a.entryOrder # NoOrder => a.entryOrder[1] = "ENTRY"

CoverInv ==
    /\ position <= entryFilled
    /\ StopNamed(agg, commands) /\ StopsSized(commands) /\ StopsGone(agg, commands)
    /\ CancelsSafe(agg, commands) /\ FlatIsFlat(agg, commands) /\ SnapshotBounds(commands)
    /\ StageHolds(agg)

\* What a transaction does to a row: it keeps the payload and an acceptance, or inserts
\* the row of a prepared command.
Steady(x, y) ==
    /\ y.payload = x.payload
    /\ y.status = "NONE" <=> x.status = "NONE"
    /\ x.status \in AcceptedRows => y.status \in AcceptedRows

Grown(before, after, prepare) ==
    \A c \in CommandId :
        \/ Steady(before[c], after[c])
        \/ /\ before[c].status = "NONE" /\ after[c].status = "PREPARED"
           /\ after[c].payload \in prepare /\ after[c].payload.kind = c[1]

\* The stop c, just accepted, takes the place of the active one.
Adopts(a, b, c) ==
    /\ b.activeStop = c /\ IsStop(c)
    /\ commands[c].status \in {"CLAIMED", "OUTCOME_UNKNOWN"} /\ commands'[c].status \in AcceptedRows
    /\ order[c] \in {"live", "done"} /\ commands[c].payload.price = b.activeStopPrice
    /\ a.activeStop # NoOrder => a.activeStopPrice <= b.activeStopPrice

\* What a transaction must see to before it changes the aggregate a to b.
Guarded(a, b, prepare) ==
    /\ a.status \in FlatStatuses => b.status \in FlatStatuses
    /\ b.status \in FlatStatuses /\ a.status \notin FlatStatuses /\ HasStop(commands) => position = 0
    /\ \/ b.activeStop = a.activeStop /\ (a.activeStop # NoOrder => b.activeStopPrice = a.activeStopPrice)
       \/ b.activeStop = NoOrder /\ b.status \in FlatStatuses
       \/ \E c \in CommandId : Adopts(a, b, c)
    /\ \A p \in prepare :
          /\ p.kind \in StopKinds =>
                /\ b.status \notin FlatStatuses /\ EntryOver /\ position <= p.qty
                /\ p.kind = "INITIAL_STOP" => p.price = InitialStopPrice
                /\ HasStop(commands) \/ recon'.work = "idle"
          /\ p.kind = "CANCEL_ORDER" /\ IsStop(p.target) =>
                b.status \in FlatStatuses \/ Superseded(b, commands, p.target)
    /\ StageHolds(b)

\* How the venue may move: an ENTRY order that has ended stays so and the position then only
\* shrinks; a stop that goes from an open position was superseded.
VenueMoves ==
    /\ EntryOver => EntryOver' /\ position' <= position
    /\ \A c \in CommandId : order[c] \in {"live", "done"} => order'[c] \in {"live", "done"}
    /\ \A c \in CommandId : IsStop(c) /\ order'[c] = "done" /\ position' > 0 /\ order[c] # "done" =>
          commands[c].status \in AcceptedRows /\ c # agg.activeStop
    /\ position' <= entryFilled'

\* A row of the outbox, once inserted, stays and keeps its payload.
RowKept(before, after, c) == after[c].status # "NONE" /\ after[c].payload = before[c].payload

\* A step that loosens protection: a stop that covered the position is gone or too small, and
\* no stop at its price or better covers what is left.
Loosens ==
    \E c \in CommandId :
        /\ Protective(c) /\ position' > 0
        /\ ~ \E d \in CommandId :
                Protective(d)' /\ commands'[d].payload.price >= commands[c].payload.price

-----------------------------------------------------------------------------
(* The stages of a Ticket's life. *)

LeverageStatuses == {"LEVERAGE_PENDING", "LEVERAGE_OUTCOME_UNKNOWN"}
EnteringStatuses == EntryStatuses \cup PartialFillStatuses
WorkingStatuses == {"POST_FILL_RISK_PENDING"} \cup ProtectionStatuses \cup Tp1Statuses
                   \cup RunnerStatuses \cup ExitStatuses \cup FlattenStatuses
FundedStatuses == EnteringStatuses \cup WorkingStatuses \cup CleanupStatuses
Arrived == {"live", "done"}

\* Rows appear with the stage that asks for them; ENTRY has one row.
RowsInStage(a, rows) ==
    /\ a.status = "UNISSUED" => \A c \in CommandId : rows[c].status = "NONE"
    /\ a.status \in LeverageStatuses => rows[EntryCommand].status = "NONE"
    /\ \A c \in CommandId : c[1] = "ENTRY" /\ rows[c].status # "NONE" => c = EntryCommand

\* The ENTRY of a rejected Ticket never becomes an order.
EntryRefused(a, rows) ==
    a.status \in RejectedStatuses =>
        /\ order[EntryCommand] \notin {"transit", "live", "done"}
        /\ rows[EntryCommand].status \notin {"PREPARED", "CLAIMED"}

\* The ENTRY order the aggregate names has arrived.
EntryNamed(a) ==
    a.entryOrder # NoOrder => a.entryOrder = EntryCommand /\ order[EntryCommand] \in Arrived

\* Only the ENTRY order fills, and while it rests nothing takes from the position.
EntryLedger ==
    /\ order[EntryCommand] \notin Arrived => entryFilled = 0
    /\ order[EntryCommand] = "live" => position = entryFilled

\* Nothing is managed, closed or cleaned up before the ENTRY order has ended.
EntryEnded(a, rows) ==
    /\ a.status \in WorkingStatuses \cup FlatStatuses => order[EntryCommand] = "done"
    /\ \A c \in CommandId : c[1] \in ClosingKinds /\ rows[c].status # "NONE" => order[EntryCommand] = "done"

\* The cancel of an ENTRY remainder names it, and an executed cancel has ended its target.
CancelsHit(rows) ==
    \A c \in CommandId : c[1] = "CANCEL_ORDER" =>
        /\ order[c] # "live"
        /\ order[c] = "done" => rows[c].payload.target \in CommandId /\ order[rows[c].payload.target] = "done"
        /\ rows[c].status # "NONE" /\ rows[c].payload.purpose = "entry_remainder" =>
              rows[c].payload.target = EntryCommand /\ rows[c].payload.namespace = "regular"

\* A snapshot without a position is still true once ENTRY has been seen to fill.
SnapshotHolds(a) ==
    recon.work = "snapshot" =>
        /\ recon.qty <= entryFilled
        /\ recon.qty = 0 /\ a.status \in PartialFillStatuses \cup WorkingStatuses => position = 0

\* What the stages say of fills, of the lane and of the stop that replaces it.
StagesKeep(a) ==
    /\ a.status \in PartialFillStatuses => entryFilled > 0
    /\ a.status \in FlatStatuses => position = 0
    /\ a.status \in EnteringStatuses => a.laneHeld
    /\ a.status \in WorkingStatuses /\ ~ a.laneHeld => a.activeStop # NoOrder
    /\ a.status = "POST_FILL_RISK_PENDING" => a.activeStop # NoOrder

LifeInv ==
    /\ RowsInStage(agg, commands) /\ EntryRefused(agg, commands) /\ EntryNamed(agg)
    /\ EntryLedger /\ EntryEnded(agg, commands) /\ CancelsHit(commands)
    /\ SnapshotHolds(agg) /\ StagesKeep(agg)
    /\ "budget" \in held <=> agg.status \in FundedStatuses

\* Two statuses of one stage of the Ticket's life.
Together(s, t) ==
    \/ s \in LeverageStatuses /\ t \in LeverageStatuses
    \/ s \in EntryStatuses \ LeverageStatuses /\ t \in EntryStatuses \ LeverageStatuses
    \/ s \in PartialFillStatuses /\ t \in PartialFillStatuses
    \/ s \in WorkingStatuses /\ t \in WorkingStatuses
    \/ s \in CleanupStatuses /\ t \in CleanupStatuses
    \/ s = "SETTLEMENT_PENDING" /\ t = "REVIEW_PENDING"

\* A command that only a managed Ticket prepares.
Ordered(s, p) ==
    p.kind # "ENTRY" /\ p.purpose # "entry_remainder" /\ (p.kind \in ClosingKinds => s \in WorkingStatuses)

\* A reduction that stays in its stage.
Within(a, r) ==
    LET b == r.agg
    IN /\ Together(a.status, b.status) /\ r.release = {}
       /\ b.entryOrder = a.entryOrder /\ b.laneHeld = a.laneHeld
       /\ \/ b.activeStop = a.activeStop \/ b.activeStop # NoOrder
          \/ b.status \in CleanupStatuses
       /\ b.status = "POST_FILL_RISK_PENDING" => b.activeStop # NoOrder
       /\ \A p \in r.prepare : Ordered(b.status, p)

\* The fields of the aggregate that carry it through its life.
SameCourse(a, b) ==
    b.entryOrder = a.entryOrder /\ b.laneHeld = a.laneHeld /\ b.activeStop = a.activeStop

\* The stage of TicketLife, read off the aggregate.
StageAt(a) ==
    IF a.status = "UNISSUED" THEN "none"
    ELSE IF a.laneHeld THEN "entry"
    ELSE IF a.status \in FundedStatuses THEN "open"
    ELSE IF a.status \in RejectedStatuses \cup {"TERMINAL"} THEN "closed"
    ELSE "settling"

\* A step of the stage that TicketLife knows.
Passes(a, b) ==
    \/ StageAt(a) = StageAt(b)
    \/ StageAt(a) = "none" /\ StageAt(b) = "entry"
    \/ StageAt(a) = "entry" /\ StageAt(b) \in {"open", "closed"}
    \/ StageAt(a) = "open" /\ StageAt(b) = "settling"
    \/ StageAt(a) = "settling" /\ StageAt(b) = "closed"

\* A command prepared on the way from a to b.
Timely(b, p) ==
    /\ p.kind = "ENTRY" => b.status \notin LeverageStatuses
    /\ p.kind \in ClosingKinds => order[EntryCommand] = "done"
    /\ p.kind = "CANCEL_ORDER" /\ p.purpose = "entry_remainder" =>
          p.target = EntryCommand /\ p.namespace = "regular"

\* What a transaction must see to before it changes the aggregate a to b.
Proceeds(a, b, prepare) ==
    /\ b.status = "UNISSUED" => a.status = "UNISSUED" /\ prepare = {}
    /\ b.status \in LeverageStatuses => a.status \in LeverageStatuses \cup {"UNISSUED"}
    /\ EntryRefused(b, commands') /\ EntryNamed(b)
    /\ b.status \in WorkingStatuses \cup FlatStatuses => order[EntryCommand] = "done"
    /\ \A p \in prepare : Timely(b, p)
    /\ b.status \in PartialFillStatuses \cup WorkingStatuses =>
          recon'.work = "idle" \/ a.status \in PartialFillStatuses \cup WorkingStatuses
    /\ StagesKeep(b)
    /\ "budget" \in held' <=> b.status \in FundedStatuses

\* ENTRY is a command of one generation.
OneEntry(before, after) ==
    \A c \in CommandId : c[1] = "ENTRY" /\ after[c].status # "NONE" =>
        before[c].status # "NONE" \/ c = EntryCommand

\* The budget row follows the reduction.
Pays(r) == "budget" \in held' <=> "budget" \in held /\ "budget" \notin r.release

Advances(r) == Proceeds(agg, r.agg, r.prepare) /\ Passes(agg, r.agg)

Lives == LifeInv' /\ Passes(agg, agg')

\* Only the ENTRY order adds to the position, and while it rests nothing takes from it;
\* what has ended stays ended; a cancel executes by ending its target.
VenueCourse ==
    /\ \A c \in CommandId : order'[c] # order[c] => order[c] \in {"unsent", "transit", "live"}
    /\ \A c \in CommandId : order[c] \in Arrived => order'[c] \in Arrived
    /\ order[EntryCommand] = "unsent" =>
          order'[EntryCommand] = "unsent" \/ commands[EntryCommand].status = "CLAIMED"
    /\ \/ order[EntryCommand] = "live" /\ position' = position + 1 /\ entryFilled' = entryFilled + 1
       \/ /\ entryFilled' = entryFilled /\ position' <= position
          /\ position' = position \/ order[EntryCommand] # "live"
    /\ \A c \in CommandId : c[1] = "CANCEL_ORDER" =>
          /\ order[c] # "live" => order'[c] # "live"
          /\ order'[c] = "done" => \/ order[c] = "done"
                                   \/ /\ commands[c].payload.target \in CommandId
                                      /\ order'[commands[c].payload.target] = "done"

Covered == \E c \in CommandId : Protective(c)

\* Nothing stands at the venue for a Ticket that is not issued.
NothingYet == agg.status = "UNISSUED" => ~ (position > 0) /\ ~ Covered

\* Off the lane ENTRY is over, an open position is covered, and only funded Tickets have one.
OffLaneCalm ==
    agg.status # "UNISSUED" /\ ~ agg.laneHeld =>
        /\ order[EntryCommand] # "live"
        /\ position > 0 => Covered
        /\ agg.status \notin FundedStatuses => ~ (position > 0)
=============================================================================
