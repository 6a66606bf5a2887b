-------------------------- MODULE EntryDrainProofs --------------------------
(***************************************************************************)
(* Theorems about EntryDrain, for every quantity, number of cancel          *)
(* generations, faults and foreign orders: a Ticket closed without exposure *)
(* has none, and the quantity a drained Ticket is handed on with is real.   *)
(***************************************************************************)
EXTENDS EntryDrain, TLAPS

\* The ENTRY row, the worker that holds it and the order agree: nothing is sent for a
\* command that is decided, and a Ticket in a later status has an order at the venue.
EntryLedger ==
    /\ entry \in {"PREPARED", "LAPSED"} =>
         agg.status = "ENTRY_PENDING" /\ sender = "idle" /\ order = "none"
    /\ sender # "idle" => entry = "CLAIMED"
    /\ sender \in {"claimed", "cleared"} => order = "none"
    /\ entry = "CLAIMED" => agg.status = "ENTRY_PENDING"
    /\ entry = "OUTCOME_UNKNOWN" => agg.status = "ENTRY_OUTCOME_UNKNOWN"
    /\ agg.status = "ENTRY_PENDING" => entry \in {"PREPARED", "LAPSED", "CLAIMED"}
    /\ agg.status = "ENTRY_OUTCOME_UNKNOWN" => entry = "OUTCOME_UNKNOWN"
    /\ agg.status \in EntryStatuses \cup {"PARTIAL_FILL_INCIDENT"} => ~agg.vacuumed
    /\ canceller.phase # "idle" => canceller.gen \in Generations

\* Only an order at the venue fills, and one that can still fill is not full.
FillLedger ==
    /\ order \notin {"live", "dead"} => filled = 0
    /\ order = "live" => filled < TicketQuantity
    /\ agg.status \in {"ENTRY_ACCEPTED", "ENTRY_VACUUM_CANCELLED"} \cup CancelStatuses
         => order \in {"live", "dead"}
    /\ agg.status \in ClosedStatuses => filled = 0 /\ order \notin {"transit", "live"}
    /\ agg.status = "ENTRY_VACUUM_CANCELLED" =>
         order = "dead" /\ agg.qty <= filled /\ (~torn => agg.qty = filled)

\* What the Reconciliation worker holds is true of the venue: a quantity never too large,
\* exact once the order was seen gone first or the Ticket was already cancelled.
SnapshotIsSound ==
    LET position == recon.reads \in {"position", "position_first", "orders_first"}
        gone == recon.reads \in {"orders", "position_first", "orders_first"}
                /\ "entry" \notin recon.orders
    IN  /\ recon.work # "idle" => order \in {"live", "dead"}
        /\ recon.work = "idle" => recon.reads = "none"
        /\ gone => order = "dead"
        /\ position => recon.qty <= filled
        /\ gone /\ recon.reads = "orders_first" => recon.qty = filled
        /\ position /\ agg.status = "ENTRY_VACUUM_CANCELLED" => recon.qty = filled

IInv == TypeOK /\ EntryLedger /\ FillLedger /\ SnapshotIsSound /\ HandedQuantityIsReal

Aggregates == [status : Statuses, qty : Quantities, vacuumed : BOOLEAN]

\* The parts of TypeOK whose variables hold a single value: the rows, and the venue with
\* the sender and the fault count.
RowsTyped ==
    /\ vacuum \in {"none", "OPEN", "DRAINING_ENTRY", "DRAINED"}
    /\ entry \in RowStatuses
    /\ waiting \in BOOLEAN
    /\ torn \in BOOLEAN

VenueTyped ==
    /\ order \in {"none", "transit", "live", "dead", "refused", "lost"}
    /\ filled \in Quantities
    /\ flying \subseteq Generations
    /\ foreign \in [seen : 0 .. MaxForeign, open : BOOLEAN]
    /\ sender \in {"idle", "claimed", "cleared", "sent"}
    /\ faults \in 0 .. MaxFaults

LEMMA RecordTyped ==
    ASSUME NEW s \in Statuses, NEW q \in Quantities, NEW v \in BOOLEAN
    PROVE  [status |-> s, qty |-> q, vacuumed |-> v] \in Aggregates
BY Zenon DEF Aggregates

LEMMA StatusTyped ==
    ASSUME agg \in Aggregates, NEW s \in Statuses
    PROVE  [agg EXCEPT !.status = s] \in Aggregates
BY DEF Aggregates

LEMMA TypeStep ==
    ASSUME IInv, [Next]_vars PROVE TypeOK'
<1> USE DrainAssumption DEF IInv, TypeOK, Generations, Quantities, RowStatuses,
        Undecided, IncidentKinds, Statuses, EntryStatuses, ClosedStatuses,
        CancelStatuses, HandedOnStatuses, durable, venue, workers
<1>1. CASE ClaimEntry
  <2>1. agg' \in Aggregates
    <3>1. \/ agg' = agg
          \/ agg' = [status |-> "ENTRY_REJECTED", qty |-> agg.qty, vacuumed |-> TRUE]
      BY <1>1 DEF ClaimEntry, EntryVacuumSuperseded, Moves
    <3>2. agg \in Aggregates /\ agg.qty \in Quantities /\ recon.qty \in Quantities
          /\ agg.vacuumed \in BOOLEAN /\ 0 \in Quantities
      BY DEF Aggregates
    <3> HIDE DrainAssumption DEF IInv, TypeOK, Generations, Quantities, RowStatuses, Undecided,
             IncidentKinds, durable, venue, workers
    <3>3. QED
      BY <3>1, <3>2, RecordTyped, StatusTyped, Zenon
  <2>2. cancel' \in [Generations -> RowStatuses]
      BY <1>1 DEF ClaimEntry, EntryVacuumSuperseded, Moves
  <2>3. incidents' \subseteq IncidentKinds
      BY <1>1 DEF ClaimEntry, EntryVacuumSuperseded, Moves
  <2>4. canceller' \in [phase : {"idle", "claimed", "sent", "accepted", "refused", "missed"},
                        gen : Generations \cup {0}]
      BY <1>1 DEF ClaimEntry, EntryVacuumSuperseded, Moves
  <2>5. recon' \in [work : {"idle", "drain", "late", "normal"},
                    reads : {"none", "position", "orders", "position_first", "orders_first"},
                    qty : Quantities, orders : SUBSET {"entry", "foreign"}]
      BY <1>1 DEF ClaimEntry, EntryVacuumSuperseded, Moves
  <2>6. RowsTyped'
      BY <1>1 DEF ClaimEntry, EntryVacuumSuperseded, Moves, RowsTyped
  <2>7. VenueTyped'
      BY <1>1 DEF ClaimEntry, EntryVacuumSuperseded, Moves, VenueTyped
  <2>8. QED
      BY <2>1, <2>2, <2>3, <2>4, <2>5, <2>6, <2>7 DEF Aggregates, RowsTyped, VenueTyped
<1>2. CASE PreflightPasses
      BY <1>2 DEF PreflightPasses
<1>3. CASE PreflightRefuses
  <2>1. agg' \in Aggregates
    <3>1. \/ agg' = [agg EXCEPT !.status = "ENTRY_REJECTED"]
          \/ agg' = [status |-> "ENTRY_REJECTED", qty |-> agg.qty, vacuumed |-> TRUE]
      BY <1>3 DEF PreflightRefuses, EntryVacuumSuperseded, Moves
    <3>2. agg \in Aggregates /\ agg.qty \in Quantities /\ recon.qty \in Quantities
          /\ agg.vacuumed \in BOOLEAN /\ 0 \in Quantities
      BY DEF Aggregates
    <3> HIDE DrainAssumption DEF IInv, TypeOK, Generations, Quantities, RowStatuses, Undecided,
             IncidentKinds, durable, venue, workers
    <3>3. QED
      BY <3>1, <3>2, RecordTyped, StatusTyped, Zenon
  <2>2. cancel' \in [Generations -> RowStatuses]
      BY <1>3 DEF PreflightRefuses, EntryVacuumSuperseded, Moves
  <2>3. incidents' \subseteq IncidentKinds
      BY <1>3 DEF PreflightRefuses, EntryVacuumSuperseded, Moves
  <2>4. canceller' \in [phase : {"idle", "claimed", "sent", "accepted", "refused", "missed"},
                        gen : Generations \cup {0}]
      BY <1>3 DEF PreflightRefuses, EntryVacuumSuperseded, Moves
  <2>5. recon' \in [work : {"idle", "drain", "late", "normal"},
                    reads : {"none", "position", "orders", "position_first", "orders_first"},
                    qty : Quantities, orders : SUBSET {"entry", "foreign"}]
      BY <1>3 DEF PreflightRefuses, EntryVacuumSuperseded, Moves
  <2>6. RowsTyped'
      BY <1>3 DEF PreflightRefuses, EntryVacuumSuperseded, Moves, RowsTyped
  <2>7. VenueTyped'
      BY <1>3 DEF PreflightRefuses, EntryVacuumSuperseded, Moves, VenueTyped
  <2>8. QED
      BY <2>1, <2>2, <2>3, <2>4, <2>5, <2>6, <2>7 DEF Aggregates, RowsTyped, VenueTyped
<1>4. CASE SendEntry
      BY <1>4 DEF SendEntry
<1>5. CASE \E result \in {"ACCEPTED", "REJECTED", "OUTCOME_UNKNOWN"} : RecordEntry(result)
  <2> PICK result \in {"ACCEPTED", "REJECTED", "OUTCOME_UNKNOWN"} : RecordEntry(result)
      BY <1>5
  <2>1. agg' \in [status : Statuses, qty : Quantities, vacuumed : BOOLEAN]
      BY DEF RecordEntry, Fault
  <2>2. cancel' \in [Generations -> RowStatuses]
      BY DEF RecordEntry, Fault
  <2>3. incidents' \subseteq IncidentKinds
      BY DEF RecordEntry, Fault
  <2>4. canceller' \in [phase : {"idle", "claimed", "sent", "accepted", "refused", "missed"},
                        gen : Generations \cup {0}]
      BY DEF RecordEntry, Fault
  <2>5. recon' \in [work : {"idle", "drain", "late", "normal"},
                    reads : {"none", "position", "orders", "position_first", "orders_first"},
                    qty : Quantities, orders : SUBSET {"entry", "foreign"}]
      BY DEF RecordEntry, Fault
  <2>6. RowsTyped'
      BY DEF RecordEntry, Fault, RowsTyped
  <2>7. VenueTyped'
      BY DEF RecordEntry, Fault, VenueTyped
  <2>8. QED
      BY <2>1, <2>2, <2>3, <2>4, <2>5, <2>6, <2>7 DEF Aggregates, RowsTyped, VenueTyped
<1>6. CASE ExpireEntryClaim
      BY <1>6 DEF ExpireEntryClaim
<1>7. CASE SendCancel
  <2>1. agg' \in [status : Statuses, qty : Quantities, vacuumed : BOOLEAN]
      BY <1>7 DEF SendCancel
  <2>2. cancel' \in [Generations -> RowStatuses]
      BY <1>7 DEF SendCancel
  <2>3. incidents' \subseteq IncidentKinds
      BY <1>7 DEF SendCancel
  <2>4. canceller' \in [phase : {"idle", "claimed", "sent", "accepted", "refused", "missed"},
                        gen : Generations \cup {0}]
      BY <1>7 DEF SendCancel
  <2>5. recon' \in [work : {"idle", "drain", "late", "normal"},
                    reads : {"none", "position", "orders", "position_first", "orders_first"},
                    qty : Quantities, orders : SUBSET {"entry", "foreign"}]
      BY <1>7 DEF SendCancel
  <2>6. flying' \subseteq Generations
      BY <1>7 DEF SendCancel, EntryLedger
  <2>7. RowsTyped'
      BY <1>7, <2>6 DEF SendCancel, RowsTyped
  <2>8. VenueTyped'
      BY <1>7, <2>6 DEF SendCancel, VenueTyped
  <2>9. QED
      BY <2>1, <2>2, <2>3, <2>4, <2>5, <2>7, <2>8 DEF Aggregates, RowsTyped, VenueTyped
<1>8. CASE \E g \in Generations : ClaimCancel(g)
      BY <1>8 DEF ClaimCancel
<1>9. CASE \E g \in Generations : ExpireCancelClaim(g)
  <2> PICK g \in Generations : ExpireCancelClaim(g)
      BY <1>9
  <2>1. agg' \in [status : Statuses, qty : Quantities, vacuumed : BOOLEAN]
      BY StatusTyped DEF ExpireCancelClaim, EntryVacuumCancelOutcomeUnknown, Aggregates
  <2>2. cancel' \in [Generations -> RowStatuses]
      BY DEF ExpireCancelClaim
  <2>3. incidents' \subseteq IncidentKinds
      BY DEF ExpireCancelClaim, EntryVacuumCancelOutcomeUnknown, Exchanges
  <2>4. UNCHANGED <<vacuum, entry, waiting, torn, venue, workers, recon, faults>>
      BY DEF ExpireCancelClaim
  <2> QED BY <2>1, <2>2, <2>3, <2>4
<1>10. CASE \E result \in {"ACCEPTED", "REJECTED", "OUTCOME_UNKNOWN"} : RecordCancel(result)
  <2> PICK result \in {"ACCEPTED", "REJECTED", "OUTCOME_UNKNOWN"} : RecordCancel(result)
      BY <1>10
  <2>1. agg' \in Aggregates
    <3>1. \/ agg' = [agg EXCEPT !.status = "ENTRY_VACUUM_CANCEL_PENDING"]
          \/ agg' = [agg EXCEPT !.status = "ENTRY_VACUUM_CANCEL_REJECTED"]
          \/ agg' = [agg EXCEPT !.status = "ENTRY_VACUUM_CANCEL_OUTCOME_UNKNOWN"]
      BY DEF RecordCancel, Fault, EntryVacuumCancelConfirmed, EntryVacuumCancelRejected,
         EntryVacuumCancelOutcomeUnknown, Exchanges, IdleCanceller
    <3>2. agg \in Aggregates /\ agg.qty \in Quantities /\ recon.qty \in Quantities
          /\ agg.vacuumed \in BOOLEAN /\ 0 \in Quantities
      BY DEF Aggregates
    <3> HIDE DrainAssumption DEF IInv, TypeOK, Generations, Quantities, RowStatuses, Undecided,
             IncidentKinds, durable, venue, workers
    <3>3. QED
      BY <3>1, <3>2, RecordTyped, StatusTyped, Zenon
  <2>2. cancel' \in [Generations -> RowStatuses]
      BY DEF RecordCancel, Fault, EntryVacuumCancelConfirmed, EntryVacuumCancelRejected,
         EntryVacuumCancelOutcomeUnknown, Exchanges, IdleCanceller
  <2>3. incidents' \subseteq IncidentKinds
      BY DEF RecordCancel, Fault, EntryVacuumCancelConfirmed, EntryVacuumCancelRejected,
         EntryVacuumCancelOutcomeUnknown, Exchanges, IdleCanceller
  <2>4. canceller' \in [phase : {"idle", "claimed", "sent", "accepted", "refused", "missed"},
                        gen : Generations \cup {0}]
      BY DEF RecordCancel, Fault, EntryVacuumCancelConfirmed, EntryVacuumCancelRejected,
         EntryVacuumCancelOutcomeUnknown, Exchanges, IdleCanceller
  <2>5. recon' \in [work : {"idle", "drain", "late", "normal"},
                    reads : {"none", "position", "orders", "position_first", "orders_first"},
                    qty : Quantities, orders : SUBSET {"entry", "foreign"}]
      BY DEF RecordCancel, Fault, EntryVacuumCancelConfirmed, EntryVacuumCancelRejected,
         EntryVacuumCancelOutcomeUnknown, Exchanges, IdleCanceller
  <2>6. RowsTyped'
      BY DEF RecordCancel, Fault, EntryVacuumCancelConfirmed, EntryVacuumCancelRejected,
         EntryVacuumCancelOutcomeUnknown, Exchanges, IdleCanceller, RowsTyped
  <2>7. VenueTyped'
      BY DEF RecordCancel, Fault, EntryVacuumCancelConfirmed, EntryVacuumCancelRejected,
         EntryVacuumCancelOutcomeUnknown, Exchanges, IdleCanceller, VenueTyped
  <2>8. QED
      BY <2>1, <2>2, <2>3, <2>4, <2>5, <2>6, <2>7 DEF Aggregates, RowsTyped, VenueTyped
<1>11. CASE RecoverEntry
  <2>1. PICK status \in {"ENTRY_ACCEPTED", "ENTRY_RECONCILED_ABSENT"} :
          agg' = [agg EXCEPT !.status = status]
      BY <1>11 DEF RecoverEntry
  <2>2. agg' \in [status : Statuses, qty : Quantities, vacuumed : BOOLEAN]
      BY <2>1 DEF Statuses, EntryStatuses, ClosedStatuses
  <2>3. entry' \in RowStatuses
      BY <1>11 DEF RecoverEntry
  <2>4. UNCHANGED <<vacuum, cancel, incidents, waiting, torn, venue, workers, recon, faults>>
      BY <1>11 DEF RecoverEntry
  <2> QED BY <2>2, <2>3, <2>4
<1>12. CASE \E g \in Generations : RecoverCancel(g)
  <2> PICK g \in Generations : RecoverCancel(g)
      BY <1>12
  <2>1. agg' \in [status : Statuses, qty : Quantities, vacuumed : BOOLEAN]
    <3>1. \E s \in Statuses : agg' = [agg EXCEPT !.status = s]
        BY DEF RecoverCancel, EntryVacuumCancelConfirmed, EntryVacuumCancelRejected
    <3> QED BY <3>1, StatusTyped DEF Aggregates
  <2>2. cancel' \in [Generations -> RowStatuses]
      BY DEF RecoverCancel, EntryVacuumCancelConfirmed, EntryVacuumCancelRejected, Exchanges
  <2>3. incidents' \subseteq IncidentKinds
      BY DEF RecoverCancel, EntryVacuumCancelConfirmed, EntryVacuumCancelRejected, Exchanges
  <2>4. canceller' \in [phase : {"idle", "claimed", "sent", "accepted", "refused", "missed"},
                        gen : Generations \cup {0}]
      BY DEF RecoverCancel, EntryVacuumCancelConfirmed, EntryVacuumCancelRejected, Exchanges
  <2>5. recon' \in [work : {"idle", "drain", "late", "normal"},
                    reads : {"none", "position", "orders", "position_first", "orders_first"},
                    qty : Quantities, orders : SUBSET {"entry", "foreign"}]
      BY DEF RecoverCancel, EntryVacuumCancelConfirmed, EntryVacuumCancelRejected, Exchanges
  <2>6. RowsTyped'
      BY DEF RecoverCancel, EntryVacuumCancelConfirmed, EntryVacuumCancelRejected,
         Exchanges, RowsTyped
  <2>7. VenueTyped'
      BY DEF RecoverCancel, EntryVacuumCancelConfirmed, EntryVacuumCancelRejected,
         Exchanges, VenueTyped
  <2>8. QED
      BY <2>1, <2>2, <2>3, <2>4, <2>5, <2>6, <2>7 DEF Aggregates, RowsTyped, VenueTyped
<1>13. CASE \E work \in {"drain", "late", "normal"} : BeginReads(work)
      BY <1>13 DEF BeginReads, IdleRecon, DrainsByFacts, Contradicted
<1>14. CASE ReadPosition
      BY <1>14 DEF ReadPosition
<1>15. CASE ReadOrders
      BY <1>15 DEF ReadOrders, OpenOrders
<1>16. CASE CommitDrain
  <2>1. agg' \in Aggregates
    <3>1. \/ agg' = agg
          \/ agg' = [status |-> "ENTRY_VACUUM_CANCEL_PENDING", qty |-> recon.qty, vacuumed |-> TRUE]
          \/ agg' = [status |-> "ENTRY_VACUUM_CANCELLED", qty |-> recon.qty, vacuumed |-> TRUE]
          \/ agg' = [status |-> "ENTRY_RECONCILED_ABSENT", qty |-> 0, vacuumed |-> TRUE]
      BY <1>16 DEF CommitDrain, CommitOpenOrder, CommitOrderGone, CommitZeroFill,
         SnapshotRead, EntryVacuumCancelRequested, EntryVacuumOrderAbsenceConfirmed,
         EntryVacuumAbsenceConfirmed, Moves, Exchanges, IdleRecon
    <3>2. agg \in Aggregates /\ agg.qty \in Quantities /\ recon.qty \in Quantities
          /\ agg.vacuumed \in BOOLEAN /\ 0 \in Quantities
      BY DEF Aggregates
    <3> HIDE DrainAssumption DEF IInv, TypeOK, Generations, Quantities, RowStatuses, Undecided,
             IncidentKinds, durable, venue, workers
    <3>3. QED
      BY <3>1, <3>2, RecordTyped, StatusTyped, Zenon
  <2>2. cancel' \in [Generations -> RowStatuses]
      BY <1>16 DEF CommitDrain, CommitOpenOrder, CommitOrderGone, CommitZeroFill,
         SnapshotRead, EntryVacuumCancelRequested, EntryVacuumOrderAbsenceConfirmed,
         EntryVacuumAbsenceConfirmed, Moves, Exchanges, IdleRecon
  <2>3. incidents' \subseteq IncidentKinds
      BY <1>16 DEF CommitDrain, CommitOpenOrder, CommitOrderGone, CommitZeroFill,
         SnapshotRead, EntryVacuumCancelRequested, EntryVacuumOrderAbsenceConfirmed,
         EntryVacuumAbsenceConfirmed, Moves, Exchanges, IdleRecon
  <2>4. canceller' \in [phase : {"idle", "claimed", "sent", "accepted", "refused", "missed"},
                        gen : Generations \cup {0}]
      BY <1>16 DEF CommitDrain, CommitOpenOrder, CommitOrderGone, CommitZeroFill,
         SnapshotRead, EntryVacuumCancelRequested, EntryVacuumOrderAbsenceConfirmed,
         EntryVacuumAbsenceConfirmed, Moves, Exchanges, IdleRecon
  <2>5. recon' \in [work : {"idle", "drain", "late", "normal"},
                    reads : {"none", "position", "orders", "position_first", "orders_first"},
                    qty : Quantities, orders : SUBSET {"entry", "foreign"}]
      BY <1>16 DEF CommitDrain, CommitOpenOrder, CommitOrderGone, CommitZeroFill,
         SnapshotRead, EntryVacuumCancelRequested, EntryVacuumOrderAbsenceConfirmed,
         EntryVacuumAbsenceConfirmed, Moves, Exchanges, IdleRecon
  <2>6. torn' \in BOOLEAN
      BY <1>16 DEF CommitDrain, CommitOpenOrder, CommitOrderGone, CommitZeroFill
  <2>7. RowsTyped'
      BY <1>16, <2>6 DEF CommitDrain, CommitOpenOrder, CommitOrderGone, CommitZeroFill, SnapshotRead,
         EntryVacuumCancelRequested, EntryVacuumOrderAbsenceConfirmed,
         EntryVacuumAbsenceConfirmed, Moves, Exchanges, IdleRecon, RowsTyped
  <2>8. VenueTyped'
      BY <1>16, <2>6 DEF CommitDrain, CommitOpenOrder, CommitOrderGone, CommitZeroFill, SnapshotRead,
         EntryVacuumCancelRequested, EntryVacuumOrderAbsenceConfirmed,
         EntryVacuumAbsenceConfirmed, Moves, Exchanges, IdleRecon, VenueTyped
  <2>9. QED
      BY <2>1, <2>2, <2>3, <2>4, <2>5, <2>7, <2>8 DEF Aggregates, RowsTyped, VenueTyped
<1>17. CASE CommitLateFill
  <2>1. agg' \in Aggregates
    <3>1. \/ agg' = agg
          \/ agg' = [status |-> "ENTRY_VACUUM_CANCELLED", qty |-> recon.qty, vacuumed |-> TRUE]
          \/ agg' = [status |-> "ENTRY_RECONCILED_ABSENT", qty |-> 0, vacuumed |-> TRUE]
      BY <1>17 DEF CommitLateFill, SnapshotRead, Contradicted, ExactlyAttributed,
         VacuumPostAbsenceNoFillVerified, VacuumLateFillAttributed, Moves, Exchanges,
         IdleRecon
    <3>2. agg \in Aggregates /\ agg.qty \in Quantities /\ recon.qty \in Quantities
          /\ agg.vacuumed \in BOOLEAN /\ 0 \in Quantities
      BY DEF Aggregates
    <3> HIDE DrainAssumption DEF IInv, TypeOK, Generations, Quantities, RowStatuses, Undecided,
             IncidentKinds, durable, venue, workers
    <3>3. QED
      BY <3>1, <3>2, RecordTyped, StatusTyped, Zenon
  <2>2. cancel' \in [Generations -> RowStatuses]
      BY <1>17 DEF CommitLateFill, SnapshotRead, Contradicted, ExactlyAttributed,
         VacuumPostAbsenceNoFillVerified, VacuumLateFillAttributed, Moves, Exchanges,
         IdleRecon
  <2>3. incidents' \subseteq IncidentKinds
    <3>1. \/ UNCHANGED incidents
          \/ incidents' = (incidents \ {"post_absence_contradiction"}) \cup {}
          BY <1>17 DEF CommitLateFill, VacuumPostAbsenceNoFillVerified, VacuumLateFillAttributed,
                       Exchanges
    <3> QED BY <3>1
  <2>4. canceller' \in [phase : {"idle", "claimed", "sent", "accepted", "refused", "missed"},
                        gen : Generations \cup {0}]
      BY <1>17 DEF CommitLateFill, SnapshotRead, Contradicted, ExactlyAttributed,
         VacuumPostAbsenceNoFillVerified, VacuumLateFillAttributed, Moves, Exchanges,
         IdleRecon
  <2>5. recon' \in [work : {"idle", "drain", "late", "normal"},
                    reads : {"none", "position", "orders", "position_first", "orders_first"},
                    qty : Quantities, orders : SUBSET {"entry", "foreign"}]
      BY <1>17 DEF CommitLateFill, SnapshotRead, Contradicted, ExactlyAttributed,
         VacuumPostAbsenceNoFillVerified, VacuumLateFillAttributed, Moves, Exchanges,
         IdleRecon
  <2>6. RowsTyped'
      BY <1>17 DEF CommitLateFill, SnapshotRead, Contradicted, ExactlyAttributed,
         VacuumPostAbsenceNoFillVerified, VacuumLateFillAttributed, Moves, Exchanges,
         IdleRecon, RowsTyped
  <2>7. VenueTyped'
      BY <1>17 DEF CommitLateFill, SnapshotRead, Contradicted, ExactlyAttributed,
         VacuumPostAbsenceNoFillVerified, VacuumLateFillAttributed, Moves, Exchanges,
         IdleRecon, VenueTyped
  <2>8. QED
      BY <2>1, <2>2, <2>3, <2>4, <2>5, <2>6, <2>7 DEF Aggregates, RowsTyped, VenueTyped
<1>18. CASE \E disposition \in Dispositions : CommitNormal(disposition)
  <2> PICK disposition \in Dispositions : CommitNormal(disposition)
      BY <1>18
  <2>1. agg' \in [status : Statuses, qty : Quantities, vacuumed : BOOLEAN]
      BY DEF CommitNormal, SnapshotRead, EntryFilled, Exchanges, IdleRecon, Dispositions
  <2>2. cancel' \in [Generations -> RowStatuses]
      BY DEF CommitNormal, SnapshotRead, EntryFilled, Exchanges, IdleRecon, Dispositions
  <2>3. incidents' \subseteq IncidentKinds
      BY DEF CommitNormal, SnapshotRead, EntryFilled, Exchanges, IdleRecon, Dispositions
  <2>4. canceller' \in [phase : {"idle", "claimed", "sent", "accepted", "refused", "missed"},
                        gen : Generations \cup {0}]
      BY DEF CommitNormal, SnapshotRead, EntryFilled, Exchanges, IdleRecon, Dispositions
  <2>5. recon' \in [work : {"idle", "drain", "late", "normal"},
                    reads : {"none", "position", "orders", "position_first", "orders_first"},
                    qty : Quantities, orders : SUBSET {"entry", "foreign"}]
      BY DEF CommitNormal, SnapshotRead, EntryFilled, Exchanges, IdleRecon, Dispositions
  <2>6. RowsTyped'
      BY DEF CommitNormal, SnapshotRead, EntryFilled, Exchanges, IdleRecon, Dispositions, RowsTyped
  <2>7. VenueTyped'
      BY DEF CommitNormal, SnapshotRead, EntryFilled, Exchanges, IdleRecon, Dispositions, VenueTyped
  <2>8. QED
      BY <2>1, <2>2, <2>3, <2>4, <2>5, <2>6, <2>7 DEF Aggregates, RowsTyped, VenueTyped
<1>19. CASE StartDraining
      BY <1>19 DEF StartDraining
<1>20. CASE SupersedePrepared
      BY <1>20 DEF SupersedePrepared, EntryVacuumSuperseded, Moves
<1>21. CASE CompleteDrain
      BY <1>21 DEF CompleteDrain
<1>22. CASE \E disposition \in Dispositions : Materialize(disposition)
  <2> PICK disposition \in Dispositions : Materialize(disposition)
      BY <1>22
  <2>1. agg' \in Aggregates
    <3>1. \/ agg' = [status |-> "PROTECTION_PENDING", qty |-> agg.qty, vacuumed |-> TRUE]
          \/ agg' = [status |-> "PROTECTION_PENDING", qty |-> agg.qty, vacuumed |-> agg.vacuumed]
          \/ agg' = [status |-> "CONTROLLED_FLATTEN_PENDING", qty |-> agg.qty, vacuumed |-> TRUE]
          \/ agg' = [status |-> "CONTROLLED_FLATTEN_PENDING", qty |-> agg.qty, vacuumed |-> agg.vacuumed]
      BY DEF Materialize, EntryFilled, VacuumPartialRetained,
         VacuumPartialFlattenRequired, Moves, Exchanges, TwoLegs
    <3>2. agg \in Aggregates /\ agg.qty \in Quantities /\ recon.qty \in Quantities
          /\ agg.vacuumed \in BOOLEAN /\ 0 \in Quantities
      BY DEF Aggregates
    <3> HIDE DrainAssumption DEF IInv, TypeOK, Generations, Quantities, RowStatuses, Undecided,
             IncidentKinds, durable, venue, workers
    <3>3. QED
      BY <3>1, <3>2, RecordTyped, StatusTyped, Zenon
  <2>2. cancel' \in [Generations -> RowStatuses]
      BY DEF Materialize, EntryFilled, VacuumPartialRetained,
         VacuumPartialFlattenRequired, Moves, Exchanges, TwoLegs
  <2>3. incidents' \subseteq IncidentKinds
      BY DEF Materialize, EntryFilled, VacuumPartialRetained,
         VacuumPartialFlattenRequired, Moves, Exchanges, TwoLegs
  <2>4. canceller' \in [phase : {"idle", "claimed", "sent", "accepted", "refused", "missed"},
                        gen : Generations \cup {0}]
      BY DEF Materialize, EntryFilled, VacuumPartialRetained,
         VacuumPartialFlattenRequired, Moves, Exchanges, TwoLegs
  <2>5. recon' \in [work : {"idle", "drain", "late", "normal"},
                    reads : {"none", "position", "orders", "position_first", "orders_first"},
                    qty : Quantities, orders : SUBSET {"entry", "foreign"}]
      BY DEF Materialize, EntryFilled, VacuumPartialRetained,
         VacuumPartialFlattenRequired, Moves, Exchanges, TwoLegs
  <2>6. RowsTyped'
      BY DEF Materialize, EntryFilled, VacuumPartialRetained, VacuumPartialFlattenRequired,
         Moves, Exchanges, TwoLegs, RowsTyped
  <2>7. VenueTyped'
      BY DEF Materialize, EntryFilled, VacuumPartialRetained, VacuumPartialFlattenRequired,
         Moves, Exchanges, TwoLegs, VenueTyped
  <2>8. QED
      BY <2>1, <2>2, <2>3, <2>4, <2>5, <2>6, <2>7 DEF Aggregates, RowsTyped, VenueTyped
<1>23. CASE \E fate \in {"live", "refused", "lost"} : EntryArrives(fate)
      BY <1>23 DEF EntryArrives, Fault
<1>24. CASE \E g \in Generations : CancelArrives(g)
      BY <1>24 DEF CancelArrives, Fault, Answered
<1>25. CASE OrderFills
  <2>1. agg' \in [status : Statuses, qty : Quantities, vacuumed : BOOLEAN]
      BY <1>25 DEF OrderFills
  <2>2. cancel' \in [Generations -> RowStatuses]
      BY <1>25 DEF OrderFills
  <2>3. incidents' \subseteq IncidentKinds
      BY <1>25 DEF OrderFills
  <2>4. canceller' \in [phase : {"idle", "claimed", "sent", "accepted", "refused", "missed"},
                        gen : Generations \cup {0}]
      BY <1>25 DEF OrderFills
  <2>5. recon' \in [work : {"idle", "drain", "late", "normal"},
                    reads : {"none", "position", "orders", "position_first", "orders_first"},
                    qty : Quantities, orders : SUBSET {"entry", "foreign"}]
      BY <1>25 DEF OrderFills
  <2>6. filled' \in Quantities /\ order' \in {"live", "dead"}
      BY <1>25 DEF OrderFills, FillLedger
  <2>7. RowsTyped'
      BY <1>25, <2>6 DEF OrderFills, RowsTyped
  <2>8. VenueTyped'
      BY <1>25, <2>6 DEF OrderFills, VenueTyped
  <2>9. QED
      BY <2>1, <2>2, <2>3, <2>4, <2>5, <2>7, <2>8 DEF Aggregates, RowsTyped, VenueTyped
<1>26. CASE RetryLateFill
  <2>1. agg' \in [status : Statuses, qty : Quantities, vacuumed : BOOLEAN]
      BY <1>26 DEF RetryLateFill
  <2>2. cancel' \in [Generations -> RowStatuses]
      BY <1>26 DEF RetryLateFill
  <2>3. incidents' \subseteq IncidentKinds
      BY <1>26 DEF RetryLateFill
  <2>4. canceller' \in [phase : {"idle", "claimed", "sent", "accepted", "refused", "missed"},
                        gen : Generations \cup {0}]
      BY <1>26 DEF RetryLateFill
  <2>5. recon' \in [work : {"idle", "drain", "late", "normal"},
                    reads : {"none", "position", "orders", "position_first", "orders_first"},
                    qty : Quantities, orders : SUBSET {"entry", "foreign"}]
      BY <1>26 DEF RetryLateFill
  <2>6. waiting' \in BOOLEAN
      BY <1>26 DEF RetryLateFill
  <2>7. RowsTyped'
      BY <1>26, <2>6 DEF RetryLateFill, RowsTyped
  <2>8. VenueTyped'
      BY <1>26, <2>6 DEF RetryLateFill, VenueTyped
  <2>9. QED
      BY <2>1, <2>2, <2>3, <2>4, <2>5, <2>7, <2>8 DEF Aggregates, RowsTyped, VenueTyped
<1>27. CASE EntryWorkerCrashes
      BY <1>27 DEF EntryWorkerCrashes, Fault
<1>28. CASE LifecycleWorkerCrashes
      BY <1>28 DEF LifecycleWorkerCrashes, Fault, IdleCanceller
<1>29. CASE ReadFails
      BY <1>29 DEF ReadFails, Fault, IdleRecon
<1>30. CASE ForeignOrderAppears
      BY <1>30 DEF ForeignOrderAppears
<1>31. CASE ForeignOrderLeaves
  <2>1. agg' \in [status : Statuses, qty : Quantities, vacuumed : BOOLEAN]
      BY <1>31 DEF ForeignOrderLeaves
  <2>2. cancel' \in [Generations -> RowStatuses]
      BY <1>31 DEF ForeignOrderLeaves
  <2>3. incidents' \subseteq IncidentKinds
      BY <1>31 DEF ForeignOrderLeaves
  <2>4. canceller' \in [phase : {"idle", "claimed", "sent", "accepted", "refused", "missed"},
                        gen : Generations \cup {0}]
      BY <1>31 DEF ForeignOrderLeaves
  <2>5. recon' \in [work : {"idle", "drain", "late", "normal"},
                    reads : {"none", "position", "orders", "position_first", "orders_first"},
                    qty : Quantities, orders : SUBSET {"entry", "foreign"}]
      BY <1>31 DEF ForeignOrderLeaves
  <2>6. foreign' \in [seen : 0 .. MaxForeign, open : BOOLEAN]
      BY <1>31 DEF ForeignOrderLeaves
  <2>7. RowsTyped'
      BY <1>31, <2>6 DEF ForeignOrderLeaves, RowsTyped
  <2>8. VenueTyped'
      BY <1>31, <2>6 DEF ForeignOrderLeaves, VenueTyped
  <2>9. QED
      BY <2>1, <2>2, <2>3, <2>4, <2>5, <2>7, <2>8 DEF Aggregates, RowsTyped, VenueTyped
<1>32. CASE LifecycleGoesOn
      BY <1>32 DEF LifecycleGoesOn
<1>33. CASE EntryDeadlinePasses
      BY <1>33 DEF EntryDeadlinePasses
<1>34. CASE \E g \in Generations : CancelDeadlinePasses(g)
      BY <1>34 DEF CancelDeadlinePasses
<1>35. CASE \E state \in {"OPEN", "DRAINING_ENTRY"} : OpenVacuum(state)
      BY <1>35 DEF OpenVacuum
<1>36. CASE UNCHANGED vars
      BY <1>36 DEF vars
<1>37. QED
      BY <1>1, <1>2, <1>3, <1>4, <1>5, <1>6, <1>7, <1>8, <1>9, <1>10, <1>11, <1>12, <1>13,
         <1>14, <1>15, <1>16, <1>17, <1>18, <1>19, <1>20, <1>21, <1>22, <1>23, <1>24,
         <1>25, <1>26, <1>27, <1>28, <1>29, <1>30, <1>31, <1>32, <1>33, <1>34, <1>35, <1>36
      DEF Next, EntryWorkerNext, LifecycleWorkerNext, ReconciliationNext, SelectionNext,
         VenueNext

LEMMA EntryStep ==
    ASSUME IInv, [Next]_vars PROVE EntryLedger'
<1> USE DrainAssumption DEF IInv, TypeOK, EntryLedger, Generations, Quantities,
        RowStatuses, Undecided, IncidentKinds, Statuses, EntryStatuses, ClosedStatuses,
        CancelStatuses, HandedOnStatuses, durable, venue, workers
<1>1. CASE ClaimEntry
      BY <1>1 DEF ClaimEntry, EntryVacuumSuperseded, Moves
<1>2. CASE PreflightPasses
      BY <1>2 DEF PreflightPasses
<1>3. CASE PreflightRefuses
      BY <1>3 DEF PreflightRefuses, EntryVacuumSuperseded, Moves
<1>4. CASE SendEntry
      BY <1>4 DEF SendEntry
<1>5. CASE \E result \in {"ACCEPTED", "REJECTED", "OUTCOME_UNKNOWN"} : RecordEntry(result)
  <2> PICK result \in {"ACCEPTED", "REJECTED", "OUTCOME_UNKNOWN"} : RecordEntry(result)
      BY <1>5
  <2>1. /\ sender = "sent" /\ sender' = "idle" /\ entry' = result /\ UNCHANGED <<order, canceller>>
        /\ entry = "CLAIMED" /\ agg.status = "ENTRY_PENDING" /\ ~agg.vacuumed
      BY DEF RecordEntry
  <2>2. \/ /\ result = "ACCEPTED" /\ agg' = [agg EXCEPT !.status = "ENTRY_ACCEPTED"]
        \/ /\ result = "REJECTED" /\ agg' = [agg EXCEPT !.status = "ENTRY_REJECTED"]
        \/ /\ result = "OUTCOME_UNKNOWN" /\ agg' = [agg EXCEPT !.status = "ENTRY_OUTCOME_UNKNOWN"]
      BY DEF RecordEntry
  <2>3. agg'.vacuumed = agg.vacuumed
      BY <2>2 DEF Aggregates
  <2>4. \/ result = "ACCEPTED" /\ agg'.status = "ENTRY_ACCEPTED"
        \/ result = "REJECTED" /\ agg'.status = "ENTRY_REJECTED"
        \/ result = "OUTCOME_UNKNOWN" /\ agg'.status = "ENTRY_OUTCOME_UNKNOWN"
      BY <2>2 DEF Aggregates
  <2> QED BY <2>1, <2>3, <2>4
<1>6. CASE ExpireEntryClaim
      BY <1>6 DEF ExpireEntryClaim
<1>7. CASE SendCancel
      BY <1>7 DEF SendCancel
<1>8. CASE \E g \in Generations : ClaimCancel(g)
      BY <1>8 DEF ClaimCancel
<1>9. CASE \E g \in Generations : ExpireCancelClaim(g)
      BY <1>9 DEF ExpireCancelClaim, EntryVacuumCancelOutcomeUnknown, Exchanges
<1>10. CASE \E result \in {"ACCEPTED", "REJECTED", "OUTCOME_UNKNOWN"} : RecordCancel(result)
      BY <1>10 DEF RecordCancel, Fault, EntryVacuumCancelConfirmed,
         EntryVacuumCancelRejected, EntryVacuumCancelOutcomeUnknown, Exchanges,
         IdleCanceller
<1>11. CASE RecoverEntry
      BY <1>11 DEF RecoverEntry
<1>12. CASE \E g \in Generations : RecoverCancel(g)
      BY <1>12 DEF RecoverCancel, EntryVacuumCancelConfirmed, EntryVacuumCancelRejected,
         Exchanges
<1>13. CASE \E work \in {"drain", "late", "normal"} : BeginReads(work)
      BY <1>13 DEF BeginReads, IdleRecon, DrainsByFacts, Contradicted
<1>14. CASE ReadPosition
      BY <1>14 DEF ReadPosition
<1>15. CASE ReadOrders
      BY <1>15 DEF ReadOrders, OpenOrders
<1>16. CASE CommitDrain
      BY <1>16 DEF CommitDrain, CommitOpenOrder, CommitOrderGone, CommitZeroFill,
         SnapshotRead, EntryVacuumCancelRequested, EntryVacuumOrderAbsenceConfirmed,
         EntryVacuumAbsenceConfirmed, Moves, Exchanges, IdleRecon
<1>17. CASE CommitLateFill
      BY <1>17 DEF CommitLateFill, SnapshotRead, Contradicted, ExactlyAttributed,
         VacuumPostAbsenceNoFillVerified, VacuumLateFillAttributed, Moves, Exchanges,
         IdleRecon
<1>18. CASE \E disposition \in Dispositions : CommitNormal(disposition)
      BY <1>18 DEF CommitNormal, SnapshotRead, EntryFilled, Exchanges, IdleRecon, Dispositions
<1>19. CASE StartDraining
      BY <1>19 DEF StartDraining
<1>20. CASE SupersedePrepared
      BY <1>20 DEF SupersedePrepared, EntryVacuumSuperseded, Moves
<1>21. CASE CompleteDrain
      BY <1>21 DEF CompleteDrain
<1>22. CASE \E disposition \in Dispositions : Materialize(disposition)
      BY <1>22 DEF Materialize, EntryFilled, VacuumPartialRetained,
         VacuumPartialFlattenRequired, Moves, Exchanges, TwoLegs
<1>23. CASE \E fate \in {"live", "refused", "lost"} : EntryArrives(fate)
      BY <1>23 DEF EntryArrives, Fault
<1>24. CASE \E g \in Generations : CancelArrives(g)
      BY <1>24 DEF CancelArrives, Fault, Answered
<1>25. CASE OrderFills
      BY <1>25 DEF OrderFills
<1>26. CASE RetryLateFill
      BY <1>26 DEF RetryLateFill
<1>27. CASE EntryWorkerCrashes
      BY <1>27 DEF EntryWorkerCrashes, Fault
<1>28. CASE LifecycleWorkerCrashes
      BY <1>28 DEF LifecycleWorkerCrashes, Fault, IdleCanceller
<1>29. CASE ReadFails
      BY <1>29 DEF ReadFails, Fault, IdleRecon
<1>30. CASE ForeignOrderAppears
      BY <1>30 DEF ForeignOrderAppears
<1>31. CASE ForeignOrderLeaves
      BY <1>31 DEF ForeignOrderLeaves
<1>32. CASE LifecycleGoesOn
      BY <1>32 DEF LifecycleGoesOn
<1>33. CASE EntryDeadlinePasses
      BY <1>33 DEF EntryDeadlinePasses
<1>34. CASE \E g \in Generations : CancelDeadlinePasses(g)
      BY <1>34 DEF CancelDeadlinePasses
<1>35. CASE \E state \in {"OPEN", "DRAINING_ENTRY"} : OpenVacuum(state)
      BY <1>35 DEF OpenVacuum
<1>36. CASE UNCHANGED vars
      BY <1>36 DEF vars
<1>37. QED
      BY <1>1, <1>2, <1>3, <1>4, <1>5, <1>6, <1>7, <1>8, <1>9, <1>10, <1>11, <1>12, <1>13,
         <1>14, <1>15, <1>16, <1>17, <1>18, <1>19, <1>20, <1>21, <1>22, <1>23, <1>24,
         <1>25, <1>26, <1>27, <1>28, <1>29, <1>30, <1>31, <1>32, <1>33, <1>34, <1>35, <1>36
      DEF Next, EntryWorkerNext, LifecycleWorkerNext, ReconciliationNext, SelectionNext,
         VenueNext

LEMMA FillStep ==
    ASSUME IInv, [Next]_vars PROVE FillLedger'
<1> USE DrainAssumption DEF IInv, TypeOK, EntryLedger, FillLedger, SnapshotIsSound,
        Generations, Quantities, RowStatuses, Undecided, IncidentKinds, Statuses,
        EntryStatuses, ClosedStatuses, CancelStatuses, HandedOnStatuses, durable, venue,
        workers
<1>1. CASE ClaimEntry
      BY <1>1 DEF ClaimEntry, EntryVacuumSuperseded, Moves
<1>2. CASE PreflightPasses
      BY <1>2 DEF PreflightPasses
<1>3. CASE PreflightRefuses
      BY <1>3 DEF PreflightRefuses, EntryVacuumSuperseded, Moves
<1>4. CASE SendEntry
      BY <1>4 DEF SendEntry
<1>5. CASE \E result \in {"ACCEPTED", "REJECTED", "OUTCOME_UNKNOWN"} : RecordEntry(result)
      BY <1>5 DEF RecordEntry, Fault
<1>6. CASE ExpireEntryClaim
      BY <1>6 DEF ExpireEntryClaim
<1>7. CASE SendCancel
      BY <1>7 DEF SendCancel
<1>8. CASE \E g \in Generations : ClaimCancel(g)
      BY <1>8 DEF ClaimCancel
<1>9. CASE \E g \in Generations : ExpireCancelClaim(g)
      BY <1>9 DEF ExpireCancelClaim, EntryVacuumCancelOutcomeUnknown, Exchanges
<1>10. CASE \E result \in {"ACCEPTED", "REJECTED", "OUTCOME_UNKNOWN"} : RecordCancel(result)
      BY <1>10 DEF RecordCancel, Fault, EntryVacuumCancelConfirmed,
         EntryVacuumCancelRejected, EntryVacuumCancelOutcomeUnknown, Exchanges,
         IdleCanceller
<1>11. CASE RecoverEntry
      BY <1>11 DEF RecoverEntry
<1>12. CASE \E g \in Generations : RecoverCancel(g)
      BY <1>12 DEF RecoverCancel, EntryVacuumCancelConfirmed, EntryVacuumCancelRejected,
         Exchanges
<1>13. CASE \E work \in {"drain", "late", "normal"} : BeginReads(work)
      BY <1>13 DEF BeginReads, IdleRecon, DrainsByFacts, Contradicted
<1>14. CASE ReadPosition
      BY <1>14 DEF ReadPosition
<1>15. CASE ReadOrders
      BY <1>15 DEF ReadOrders, OpenOrders
<1>16. CASE CommitDrain
  <2>1. CASE CommitOpenOrder
      BY <1>16, <2>1 DEF CommitDrain, CommitOpenOrder, EntryVacuumCancelRequested,
         SnapshotRead, Moves, Exchanges
  <2>2. CASE CommitOrderGone
      BY <1>16, <2>2 DEF CommitDrain, CommitOrderGone, EntryVacuumOrderAbsenceConfirmed,
         SnapshotRead, Moves, Exchanges
  <2>3. CASE CommitZeroFill
      BY <1>16, <2>3 DEF CommitDrain, CommitZeroFill, EntryVacuumAbsenceConfirmed,
         SnapshotRead, Moves, Exchanges
  <2>4. QED
      BY <1>16, <2>1, <2>2, <2>3 DEF CommitDrain
<1>17. CASE CommitLateFill
      BY <1>17 DEF CommitLateFill, SnapshotRead, Contradicted, ExactlyAttributed,
         VacuumPostAbsenceNoFillVerified, VacuumLateFillAttributed, Moves, Exchanges,
         IdleRecon
<1>18. CASE \E disposition \in Dispositions : CommitNormal(disposition)
      BY <1>18 DEF CommitNormal, SnapshotRead, EntryFilled, Exchanges, IdleRecon, Dispositions
<1>19. CASE StartDraining
      BY <1>19 DEF StartDraining
<1>20. CASE SupersedePrepared
      BY <1>20 DEF SupersedePrepared, EntryVacuumSuperseded, Moves
<1>21. CASE CompleteDrain
      BY <1>21 DEF CompleteDrain
<1>22. CASE \E disposition \in Dispositions : Materialize(disposition)
      BY <1>22 DEF Materialize, EntryFilled, VacuumPartialRetained,
         VacuumPartialFlattenRequired, Moves, Exchanges, TwoLegs
<1>23. CASE \E fate \in {"live", "refused", "lost"} : EntryArrives(fate)
      BY <1>23 DEF EntryArrives, Fault
<1>24. CASE \E g \in Generations : CancelArrives(g)
      BY <1>24 DEF CancelArrives, Fault, Answered
<1>25. CASE OrderFills
      BY <1>25 DEF OrderFills
<1>26. CASE RetryLateFill
      BY <1>26 DEF RetryLateFill
<1>27. CASE EntryWorkerCrashes
      BY <1>27 DEF EntryWorkerCrashes, Fault
<1>28. CASE LifecycleWorkerCrashes
      BY <1>28 DEF LifecycleWorkerCrashes, Fault, IdleCanceller
<1>29. CASE ReadFails
      BY <1>29 DEF ReadFails, Fault, IdleRecon
<1>30. CASE ForeignOrderAppears
      BY <1>30 DEF ForeignOrderAppears
<1>31. CASE ForeignOrderLeaves
      BY <1>31 DEF ForeignOrderLeaves
<1>32. CASE LifecycleGoesOn
      BY <1>32 DEF LifecycleGoesOn
<1>33. CASE EntryDeadlinePasses
      BY <1>33 DEF EntryDeadlinePasses
<1>34. CASE \E g \in Generations : CancelDeadlinePasses(g)
      BY <1>34 DEF CancelDeadlinePasses
<1>35. CASE \E state \in {"OPEN", "DRAINING_ENTRY"} : OpenVacuum(state)
      BY <1>35 DEF OpenVacuum
<1>36. CASE UNCHANGED vars
      BY <1>36 DEF vars
<1>37. QED
      BY <1>1, <1>2, <1>3, <1>4, <1>5, <1>6, <1>7, <1>8, <1>9, <1>10, <1>11, <1>12, <1>13,
         <1>14, <1>15, <1>16, <1>17, <1>18, <1>19, <1>20, <1>21, <1>22, <1>23, <1>24,
         <1>25, <1>26, <1>27, <1>28, <1>29, <1>30, <1>31, <1>32, <1>33, <1>34, <1>35, <1>36
      DEF Next, EntryWorkerNext, LifecycleWorkerNext, ReconciliationNext, SelectionNext,
         VenueNext

LEMMA SnapshotStep ==
    ASSUME IInv, [Next]_vars PROVE SnapshotIsSound'
<1> USE DrainAssumption DEF IInv, TypeOK, EntryLedger, FillLedger, SnapshotIsSound,
        Generations, Quantities, RowStatuses, Undecided, IncidentKinds, Statuses,
        EntryStatuses, ClosedStatuses, CancelStatuses, HandedOnStatuses, durable, venue,
        workers
<1>1. CASE ClaimEntry
      BY <1>1 DEF ClaimEntry, EntryVacuumSuperseded, Moves
<1>2. CASE PreflightPasses
      BY <1>2 DEF PreflightPasses
<1>3. CASE PreflightRefuses
      BY <1>3 DEF PreflightRefuses, EntryVacuumSuperseded, Moves
<1>4. CASE SendEntry
      BY <1>4 DEF SendEntry
<1>5. CASE \E result \in {"ACCEPTED", "REJECTED", "OUTCOME_UNKNOWN"} : RecordEntry(result)
      BY <1>5 DEF RecordEntry, Fault
<1>6. CASE ExpireEntryClaim
      BY <1>6 DEF ExpireEntryClaim
<1>7. CASE SendCancel
      BY <1>7 DEF SendCancel
<1>8. CASE \E g \in Generations : ClaimCancel(g)
      BY <1>8 DEF ClaimCancel
<1>9. CASE \E g \in Generations : ExpireCancelClaim(g)
      BY <1>9 DEF ExpireCancelClaim, EntryVacuumCancelOutcomeUnknown, Exchanges
<1>10. CASE \E result \in {"ACCEPTED", "REJECTED", "OUTCOME_UNKNOWN"} : RecordCancel(result)
      BY <1>10 DEF RecordCancel, Fault, EntryVacuumCancelConfirmed,
         EntryVacuumCancelRejected, EntryVacuumCancelOutcomeUnknown, Exchanges,
         IdleCanceller
<1>11. CASE RecoverEntry
      BY <1>11 DEF RecoverEntry
<1>12. CASE \E g \in Generations : RecoverCancel(g)
      BY <1>12 DEF RecoverCancel, EntryVacuumCancelConfirmed, EntryVacuumCancelRejected,
         Exchanges
<1>13. CASE \E work \in {"drain", "late", "normal"} : BeginReads(work)
      BY <1>13 DEF BeginReads, IdleRecon, DrainsByFacts, Contradicted
<1>14. CASE ReadPosition
      BY <1>14 DEF ReadPosition
<1>15. CASE ReadOrders
      BY <1>15 DEF ReadOrders, OpenOrders
<1>16. CASE CommitDrain
      BY <1>16 DEF CommitDrain, CommitOpenOrder, CommitOrderGone, CommitZeroFill,
         SnapshotRead, EntryVacuumCancelRequested, EntryVacuumOrderAbsenceConfirmed,
         EntryVacuumAbsenceConfirmed, Moves, Exchanges, IdleRecon
<1>17. CASE CommitLateFill
      BY <1>17 DEF CommitLateFill, SnapshotRead, Contradicted, ExactlyAttributed,
         VacuumPostAbsenceNoFillVerified, VacuumLateFillAttributed, Moves, Exchanges,
         IdleRecon
<1>18. CASE \E disposition \in Dispositions : CommitNormal(disposition)
      BY <1>18 DEF CommitNormal, SnapshotRead, EntryFilled, Exchanges, IdleRecon, Dispositions
<1>19. CASE StartDraining
      BY <1>19 DEF StartDraining
<1>20. CASE SupersedePrepared
      BY <1>20 DEF SupersedePrepared, EntryVacuumSuperseded, Moves
<1>21. CASE CompleteDrain
      BY <1>21 DEF CompleteDrain
<1>22. CASE \E disposition \in Dispositions : Materialize(disposition)
      BY <1>22 DEF Materialize, EntryFilled, VacuumPartialRetained,
         VacuumPartialFlattenRequired, Moves, Exchanges, TwoLegs
<1>23. CASE \E fate \in {"live", "refused", "lost"} : EntryArrives(fate)
      BY <1>23 DEF EntryArrives, Fault
<1>24. CASE \E g \in Generations : CancelArrives(g)
      BY <1>24 DEF CancelArrives, Fault, Answered
<1>25. CASE OrderFills
      BY <1>25 DEF OrderFills
<1>26. CASE RetryLateFill
      BY <1>26 DEF RetryLateFill
<1>27. CASE EntryWorkerCrashes
      BY <1>27 DEF EntryWorkerCrashes, Fault
<1>28. CASE LifecycleWorkerCrashes
      BY <1>28 DEF LifecycleWorkerCrashes, Fault, IdleCanceller
<1>29. CASE ReadFails
      BY <1>29 DEF ReadFails, Fault, IdleRecon
<1>30. CASE ForeignOrderAppears
      BY <1>30 DEF ForeignOrderAppears
<1>31. CASE ForeignOrderLeaves
      BY <1>31 DEF ForeignOrderLeaves
<1>32. CASE LifecycleGoesOn
      BY <1>32 DEF LifecycleGoesOn
<1>33. CASE EntryDeadlinePasses
      BY <1>33 DEF EntryDeadlinePasses
<1>34. CASE \E g \in Generations : CancelDeadlinePasses(g)
      BY <1>34 DEF CancelDeadlinePasses
<1>35. CASE \E state \in {"OPEN", "DRAINING_ENTRY"} : OpenVacuum(state)
      BY <1>35 DEF OpenVacuum
<1>36. CASE UNCHANGED vars
      BY <1>36 DEF vars
<1>37. QED
      BY <1>1, <1>2, <1>3, <1>4, <1>5, <1>6, <1>7, <1>8, <1>9, <1>10, <1>11, <1>12, <1>13,
         <1>14, <1>15, <1>16, <1>17, <1>18, <1>19, <1>20, <1>21, <1>22, <1>23, <1>24,
         <1>25, <1>26, <1>27, <1>28, <1>29, <1>30, <1>31, <1>32, <1>33, <1>34, <1>35, <1>36
      DEF Next, EntryWorkerNext, LifecycleWorkerNext, ReconciliationNext, SelectionNext,
         VenueNext

LEMMA HandedStep ==
    ASSUME IInv, [Next]_vars PROVE HandedQuantityIsReal'
<1> USE DrainAssumption DEF IInv, TypeOK, EntryLedger, FillLedger, HandedQuantityIsReal,
        Generations, Quantities, RowStatuses, Undecided, IncidentKinds, Statuses,
        EntryStatuses, ClosedStatuses, CancelStatuses, HandedOnStatuses, durable, venue,
        workers
<1>1. CASE ClaimEntry
      BY <1>1 DEF ClaimEntry, EntryVacuumSuperseded, Moves
<1>2. CASE PreflightPasses
      BY <1>2 DEF PreflightPasses
<1>3. CASE PreflightRefuses
      BY <1>3 DEF PreflightRefuses, EntryVacuumSuperseded, Moves
<1>4. CASE SendEntry
      BY <1>4 DEF SendEntry
<1>5. CASE \E result \in {"ACCEPTED", "REJECTED", "OUTCOME_UNKNOWN"} : RecordEntry(result)
      BY <1>5 DEF RecordEntry, Fault
<1>6. CASE ExpireEntryClaim
      BY <1>6 DEF ExpireEntryClaim
<1>7. CASE SendCancel
      BY <1>7 DEF SendCancel
<1>8. CASE \E g \in Generations : ClaimCancel(g)
      BY <1>8 DEF ClaimCancel
<1>9. CASE \E g \in Generations : ExpireCancelClaim(g)
      BY <1>9 DEF ExpireCancelClaim, EntryVacuumCancelOutcomeUnknown, Exchanges
<1>10. CASE \E result \in {"ACCEPTED", "REJECTED", "OUTCOME_UNKNOWN"} : RecordCancel(result)
      BY <1>10 DEF RecordCancel, Fault, EntryVacuumCancelConfirmed,
         EntryVacuumCancelRejected, EntryVacuumCancelOutcomeUnknown, Exchanges,
         IdleCanceller
<1>11. CASE RecoverEntry
      BY <1>11 DEF RecoverEntry
<1>12. CASE \E g \in Generations : RecoverCancel(g)
      BY <1>12 DEF RecoverCancel, EntryVacuumCancelConfirmed, EntryVacuumCancelRejected,
         Exchanges
<1>13. CASE \E work \in {"drain", "late", "normal"} : BeginReads(work)
      BY <1>13 DEF BeginReads, IdleRecon, DrainsByFacts, Contradicted
<1>14. CASE ReadPosition
      BY <1>14 DEF ReadPosition
<1>15. CASE ReadOrders
      BY <1>15 DEF ReadOrders, OpenOrders
<1>16. CASE CommitDrain
      BY <1>16 DEF CommitDrain, CommitOpenOrder, CommitOrderGone, CommitZeroFill,
         SnapshotRead, EntryVacuumCancelRequested, EntryVacuumOrderAbsenceConfirmed,
         EntryVacuumAbsenceConfirmed, Moves, Exchanges, IdleRecon
<1>17. CASE CommitLateFill
      BY <1>17 DEF CommitLateFill, SnapshotRead, Contradicted, ExactlyAttributed,
         VacuumPostAbsenceNoFillVerified, VacuumLateFillAttributed, Moves, Exchanges,
         IdleRecon
<1>18. CASE \E disposition \in Dispositions : CommitNormal(disposition)
      BY <1>18 DEF CommitNormal, SnapshotRead, EntryFilled, Exchanges, IdleRecon, Dispositions
<1>19. CASE StartDraining
      BY <1>19 DEF StartDraining
<1>20. CASE SupersedePrepared
      BY <1>20 DEF SupersedePrepared, EntryVacuumSuperseded, Moves
<1>21. CASE CompleteDrain
      BY <1>21 DEF CompleteDrain
<1>22. CASE \E disposition \in Dispositions : Materialize(disposition)
      BY <1>22 DEF Materialize, EntryFilled, VacuumPartialRetained,
         VacuumPartialFlattenRequired, Moves, Exchanges, TwoLegs
<1>23. CASE \E fate \in {"live", "refused", "lost"} : EntryArrives(fate)
      BY <1>23 DEF EntryArrives, Fault
<1>24. CASE \E g \in Generations : CancelArrives(g)
      BY <1>24 DEF CancelArrives, Fault, Answered
<1>25. CASE OrderFills
      BY <1>25 DEF OrderFills
<1>26. CASE RetryLateFill
      BY <1>26 DEF RetryLateFill
<1>27. CASE EntryWorkerCrashes
      BY <1>27 DEF EntryWorkerCrashes, Fault
<1>28. CASE LifecycleWorkerCrashes
      BY <1>28 DEF LifecycleWorkerCrashes, Fault, IdleCanceller
<1>29. CASE ReadFails
      BY <1>29 DEF ReadFails, Fault, IdleRecon
<1>30. CASE ForeignOrderAppears
      BY <1>30 DEF ForeignOrderAppears
<1>31. CASE ForeignOrderLeaves
      BY <1>31 DEF ForeignOrderLeaves
<1>32. CASE LifecycleGoesOn
      BY <1>32 DEF LifecycleGoesOn
<1>33. CASE EntryDeadlinePasses
      BY <1>33 DEF EntryDeadlinePasses
<1>34. CASE \E g \in Generations : CancelDeadlinePasses(g)
      BY <1>34 DEF CancelDeadlinePasses
<1>35. CASE \E state \in {"OPEN", "DRAINING_ENTRY"} : OpenVacuum(state)
      BY <1>35 DEF OpenVacuum
<1>36. CASE UNCHANGED vars
      BY <1>36 DEF vars
<1>37. QED
      BY <1>1, <1>2, <1>3, <1>4, <1>5, <1>6, <1>7, <1>8, <1>9, <1>10, <1>11, <1>12, <1>13,
         <1>14, <1>15, <1>16, <1>17, <1>18, <1>19, <1>20, <1>21, <1>22, <1>23, <1>24,
         <1>25, <1>26, <1>27, <1>28, <1>29, <1>30, <1>31, <1>32, <1>33, <1>34, <1>35, <1>36
      DEF Next, EntryWorkerNext, LifecycleWorkerNext, ReconciliationNext, SelectionNext,
         VenueNext

LEMMA InitInv == Init => IInv
<1> SUFFICES ASSUME Init PROVE IInv
    OBVIOUS
<1> USE DEF Init
<1>1. TypeOK
  <2>1. cancel \in [Generations -> RowStatuses]
      BY DEF RowStatuses
  <2>2. 0 \in Quantities
      BY DrainAssumption DEF Quantities
  <2>3. agg \in Aggregates
      BY <2>2, RecordTyped, Zenon DEF Statuses, EntryStatuses
  <2>4. waiting \in BOOLEAN /\ torn \in BOOLEAN
      OBVIOUS
  <2>5. foreign \in [seen : 0 .. MaxForeign, open : BOOLEAN]
      BY DrainAssumption
  <2>6. QED
      BY <2>1, <2>2, <2>3, <2>4, <2>5, DrainAssumption
      DEF TypeOK, Aggregates, RowStatuses, IdleCanceller, IdleRecon
<1>2. EntryLedger /\ FillLedger /\ SnapshotIsSound /\ HandedQuantityIsReal
      BY DrainAssumption
      DEF EntryLedger, FillLedger, SnapshotIsSound, HandedQuantityIsReal, EntryStatuses,
         ClosedStatuses, CancelStatuses, HandedOnStatuses, IdleRecon, IdleCanceller
<1>3. QED
      BY <1>1, <1>2 DEF IInv

-----------------------------------------------------------------------------
(* The results.                                                            *)

\* What the ENTRY row, the workers, the Reconciliation worker's reads and the Ticket hold
\* agrees with the venue in every reachable state of the drain.
THEOREM Invariance == Spec => []IInv
<1>1. Init => IInv
      BY InitInv
<1>2. IInv /\ [Next]_vars => IInv'
      BY TypeStep, EntryStep, FillStep, SnapshotStep, HandedStep DEF IInv
<1>3. QED
      BY <1>1, <1>2, PTL DEF Spec

\* A Ticket closed without exposure has none and can get none (FillsAreKept): neither the
\* preflight, unknown recovery nor the two snapshots of a zero fill lose a fill.
THEOREM NoFillIsLost == Spec => []FillsAreKept
<1>1. IInv => FillsAreKept
      BY DEF IInv, EntryLedger, FillLedger, FillsAreKept, ClosedStatuses
<1>2. QED
      BY <1>1, Invariance, PTL

\* The Initial Stop or flatten of a drained Ticket is for a real quantity of a finished
\* ENTRY order, and for all of it unless the deciding snapshot was torn
\* (HandedQuantityIsReal).
THEOREM HandedOnExactly == Spec => []HandedQuantityIsReal
<1>1. IInv => HandedQuantityIsReal
      BY DEF IInv
<1>2. QED
      BY <1>1, Invariance, PTL

=============================================================================
