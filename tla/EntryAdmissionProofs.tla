------------------------ MODULE EntryAdmissionProofs ------------------------
(***************************************************************************)
(* Theorems about EntryAdmission, for any signals, scopes, netting domains, *)
(* limits, wallets, gates and crashes: an ENTRY that leaves fits the wallet *)
(* and the limit of Tickets, a netting domain is one Ticket's, and every    *)
(* Ticket keeps the contract TicketLife states.                             *)
(***************************************************************************)
EXTENDS EntryAdmission, TLAPS

TicketRecords == [stage : Stages, risk : Nat, gross : Int, policy : Policies \cup {0},
                  command : CommandStates]
Snapshots == [wallet : Nat, positions : SUBSET Domain]

AdmissionOK ==
    /\ born \subseteq Signal
    /\ ticket \in [Signal -> TicketRecords]
    /\ venue \in [Signal -> {"flat", "ordered", "naked", "covered"}]
    /\ lane \in SignalOrNone
    /\ exposure \in [count : Int, risk : Int]
    /\ owner \in [policy : Policies, closed : SUBSET Gates]
    /\ wallet \in Wallets
    /\ domainOf \in DomainMaps

\* The lane is with the one Ticket the ENTRY of which is not settled.
LaneOK == \A s \in Signal : ticket[s].stage = "entry" <=> lane = s

\* A command that may still be sent belongs to the Ticket in the lane; nothing is at the
\* venue before it was sent, and what is there belongs to a Ticket that holds capital.
CommandOK ==
    \A s \in Signal :
        /\ ticket[s].command \in {"prepared", "claimed"} => ticket[s].stage = "entry"
        /\ venue[s] # "flat" => ticket[s].command = "done" /\ HoldsCapital(s)
        /\ venue[s] \in {"ordered", "naked"} => ticket[s].stage = "entry"

\* The worker has a signal in hand, and at dispatch a command that is claimed.
WorkerOK ==
    /\ worker \in [step : {"idle", "selected", "read", "claimed", "preflight", "cleared"},
                   signal : SignalOrNone, snapshot : Snapshots]
    /\ worker.step # "idle" => worker.signal \in Signal
    /\ worker.step \in {"claimed", "preflight", "cleared"} =>
          ticket[worker.signal].command = "claimed"
    /\ worker.step = "cleared" =>
          ticket[worker.signal].gross + ticket[worker.signal].risk <= worker.snapshot.wallet

\* While a claim waits for its dispatch nobody reserves: the account's exposure is at
\* most what the claim was sized on, and within the limit of its policy.
ClaimBounds ==
    \A s \in Signal : ticket[s].command \in {"prepared", "claimed"} =>
        /\ exposure.risk <= ticket[s].gross + ticket[s].risk
        /\ ticket[s].policy \in Policies
        /\ exposure.count <= TicketLimit[ticket[s].policy]

DomainOK ==
    \A s, t \in Signal :
        s # t /\ domainOf[ScopeOf[s]] = domainOf[ScopeOf[t]] => ~ (HoldsCapital(s) /\ HoldsCapital(t))

IInv == AdmissionOK /\ LaneOK /\ CommandOK /\ WorkerOK /\ ClaimBounds /\ DomainOK

-----------------------------------------------------------------------------
(* Frames. *)

LEMMA InitInv == Init => IInv
<1> SUFFICES ASSUME Init PROVE IInv
    OBVIOUS
<1> USE AdmissionAssumption DEF Init
<1>1. AdmissionOK
      BY DEF AdmissionOK, TicketRecords, NoTicket, Stages, CommandStates, SignalOrNone
<1>2. LaneOK /\ CommandOK /\ ClaimBounds /\ DomainOK
      BY DEF LaneOK, CommandOK, ClaimBounds, DomainOK, HoldsCapital, NoTicket
<1>3. WorkerOK
      BY DEF WorkerOK, IdleWorker, NoSnapshot, Snapshots, SignalOrNone
<1> QED BY <1>1, <1>2, <1>3 DEF IInv

LEMMA IdleWorkerOK == worker' = IdleWorker => WorkerOK'
BY DEF WorkerOK, IdleWorker, NoSnapshot, Snapshots, SignalOrNone

\* What the venue shows is a snapshot.
LEMMA SnapshotType == IInv => Snapshot \in Snapshots
<1> SUFFICES ASSUME IInv PROVE Snapshot \in Snapshots
    OBVIOUS
<1>1. \A s \in Signal : domainOf[ScopeOf[s]] \in Domain
      BY DEF IInv, AdmissionOK, Domain, Scope
<1>2. wallet \in Nat
      BY AdmissionAssumption DEF IInv, AdmissionOK
<1> QED BY <1>1, <1>2 DEF Snapshot, Snapshots

\* Steps that leave Tickets, venue, lane and exposure alone.
LEMMA TicketFrame ==
    ASSUME IInv, UNCHANGED <<ticket, venue, lane, exposure, domainOf>>, WorkerOK',
           born' \subseteq Signal, owner' \in [policy : Policies, closed : SUBSET Gates],
           wallet' \in Wallets
    PROVE  IInv'
<1>1. AdmissionOK'
      BY DEF IInv, AdmissionOK
<1>2. LaneOK' /\ CommandOK' /\ ClaimBounds' /\ DomainOK'
      BY DEF IInv, LaneOK, CommandOK, ClaimBounds, DomainOK, HoldsCapital
<1> QED BY <1>1, <1>2 DEF IInv

\* Steps of observation, the Owner, the market and an incident.
LEMMA OutsideSteps ==
    ASSUME IInv,
           \/ \E s \in Signal : IngestSignal(s) \/ Expire(s) \/ OpenIncident(s)
           \/ \E k \in Scope : ObserveAbsence(k)
           \/ Crash \/ OwnerMoves \/ WalletMoves
    PROVE  IInv'
<1>1. UNCHANGED <<ticket, venue, lane, exposure, domainOf>>
      BY DEF IngestSignal, Expire, OpenIncident, ObserveAbsence, Crash, OwnerMoves, WalletMoves, durable
<1>2. WorkerOK'
  <2>1. CASE UNCHANGED worker
        BY <1>1, <2>1 DEF IInv, WorkerOK
  <2>2. CASE Crash
        BY <2>2, IdleWorkerOK DEF Crash
  <2> QED BY <2>1, <2>2 DEF IngestSignal, Expire, OpenIncident, ObserveAbsence, OwnerMoves, WalletMoves
<1>3. born' \subseteq Signal
      BY DEF IngestSignal, Expire, OpenIncident, ObserveAbsence, Crash, OwnerMoves, WalletMoves,
             durable, IInv, AdmissionOK
<1>4. owner' \in [policy : Policies, closed : SUBSET Gates]
  <2>0. owner \in [policy : Policies, closed : SUBSET Gates]
        BY DEF IInv, AdmissionOK
  <2>1. CASE UNCHANGED owner
        BY <2>0, <2>1
  <2>2. CASE OwnerMoves
    <3>1. CASE \E p \in Policies : owner' = [owner EXCEPT !.policy = p]
          BY <2>0, <3>1
    <3>2. CASE \E g \in Gates : owner' = [owner EXCEPT !.closed =
                                 IF g \in owner.closed THEN owner.closed \ {g} ELSE owner.closed \cup {g}]
          BY <2>0, <3>2
    <3> QED BY <2>2, <3>1, <3>2 DEF OwnerMoves
  <2> QED BY <2>1, <2>2 DEF IngestSignal, Expire, OpenIncident, ObserveAbsence, Crash, WalletMoves, durable
<1>5. wallet' \in Wallets
      BY DEF IngestSignal, Expire, OpenIncident, ObserveAbsence, Crash, OwnerMoves, WalletMoves,
             IInv, AdmissionOK
<1> QED BY <1>1, <1>2, <1>3, <1>4, <1>5, TicketFrame

\* The worker's reads and its choice of a candidate.
LEMMA ReadSteps ==
    ASSUME IInv,
           \/ SelectEntryCandidate \/ ReadEntryFacts \/ RecordActionFactsUnavailable
           \/ ReadDispatchFacts
    PROVE  IInv'
<1>1. UNCHANGED <<ticket, venue, lane, exposure, domainOf, born, owner, wallet>>
      BY DEF SelectEntryCandidate, ReadEntryFacts, RecordActionFactsUnavailable, ReadDispatchFacts, durable
<1>2. WorkerOK'
  <2>1. CASE SelectEntryCandidate
    <3>1. CASE UNCHANGED worker
          BY <1>1, <3>1 DEF IInv, WorkerOK
    <3>2. ASSUME NEW rows, NEW s \in RankFirst(ListReadyCandidates(rows)),
                 worker' = [step |-> "selected", signal |-> s, snapshot |-> NoSnapshot]
          PROVE  WorkerOK'
      <4>1. s \in Signal
            BY DEF RankFirst, ListReadyCandidates, ReadySignals, IInv, AdmissionOK
      <4> QED BY <3>2, <4>1 DEF WorkerOK, NoSnapshot, Snapshots, SignalOrNone
    <3> QED BY <2>1, <3>1, <3>2 DEF SelectEntryCandidate
  <2>2. ASSUME NEW step \in {"read", "preflight"},
               step = "preflight" => worker.step = "claimed", worker.step # "idle",
               worker' = [worker EXCEPT !.step = step, !.snapshot = Snapshot]
        PROVE  WorkerOK'
    <3>1. worker \in [step : {"idle", "selected", "read", "claimed", "preflight", "cleared"},
                      signal : SignalOrNone, snapshot : Snapshots]
          BY DEF IInv, WorkerOK
    <3>2. worker' = [step |-> step, signal |-> worker.signal, snapshot |-> Snapshot]
          BY <2>2, <3>1
    <3>3. worker.signal \in Signal /\ (step = "preflight" => ticket[worker.signal].command = "claimed")
          BY <2>2 DEF IInv, WorkerOK
    <3> QED BY <1>1, <2>2, <3>1, <3>2, <3>3, SnapshotType DEF WorkerOK
  <2>3. CASE RecordActionFactsUnavailable
        BY <2>3, IdleWorkerOK DEF RecordActionFactsUnavailable
  <2> QED BY <2>1, <2>2, <2>3 DEF ReadEntryFacts, ReadDispatchFacts
<1> QED BY <1>1, <1>2, TicketFrame DEF IInv, AdmissionOK

-----------------------------------------------------------------------------
(* Steps of one Ticket. *)

\* One Ticket's row is replaced.
LEMMA OneTicket ==
    ASSUME IInv, NEW s \in Signal, NEW row \in TicketRecords, ticket' = [ticket EXCEPT ![s] = row]
    PROVE  /\ ticket' \in [Signal -> TicketRecords]
           /\ ticket'[s] = row
           /\ \A t \in Signal \ {s} : ticket'[t] = ticket[t]
BY DEF IInv, AdmissionOK

LEMMA TicketFields ==
    ASSUME NEW x \in TicketRecords
    PROVE  /\ x.stage \in Stages /\ x.risk \in Nat /\ x.gross \in Int /\ x.command \in CommandStates
           /\ \A st \in Stages : [x EXCEPT !.stage = st] = [stage |-> st, risk |-> x.risk,
                 gross |-> x.gross, policy |-> x.policy, command |-> x.command]
           /\ \A c \in CommandStates : [x EXCEPT !.command = c] = [stage |-> x.stage, risk |-> x.risk,
                 gross |-> x.gross, policy |-> x.policy, command |-> c]
           /\ \A n \in Nat : [x EXCEPT !.risk = n] = [stage |-> x.stage, risk |-> n,
                 gross |-> x.gross, policy |-> x.policy, command |-> x.command]
           /\ [x EXCEPT !.gross = 0] = [stage |-> x.stage, risk |-> x.risk,
                 gross |-> 0, policy |-> x.policy, command |-> x.command]
           /\ [x EXCEPT !.policy = 0] = [stage |-> x.stage, risk |-> x.risk,
                 gross |-> x.gross, policy |-> 0, command |-> x.command]
BY DEF TicketRecords

\* A Ticket in the lane that has nothing at the venue is closed and gives all back.
LEMMA ReleaseStep ==
    ASSUME IInv, NEW s \in Signal, ticket[s].stage = "entry", ReleaseAll(s),
           venue' = [venue EXCEPT ![s] = "flat"], UNCHANGED <<born, owner, wallet, domainOf>>,
           \/ worker' = IdleWorker
           \/ UNCHANGED worker /\ worker.signal # s
           \/ UNCHANGED worker /\ ticket[s].command # "claimed"
    PROVE  IInv'
<1>1. ClosedTicket \in TicketRecords /\ ClosedTicket.stage = "closed" /\ ClosedTicket.command = "done"
      BY DEF ClosedTicket, TicketRecords, Stages, CommandStates
<1>2. /\ ticket' \in [Signal -> TicketRecords] /\ ticket'[s] = ClosedTicket
      /\ \A t \in Signal \ {s} : ticket'[t] = ticket[t]
      BY <1>1, OneTicket DEF ReleaseAll
<1>3. lane' = None /\ lane = s
      BY DEF ReleaseAll, IInv, LaneOK
<1>4. /\ exposure' \in [count : Int, risk : Int]
      /\ exposure'.risk <= exposure.risk /\ exposure'.count <= exposure.count
  <2>1. ticket[s].risk \in Nat /\ exposure.count \in Int /\ exposure.risk \in Int
        BY DEF IInv, AdmissionOK, TicketRecords
  <2> QED BY <2>1 DEF ReleaseAll, ReleaseAccountExposure
<1>5. /\ venue' \in [Signal -> {"flat", "ordered", "naked", "covered"}] /\ venue'[s] = "flat"
      /\ \A t \in Signal \ {s} : venue'[t] = venue[t]
      BY DEF IInv, AdmissionOK
<1>6. AdmissionOK'
      BY <1>2, <1>3, <1>4, <1>5 DEF IInv, AdmissionOK, SignalOrNone
<1>7. LaneOK'
      BY <1>1, <1>2, <1>3, AdmissionAssumption DEF IInv, LaneOK
<1>8. CommandOK'
      BY <1>1, <1>2, <1>5 DEF IInv, CommandOK, HoldsCapital
<1>9. WorkerOK'
  <2>1. CASE worker' = IdleWorker
        BY <2>1, IdleWorkerOK
  <2>2. CASE UNCHANGED worker /\ (worker.signal # s \/ ticket[s].command # "claimed")
        BY <1>2, <2>2 DEF IInv, WorkerOK
  <2> QED BY <2>1, <2>2
<1>10. ClaimBounds'
  <2> SUFFICES ASSUME NEW t \in Signal, ticket'[t].command \in {"prepared", "claimed"}
               PROVE  /\ exposure'.risk <= ticket'[t].gross + ticket'[t].risk
                      /\ ticket'[t].policy \in Policies
                      /\ exposure'.count <= TicketLimit[ticket'[t].policy]
      BY DEF ClaimBounds
  <2>1. t # s /\ ticket'[t] = ticket[t]
        BY <1>1, <1>2
  <2>2. /\ exposure.risk <= ticket[t].gross + ticket[t].risk /\ ticket[t].policy \in Policies
        /\ exposure.count <= TicketLimit[ticket[t].policy]
        BY <2>1 DEF IInv, ClaimBounds
  <2>3. ticket[t].gross \in Int /\ ticket[t].risk \in Nat /\ exposure.count \in Int
        /\ exposure.risk \in Int /\ exposure'.count \in Int /\ exposure'.risk \in Int
        BY <1>4 DEF IInv, AdmissionOK, TicketRecords
  <2>4. TicketLimit[ticket[t].policy] \in Nat
        BY <2>2, AdmissionAssumption
  <2> QED BY <1>4, <2>1, <2>2, <2>3, <2>4
<1>11. DomainOK'
      BY <1>1, <1>2 DEF IInv, DomainOK, HoldsCapital
<1> QED BY <1>6, <1>7, <1>8, <1>9, <1>10, <1>11 DEF IInv

\* Issue reserves: the lane is free, so no other claim waits, and nobody holds the domain.
LEMMA IssueStep ==
    ASSUME IInv, IssueReadySignal
    PROVE  IInv'
<1> DEFINE s == worker.signal
<1>0. UNCHANGED <<venue, born, owner, wallet, domainOf>> /\ worker' = IdleWorker /\ s \in Signal
      BY DEF IssueReadySignal, IInv, WorkerOK
<1>1. CASE UNCHANGED <<ticket, exposure, lane>>
      BY <1>0, <1>1, IdleWorkerOK, TicketFrame DEF IInv, AdmissionOK
<1>2. ASSUME NEW r \in CapacityClaims(worker.snapshot, s), IssueTicket(s, r),
             s \in RankFirst(ListReadyCandidates(readiness))
      PROVE  IInv'
  <2> HIDE DEF s
  <2>1. r \in Nat /\ exposure.count < TicketLimit[owner.policy]
        /\ ~ HasActiveTicketInDomain(domainOf[ScopeOf[s]])
        BY <1>2 DEF CapacityClaims, SizingChoices, Risks
  <2>2. ticket[s].stage = "none" /\ lane = None
        BY <1>2 DEF RankFirst, ListReadyCandidates, ReadySignals, IssueTicket, IssueTicketAdmits
  <2>3. exposure.count \in Int /\ exposure.risk \in Int /\ owner.policy \in Policies
        BY DEF IInv, AdmissionOK
  <2>4. /\ ClaimedTicket(r) \in TicketRecords /\ ClaimedTicket(r).stage = "entry"
        /\ ClaimedTicket(r).command = "prepared" /\ ClaimedTicket(r).gross = exposure.risk
        /\ ClaimedTicket(r).risk = r /\ ClaimedTicket(r).policy = owner.policy
        BY <2>1, <2>3 DEF ClaimedTicket, TicketRecords, Stages, CommandStates
  <2>5. /\ ticket' \in [Signal -> TicketRecords] /\ ticket'[s] = ClaimedTicket(r)
        /\ \A t \in Signal \ {s} : ticket'[t] = ticket[t]
        BY <1>0, <1>2, <2>4, OneTicket DEF IssueTicket
  <2>6. /\ lane' = s /\ exposure' \in [count : Int, risk : Int]
        /\ exposure'.count = exposure.count + 1 /\ exposure'.risk = exposure.risk + r
        BY <1>2, <2>1, <2>3 DEF IssueTicket, ReserveAccountExposure
  <2>7. \A t \in Signal : ticket[t].command \notin {"prepared", "claimed"} /\ ticket[t].stage # "entry"
        BY <2>2, AdmissionAssumption DEF IInv, LaneOK, CommandOK
  <2>8. venue[s] = "flat"
        BY <1>0, <2>2 DEF IInv, CommandOK, HoldsCapital
  <2>9. AdmissionOK'
        BY <1>0, <2>5, <2>6 DEF IInv, AdmissionOK, SignalOrNone
  <2>10. LaneOK'
        BY <1>0, <2>4, <2>5, <2>6, <2>7 DEF LaneOK
  <2>11. CommandOK'
        BY <1>0, <2>4, <2>5, <2>8 DEF IInv, CommandOK, HoldsCapital
  <2>12. ClaimBounds'
    <3>1. TicketLimit[owner.policy] \in Nat
          BY <2>3, AdmissionAssumption
    <3>2. exposure'.count <= TicketLimit[owner.policy] /\ exposure'.risk <= exposure.risk + r
          BY <2>1, <2>3, <2>6, <3>1
    <3> QED BY <2>3, <2>4, <2>5, <2>7, <3>2 DEF ClaimBounds
  <2>13. DomainOK'
        BY <1>0, <2>1, <2>4, <2>5 DEF IInv, DomainOK, HoldsCapital, HasActiveTicketInDomain
  <2> QED BY <1>0, <2>9, <2>10, <2>11, <2>12, <2>13, IdleWorkerOK DEF IInv
<1> QED BY <1>1, <1>2 DEF IssueReadySignal, IssueRequestedNotFirst, Refuse

\* A Ticket's row and its venue move on; nothing is reserved.
LEMMA RowStep ==
    ASSUME IInv, NEW s \in Signal, NEW row \in TicketRecords, ticket' = [ticket EXCEPT ![s] = row],
           UNCHANGED <<born, owner, wallet, domainOf>>, WorkerOK',
           lane' = lane \/ (lane' = None /\ lane = s), row.stage = "entry" <=> lane' = s,
           venue' \in [Signal -> {"flat", "ordered", "naked", "covered"}],
           \A t \in Signal \ {s} : venue'[t] = venue[t],
           row.command \in {"prepared", "claimed"} =>
              /\ row.stage = "entry" /\ ticket[s].command \in {"prepared", "claimed"}
              /\ row.gross = ticket[s].gross /\ row.risk = ticket[s].risk /\ row.policy = ticket[s].policy,
           venue'[s] # "flat" => row.command = "done" /\ row.stage \in {"entry", "open"},
           venue'[s] \in {"ordered", "naked"} => row.stage = "entry",
           row.stage \in {"entry", "open"} => HoldsCapital(s),
           exposure' \in [count : Int, risk : Int],
           exposure'.risk <= exposure.risk, exposure'.count <= exposure.count
    PROVE  IInv'
<1>1. /\ ticket' \in [Signal -> TicketRecords] /\ ticket'[s] = row
      /\ \A t \in Signal \ {s} : ticket'[t] = ticket[t]
      BY OneTicket
<1>2. AdmissionOK'
      BY <1>1 DEF IInv, AdmissionOK, SignalOrNone
<1>3. LaneOK'
      BY <1>1, AdmissionAssumption DEF IInv, LaneOK
<1>4. CommandOK'
      BY <1>1 DEF IInv, CommandOK, HoldsCapital
<1>5. ClaimBounds'
  <2> SUFFICES ASSUME NEW t \in Signal, ticket'[t].command \in {"prepared", "claimed"}
               PROVE  /\ exposure'.risk <= ticket'[t].gross + ticket'[t].risk
                      /\ ticket'[t].policy \in Policies
                      /\ exposure'.count <= TicketLimit[ticket'[t].policy]
      BY DEF ClaimBounds
  <2>1. /\ ticket[t].command \in {"prepared", "claimed"} /\ ticket'[t].gross = ticket[t].gross
        /\ ticket'[t].risk = ticket[t].risk /\ ticket'[t].policy = ticket[t].policy
        BY <1>1
  <2>2. /\ exposure.risk <= ticket[t].gross + ticket[t].risk /\ ticket[t].policy \in Policies
        /\ exposure.count <= TicketLimit[ticket[t].policy]
        BY <2>1 DEF IInv, ClaimBounds
  <2>3. ticket[t].gross \in Int /\ ticket[t].risk \in Nat /\ exposure.count \in Int
        /\ exposure.risk \in Int /\ exposure'.count \in Int /\ exposure'.risk \in Int
        BY DEF IInv, AdmissionOK, TicketRecords
  <2>4. TicketLimit[ticket[t].policy] \in Nat
        BY <2>2, AdmissionAssumption
  <2> QED BY <2>1, <2>2, <2>3, <2>4
<1>6. DomainOK'
      BY <1>1 DEF IInv, DomainOK, HoldsCapital
<1> QED BY <1>2, <1>3, <1>4, <1>5, <1>6 DEF IInv

\* The worker claims the prepared command.
LEMMA ClaimStep ==
    ASSUME IInv, NEW s \in Signal, ClaimEntry(s)
    PROVE  IInv'
<1> DEFINE row == [ticket[s] EXCEPT !.command = "claimed"]
<1>0. ticket[s] \in TicketRecords
      BY DEF IInv, AdmissionOK
<1>1. row = [stage |-> ticket[s].stage, risk |-> ticket[s].risk, gross |-> ticket[s].gross,
             policy |-> ticket[s].policy, command |-> "claimed"]
      BY <1>0, TicketFields DEF CommandStates
<1>2. row \in TicketRecords
      BY <1>0, <1>1 DEF TicketRecords, CommandStates
<1>3. ticket' = [ticket EXCEPT ![s] = row]
      BY DEF ClaimEntry
<1>4. ticket[s].stage = "entry" /\ ticket[s].command = "prepared" /\ venue[s] = "flat"
      BY DEF ClaimEntry, IInv, CommandOK
<1>5. ticket'[s] = row
      BY <1>2, <1>3, OneTicket
<1>6. WorkerOK'
      BY <1>1, <1>5 DEF ClaimEntry, WorkerOK, NoSnapshot, Snapshots, SignalOrNone
<1>7. row.stage = "entry" /\ row.command = "claimed" /\ row.gross = ticket[s].gross
      /\ row.risk = ticket[s].risk /\ row.policy = ticket[s].policy
      BY <1>1, <1>4
<1>8. UNCHANGED <<born, owner, wallet, domainOf, lane, venue, exposure>> /\ lane = s
      BY <1>4 DEF ClaimEntry, IInv, LaneOK
<1>9. /\ venue' \in [Signal -> {"flat", "ordered", "naked", "covered"}]
      /\ \A t \in Signal \ {s} : venue'[t] = venue[t]
      /\ exposure' \in [count : Int, risk : Int]
      /\ exposure'.risk <= exposure.risk /\ exposure'.count <= exposure.count
      BY <1>8 DEF IInv, AdmissionOK
<1> HIDE DEF row
<1> QED BY <1>2, <1>3, <1>4, <1>6, <1>7, <1>8, <1>9, RowStep DEF HoldsCapital

\* The preflight clears the claim, or refuses it and gives all back.
LEMMA PreflightStep ==
    ASSUME IInv, PreflightEntry
    PROVE  IInv'
<1> DEFINE s == worker.signal
<1>1. s \in Signal /\ ticket[s].command = "claimed" /\ ticket[s].stage = "entry" /\ venue[s] = "flat"
      BY DEF PreflightEntry, IInv, WorkerOK, CommandOK
<1>2. UNCHANGED <<born, owner, wallet, domainOf, venue>>
      BY DEF PreflightEntry
<1>3. CASE ReleaseAll(s) /\ worker' = IdleWorker
  <2>1. venue' = [venue EXCEPT ![s] = "flat"]
        BY <1>1, <1>2 DEF IInv, AdmissionOK
  <2> HIDE DEF s
  <2> QED BY <1>1, <1>2, <1>3, <2>1, ReleaseStep
<1>4. CASE /\ RevalidateEntryDispatch(worker.snapshot, s) /\ worker' = [worker EXCEPT !.step = "cleared"]
           /\ UNCHANGED <<ticket, exposure, lane, incidents>>
  <2>1. worker \in [step : {"idle", "selected", "read", "claimed", "preflight", "cleared"},
                    signal : SignalOrNone, snapshot : Snapshots]
        BY DEF IInv, WorkerOK
  <2>2. worker' = [step |-> "cleared", signal |-> s, snapshot |-> worker.snapshot]
        BY <1>4, <2>1
  <2>3. ticket[s].gross + ticket[s].risk <= worker.snapshot.wallet
        BY <1>4 DEF RevalidateEntryDispatch
  <2>4. WorkerOK'
        BY <1>1, <1>4, <2>1, <2>2, <2>3 DEF WorkerOK
  <2> QED BY <1>2, <1>4, <2>4, TicketFrame DEF IInv, AdmissionOK
<1> QED BY <1>3, <1>4 DEF PreflightEntry

\* Several fields of one Ticket's row change.
LEMMA SentRow ==
    ASSUME IInv, NEW s \in Signal
    PROVE  [ticket EXCEPT ![s].command = "done", ![s].gross = 0, ![s].policy = 0] =
             [ticket EXCEPT ![s] = [stage |-> ticket[s].stage, risk |-> ticket[s].risk, gross |-> 0,
                                    policy |-> 0, command |-> "done"]]
<1> DEFINE one == [ticket EXCEPT ![s].command = "done"]
           two == [one EXCEPT ![s].gross = 0]
           three == [two EXCEPT ![s].policy = 0]
           r1 == [stage |-> ticket[s].stage, risk |-> ticket[s].risk, gross |-> ticket[s].gross,
                  policy |-> ticket[s].policy, command |-> "done"]
           r2 == [stage |-> ticket[s].stage, risk |-> ticket[s].risk, gross |-> 0,
                  policy |-> ticket[s].policy, command |-> "done"]
           r3 == [stage |-> ticket[s].stage, risk |-> ticket[s].risk, gross |-> 0, policy |-> 0,
                  command |-> "done"]
<1>1. ticket \in [Signal -> TicketRecords] /\ ticket[s] \in TicketRecords
      BY DEF IInv, AdmissionOK
<1>2. r1 \in TicketRecords /\ r2 \in TicketRecords /\ r3 \in TicketRecords
      BY <1>1 DEF TicketRecords, CommandStates
<1>3. [ticket[s] EXCEPT !.command = "done"] = r1
      BY <1>1, TicketFields DEF CommandStates
<1>4. one = [ticket EXCEPT ![s] = r1] /\ one[s] = r1
      BY <1>1, <1>3
<1>5. [r1 EXCEPT !.gross = 0] = r2 /\ [r2 EXCEPT !.policy = 0] = r3
      BY <1>2, TicketFields
<1> HIDE DEF r1, r2, r3, one
<1>6. two = [ticket EXCEPT ![s] = r2] /\ two[s] = r2
      BY <1>1, <1>4, <1>5
<1> HIDE DEF two
<1>7. three = [ticket EXCEPT ![s] = r3]
      BY <1>1, <1>5, <1>6
<1>8. [ticket EXCEPT ![s].command = "done", ![s].gross = 0, ![s].policy = 0] = three
      BY DEF one, two, three
<1> QED BY <1>7, <1>8 DEF r3

\* The ENTRY leaves; its exposure stays reserved.
LEMMA SendStep ==
    ASSUME IInv, SendEntry
    PROVE  IInv'
<1> DEFINE s == worker.signal
           row == [stage |-> ticket[s].stage, risk |-> ticket[s].risk, gross |-> 0, policy |-> 0,
                   command |-> "done"]
<1>1. s \in Signal /\ ticket[s].command = "claimed" /\ ticket[s].stage = "entry" /\ lane = s
      BY DEF SendEntry, IInv, WorkerOK, CommandOK, LaneOK
<1>2. ticket' = [ticket EXCEPT ![s] = row]
      BY <1>1, SentRow DEF SendEntry
<1>3. row \in TicketRecords
  <2>1. ticket[s] \in TicketRecords
        BY <1>1 DEF IInv, AdmissionOK
  <2> QED BY <2>1 DEF TicketRecords, CommandStates
<1>4. row.stage = "entry" /\ row.command = "done"
      BY <1>1
<1>5. UNCHANGED <<born, owner, wallet, domainOf, lane, exposure>> /\ WorkerOK'
      BY IdleWorkerOK DEF SendEntry
<1>6. /\ venue' \in [Signal -> {"flat", "ordered", "naked", "covered"}]
      /\ \A t \in Signal \ {s} : venue'[t] = venue[t]
      BY <1>1 DEF SendEntry, IInv, AdmissionOK
<1>7. /\ exposure' \in [count : Int, risk : Int]
      /\ exposure'.risk <= exposure.risk /\ exposure'.count <= exposure.count
      BY <1>5 DEF IInv, AdmissionOK
<1> HIDE DEF row, s
<1> QED BY <1>1, <1>2, <1>3, <1>4, <1>5, <1>6, <1>7, RowStep DEF HoldsCapital

\* Truth found that nothing was sent, a Vacuum supersedes, or the venue refuses the ENTRY.
LEMMA RefusedSteps ==
    ASSUME IInv, NEW s \in Signal,
           RecoverUnsentClaim(s) \/ SupersedeUnclaimed(s) \/ EntryRejected(s)
    PROVE  IInv'
<1>1. CASE RecoverUnsentClaim(s)
  <2>1. ticket[s].stage = "entry" /\ venue[s] = "flat"
        BY <1>1 DEF RecoverUnsentClaim, IInv, CommandOK
  <2>2. venue' = [venue EXCEPT ![s] = "flat"]
        BY <1>1, <2>1 DEF RecoverUnsentClaim, IInv, AdmissionOK
  <2> QED BY <1>1, <2>1, <2>2, ReleaseStep DEF RecoverUnsentClaim
<1>2. CASE EntryRejected(s)
  <2>1. ticket[s].stage = "entry" /\ ticket[s].command = "done"
        BY <1>2 DEF EntryRejected, IInv, CommandOK
  <2> QED BY <1>2, <2>1, ReleaseStep DEF EntryRejected
<1>3. CASE SupersedeUnclaimed(s)
  <2>1. ticket[s].stage = "entry" /\ venue[s] = "flat" /\ ticket[s].command # "claimed"
        BY <1>3 DEF SupersedeUnclaimed, IInv, CommandOK
  <2>2. venue' = [venue EXCEPT ![s] = "flat"]
        BY <1>3, <2>1 DEF SupersedeUnclaimed, IInv, AdmissionOK
  <2> QED BY <1>3, <2>1, <2>2, ReleaseStep DEF SupersedeUnclaimed
<1> QED BY <1>1, <1>2, <1>3

\* The venue moves: it fills, a stop stands, the position closes.
LEMMA VenueSteps ==
    ASSUME IInv, NEW s \in Signal, EntryFills(s) \/ StopStands(s) \/ PositionCloses(s)
    PROVE  IInv'
<1>1. PICK from, to \in {"flat", "ordered", "naked", "covered"} :
        /\ from # "flat" /\ to # "ordered" /\ (to = "naked" => from = "ordered") /\ VenueStep(s, from, to)
      BY DEF EntryFills, StopStands, PositionCloses
<1>2. /\ venue[s] = from /\ UNCHANGED <<ticket, lane, exposure, owner, born, wallet, worker, domainOf>>
      /\ venue' = [venue EXCEPT ![s] = to]
      BY <1>1 DEF VenueStep, durable
<1>3. /\ venue' \in [Signal -> {"flat", "ordered", "naked", "covered"}] /\ venue'[s] = to
      /\ \A t \in Signal \ {s} : venue'[t] = venue[t]
      BY <1>2 DEF IInv, AdmissionOK
<1>4. AdmissionOK'
      BY <1>2, <1>3 DEF IInv, AdmissionOK
<1>5. CommandOK'
      BY <1>1, <1>2, <1>3 DEF IInv, CommandOK, HoldsCapital
<1>6. LaneOK' /\ WorkerOK' /\ ClaimBounds' /\ DomainOK'
      BY <1>2 DEF IInv, LaneOK, WorkerOK, ClaimBounds, DomainOK, HoldsCapital
<1> QED BY <1>4, <1>5, <1>6 DEF IInv

LEMMA SettledRow ==
    ASSUME IInv, NEW s \in Signal
    PROVE  [ticket EXCEPT ![s].stage = "settling", ![s].risk = 0] =
             [ticket EXCEPT ![s] = [stage |-> "settling", risk |-> 0, gross |-> ticket[s].gross,
                                    policy |-> ticket[s].policy, command |-> ticket[s].command]]
<1> DEFINE one == [ticket EXCEPT ![s].stage = "settling"]
           two == [one EXCEPT ![s].risk = 0]
           r1 == [stage |-> "settling", risk |-> ticket[s].risk, gross |-> ticket[s].gross,
                  policy |-> ticket[s].policy, command |-> ticket[s].command]
           r2 == [stage |-> "settling", risk |-> 0, gross |-> ticket[s].gross,
                  policy |-> ticket[s].policy, command |-> ticket[s].command]
<1>1. ticket \in [Signal -> TicketRecords] /\ ticket[s] \in TicketRecords
      BY DEF IInv, AdmissionOK
<1>2. r1 \in TicketRecords /\ r2 \in TicketRecords
      BY <1>1 DEF TicketRecords, Stages
<1>3. [ticket[s] EXCEPT !.stage = "settling"] = r1
      BY <1>1, TicketFields DEF Stages
<1>4. one = [ticket EXCEPT ![s] = r1] /\ one[s] = r1
      BY <1>1, <1>3
<1>5. [r1 EXCEPT !.risk = 0] = r2
      BY <1>2, TicketFields
<1> HIDE DEF r1, r2, one
<1>6. two = [ticket EXCEPT ![s] = r2]
      BY <1>1, <1>4, <1>5
<1>7. [ticket EXCEPT ![s].stage = "settling", ![s].risk = 0] = two
      BY DEF one, two
<1> QED BY <1>6, <1>7 DEF r2

\* Lane, capital and Ticket are given up, in this order.
LEMMA StageSteps ==
    ASSUME IInv, NEW s \in Signal,
           ReleaseEntryLane(s) \/ ReleaseCapitalAuthorities(s) \/ MarkTerminal(s)
    PROVE  IInv'
<1> DEFINE to == IF ReleaseEntryLane(s) THEN "open"
                 ELSE IF ReleaseCapitalAuthorities(s) THEN "settling" ELSE "closed"
           risk == IF to = "settling" THEN 0 ELSE ticket[s].risk
           row == [stage |-> to, risk |-> risk, gross |-> ticket[s].gross,
                   policy |-> ticket[s].policy, command |-> ticket[s].command]
<1>0. ticket[s] \in TicketRecords
      BY DEF IInv, AdmissionOK
<1>1. row \in TicketRecords /\ row.stage = to /\ row.command = ticket[s].command
      BY <1>0 DEF TicketRecords, Stages
<1>2. \A st \in Stages : [ticket EXCEPT ![s].stage = st] =
          [ticket EXCEPT ![s] = [stage |-> st, risk |-> ticket[s].risk, gross |-> ticket[s].gross,
                                 policy |-> ticket[s].policy, command |-> ticket[s].command]]
      BY <1>0, TicketFields DEF IInv, AdmissionOK
<1>3. ticket' = [ticket EXCEPT ![s] = row]
  <2>1. CASE ReleaseEntryLane(s)
        BY <2>1, <1>2 DEF ReleaseEntryLane, Stages
  <2>2. CASE ReleaseCapitalAuthorities(s) /\ ~ ReleaseEntryLane(s)
        BY <2>2, SettledRow DEF ReleaseCapitalAuthorities
  <2>3. CASE MarkTerminal(s) /\ ~ ReleaseEntryLane(s) /\ ~ ReleaseCapitalAuthorities(s)
        BY <2>3, <1>2 DEF MarkTerminal, Stages
  <2> QED BY <2>1, <2>2, <2>3
<1>4. ticket[s].command \notin {"prepared", "claimed"}
      BY DEF ReleaseEntryLane, ReleaseCapitalAuthorities, MarkTerminal, IInv, CommandOK
<1>5. UNCHANGED <<born, owner, wallet, domainOf, venue, worker>>
      BY DEF ReleaseEntryLane, ReleaseCapitalAuthorities, MarkTerminal
<1>6. /\ exposure' \in [count : Int, risk : Int]
      /\ exposure'.risk <= exposure.risk /\ exposure'.count <= exposure.count
  <2>1. exposure \in [count : Int, risk : Int] /\ ticket[s].risk \in Nat
        BY <1>0 DEF IInv, AdmissionOK, TicketRecords
  <2> QED BY <2>1 DEF ReleaseEntryLane, ReleaseCapitalAuthorities, MarkTerminal, ReleaseAccountExposure
<1>7. to \in {"open", "settling", "closed"} /\ (to = "open" => HoldsCapital(s))
      BY DEF ReleaseEntryLane, HoldsCapital
<1>8. lane' # s /\ (lane' = lane \/ (lane' = None /\ lane = s))
  <2>1. CASE ReleaseEntryLane(s)
        BY <2>1, AdmissionAssumption DEF ReleaseEntryLane, IInv, LaneOK
  <2>2. CASE ReleaseCapitalAuthorities(s) \/ MarkTerminal(s)
        BY <2>2 DEF ReleaseCapitalAuthorities, MarkTerminal, IInv, LaneOK
  <2> QED BY <2>1, <2>2
<1>9. venue'[s] # "flat" => to = "open" /\ venue'[s] = "covered" /\ ticket[s].command = "done"
      BY <1>5 DEF ReleaseEntryLane, ReleaseCapitalAuthorities, MarkTerminal, IInv, CommandOK, HoldsCapital
<1>10. ticket'[s] = row /\ \A t \in Signal \ {s} : ticket'[t] = ticket[t]
  <2> HIDE DEF row
  <2> QED BY <1>1, <1>3, OneTicket
<1>11. WorkerOK'
  <2>1. worker.step \in {"claimed", "preflight", "cleared"} => worker.signal # s
        BY <1>4 DEF IInv, WorkerOK
  <2> QED BY <1>5, <1>10, <2>1 DEF IInv, WorkerOK
<1>12. /\ venue' \in [Signal -> {"flat", "ordered", "naked", "covered"}]
       /\ \A t \in Signal \ {s} : venue'[t] = venue[t]
      BY <1>5 DEF IInv, AdmissionOK
<1> HIDE DEF row, to
<1> QED BY <1>1, <1>3, <1>4, <1>5, <1>6, <1>7, <1>8, <1>9, <1>11, <1>12, RowStep

LEMMA NextInv == IInv /\ [Next]_vars => IInv'
<1> SUFFICES ASSUME IInv, [Next]_vars PROVE IInv'
    OBVIOUS
<1>1. CASE UNCHANGED vars
  <2>1. UNCHANGED <<ticket, venue, lane, exposure, domainOf, worker, born, owner, wallet>>
        BY <1>1 DEF vars
  <2>2. WorkerOK'
        BY <2>1 DEF IInv, WorkerOK
  <2> QED BY <2>1, <2>2, TicketFrame DEF IInv, AdmissionOK
<1>2. CASE EntryWorkerNext
      BY <1>2, ReadSteps, IssueStep, ClaimStep, PreflightStep, SendStep DEF EntryWorkerNext
<1>3. CASE \E s \in Signal : TicketWorkersNext(s) \/ VenueNext(s)
      BY <1>3, RefusedSteps, VenueSteps, StageSteps DEF TicketWorkersNext, VenueNext
<1> QED BY <1>1, <1>2, <1>3, OutsideSteps DEF Next

-----------------------------------------------------------------------------
(* The theorems. *)

\* Lane, commands, claims and netting domains agree after every step of the worker,
\* the Tickets, the Owner, observation and the market.
THEOREM Invariance == Spec => []IInv
BY InitInv, NextInv, PTL DEF Spec

\* An ENTRY that is about to leave fits the wallet just read together with every other
\* Ticket, and the limit of Tickets of its policy: the frozen gross risk that
\* revalidate_entry_dispatch compares bounds the current one.
THEOREM SentEntriesFit == Spec => []SentEntryFits
<1>1. IInv => SentEntryFits
  <2> SUFFICES ASSUME IInv, worker.step = "cleared"
               PROVE  /\ exposure.risk <= worker.snapshot.wallet
                      /\ exposure.count <= TicketLimit[ticket[worker.signal].policy]
      BY DEF SentEntryFits
  <2> DEFINE s == worker.signal
  <2>1. /\ s \in Signal /\ ticket[s].command = "claimed"
        /\ ticket[s].gross + ticket[s].risk <= worker.snapshot.wallet
        BY DEF IInv, WorkerOK
  <2>2. /\ exposure.risk <= ticket[s].gross + ticket[s].risk
        /\ exposure.count <= TicketLimit[ticket[s].policy]
        BY <2>1 DEF IInv, ClaimBounds
  <2>3. /\ exposure.risk \in Int /\ ticket[s].gross \in Int /\ ticket[s].risk \in Nat
        /\ worker.snapshot.wallet \in Nat
        BY <2>1 DEF IInv, AdmissionOK, WorkerOK, TicketRecords, Snapshots
  <2> QED BY <2>1, <2>2, <2>3
<1> QED BY <1>1, Invariance, PTL

\* Two Tickets never hold capital in one netting domain, and none holds capital where
\* another has a position.
THEOREM DomainsAreExclusive == Spec => []DomainIsExclusive
<1>1. IInv => DomainIsExclusive
      BY DEF IInv, DomainOK, CommandOK, DomainIsExclusive
<1> QED BY <1>1, Invariance, PTL

-----------------------------------------------------------------------------
(* Every Ticket keeps the contract of TicketLife. *)

\* The ways in which stage and venue of one Ticket move.
Moves(s) ==
    \/ ticket'[s].stage = ticket[s].stage /\ venue'[s] = venue[s]
    \/ ticket[s].stage = "none" /\ ticket'[s].stage = "entry" /\ venue'[s] = venue[s]
    \/ ticket[s].stage = "entry" /\ ticket'[s].stage = "entry"
    \/ /\ ticket[s].stage = "entry" /\ ticket'[s].stage = "closed"
       /\ venue[s] \in {"flat", "ordered"} /\ venue'[s] = "flat"
    \/ /\ ticket[s].stage = "entry" /\ ticket'[s].stage = "open"
       /\ venue[s] \in {"flat", "covered"} /\ venue'[s] = venue[s]
    \/ ticket[s].stage = "open" /\ ticket'[s].stage = "open" /\ venue'[s] = "flat"
    \/ /\ ticket[s].stage = "open" /\ ticket'[s].stage = "settling"
       /\ venue[s] = "flat" /\ venue'[s] = venue[s]
    \/ ticket[s].stage = "settling" /\ ticket'[s].stage = "closed" /\ venue'[s] = venue[s]

LEMMA MovesKeepContract ==
    ASSUME NEW s \in Signal, Moves(s)
    PROVE  [Life(s)!Next]_(Life(s)!vars)
<1>1. CASE ticket'[s].stage = ticket[s].stage /\ venue'[s] = venue[s]
      BY <1>1 DEF Life!vars
<1>2. CASE ticket[s].stage = "none" /\ ticket'[s].stage = "entry" /\ venue'[s] = venue[s]
  <2>1. Life(s)!Issue
        BY <1>2 DEF Life!Issue
  <2> QED BY <2>1 DEF Life!Next
<1>3. CASE ticket[s].stage = "entry" /\ ticket'[s].stage = "entry"
  <2>1. Life(s)!Enter
        BY <1>3 DEF Life!Enter
  <2> QED BY <2>1 DEF Life!Next
<1>4. CASE /\ ticket[s].stage = "entry" /\ ticket'[s].stage = "closed"
           /\ venue[s] \in {"flat", "ordered"} /\ venue'[s] = "flat"
  <2>1. Life(s)!Refuse
        BY <1>4 DEF Life!Refuse
  <2> QED BY <2>1 DEF Life!Next
<1>5. CASE /\ ticket[s].stage = "entry" /\ ticket'[s].stage = "open"
           /\ venue[s] \in {"flat", "covered"} /\ venue'[s] = venue[s]
  <2>1. Life(s)!HandOnLane
        BY <1>5 DEF Life!HandOnLane
  <2> QED BY <2>1 DEF Life!Next
<1>6. CASE ticket[s].stage = "open" /\ ticket'[s].stage = "open" /\ venue'[s] = "flat"
  <2>1. (venue'[s] \in {"naked", "covered"}) = FALSE /\ (venue'[s] = "covered") = FALSE
        BY <1>6
  <2>2. (venue'[s] \in {"naked", "covered"}) \in {FALSE, venue[s] \in {"naked", "covered"}}
        BY <2>1, Zenon
  <2>3. Life(s)!Manage
        BY <1>6, <2>1, <2>2 DEF Life!Manage
  <2> QED BY <2>3 DEF Life!Next
<1>7. CASE /\ ticket[s].stage = "open" /\ ticket'[s].stage = "settling"
           /\ venue[s] = "flat" /\ venue'[s] = venue[s]
  <2>1. Life(s)!ReleaseCapital
        BY <1>7 DEF Life!ReleaseCapital
  <2> QED BY <2>1 DEF Life!Next
<1>8. CASE ticket[s].stage = "settling" /\ ticket'[s].stage = "closed" /\ venue'[s] = venue[s]
  <2>1. Life(s)!Close
        BY <1>8 DEF Life!Close
  <2> QED BY <2>1 DEF Life!Next
<1> QED BY <1>1, <1>2, <1>3, <1>4, <1>5, <1>6, <1>7, <1>8 DEF Moves

\* Only one Ticket moves in a step, and it moves as Moves says.
LEMMA StepMoves ==
    ASSUME IInv, Next, NEW s \in Signal
    PROVE  Moves(s)
<1>0. ticket[s] \in TicketRecords /\ ticket \in [Signal -> TicketRecords]
      /\ venue \in [Signal -> {"flat", "ordered", "naked", "covered"}]
      BY DEF IInv, AdmissionOK
<1>1. CASE UNCHANGED <<ticket, venue>>
      BY <1>1 DEF Moves
<1>2. CASE IssueReadySignal
  <2>1. CASE UNCHANGED ticket
        BY <1>2, <2>1 DEF IssueReadySignal, Moves
  <2>2. ASSUME NEW r \in CapacityClaims(worker.snapshot, worker.signal), IssueTicket(worker.signal, r),
               worker.signal \in RankFirst(ListReadyCandidates(readiness))
        PROVE  Moves(s)
    <3>1. worker.signal \in Signal /\ UNCHANGED venue
          BY <1>2 DEF IssueReadySignal, IInv, WorkerOK
    <3>2. ticket[worker.signal].stage = "none"
          BY <2>2 DEF RankFirst, ListReadyCandidates, ReadySignals
    <3>3. ticket' = [ticket EXCEPT ![worker.signal] = ClaimedTicket(r)] /\ ClaimedTicket(r).stage = "entry"
          BY <2>2 DEF IssueTicket, ClaimedTicket
    <3> QED BY <1>0, <3>1, <3>2, <3>3 DEF Moves
  <2> QED BY <1>2, <2>1, <2>2 DEF IssueReadySignal, IssueRequestedNotFirst, Refuse
<1>3. ASSUME NEW t \in Signal, ClaimEntry(t) PROVE Moves(s)
  <2>1. ticket' = [ticket EXCEPT ![t].command = "claimed"] /\ UNCHANGED venue
        BY <1>3 DEF ClaimEntry
  <2>2. ticket'[s].stage = ticket[s].stage
    <3>1. CASE s = t
      <4>1. ticket'[s] = [ticket[s] EXCEPT !.command = "claimed"]
            BY <1>0, <2>1, <3>1
      <4> QED BY <1>0, <4>1, TicketFields DEF CommandStates
    <3>2. CASE s # t
          BY <1>0, <2>1, <3>2
    <3> QED BY <3>1, <3>2
  <2> QED BY <2>1, <2>2 DEF Moves
<1>4. ASSUME NEW t \in Signal, ReleaseAll(t), ticket[t].stage = "entry",
             venue[t] \in {"flat", "ordered"}, venue' = [venue EXCEPT ![t] = "flat"]
      PROVE  Moves(s)
  <2>1. ClosedTicket.stage = "closed"
        BY DEF ClosedTicket
  <2> QED BY <1>0, <1>4, <2>1 DEF Moves, ReleaseAll
<1>5. CASE PreflightEntry
  <2>1. /\ worker.signal \in Signal /\ ticket[worker.signal].stage = "entry"
        /\ venue[worker.signal] = "flat" /\ UNCHANGED venue
        BY <1>5 DEF PreflightEntry, IInv, WorkerOK, CommandOK
  <2>2. venue' = [venue EXCEPT ![worker.signal] = "flat"]
        BY <1>0, <2>1
  <2> QED BY <1>1, <1>4, <1>5, <2>1, <2>2 DEF PreflightEntry
<1>6. CASE SendEntry
  <2>1. worker.signal \in Signal /\ ticket[worker.signal].stage = "entry"
        BY <1>6 DEF SendEntry, IInv, WorkerOK, CommandOK
  <2>2. ticket' = [ticket EXCEPT ![worker.signal] = [stage |-> ticket[worker.signal].stage,
                      risk |-> ticket[worker.signal].risk, gross |-> 0, policy |-> 0, command |-> "done"]]
        BY <1>6, <2>1, SentRow DEF SendEntry
  <2>3. venue' = [venue EXCEPT ![worker.signal] = "ordered"]
        BY <1>6 DEF SendEntry
  <2> QED BY <1>0, <2>1, <2>2, <2>3 DEF Moves
<1>7. ASSUME NEW t \in Signal, RecoverUnsentClaim(t) \/ SupersedeUnclaimed(t) \/ EntryRejected(t)
      PROVE  Moves(s)
  <2>1. ReleaseAll(t) /\ ticket[t].stage = "entry" /\ venue[t] \in {"flat", "ordered"}
        BY <1>7 DEF RecoverUnsentClaim, SupersedeUnclaimed, EntryRejected, IInv, CommandOK
  <2>2. venue' = [venue EXCEPT ![t] = "flat"]
        BY <1>0, <1>7, <2>1 DEF RecoverUnsentClaim, SupersedeUnclaimed, EntryRejected, IInv, CommandOK
  <2> QED BY <1>4, <2>1, <2>2
<1>8. ASSUME NEW t \in Signal, EntryFills(t) \/ StopStands(t) \/ PositionCloses(t) PROVE Moves(s)
  <2>1. PICK from, to \in {"flat", "ordered", "naked", "covered"} :
          /\ from # "flat" /\ VenueStep(t, from, to)
          /\ from \in {"ordered", "naked"} \/ to = "flat"
        BY <1>8 DEF EntryFills, StopStands, PositionCloses
  <2>2. UNCHANGED ticket /\ venue[t] = from /\ venue' = [venue EXCEPT ![t] = to]
        BY <2>1 DEF VenueStep, durable
  <2>3. ticket[t].stage = "entry" \/ (ticket[t].stage = "open" /\ to = "flat")
        BY <2>1, <2>2 DEF IInv, CommandOK, HoldsCapital
  <2> QED BY <1>0, <2>2, <2>3 DEF Moves
<1>9. ASSUME NEW t \in Signal,
             ReleaseEntryLane(t) \/ ReleaseCapitalAuthorities(t) \/ MarkTerminal(t)
      PROVE  Moves(s)
  <2>0. \A st \in Stages : \A u \in Signal : [ticket EXCEPT ![t].stage = st][u].stage =
             IF u = t THEN st ELSE ticket[u].stage
    <3>1. \A st \in Stages : [ticket[t] EXCEPT !.stage = st].stage = st
          BY <1>0, TicketFields
    <3> QED BY <1>0, <3>1
  <2>1. CASE ReleaseEntryLane(t)
        BY <2>0, <2>1 DEF ReleaseEntryLane, Moves, Stages
  <2>2. CASE ReleaseCapitalAuthorities(t)
    <3> DEFINE row == [stage |-> "settling", risk |-> 0, gross |-> ticket[t].gross,
                       policy |-> ticket[t].policy, command |-> ticket[t].command]
    <3>0. ticket' = [ticket EXCEPT ![t] = row] /\ row.stage = "settling"
          BY <2>2, SettledRow DEF ReleaseCapitalAuthorities
    <3>1. ticket'[s].stage = IF s = t THEN "settling" ELSE ticket[s].stage
      <4> HIDE DEF row
      <4> QED BY <1>0, <3>0
    <3> QED BY <2>2, <3>1 DEF ReleaseCapitalAuthorities, Moves
  <2>3. CASE MarkTerminal(t)
        BY <2>0, <2>3 DEF MarkTerminal, Moves, Stages
  <2> QED BY <1>9, <2>1, <2>2, <2>3
<1>10. CASE \/ SelectEntryCandidate \/ ReadEntryFacts \/ RecordActionFactsUnavailable \/ ReadDispatchFacts
            \/ \E t \in Signal : IngestSignal(t) \/ Expire(t) \/ OpenIncident(t)
            \/ \E k \in Scope : ObserveAbsence(k)
            \/ Crash \/ OwnerMoves \/ WalletMoves
      BY <1>1, <1>10 DEF SelectEntryCandidate, ReadEntryFacts, RecordActionFactsUnavailable,
         ReadDispatchFacts, IngestSignal, Expire, OpenIncident, ObserveAbsence, Crash, OwnerMoves,
         WalletMoves, durable
<1> QED BY <1>2, <1>3, <1>5, <1>6, <1>7, <1>8, <1>9, <1>10 DEF Next, EntryWorkerNext,
      TicketWorkersNext, VenueNext

\* What admission assumes of every running Ticket is the contract TicketLife: exposure
\* appears only under the lane, the lane is handed on with a standing stop, capital is
\* handed back flat.
THEOREM ContractKept == Spec => TicketsKeepContract
<1>1. Init => \A s \in Signal : Life(s)!Init
      BY DEF Init, Life!Init, NoTicket
<1>2. IInv /\ [Next]_vars => [\A s \in Signal : [Life(s)!Next]_(Life(s)!vars)]_vars
      BY StepMoves, MovesKeepContract
<1> QED BY <1>1, <1>2, Invariance, PTL DEF Spec, TicketsKeepContract

=============================================================================
