---------------------------- MODULE EntryAdmission ----------------------------
(***************************************************************************)
(* Admission of several signals to one account: readiness rows per runtime  *)
(* scope, the ENTRY worker that selects, reads facts, issues and dispatches *)
(* in separate transactions, the global ENTRY lane, the account exposure    *)
(* counters, the netting domains and the Owner's gates.                     *)
(*                                                                          *)
(* Each transaction is one action.  The worker's reads of the venue lie     *)
(* between two transactions: observation, the Owner, other Tickets and the  *)
(* market move in between, which is what the re-checks are for.  What a     *)
(* Ticket does after its ENTRY has left is the contract of TicketLife.      *)
(***************************************************************************)
EXTENDS Naturals, FiniteSets, FiniteSetsExt

CONSTANTS
    Signal,        \* signal events
    ScopeOf,       \* runtime scope of a signal
    DomainMaps,    \* possible netting domains (instrument, side) of the scopes
    FamilyOf,      \* exposure family of a scope
    Rank,          \* arbitration order: smaller is first
    TicketLimit,   \* max_concurrent_tickets by policy version
    FamilyLimit,   \* family_ticket_limits
    Wallets,       \* risk budgets the wallet balance may allow
    None,
    Gates,         \* Owner gates of the instance, within AllGates
    MaxCrashes     \* bound: crashes of the ENTRY worker

AllGates == {"policy", "strategy", "vacuum"}
Scope == {ScopeOf[s] : s \in Signal}
Domain == {m[k] : m \in DomainMaps, k \in Scope}
Policies == DOMAIN TicketLimit
SignalOrNone == Signal \cup {None}
Risks == 0 .. Max(Wallets)

ASSUME AdmissionAssumption ==
    /\ IsFiniteSet(Signal) /\ None \notin Signal
    /\ Gates \subseteq AllGates /\ MaxCrashes \in Nat
    /\ Wallets \subseteq Nat
    /\ TicketLimit \in [Policies -> Nat] /\ 1 \in Policies /\ Policies \subseteq Nat
    /\ \A s, t \in Signal : Rank[s] = Rank[t] => s = t

VARIABLES
    readiness,  \* readiness_current by scope
    facts,      \* the signal whose facts are the current facts of the scope
    born,       \* signal_events
    expired,    \* signals past expires_at_ms
    decision,   \* admission_decisions by signal
    ticket,     \* Ticket, claim and ENTRY command by signal
    venue,      \* venue exposure of each Ticket
    lane,       \* entry_lane_current
    exposure,   \* account_exposure_current
    owner,      \* Owner policy version and closed gates
    incidents,  \* Tickets with an open incident
    wallet,     \* venue: the risk budget the balance allows now
    worker,     \* ENTRY worker: step, signal and the snapshot it has read
    crashes,
    domainOf    \* netting domain of each scope, fixed by the registry

durable == <<readiness, facts, born, decision, ticket, lane, exposure, owner, incidents>>
vars == <<readiness, facts, born, expired, decision, ticket, venue, lane, exposure, owner,
          incidents, wallet, worker, crashes, domainOf>>

ReadinessStates == {"unobserved", "signal_absent", "candidate_ready", "blocked", "processing"}
Stages == {"none", "entry", "open", "settling", "closed"}
CommandStates == {"none", "prepared", "claimed", "done"}
NoTicket == [stage |-> "none", risk |-> 0, gross |-> 0, policy |-> 0, command |-> "none"]
ClosedTicket == [stage |-> "closed", risk |-> 0, gross |-> 0, policy |-> 0, command |-> "done"]
NoSnapshot == [wallet |-> 0, positions |-> {}]
IdleWorker == [step |-> "idle", signal |-> None, snapshot |-> NoSnapshot]

\* Type correctness; the substance is that exposure never goes below zero and
\* that no accepted risk exceeds what some wallet allowed.
TypeOK ==
    /\ readiness \in [Scope -> [state : ReadinessStates, signal : SignalOrNone]]
    /\ facts \in [Scope -> SignalOrNone]
    /\ born \subseteq Signal /\ expired \subseteq born
    /\ decision \in [Signal -> {"none", "ADMITTED", "REJECTED"}]
    /\ ticket \in [Signal -> [stage : Stages, risk : Risks, gross : Risks,
                              policy : Policies \cup {0}, command : CommandStates]]
    /\ venue \in [Signal -> {"flat", "ordered", "naked", "covered"}]
    /\ lane \in SignalOrNone
    /\ exposure \in [count : 0 .. Cardinality(Signal), risk : Risks]
    /\ owner \in [policy : Policies, closed : SUBSET Gates]
    /\ incidents \subseteq Signal
    /\ wallet \in Wallets
    /\ worker \in [step : {"idle", "selected", "read", "claimed", "preflight", "cleared"},
                   signal : SignalOrNone,
                   snapshot : [wallet : Wallets \cup {0}, positions : SUBSET Domain]]
    /\ crashes \in 0 .. MaxCrashes
    /\ domainOf \in DomainMaps

Init ==
    /\ readiness = [k \in Scope |-> [state |-> "unobserved", signal |-> None]]
    /\ facts = [k \in Scope |-> None]
    /\ born = {} /\ expired = {}
    /\ decision = [s \in Signal |-> "none"]
    /\ ticket = [s \in Signal |-> NoTicket]
    /\ venue = [s \in Signal |-> "flat"]
    /\ lane = None
    /\ exposure = [count |-> 0, risk |-> 0]
    /\ owner = [policy |-> 1, closed |-> {}]
    /\ incidents = {}
    /\ wallet \in Wallets
    /\ worker = IdleWorker
    /\ crashes = 0
    /\ domainOf \in DomainMaps

-----------------------------------------------------------------------------
(* Readiness rows: one per scope, the last writer wins. *)

Row(state, s) == [state |-> state, signal |-> s]

SaveReadiness(rows, k, state, s) == [rows EXCEPT ![k] = Row(state, s)]

BlockSignal(rows, s) == SaveReadiness(rows, ScopeOf[s], "blocked", s)

\* Signals the scope of which still points at them as ready.
ReadySignals(rows) ==
    {s \in born : rows[ScopeOf[s]] = Row("candidate_ready", s) /\ ticket[s].stage = "none"}

StaleReady(rows) == ReadySignals(rows) \cap expired

ListReadyCandidates(rows) ==
    {s \in ReadySignals(rows) \ expired : "policy" \notin owner.closed}

\* The first of the candidates, if there is one.
RankFirst(candidates) == {s \in candidates : \A t \in candidates : Rank[s] <= Rank[t]}

-----------------------------------------------------------------------------
(* Observation: what SignalObservation does, seen from the readiness rows. *)

\* The selection check is inside: a signal born under a Vacuum is not ingested.
ValidateSignalAuthority(s) ==
    /\ s \notin expired
    /\ facts[ScopeOf[s]] = s
    /\ "vacuum" \notin owner.closed

IngestSignal(s) ==
    /\ s \notin born /\ "vacuum" \notin owner.closed
    /\ born' = born \cup {s}
    /\ facts' = [facts EXCEPT ![ScopeOf[s]] = s]
    /\ readiness' = SaveReadiness(readiness, ScopeOf[s], "candidate_ready", s)
    /\ UNCHANGED <<expired, decision, ticket, venue, lane, exposure, owner, incidents,
                   wallet, worker, crashes, domainOf>>

\* NOT_TRIGGERED at a later close: new facts, and no signal in the scope.
ObserveAbsence(k) ==
    /\ facts[k] # None
    /\ facts' = [facts EXCEPT ![k] = None]
    /\ readiness' = SaveReadiness(readiness, k, "signal_absent", None)
    /\ UNCHANGED <<born, expired, decision, ticket, venue, lane, exposure, owner, incidents,
                   wallet, worker, crashes, domainOf>>

\* After the ENTRY has left nothing reads the signal's expiry any more.
Expire(s) ==
    /\ s \in born \ expired /\ ticket[s].command # "done"
    /\ expired' = expired \cup {s}
    /\ UNCHANGED <<durable, venue, wallet, worker, crashes, domainOf>>

-----------------------------------------------------------------------------
(* The ENTRY worker: select, read, issue. *)

HoldsCapital(s) == ticket[s].stage \in {"entry", "open"}
NonTerminal(s) == ticket[s].stage \in {"entry", "open", "settling"}

\* Mutant: only the Ticket in the lane counts as active.
DomainCheckForgetsOpenTickets(d) ==
    \E s \in Signal : lane = s /\ domainOf[ScopeOf[s]] = d

HasActiveTicketInDomain(d) ==
    \E s \in Signal : HoldsCapital(s) /\ domainOf[ScopeOf[s]] = d

CountActiveFamilyTickets(f) ==
    Cardinality({s \in Signal : NonTerminal(s) /\ FamilyOf[ScopeOf[s]] = f})

\* First transaction of the tick: repair expired ready rows, then rank.
SelectEntryCandidate ==
    /\ worker.step = "idle" /\ lane = None
    /\ LET repaired == [k \in Scope |->
                          IF \E s \in StaleReady(readiness) : ScopeOf[s] = k
                          THEN Row("blocked", readiness[k].signal) ELSE readiness[k]]
           first == RankFirst(ListReadyCandidates(repaired))
       IN  \/ /\ first = {} /\ repaired # readiness
              /\ readiness' = repaired
              /\ UNCHANGED worker
           \/ /\ "strategy" \in owner.closed
              /\ \E s \in first : readiness' = BlockSignal(repaired, s)
              /\ UNCHANGED worker
           \/ /\ "strategy" \notin owner.closed
              /\ readiness' = repaired
              /\ \E s \in first :
                   worker' = [step |-> "selected", signal |-> s, snapshot |-> NoSnapshot]
    /\ UNCHANGED <<facts, born, expired, decision, ticket, venue, lane, exposure, owner,
                   incidents, wallet, crashes, domainOf>>

Snapshot == [wallet |-> wallet,
             positions |-> {domainOf[ScopeOf[s]] : s \in {t \in Signal : venue[t] # "flat"}}]

ReadEntryFacts ==
    /\ worker.step = "selected"
    /\ worker' = [worker EXCEPT !.step = "read", !.snapshot = Snapshot]
    /\ UNCHANGED <<durable, expired, venue, wallet, crashes, domainOf>>

\* The read failed or timed out; only a signal that is still first is decided.
RecordActionFactsUnavailable ==
    /\ worker.step = "selected"
    /\ LET s == worker.signal
       IN  IF s \in RankFirst(ListReadyCandidates(readiness))
           THEN /\ decision' = [decision EXCEPT ![s] = "REJECTED"]
                /\ readiness' = BlockSignal(readiness, s)
           ELSE UNCHANGED <<decision, readiness>>
    /\ worker' = IdleWorker
    /\ UNCHANGED <<facts, born, expired, ticket, venue, lane, exposure, owner, incidents,
                   wallet, crashes, domainOf>>

\* The domains of the Tickets that hold capital, and whether an incident fences ENTRY.
ReadAdmissionOwnership ==
    [domains |-> {d \in Domain : HasActiveTicketInDomain(d)}, fenced |-> incidents # {}]

\* Every position of the snapshot belongs to a Ticket that holds its domain.
AccountHealthy(snapshot) ==
    ~ ReadAdmissionOwnership.fenced /\ snapshot.positions \subseteq ReadAdmissionOwnership.domains

InstrumentHealthy(snapshot, s) ==
    ~ ReadAdmissionOwnership.fenced /\ domainOf[ScopeOf[s]] \notin snapshot.positions

\* Risks the sizing may choose: at least the minimum, within the snapshot's budget.
SizingChoices(snapshot) ==
    {r \in Risks : r > 0 /\ exposure.risk + r <= snapshot.wallet}

CapacityClaims(snapshot, s) ==
    IF /\ AccountHealthy(snapshot) /\ InstrumentHealthy(snapshot, s)
       /\ ~ HasActiveTicketInDomain(domainOf[ScopeOf[s]])
       /\ exposure.count < TicketLimit[owner.policy]
       /\ CountActiveFamilyTickets(FamilyOf[ScopeOf[s]]) < FamilyLimit
    THEN SizingChoices(snapshot) ELSE {}

\* What the claim freezes: the risk, the gross risk it was sized on and the policy.
ClaimedTicket(r) ==
    [stage |-> "entry", risk |-> r, gross |-> exposure.risk, policy |-> owner.policy,
     command |-> "prepared"]

ReserveAccountExposure(r) == [count |-> exposure.count + 1, risk |-> exposure.risk + r]

ReleaseAccountExposure(s) ==
    [count |-> exposure.count - 1, risk |-> exposure.risk - ticket[s].risk]

FreezeAdmissionDecision(s, verdict) == [decision EXCEPT ![s] = verdict]

\* issue_ticket checks lane, policy, controls, Vacuum and authority once more, locked.
IssueTicketAdmits ==
    lane = None /\ owner.closed = {}

\* One transaction: claim, Ticket, reservation, lane, domain, command, decision, row.
IssueTicket(s, r) ==
    /\ IssueTicketAdmits
    /\ ticket' = [ticket EXCEPT ![s] = ClaimedTicket(r)]
    /\ exposure' = ReserveAccountExposure(r)
    /\ lane' = s
    /\ decision' = FreezeAdmissionDecision(s, "ADMITTED")
    /\ readiness' = SaveReadiness(readiness, ScopeOf[s], "processing", s)

\* A refusal that knows the portfolio leaves a decision; all leave a blocker.
Refuse(s, decided) ==
    /\ decision' = IF decided THEN FreezeAdmissionDecision(s, "REJECTED") ELSE decision
    /\ readiness' = BlockSignal(readiness, s)
    /\ UNCHANGED <<ticket, exposure, lane>>

\* The selected signal is no longer first.
IssueRequestedNotFirst(s) ==
    IF ValidateSignalAuthority(s)
    THEN UNCHANGED <<readiness, decision, ticket, exposure, lane>>
    ELSE Refuse(s, FALSE)

\* Owner policy, scope and Strategy control as of this transaction.
StrategyEntryIsEnabled == "strategy" \notin owner.closed

\* A refusal needs no reason here: exit profile, product session, margin, quote,
\* venue minimums and stress refuse too, on data that is left out.
IssueReadySignal ==
    /\ worker.step = "read"
    /\ LET s == worker.signal
           claims == CapacityClaims(worker.snapshot, s)
       IN  \/ /\ s \notin RankFirst(ListReadyCandidates(readiness))
              /\ IssueRequestedNotFirst(s)
           \/ /\ s \in RankFirst(ListReadyCandidates(readiness))
              /\ \/ ~ StrategyEntryIsEnabled /\ Refuse(s, FALSE)
                 \/ StrategyEntryIsEnabled /\ Refuse(s, TRUE)
                 \/ \E r \in claims : IssueTicket(s, r)
    /\ worker' = IdleWorker
    /\ UNCHANGED <<facts, born, expired, venue, owner, incidents, wallet, crashes, domainOf>>

-----------------------------------------------------------------------------
(* The ENTRY worker: claim, preflight, send. *)

\* Mutants: the exposure, or the lane, is not given back.
ReleaseWithoutExposure(s) ==
    /\ ticket' = [ticket EXCEPT ![s] = ClosedTicket]
    /\ lane' = None /\ incidents' = incidents \ {s}
    /\ UNCHANGED exposure


ReleaseAll(s) ==
    /\ ticket' = [ticket EXCEPT ![s] = ClosedTicket]
    /\ exposure' = ReleaseAccountExposure(s)
    /\ lane' = None
    /\ incidents' = incidents \ {s}

\* claim_one_prepared takes no row past deadline_at_ms, which is the signal's expiry.
ClaimEntry(s) ==
    /\ worker.step = "idle" /\ ticket[s].command = "prepared" /\ s \notin expired
    /\ ticket' = [ticket EXCEPT ![s].command = "claimed"]
    /\ worker' = [step |-> "claimed", signal |-> s, snapshot |-> NoSnapshot]
    /\ UNCHANGED <<readiness, facts, born, expired, decision, venue, lane, exposure, owner,
                   incidents, wallet, crashes, domainOf>>

ReadDispatchFacts ==
    /\ worker.step = "claimed"
    /\ worker' = [worker EXCEPT !.step = "preflight", !.snapshot = Snapshot]
    /\ UNCHANGED <<durable, expired, venue, wallet, crashes, domainOf>>

\* Mutant: the wallet read at dispatch is not compared.
RevalidateWithoutWallet(snapshot, s) ==
    /\ s \notin expired
    /\ ticket[s].policy = owner.policy /\ owner.closed = {}
    /\ AccountHealthy(snapshot) /\ InstrumentHealthy(snapshot, s)

\* The gross risk compared is the one frozen in the claim, not the current one.
RevalidateEntryDispatch(snapshot, s) ==
    /\ s \notin expired
    /\ ticket[s].policy = owner.policy /\ owner.closed = {}
    /\ CountActiveFamilyTickets(FamilyOf[ScopeOf[s]]) <= FamilyLimit
    /\ AccountHealthy(snapshot) /\ InstrumentHealthy(snapshot, s)
    /\ ticket[s].gross + ticket[s].risk <= snapshot.wallet

\* As on issue, data that is left out (margin, quote, stress) may refuse as well.
PreflightEntry ==
    /\ worker.step = "preflight"
    /\ LET s == worker.signal
       IN  \/ /\ RevalidateEntryDispatch(worker.snapshot, s)
              /\ worker' = [worker EXCEPT !.step = "cleared"]
              /\ UNCHANGED <<ticket, exposure, lane, incidents>>
           \/ ReleaseAll(s) /\ worker' = IdleWorker
    /\ UNCHANGED <<readiness, facts, born, expired, decision, venue, owner, wallet, crashes, domainOf>>

\* The claim's figures have served: nothing reads them after the dispatch.
SendEntry ==
    /\ worker.step = "cleared"
    /\ venue' = [venue EXCEPT ![worker.signal] = "ordered"]
    /\ ticket' = [ticket EXCEPT ![worker.signal].command = "done", ![worker.signal].gross = 0,
                                ![worker.signal].policy = 0]
    /\ worker' = IdleWorker
    /\ UNCHANGED <<readiness, facts, born, expired, decision, lane, exposure, owner,
                   incidents, wallet, crashes, domainOf>>

\* A crash forgets the step.  A claim whose lease then expires was never sent:
\* venue truth finds no order and the Ticket is refused.
Crash ==
    /\ crashes < MaxCrashes /\ worker.step # "idle"
    /\ crashes' = crashes + 1
    /\ worker' = IdleWorker
    /\ UNCHANGED <<durable, expired, venue, wallet, domainOf>>

RecoverUnsentClaim(s) ==
    /\ ticket[s].command = "claimed" /\ worker.signal # s
    /\ ReleaseAll(s)
    /\ UNCHANGED <<readiness, facts, born, expired, decision, venue, owner, wallet, worker,
                   crashes, domainOf>>

\* The drain of an open Vacuum supersedes an ENTRY nobody has claimed, late or not.
SupersedeUnclaimed(s) ==
    /\ "vacuum" \in owner.closed /\ ticket[s].command = "prepared"
    /\ ReleaseAll(s)
    /\ UNCHANGED <<readiness, facts, born, expired, decision, venue, owner, wallet, worker,
                   crashes, domainOf>>

-----------------------------------------------------------------------------
(* Tickets after their ENTRY has left: the steps of TicketLife. *)

VenueStep(s, from, to) ==
    /\ venue[s] = from
    /\ venue' = [venue EXCEPT ![s] = to]
    /\ UNCHANGED <<durable, expired, wallet, worker, crashes, domainOf>>

EntryFills(s) == VenueStep(s, "ordered", "naked")
StopStands(s) == VenueStep(s, "naked", "covered")
PositionCloses(s) == \E v \in {"naked", "covered"} : VenueStep(s, v, "flat")

EntryRejected(s) ==
    /\ venue[s] = "ordered" /\ ReleaseAll(s)
    /\ venue' = [venue EXCEPT ![s] = "flat"]
    /\ UNCHANGED <<readiness, facts, born, expired, decision, owner, wallet, worker, crashes, domainOf>>

\* Mutant: the lane is handed on as soon as the ENTRY has filled.
ReleaseLaneOnFill(s) ==
    /\ ticket[s].stage = "entry" /\ ticket[s].command = "done"
    /\ venue[s] # "ordered"
    /\ ticket' = [ticket EXCEPT ![s].stage = "open"]
    /\ lane' = None
    /\ UNCHANGED <<readiness, facts, born, expired, decision, venue, exposure, owner,
                   incidents, wallet, worker, crashes, domainOf>>

ReleaseEntryLane(s) ==
    /\ ticket[s].stage = "entry" /\ ticket[s].command = "done"
    /\ venue[s] \in {"covered", "flat"}
    /\ ticket' = [ticket EXCEPT ![s].stage = "open"]
    /\ lane' = None
    /\ UNCHANGED <<readiness, facts, born, expired, decision, venue, exposure, owner,
                   incidents, wallet, worker, crashes, domainOf>>

ReleaseCapitalAuthorities(s) ==
    /\ ticket[s].stage = "open" /\ venue[s] = "flat"
    /\ ticket' = [ticket EXCEPT ![s].stage = "settling", ![s].risk = 0]
    /\ exposure' = ReleaseAccountExposure(s)
    /\ UNCHANGED <<readiness, facts, born, expired, decision, venue, lane, owner, incidents,
                   wallet, worker, crashes, domainOf>>

MarkTerminal(s) ==
    /\ ticket[s].stage = "settling"
    /\ ticket' = [ticket EXCEPT ![s].stage = "closed"]
    /\ incidents' = incidents \ {s}
    /\ UNCHANGED <<readiness, facts, born, expired, decision, venue, lane, exposure, owner,
                   wallet, worker, crashes, domainOf>>

OpenIncident(s) ==
    /\ ticket[s].stage = "open"
    /\ incidents' = incidents \cup {s}
    /\ UNCHANGED <<readiness, facts, born, expired, decision, ticket, venue, lane, exposure,
                   owner, wallet, worker, crashes, domainOf>>

-----------------------------------------------------------------------------
(* The Owner and the market. *)

OwnerMoves ==
    /\ \/ \E p \in Policies : p > owner.policy /\ owner' = [owner EXCEPT !.policy = p]
       \/ \E g \in Gates : owner' = [owner EXCEPT !.closed =
                                       IF g \in @ THEN @ \ {g} ELSE @ \cup {g}]
    /\ UNCHANGED <<readiness, facts, born, expired, decision, ticket, venue, lane, exposure,
                   incidents, wallet, worker, crashes, domainOf>>

WalletMoves ==
    /\ wallet' \in Wallets \ {wallet}
    /\ UNCHANGED <<durable, expired, venue, worker, crashes, domainOf>>

-----------------------------------------------------------------------------

EntryWorkerNext ==
    \/ SelectEntryCandidate \/ ReadEntryFacts \/ RecordActionFactsUnavailable
    \/ IssueReadySignal \/ (\E s \in Signal : ClaimEntry(s)) \/ ReadDispatchFacts
    \/ PreflightEntry \/ SendEntry

\* Transactions of the recovery, drain and lifecycle workers.
TicketWorkersNext(s) ==
    \/ RecoverUnsentClaim(s) \/ SupersedeUnclaimed(s) \/ ReleaseEntryLane(s)
    \/ ReleaseCapitalAuthorities(s) \/ MarkTerminal(s)

\* What the venue does with the order and the position.
VenueNext(s) ==
    EntryFills(s) \/ StopStands(s) \/ PositionCloses(s) \/ EntryRejected(s)

Next ==
    \/ EntryWorkerNext
    \/ \E s \in Signal :
          TicketWorkersNext(s) \/ VenueNext(s) \/ IngestSignal(s) \/ Expire(s) \/ OpenIncident(s)
    \/ \E k \in Scope : ObserveAbsence(k)
    \/ Crash \/ OwnerMoves \/ WalletMoves

Spec == Init /\ [][Next]_vars

\* The workers tick.  Nothing is assumed of the venue: an order may rest, and a
\* position stay without its stop, for good.
FairSpec ==
    /\ Spec
    /\ WF_vars(EntryWorkerNext)
    /\ \A s \in Signal : WF_vars(RecoverUnsentClaim(s)) /\ WF_vars(ReleaseEntryLane(s))

-----------------------------------------------------------------------------
(* Properties. *)

\* The incremental account counters (reserve_account_exposure on issue, release in
\* the reducer's effects) equal the sum over the Tickets that hold capital.
ExposureIsExact ==
    LET holders == {s \in Signal : HoldsCapital(s)}
    IN  /\ exposure.count = Cardinality(holders)
        /\ exposure.risk = MapThenSumSet(LAMBDA s : ticket[s].risk, holders)

\* When an ENTRY is about to leave, the stop risk of all Tickets together fits the
\* wallet the preflight has just read, although revalidate_entry_dispatch adds the
\* Ticket to the gross risk frozen in its claim and never reads the current one; and
\* the Tickets of the account are within max_concurrent_tickets of the policy it was
\* issued under, which the preflight does not count again.
SentEntryFits ==
    worker.step = "cleared" =>
        /\ exposure.risk <= worker.snapshot.wallet
        /\ exposure.count <= TicketLimit[ticket[worker.signal].policy]

\* Two Tickets never hold capital in one netting domain, and an ENTRY never meets
\* a position of another Ticket there.
DomainIsExclusive ==
    \A s, t \in Signal :
        /\ s # t /\ domainOf[ScopeOf[s]] = domainOf[ScopeOf[t]] /\ HoldsCapital(s)
        => ~ HoldsCapital(t) /\ venue[t] = "flat"

Life(s) == INSTANCE TicketLife WITH
    stage <- ticket[s].stage,
    exposed <- (venue[s] \in {"naked", "covered"}),
    covered <- (venue[s] = "covered")

\* Each Ticket keeps the contract TicketExecution implements: what admission
\* assumes of a running Ticket is what its lifecycle guarantees.
TicketsKeepContract ==
    /\ \A s \in Signal : Life(s)!Init
    /\ [][\A s \in Signal : [Life(s)!Next]_(Life(s)!vars)]_vars

\* An ENTRY command nobody claimed in time: no later tick takes it.
DeadlineMissed(s) == ticket[s].command = "prepared" /\ s \in expired

=============================================================================
