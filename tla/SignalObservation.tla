-------------------------- MODULE SignalObservation --------------------------
(***************************************************************************)
(* Observation workers on one rising-edge scope of a generic comparative   *)
(* strategy (interfaces/observation_worker.py, observe_strategy_scope.py,  *)
(* pg_signal_repository.py), from the claim of the scope to the Signal.    *)
(*                                                                         *)
(* An observation is two transactions with market I/O between them: the    *)
(* first reads the scope, its selection authority and its comparison       *)
(* binding, the second checks them again, advances the Episode and ingests *)
(* the Signal.  Bars close, authority is renewed, fenced and granted again,*)
(* and other workers run between any two transactions.                     *)
(*                                                                         *)
(* A worker whose lease lapsed is not stopped: it may finish late.  A      *)
(* crash takes a worker's memory; the scope keeps its lease until it       *)
(* lapses.  The detector is a function of the closed bar (market).         *)
(***************************************************************************)
EXTENDS Naturals, Sequences, FiniteSets, ExposureEpisode

CONSTANTS Workers,       \* observation worker processes
          Nobody,        \* no lease owner
          MaxClose,      \* bars the run closes
          MaxGrants,     \* selection authorities granted after the first
          MaxFaults      \* crashes, failed or late market reads, leases lapsed in use

ASSUME ObservationAssumption ==
    /\ Nobody \notin Workers
    /\ MaxClose \in Nat /\ MaxGrants \in Nat /\ MaxFaults \in Nat

VARIABLES
  close,      \* the latest closed bar
  market,     \* what the detector says of the closed bars, as far as it will be read
  scope,      \* brc_runtime_scopes_current: lifecycle, lease, due bar, warm evidence, and
              \* whose claim carries its present observation_generation
  episode, comparison, recovery,   \* the row of brc_exposure_episode_current
  binding,    \* comparison_transition_revision of the current binding, 0 is the first
  authority,  \* current selection authority: number, kind, first eligible close, expired or not
  ready,      \* readiness_current of the scope
  signals,    \* signal_events: Episode, and what its birth stood under
  worker,     \* what each worker process holds in memory
  rearms,     \* history: committed NOT_TRIGGERED closes and what they stood under
  faults      \* crashes, failed reads and lapses so far

vars == <<close, market, scope, episode, comparison, recovery, binding, authority,
          ready, signals, worker, rearms, faults>>

Closes == 1..MaxClose
Idle   == [pc |-> "idle", close |-> 0, lifecycle |-> "none",
           authority |-> 0, binding |-> 0, retry |-> FALSE, warmed |-> FALSE]

\* A row of readiness_current; the blocker's wording is left out.
Readiness(state, signal) == [state |-> state, signal |-> signal]

\* A scope that warms before its first activation, or one that was activated at the bar
\* before, with or without a comparison binding.
Init ==
  /\ close = 2 /\ binding \in {0, 1}
  /\ \/ /\ binding = 0
        /\ scope = [lifecycle |-> "warming", current |-> Nobody, owner |-> Nobody,
                    lapsed |-> FALSE, due |-> 0, warm |-> 0]
     \/ scope = [lifecycle |-> "active", current |-> Nobody, owner |-> Nobody,
                 lapsed |-> FALSE, due |-> 2, warm |-> 1]
  /\ \E status \in {Triggered, NotTriggered, Invalid} :
       market = [c \in 1..close |-> IF c = close THEN status ELSE Invalid]
  /\ episode = NoEpisode /\ comparison = NoComparison /\ recovery = NoRecovery
  /\ authority = [id |-> 1, kind |-> "normal", first |-> close, expired |-> FALSE]
  /\ ready = Readiness("none", 0)
  /\ signals = {}
  /\ worker = [w \in Workers |-> Idle]
  /\ rearms = {}
  /\ faults = 0

-----------------------------------------------------------------------------
(* Claim and schedule *)

\* Mutant: a lapsed lease is never taken over.
ClaimableUnlessLeased == scope.due <= close /\ scope.owner = Nobody

ClaimableScope ==
  scope.due <= close /\ (scope.owner = Nobody \/ scope.lapsed)

\* The tick's clock is read once: later checks of the authority's dates see the one that
\* was effective when the tick began, if any.
EffectiveAuthority == IF authority.expired THEN 0 ELSE authority.id

\* claim_next_observation_scope: the lease, a new generation, the latest closed bar.
ClaimScope(w) ==
  /\ worker[w].pc = "idle" /\ ClaimableScope
  /\ scope' = [scope EXCEPT !.owner = w, !.lapsed = FALSE, !.current = w]
  /\ worker' = [worker EXCEPT ![w] = [Idle EXCEPT !.pc = "claimed", !.close = close,
                                               !.authority = EffectiveAuthority]]
  /\ UNCHANGED <<close, market, episode, comparison, recovery, binding, authority,
                 ready, signals, rearms, faults>>

OwnsLease(w) == scope.owner = w /\ scope.current = w

\* schedule_observation_scope: the lease goes back only under the claim's own
\* generation; otherwise the worker was superseded and changes nothing.
ScheduledScope(w) ==
  IF OwnsLease(w)
  THEN [scope EXCEPT !.owner = Nobody, !.lapsed = FALSE,
                     !.due = IF worker[w].retry THEN scope.due ELSE worker[w].close + 1]
  ELSE scope

ScheduleScope(w) ==
  /\ worker[w].pc = "done"
  /\ scope' = ScheduledScope(w)
  /\ worker' = [worker EXCEPT ![w] =
       IF OwnsLease(w) /\ worker[w].warmed THEN [Idle EXCEPT !.pc = "advance"] ELSE Idle]
  /\ UNCHANGED <<close, market, episode, comparison, recovery, binding, authority,
                 ready, signals, rearms, faults>>

-----------------------------------------------------------------------------
(* observe_strategy_scope, first transaction *)

\* What ends an observation: the worker goes on to schedule the scope.
Finish(w, retry, warmed) ==
  worker' = [worker EXCEPT ![w] = [Idle EXCEPT !.pc = "done", !.close = worker[w].close,
                                               !.retry = retry, !.warmed = warmed]]

\* resolve_selection_observation_authority for the close the worker observes: no Vacuum,
\* an authority effective at the tick, a close it covers.
SelectionAllows(w) ==
  /\ authority.kind # "vacuum"
  /\ worker[w].authority = authority.id
  /\ authority.first <= worker[w].close

\* The refusal the worker retries, "selection_authority_missing_or_expired": a normal
\* authority, or the successor of a recovery, that was not effective at the tick.  An
\* open Vacuum, a recovery's own dates and a close not covered wait for the next bar.
SelectionRetries(w) ==
  /\ authority.kind # "vacuum" /\ worker[w].authority # authority.id
  /\ ~(authority.kind = "recovery" /\ authority.id = recovery.revision)

\* _save_observation_blocker: a warming scope loses its evidence, under the
\* generation of the attempt; an active scope's readiness is overwritten.
BlockerRaises(w) ==
  worker[w].lifecycle = "warming"
  /\ ~(scope.lifecycle = "warming" /\ scope.current = w)

SaveBlocker(w) ==
  /\ ~BlockerRaises(w)
  /\ ready' = Readiness("blocked", 0)
  /\ scope' = IF worker[w].lifecycle = "warming" THEN [scope EXCEPT !.warm = 0] ELSE scope

\* The generation moved on: nothing is written.
OpenSuperseded(w) ==
  /\ worker[w].pc = "claimed" /\ scope.current # w
  /\ Finish(w, FALSE, FALSE)
  /\ UNCHANGED <<close, market, scope, episode, comparison, recovery, binding, authority,
                 ready, signals, rearms, faults>>

\* An active scope without selection authority for this close.
OpenRefused(w) ==
  /\ worker[w].pc = "claimed" /\ scope.current = w
  /\ scope.lifecycle = "active" /\ ~SelectionAllows(w)
  /\ ready' = Readiness("blocked", 0)
  /\ Finish(w, SelectionRetries(w), FALSE)
  /\ UNCHANGED <<close, market, scope, episode, comparison, recovery, binding, authority,
                 signals, rearms, faults>>

\* The scope may be observed: the market is read next, outside a transaction.
OpenScope(w) ==
  /\ worker[w].pc = "claimed" /\ scope.current = w
  /\ scope.lifecycle = "active" => SelectionAllows(w)
  /\ worker' = [worker EXCEPT ![w] =
       [Idle EXCEPT !.pc = "reading", !.close = worker[w].close, !.lifecycle = scope.lifecycle,
                    !.authority = worker[w].authority, !.binding = binding]]
  /\ UNCHANGED <<close, market, scope, episode, comparison, recovery, binding, authority,
                 ready, signals, rearms, faults>>

-----------------------------------------------------------------------------
(* The market read *)

\* _load_market_snapshot or the comparative projection is unavailable.
MarketUnavailable(w) ==
  /\ worker[w].pc = "reading" /\ faults < MaxFaults
  /\ IF BlockerRaises(w) THEN UNCHANGED <<ready, scope>> ELSE SaveBlocker(w)
  /\ faults' = faults + 1
  /\ Finish(w, TRUE, FALSE)
  /\ UNCHANGED <<close, market, episode, comparison, recovery, binding, authority,
                 signals, rearms>>

\* The detector cannot evaluate the snapshot of a warming scope, or finds it INVALID.
WarmFactsInvalid(w) ==
  /\ worker[w].pc = "reading" /\ worker[w].lifecycle = "warming"
  /\ IF BlockerRaises(w) THEN UNCHANGED <<ready, scope>> ELSE SaveBlocker(w)
  /\ Finish(w, BlockerRaises(w), FALSE)
  /\ UNCHANGED <<close, market, episode, comparison, recovery, binding, authority,
                 signals, rearms, faults>>

\* wait_for cancels the observation before its second transaction.
ObservationTimesOut(w) ==
  /\ worker[w].pc \in {"claimed", "reading"} /\ faults < MaxFaults
  /\ faults' = faults + 1
  /\ Finish(w, TRUE, FALSE)
  /\ UNCHANGED <<close, market, scope, episode, comparison, recovery, binding, authority,
                 ready, signals, rearms>>

-----------------------------------------------------------------------------
(* observe_strategy_scope, second transaction *)

Status(w) == market[worker[w].close]

\* A warming scope: save_warm_readiness, under the generation of the attempt.
WarmScope(w) ==
  /\ worker[w].pc = "reading" /\ worker[w].lifecycle = "warming" /\ Status(w) # Invalid
  /\ IF BlockerRaises(w)
     THEN /\ UNCHANGED <<scope, ready>>
          /\ Finish(w, TRUE, FALSE)
     ELSE /\ scope' = [scope EXCEPT !.warm = worker[w].close]
          /\ ready' = Readiness("warm", 0)
          /\ Finish(w, FALSE, TRUE)
  /\ UNCHANGED <<close, market, episode, comparison, recovery, binding, authority,
                 signals, rearms, faults>>

\* advance_strategy_universe after a warmed observation: fresh evidence
\* activates the scope and starts a new generation.
AdvanceUniverse(w) ==
  /\ worker[w].pc = "advance"
  /\ scope' = IF scope.lifecycle = "warming" /\ scope.warm = close
              THEN [scope EXCEPT !.lifecycle = "active", !.current = Nobody,
                                 !.owner = Nobody, !.lapsed = FALSE, !.due = close + 1]
              ELSE scope
  /\ worker' = [worker EXCEPT ![w] = Idle]
  /\ UNCHANGED <<close, market, episode, comparison, recovery, binding, authority,
                 ready, signals, rearms, faults>>

\* What was read before the market is no longer current: nothing is written.
Revalidated(w) ==
  SelectionAllows(w) /\ binding = worker[w].binding

\* Only a refused authority is ever retried; a changed comparison binding is not.
CommitRefused(w) ==
  /\ worker[w].pc = "reading" /\ worker[w].lifecycle = "active" /\ ~Revalidated(w)
  /\ Finish(w, ~SelectionAllows(w) /\ SelectionRetries(w), FALSE)
  /\ UNCHANGED <<close, market, scope, episode, comparison, recovery, binding, authority,
                 ready, signals, rearms, faults>>

\* The detector finds the bar INVALID: a blocker, the Episode and its barriers are left
\* alone, and the bar is not looked at again.
CommitInvalid(w) ==
  /\ worker[w].pc = "reading" /\ worker[w].lifecycle = "active" /\ Revalidated(w)
  /\ Status(w) = Invalid
  /\ ready' = Readiness("blocked", 0)
  /\ Finish(w, FALSE, FALSE)
  /\ UNCHANGED <<close, market, scope, episode, comparison, recovery, binding, authority,
                 signals, rearms, faults>>

\* The reducers of the three observation paths: does one raise, does it suppress.
Recovering == authority.kind = "recovery"

\* advance_recovery_observation reads the clock anew: the bar and the recovery must be
\* the present ones.
RecoveryMovedOn(at) == Recovering /\ (at # close \/ authority.expired)

EpisodeRaises(status, at) ==
  LET passed == ~Recovering \/ ~RecoverySuppresses(recovery, status, at) IN
  \/ RecoveryMovedOn(at)
  \/ Recovering /\ RecoveryRefuses(episode, comparison, recovery, status, at, binding)
  \/ passed /\ IF binding > 0 THEN ComparisonRefuses(episode, comparison, status, at, binding)
                              ELSE EpisodeRefuses(episode, status, at)

Suppressed(status, at) ==
  \/ Recovering /\ RecoverySuppresses(recovery, status, at)
  \/ binding > 0 /\ ComparisonSuppresses(comparison, status, binding)

\* save_exposure_episode, save_comparison_episode_transition: a suppressed close
\* leaves the Episode's identity, and moves the cursor of a placeholder row.
SavedEpisode(status, at) ==
  IF ~Suppressed(status, at) THEN AdvanceExposureEpisode(episode, status, at)
  ELSE IF episode = NoEpisode
       THEN [state |-> "comparison_rebase_required", id |-> 0, last |-> at]
  ELSE IF Recovering /\ episode.state = "authority_rebase_required" THEN [episode EXCEPT !.last = at]
  ELSE episode

SavedComparison(status, at) ==
  IF binding = 0 \/ (Recovering /\ RecoverySuppresses(recovery, status, at)) THEN comparison
  ELSE AdvanceComparison(comparison, status, at, binding)

SavedRecovery(status, at) ==
  IF Recovering THEN AdvanceAuthorityRecoveryRebase(recovery, status, at) ELSE recovery

\* ingest_signal in the same transaction: a recovery must have armed, a Signal
\* that exists is a duplicate and leaves readiness alone.
EntryAllowed(at) ==
  Recovering => /\ RecoveryEntryAllowed(recovery', at)
                /\ ComparisonEntryAllowed(comparison', at, binding)

IngestObserved(at) ==
  LET born == [id |-> episode'.id, binding |-> binding,
               recovery |-> IF Recovering THEN recovery.revision ELSE 0] IN
  CASE ~EntryAllowed(at) -> ready' = Readiness("blocked", episode'.id) /\ UNCHANGED signals
    [] EntryAllowed(at) /\ \E s \in signals : s.id = episode'.id -> UNCHANGED <<ready, signals>>
    [] OTHER -> ready' = Readiness("candidate", episode'.id) /\ signals' = signals \union {born}

\* A reducer raises: the transaction rolls back, the worker retries.
CommitRaises(w) ==
  /\ worker[w].pc = "reading" /\ worker[w].lifecycle = "active" /\ Revalidated(w)
  /\ Status(w) # Invalid /\ EpisodeRaises(Status(w), worker[w].close)
  /\ Finish(w, TRUE, FALSE)
  /\ UNCHANGED <<close, market, scope, episode, comparison, recovery, binding, authority,
                 ready, signals, rearms, faults>>

CommitObservation(w) ==
  LET at == worker[w].close
      status == Status(w) IN
  /\ worker[w].pc = "reading" /\ worker[w].lifecycle = "active" /\ Revalidated(w)
  /\ status # Invalid /\ ~EpisodeRaises(status, at)
  /\ episode' = SavedEpisode(status, at)
  /\ comparison' = SavedComparison(status, at)
  /\ recovery' = SavedRecovery(status, at)
  /\ IF Suppressed(status, at) THEN ready' = Readiness("blocked", 0) /\ UNCHANGED signals
     ELSE IF status = NotTriggered THEN ready' = Readiness("absent", 0) /\ UNCHANGED signals
     ELSE IngestObserved(at)
  /\ rearms' = IF status = NotTriggered
               THEN rearms \union {[close |-> at, binding |-> binding,
                        recovery |-> IF Recovering THEN recovery.revision ELSE 0]}
               ELSE rearms
  /\ Finish(w, FALSE, FALSE)
  /\ UNCHANGED <<close, market, scope, binding, authority, faults>>

-----------------------------------------------------------------------------
(* The world around the workers *)

\* A worker has the bar in hand; the verdict on any other past bar is never read again,
\* and the model forgets it.
InHand(c) == \E w \in Workers : worker[w].close = c

CloseBar ==
  /\ close < MaxClose /\ close' = close + 1
  /\ \E status \in {Triggered, NotTriggered, Invalid} :
       market' = Append([c \in 1..close |-> IF InHand(c) THEN market[c] ELSE Invalid], status)
  /\ UNCHANGED <<scope, episode, comparison, recovery, binding, authority,
                 ready, signals, worker, rearms, faults>>

LeaseLapses ==
  /\ scope.owner # Nobody /\ ~scope.lapsed
  /\ \/ worker[scope.owner].pc = "idle" /\ UNCHANGED faults
     \/ /\ worker[scope.owner].pc # "idle" /\ faults < MaxFaults
        /\ faults' = faults + 1
  /\ scope' = [scope EXCEPT !.lapsed = TRUE]
  /\ UNCHANGED <<close, market, episode, comparison, recovery, binding, authority,
                 ready, signals, worker, rearms>>

Crash(w) ==
  /\ worker[w].pc # "idle" /\ faults < MaxFaults
  /\ worker' = [worker EXCEPT ![w] = Idle]
  /\ faults' = faults + 1
  /\ UNCHANGED <<close, market, scope, episode, comparison, recovery, binding, authority,
                 ready, signals, rearms>>

\* Its period is over; nobody has granted for the next one yet.
ExpireAuthority ==
  /\ scope.lifecycle = "active" /\ authority.kind # "vacuum" /\ authority.id <= MaxGrants
  /\ ~authority.expired
  /\ authority' = [authority EXCEPT !.expired = TRUE]
  /\ UNCHANGED <<close, market, scope, episode, comparison, recovery, binding,
                 ready, signals, worker, rearms, faults>>

\* An Entry Vacuum opens over the strategy.
OpenVacuum ==
  /\ scope.lifecycle = "active" /\ authority.kind # "vacuum" /\ authority.id <= MaxGrants
  /\ authority' = [authority EXCEPT !.kind = "vacuum", !.expired = FALSE]
  /\ UNCHANGED <<close, market, scope, episode, comparison, recovery, binding,
                 ready, signals, worker, rearms, faults>>

\* lock_generic_close_coverage, generic_recovery_transition_blocker: a normal
\* grant takes effect at a close nobody consumed and abandons no unarmed recovery.
LastConsumed == Highest({episode.last, comparison.last, recovery.last})
RecoveryOutstanding == recovery.revision > 0 /\ recovery.armed = 0

GrantCovers == LastConsumed < close /\ ~RecoveryOutstanding

\* The period rolls over with the same members (NO_CHANGE, PRE_FENCE_CONTINUITY): a new
\* authority from the present close, no fence; the successor of a recovery goes on with it.
RenewAuthority ==
  /\ scope.lifecycle = "active" /\ authority.kind # "vacuum" /\ authority.id <= MaxGrants
  /\ LastConsumed < close
  /\ authority' = [authority EXCEPT !.id = @ + 1, !.first = close, !.expired = FALSE]
  /\ UNCHANGED <<close, market, scope, episode, comparison, recovery, binding,
                 ready, signals, worker, rearms, faults>>

\* A generation activates: new members, a new comparison binding, a new scope.
GrantActivation ==
  /\ authority.kind = "vacuum" /\ GrantCovers
  /\ authority' = [id |-> authority.id + 1, kind |-> "normal", first |-> close, expired |-> FALSE]
  /\ binding' = binding + 1
  /\ scope' = [scope EXCEPT !.current = Nobody, !.owner = Nobody, !.lapsed = FALSE, !.due = close]
  /\ UNCHANGED <<close, market, episode, comparison, recovery,
                 ready, signals, worker, rearms, faults>>

\* The previous members come back after a gap: only closes of the future
\* count, and the Episode must rebase under the new recovery.
GrantRecovery ==
  /\ authority.kind = "vacuum" /\ close < MaxClose
  /\ authority' = [id |-> authority.id + 1, kind |-> "recovery", first |-> close + 1,
                   expired |-> FALSE]
  /\ recovery' = BeginAuthorityRecoveryRebase(recovery, authority.id + 1, close + 1, LastConsumed)
  /\ episode' = IF episode = NoEpisode
                THEN [state |-> "authority_rebase_required", id |-> 0, last |-> LastConsumed]
                ELSE episode
  /\ UNCHANGED <<close, market, scope, comparison, binding,
                 ready, signals, worker, rearms, faults>>

-----------------------------------------------------------------------------

WorkerStep(w) ==
  \/ ClaimScope(w) \/ OpenSuperseded(w) \/ OpenRefused(w) \/ OpenScope(w)
  \/ WarmFactsInvalid(w) \/ WarmScope(w) \/ CommitRefused(w) \/ CommitInvalid(w)
  \/ CommitRaises(w) \/ CommitObservation(w)
  \/ ScheduleScope(w) \/ AdvanceUniverse(w)

Next ==
  \/ \E w \in Workers : WorkerStep(w) \/ MarketUnavailable(w) \/ ObservationTimesOut(w) \/ Crash(w)
  \/ CloseBar \/ LeaseLapses
  \/ ExpireAuthority \/ RenewAuthority \/ OpenVacuum \/ GrantActivation \/ GrantRecovery

\* The worker loop runs for ever and time passes; no operator, no authority
\* service and no bar is assumed to come.
Fairness == (\A w \in Workers : WF_vars(WorkerStep(w))) /\ WF_vars(LeaseLapses)

Spec == Init /\ [][Next]_vars /\ Fairness

-----------------------------------------------------------------------------
(* Properties *)

\* brc_runtime_scopes_current and its CHECK constraints: an active scope has warmed.
ScopeRows ==
  {row \in [lifecycle : {"warming", "active"}, owner : Workers \union {Nobody},
            current : Workers \union {Nobody}, lapsed : BOOLEAN,
            due : 0..(MaxClose + 1), warm : 0..MaxClose] :
     row.lifecycle = "active" => row.warm > 0}

\* brc_readiness_current and brc_signal_events (one Signal per Episode).
ReadinessRows == [state : {"none", "warm", "blocked", "absent", "candidate"}, signal : 0..MaxClose]
SignalTable   == \A s, t \in signals : s.id = t.id => s = t

\* Every row is one its table admits: the reducers never produce a transition
\* that a CHECK or UNIQUE constraint of pg_models.py would refuse, which would
\* roll back every later observation of the scope.
TypeOK ==
  /\ close \in Closes /\ Len(market) = close
  /\ scope \in ScopeRows /\ ready \in ReadinessRows /\ SignalTable
  /\ EpisodeRow(episode, comparison, recovery)
  /\ ComparisonRow(comparison) /\ RecoveryRow(recovery)
  /\ {episode.id, episode.last} \subseteq 0..MaxClose
  /\ comparison.revision <= binding /\ binding <= MaxGrants + 1
  /\ authority.kind \in {"normal", "recovery", "vacuum"} /\ authority.expired \in BOOLEAN
  /\ authority.id \in 1..(MaxGrants + 1)
  /\ \A w \in Workers : worker[w].pc \in {"idle", "claimed", "reading", "done", "advance"}

\* One Signal per Episode (exposure_episode.py:201): between two Signals of a
\* scope a NOT_TRIGGERED close was committed, whatever leases lapsed, workers
\* crashed and authorities changed meanwhile.  And a Signal is armed by a
\* NOT_TRIGGERED close observed under the comparison binding it was born under
\* (exposure_episode.py:313) and, in recovery, under that very recovery
\* (authority_recovery_rebase.py:253); an arm of the past never carries over.
SignalsNeedRearm ==
  \A s \in signals :
    /\ \A t \in signals : s.id < t.id => \E r \in rearms : s.id < r.close /\ r.close < t.id
    /\ s.binding > 0  => \E r \in rearms : r.binding = s.binding /\ r.close < s.id
    /\ s.recovery > 0 => \E r \in rearms : r.recovery = s.recovery /\ r.close < s.id

\* Authority has settled and the last bar is due: no worker is on its way with
\* an authority or a binding that is gone.
Settled ==
  /\ close = MaxClose /\ scope.lifecycle = "active" /\ scope.due <= MaxClose
  /\ authority.id > MaxGrants /\ authority.kind # "vacuum" /\ authority.first <= MaxClose
  /\ \A w \in Workers : worker[w].pc \in {"idle", "claimed"}

\* A due bar is observed in the end, through crashed workers, lapsed leases, failed
\* market reads and authorities that came too late for the tick (observation_worker.py:88),
\* unless the detector found it INVALID: then it is passed over.
DueBarIsConsumed ==
  Settled ~> \/ LastConsumed = MaxClose
             \/ close = MaxClose /\ market[MaxClose] = Invalid /\ scope.due > MaxClose

=============================================================================
