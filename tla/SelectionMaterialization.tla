----------------------- MODULE SelectionMaterialization -----------------------
(***************************************************************************)
(* A generic strategy group in dynamic selection mode: periodic Selection  *)
(* snapshots, the authority that lets the group trade a member set, the    *)
(* generations that switch it, and the vacuum every switch goes through    *)
(* (coordinate_selection_materialization.py, selection_runtime_worker.py,  *)
(* pg_instrument_selection_repository.py, pg_universe_repository.py and    *)
(* the triggers of migration 0008).                                        *)
(*                                                                         *)
(* The runtime reads what there is to do in one transaction and does it in *)
(* another, under the mutation lock: each step below is one transaction,   *)
(* and a step that raises leaves no trace.  The Owner pauses and resumes,  *)
(* members observe closes and issue tickets, the venue answers and hours   *)
(* pass between any two transactions.  Period p is effective from hour     *)
(* (p-1)*Cadence; its Selection is due one hour earlier.                   *)
(*                                                                         *)
(* Left out: first activation and static rollback (the mode is dynamic and *)
(* its version fixed), the comparison binding, leases of a generation (the *)
(* lock serializes the steps), and the 30-minute materialization timeout,  *)
(* which may strike whenever a target is unfinished.                       *)
(***************************************************************************)
EXTENDS Naturals, FiniteSets, EntryVacuum

CONSTANTS Selections,   \* member sets a Selection may commit
          First,        \* members of the universe the run starts with
          Cadence,      \* hours of a period
          NumPeriods,   \* periods of the run
          MaxOwner      \* versions of the Owner's control

ASSUME SelectionAssumption ==
    /\ {} \in Selections /\ First \in Selections \ {{}}
    /\ Cadence \in Nat \ {0} /\ NumPeriods \in Nat \ {0} /\ MaxOwner \in Nat \ {0}

VARIABLES
  hour,        \* the latest closed bar
  snap,        \* instrument_selection_snapshots of each period
  owner,       \* control_version of the Owner's strategy control: odd is enabled
  authority,   \* selection_authority_current and what it binds
  universe,    \* members of the current universe of the Event
  vacuum,      \* the current row of strategy_entry_vacuums_current
  gen,         \* materialization generation of each period's snapshot, with its target universe
  consumed,    \* members whose Episode cursor has reached the current close
  armed,       \* members whose recovery checkpoint is armed
  ticket,      \* the group's ENTRY that is not yet protected
  run          \* what the runtime worker decided to do

vars == <<hour, snap, owner, authority, universe, vacuum, gen, consumed, armed, ticket, run>>
core == <<authority, universe, vacuum, gen, armed, ticket>>

Members      == UNION Selections
Periods      == 1..NumPeriods
Effective(p) == (p - 1) * Cadence
Expires(p)   == p * Cadence
PeriodOf(h)  == h \div Cadence + 1
Enabled      == owner % 2 = 1
Idle         == [pc |-> "idle", period |-> NoPeriod]

NoSnapshot   == [ready |-> FALSE, members |-> {}, fresh |-> FALSE]
NoGeneration == [state |-> "none", born |-> 0, retargeted |-> FALSE, target |-> "none",
                 left |-> "none", pause |-> 0]
ActiveGeneration == [NoGeneration EXCEPT !.state = "ACTIVE", !.born = 1, !.target = "active"]

Unfenced   == {"PENDING", "DESIRED"}
Fenced     == {"DRAINING_ENTRY", "MATERIALIZING", "STAGED"}
Actionable == {p \in Periods : gen[p].state \in Unfenced \cup Fenced}

Init ==
  /\ hour = Expires(1) - 1
  /\ snap = [p \in Periods |-> IF p = 1 THEN [ready |-> TRUE, members |-> First, fresh |-> FALSE]
                                        ELSE NoSnapshot]
  /\ owner = 1
  /\ authority = [outcome |-> "ACTIVE_NEW", kind |-> "normal", continued |-> FALSE, period |-> 1,
                  source |-> 1, members |-> First, owner |-> 1, first |-> 0]
  /\ universe = First
  /\ vacuum = NoVacuum
  /\ gen = [p \in Periods |-> IF p = 1 THEN ActiveGeneration ELSE NoGeneration]
  /\ consumed \in SUBSET First
  /\ armed = {}
  /\ ticket = "none"
  /\ run = Idle

-----------------------------------------------------------------------------
(* Authority *)

Blocks     == authority.outcome = "VALID_EMPTY"
Recovering == authority.kind = "recovery" \/ authority.continued
Continued  == [authority EXCEPT !.kind = "normal", !.first = hour, !.continued = Recovering]

\* The gate every ENTRY boundary asks: no vacuum, members bound, inside the period.
EntryPermitted ==
  /\ vacuum = NoVacuum /\ ~Blocks
  /\ authority.first <= hour /\ hour < Expires(authority.period)

\* Cursors are locked before a NORMAL grant: no member has consumed the current close.
CloseUnconsumed(members) == consumed \cap members = {}

\* A Selection that is to take the current close was committed before that close.
CurrentCloseProof(p) ==
  /\ Effective(p) <= hour /\ hour < Expires(p)
  /\ ~snap[p].fresh
  /\ CloseUnconsumed(snap[p].members)

\* A later effective Selection exists (and, for a fallback, is still unexpired).
NewerSelection(p) == \E q \in Periods : q > p /\ snap[q].ready /\ Effective(q) <= hour

\* The authority in force still names the universe in force.
PreviousUnchanged == authority.members = universe

\* generic_recovery_transition_blocker: members that stay must first be armed.
RecoveryBlocks(members) == Recovering /\ ~(universe \cap members \subseteq armed)

\* A recovery grants only closes that are still to come.
RecoveryGrant(outcome, source, members) ==
  [outcome |-> outcome, kind |-> "recovery", continued |-> FALSE, period |-> PeriodOf(hour + 1),
   source |-> source, members |-> members, owner |-> owner, first |-> hour + 1]

\* Obsolete generations that never fenced anything go with any newer outcome.
Superseding == [p \in Periods |-> IF gen[p].state \in Unfenced
                                  THEN [gen[p] EXCEPT !.state = "SUPERSEDED"] ELSE gen[p]]

-----------------------------------------------------------------------------
(* The Owner's pause, as the generic functions of migration 0008 see it *)

LatestPause == IF Enabled THEN owner - 1 ELSE owner

\* brc_generic_generation_owner_pause_pending: paused and resumed since it was born.
PauseDeferred(p) == Enabled /\ owner > gen[p].born

\* A pause that was resumed before the drain ended.
EarlyResume ==
  /\ Enabled
  /\ \/ vacuum.gen = NoPeriod /\ vacuum.opened = "PAUSE" /\ vacuum.pause = LatestPause
     \/ /\ vacuum.gen # NoPeriod /\ gen[vacuum.gen].left = "draining"
        /\ gen[vacuum.gen].pause = LatestPause

\* brc_generic_vacuum_owner_resume_matches: the last pause is the one this vacuum was
\* left under, its drain ended the way that pause leaves it, and the Owner resumed.
OwnerResumeMatches ==
  /\ Enabled /\ authority.owner < LatestPause
  /\ \/ \E p \in Periods :
          /\ gen[p].pause = LatestPause
          /\ \/ gen[p].left = "reconfiguring" /\ vacuum.drained = "RECONFIGURING"
             \/ gen[p].left = "draining" /\ vacuum.drained = "OWNER_PAUSED"
     \/ vacuum.opened = "PAUSE" /\ vacuum.pause = LatestPause /\ vacuum.drained = "OWNER_PAUSED"

-----------------------------------------------------------------------------
(* Drain *)

\* complete_entry_vacuum_drain: refused for a paused vacuum whose Owner resumed
\* unless the resume belongs to that very pause.
CompleteDrain(v) ==
  LET to == DrainTarget(v)
      refused == \/ to = "DRAINING_ENTRY"
                 \/ to = "OWNER_PAUSED" /\ Enabled /\ ~EarlyResume
                 \/ /\ to = "OWNER_PAUSED" /\ v.gen # NoPeriod
                    /\ gen[v.gen].state # "ABANDONED"
  IN  /\ vacuum' = IF refused THEN v ELSE MarkDrained(v, to)
      /\ gen' = IF to = "RECONFIGURING" THEN [gen EXCEPT ![v.gen].state = "MATERIALIZING"] ELSE gen

\* drain_strategy_entry_vacuum_once: one step of the drain per transaction.
DrainOnce(v) ==
  /\ UNCHANGED <<authority, universe, armed>>
  /\ \/ v.state = "OPEN" /\ vacuum' = MarkDraining(v) /\ UNCHANGED <<gen, ticket>>
     \/ /\ v.state = "DRAINING_ENTRY" /\ PreDispatch(ticket)
        /\ ticket' = "none" /\ vacuum' = v /\ UNCHANGED gen
     \/ /\ v.state = "DRAINING_ENTRY" /\ ~PreDispatch(ticket) /\ ~NoDrainBlockers(ticket)
        /\ vacuum' = v /\ UNCHANGED <<gen, ticket>>
     \/ /\ v.state = "DRAINING_ENTRY" /\ NoDrainBlockers(ticket)
        /\ CompleteDrain(v) /\ UNCHANGED ticket

-----------------------------------------------------------------------------
(* The period step: continuity before any outcome of the new period *)

\* Mutant: continuity forgets how many Selections were missed.
PriorCoversStale(p) ==
  /\ ~Blocks /\ authority.period + 1 = p
  /\ authority.owner = owner /\ PreviousUnchanged

\* The authority that ends where this period begins, its member set still the universe,
\* and one missed Selection at most.
PriorCovers(p) ==
  /\ ~Blocks /\ authority.period + 1 = p
  /\ authority.owner = owner /\ PreviousUnchanged
  /\ p - authority.source = 1

\* A period is coordinated while it lasts: hours may have passed since it was chosen.
PeriodDue(p) == Enabled /\ Effective(p) <= hour /\ hour < Expires(p)

PeriodDrains(p) ==
  /\ PeriodDue(p) /\ vacuum.blocker = "AUTHORITY_GAP" /\ vacuum.gen = NoPeriod /\ vacuum.period = p
  /\ vacuum.state \in {"OPEN", "DRAINING_ENTRY"}

\* A Selection of this period or a later one is in force.
SelectionInForce(p) ==
  \E q \in Periods : q >= p /\ snap[q].ready /\ Effective(q) <= hour /\ hour < Expires(q)

\* brc_generic_gap_continuity_proof_matches: a drained gap, the authority before it, no
\* Selection of its own, and a close left before the period ends.
GapProofMatches(p) ==
  /\ vacuum.state = "RECOVERY_PENDING" /\ vacuum.period = p
  /\ PriorCovers(p) /\ ~SelectionInForce(p)
  /\ hour + 1 < Expires(p)

\* prepare_generic_gap_continuity_proof, commit_generic_gap_continuity: the gap's own period
\* goes on with the old members from the next close.
GapContinues(p) == PeriodDue(p) /\ NoDrainBlockers(ticket) /\ GapProofMatches(p)

ContinueAfterGap ==
  /\ authority' = RecoveryGrant("PRE_FENCE_CONTINUITY", authority.source, authority.members)
  /\ armed' = {} /\ vacuum' = NoVacuum
  /\ UNCHANGED <<universe, gen, ticket>>

\* The period may be opened or renewed once its universe is certified.
Certifies(p) == PeriodDue(p) /\ vacuum = NoVacuum /\ PriorCovers(p)

\* brc_generic_gap_open_ledger_matches: a late period starts with a gap.
PeriodOpens(p) == Certifies(p) /\ hour # Effective(p)

\* brc_generic_continuity_proof_matches: the first close of the period, not yet consumed.
ContinuityProofMatches(p) == hour = Effective(p) /\ CloseUnconsumed(universe)

PeriodRenews(p) == Certifies(p) /\ ContinuityProofMatches(p)

\* A universe that is not certified, and whatever else blocks a period, changes nothing.
PeriodStep(p) ==
  \/ PeriodDrains(p) /\ DrainOnce(vacuum)
  \/ GapContinues(p) /\ ContinueAfterGap
  \/ PeriodOpens(p) /\ vacuum' = GapVacuum(p) /\ UNCHANGED <<authority, universe, gen, armed, ticket>>
  \/ /\ PeriodRenews(p)
     /\ authority' = [Continued EXCEPT !.outcome = "PRE_FENCE_CONTINUITY", !.period = p]
     /\ UNCHANGED <<universe, vacuum, gen, armed, ticket>>
  \/ ~PeriodDrains(p) /\ UNCHANGED core

-----------------------------------------------------------------------------
(* The generation step *)

\* Targets go with their generation.
LeftTarget(g) == IF g.target \in {"warming", "staged"} THEN "abandoned" ELSE g.target

Abandoned(p, left) ==
  [gen EXCEPT ![p].state = "ABANDONED", ![p].left = left, ![p].pause = LatestPause,
              ![p].target = LeftTarget(gen[p])]

\* abandon_generation_for_owner_pause: the generation ends, the fence stays with the Owner.
\* Without the vacuum that fits its state nothing is written.
AbandonForPause(p) ==
  LET opened == IF vacuum = NoVacuum /\ ~Enabled /\ gen[p].state \in Unfenced
                THEN PauseVacuum(owner, p) ELSE vacuum
      v == IF opened.state = "OPEN" /\ opened.blocker = "OWNER_PAUSED"
           THEN MarkDraining(opened) ELSE opened
  IN  /\ UNCHANGED <<authority, universe, armed, ticket>>
      /\ \/ /\ gen[p].state \in Unfenced
            /\ v.blocker = "OWNER_PAUSED" /\ v.gen = NoPeriod /\ v.state = "DRAINING_ENTRY"
            /\ vacuum' = v /\ gen' = Abandoned(p, "unfenced")
         \/ /\ gen[p].state = "DRAINING_ENTRY" /\ v.gen = p /\ v.state = "DRAINING_ENTRY"
            /\ vacuum' = [v EXCEPT !.blocker = "OWNER_PAUSED"]
            /\ gen' = Abandoned(p, "draining")
         \/ /\ gen[p].state \in {"MATERIALIZING", "STAGED"} /\ v.gen = p /\ v.state = "RECONFIGURING"
            /\ vacuum' = [v EXCEPT !.state = "OWNER_PAUSED", !.blocker = "OWNER_PAUSED"]
            /\ gen' = Abandoned(p, "reconfiguring")
         \/ /\ gen[p].state \in Unfenced
            /\ ~(v.blocker = "OWNER_PAUSED" /\ v.gen = NoPeriod /\ v.state = "DRAINING_ENTRY")
            /\ UNCHANGED <<vacuum, gen>>

\* An abandoned generation's only work is the drain of the vacuum it left.
DrainsLeftVacuum(p) ==
  /\ gen[p].state = "ABANDONED" /\ vacuum.gen \in {NoPeriod, p}
  /\ vacuum.state = "DRAINING_ENTRY" /\ vacuum.blocker = "OWNER_PAUSED"

\* prepare_generic_recovery_grant_proof and the trigger on RESOLVED_FALLBACK: a failed switch
\* returns to the previous members while their own Selection is at most one period old.  A
\* vacuum opened by a gap, or by a pause and handed to this generation, has no way back.
CanFallBack(p) ==
  /\ Enabled /\ ~NewerSelection(p)
  /\ vacuum.gen = p /\ vacuum.state = "RECONFIGURING" /\ NoDrainBlockers(ticket)
  /\ authority.owner = owner /\ PreviousUnchanged
  /\ PeriodOf(hour + 1) - authority.source <= 1
  /\ vacuum.opened = "GENERATION"

FallBack ==
  /\ authority' = RecoveryGrant("FALLBACK_PREVIOUS", authority.source, authority.members)
  /\ armed' = {} /\ vacuum' = NoVacuum
  /\ UNCHANGED <<universe, gen, ticket>>

\* fail_generic_materialization_generation: the vacuum stays, with the reason.
FailGeneration(p) ==
  /\ gen' = [gen EXCEPT ![p].state = "FAILED_CLOSED", ![p].target = LeftTarget(gen[p])]
  /\ vacuum' = [vacuum EXCEPT !.blocker = "FAILED"]
  /\ UNCHANGED <<authority, universe, armed, ticket>>

CanFence(p) ==
  /\ ~RecoveryBlocks(snap[p].members)
  /\ CloseUnconsumed(snap[p].members)
  /\ vacuum = NoVacuum

OpenGenerationVacuum(p) ==
  /\ vacuum' = GenerationVacuum(p)
  /\ gen' = [gen EXCEPT ![p].state = "DRAINING_ENTRY"]
  /\ UNCHANGED <<authority, universe, armed, ticket>>

\* install_strategy_universe, STAGE_DYNAMIC: the target warms, then is staged.
InstalledTarget(p) == IF gen[p].target = "none" THEN "warming" ELSE gen[p].target

StageTarget(p) ==
  /\ \/ gen' = [gen EXCEPT ![p].target = InstalledTarget(p)]
     \/ gen' = [gen EXCEPT ![p].target = "staged", ![p].state = "STAGED"]
  /\ UNCHANGED <<authority, universe, vacuum, armed, ticket>>

\* brc_generic_recovered_activation_proof_matches: a drained vacuum that was handed to this
\* generation, over the authority and the universe it was opened for.
RecoveredProofMatches(p) ==
  /\ gen[p].retargeted /\ gen[p].target = "staged"
  /\ vacuum.state = "RECONFIGURING" /\ PreviousUnchanged
  /\ authority.owner = owner \/ OwnerResumeMatches

\* prepare_generic_recovered_activation_proof: a target that inherited its vacuum.
RecoveredActivation(p) == NoDrainBlockers(ticket) /\ RecoveredProofMatches(p)

NormalActivation(p) ==
  /\ ~gen[p].retargeted
  /\ ~RecoveryBlocks(snap[p].members)
  /\ CurrentCloseProof(p)

\* _activate_generic: universe, authority, generation and vacuum in one transaction.
Activate(p, grant) ==
  /\ authority' = grant
  /\ universe' = snap[p].members
  /\ gen' = [gen EXCEPT ![p].state = "ACTIVE", ![p].target = "active"]
  /\ vacuum' = NoVacuum
  /\ armed' = {}
  /\ UNCHANGED ticket

NormalGrant(p, outcome) ==
  [Continued EXCEPT !.outcome = outcome, !.period = p, !.source = p, !.members = snap[p].members,
                    !.owner = owner]

\* A generation whose work is not ended by the Owner, its period or its target.
AdvanceGeneration(p) ==
  \/ /\ gen[p].state = "PENDING" /\ gen' = [gen EXCEPT ![p].state = "DESIRED"]
     /\ UNCHANGED <<authority, universe, vacuum, armed, ticket>>
  \/ gen[p].state = "DESIRED" /\ CanFence(p) /\ OpenGenerationVacuum(p)
  \/ gen[p].state = "DESIRED" /\ UNCHANGED core     \* rearming, consumed close or slot busy
  \/ gen[p].state = "DRAINING_ENTRY" /\ DrainOnce(vacuum)
  \/ gen[p].state = "MATERIALIZING" /\ vacuum.gen = p /\ StageTarget(p)
  \/ gen[p].state = "STAGED" /\ vacuum.gen = p /\ NormalActivation(p)
     /\ Activate(p, [NormalGrant(p, "ACTIVE_NEW") EXCEPT !.continued = FALSE])
  \/ gen[p].state = "STAGED" /\ vacuum.gen = p /\ RecoveredActivation(p)
     /\ Activate(p, RecoveryGrant("ACTIVE_NEW", p, snap[p].members))
  \/ gen[p].state \in {"MATERIALIZING", "STAGED"} /\ UNCHANGED core   \* not certified, or refused

GenerationStep(p) ==
  \/ gen[p].state \in Unfenced \cup Fenced /\ (~Enabled \/ PauseDeferred(p)) /\ AbandonForPause(p)
  \/ DrainsLeftVacuum(p) /\ DrainOnce(vacuum)
  \/ gen[p].state = "FAILED_CLOSED" /\ CanFallBack(p) /\ FallBack
  \/ /\ gen[p].state \in Unfenced /\ Enabled /\ ~PauseDeferred(p) /\ hour >= Expires(p)
     /\ vacuum = NoVacuum
     /\ gen' = [gen EXCEPT ![p].state = "ABANDONED", ![p].left = "expired"]
     /\ UNCHANGED <<authority, universe, vacuum, armed, ticket>>
  \/ /\ gen[p].state \in {"MATERIALIZING", "STAGED"} /\ Enabled /\ ~PauseDeferred(p)
     /\ FailGeneration(p)          \* period expired, timeout, or not certifiable
  \/ /\ gen[p].state \in Unfenced \cup Fenced /\ Enabled /\ ~PauseDeferred(p)
     /\ hour >= Expires(p) => gen[p].state = "DRAINING_ENTRY"
     /\ AdvanceGeneration(p)
  \/ /\ \/ gen[p].state \in {"none", "ACTIVE", "FAILED_CLOSED", "SUPERSEDED"}
        \/ gen[p].state = "ABANDONED" /\ ~DrainsLeftVacuum(p)
        \/ gen[p].state \in Unfenced /\ hour >= Expires(p) /\ vacuum # NoVacuum
           /\ Enabled /\ ~PauseDeferred(p)
     /\ UNCHANGED core

-----------------------------------------------------------------------------
(* The empty Selection *)

\* retarget_generic_empty_vacuum: the latest empty Selection takes over whatever vacuum is
\* open, but never one a pause left with a drain that does not fit.
EmptyTakesOver(p) ==
  LET g == vacuum.gen
  IN  /\ vacuum.period < p /\ ~NewerSelection(p)
      /\ \/ g = NoPeriod /\ vacuum.state \in {"OPEN", "DRAINING_ENTRY", "RECOVERY_PENDING"}
         \/ g = NoPeriod /\ vacuum.state = "OWNER_PAUSED"
         \/ /\ g # NoPeriod /\ vacuum.state = "RECONFIGURING"
            /\ gen[g].state \in {"MATERIALIZING", "STAGED", "FAILED_CLOSED"}
         \/ /\ g # NoPeriod /\ vacuum.state = "OWNER_PAUSED" /\ gen[g].state = "ABANDONED"
            /\ \/ gen[g].left = "reconfiguring" /\ vacuum.drained = "RECONFIGURING"
               \/ gen[g].left = "draining" /\ vacuum.drained = "OWNER_PAUSED"

\* The generation a vacuum is taken from ends with its targets.
Displaced(g) ==
  IF g = NoPeriod THEN gen
  ELSE [gen EXCEPT ![g].target = LeftTarget(gen[g]),
                   ![g].state = IF gen[g].state \in {"MATERIALIZING", "STAGED"}
                                THEN "SUPERSEDED" ELSE gen[g].state]

\* Generations that end with an outcome: the displaced one and those that never fenced.
Outcome(g) == [p \in Periods |-> IF Displaced(g)[p].state \in Unfenced
                                 THEN [gen[p] EXCEPT !.state = "SUPERSEDED"] ELSE Displaced(g)[p]]

\* commit_generic_valid_empty, once no ENTRY is left: zero members, the universe dormant.
DrainOrCommitEmpty(p, v, next) ==
  \/ /\ ~NoDrainBlockers(ticket)
     /\ ticket' = IF PreDispatch(ticket) THEN "none" ELSE ticket
     /\ vacuum' = v /\ gen' = next
     /\ UNCHANGED <<authority, universe, armed>>
  \/ /\ NoDrainBlockers(ticket)
     /\ vacuum' = NoVacuum /\ gen' = next
     /\ authority' = [authority EXCEPT !.outcome = "VALID_EMPTY", !.kind = "normal", !.period = p,
                        !.source = p, !.members = {}, !.owner = owner, !.continued = FALSE,
                        !.first = hour]
     /\ UNCHANGED <<universe, armed, ticket>>

OwnEmpty(p) == vacuum.blocker = "NO_SELECTION_READY_MEMBERS" /\ vacuum.period = p

AlreadyEmpty(p) == Blocks /\ authority.source = p

EmptyStep(p) ==
  \/ AlreadyEmpty(p) /\ UNCHANGED core
  \/ /\ ~AlreadyEmpty(p) /\ vacuum = NoVacuum
     /\ vacuum' = MarkDraining(EmptyVacuum(p)) /\ UNCHANGED <<authority, universe, gen, armed, ticket>>
  \/ ~AlreadyEmpty(p) /\ OwnEmpty(p) /\ DrainOrCommitEmpty(p, vacuum, Outcome(NoPeriod))
  \/ /\ ~AlreadyEmpty(p) /\ vacuum # NoVacuum /\ ~OwnEmpty(p)
     /\ \/ vacuum.gen # NoPeriod /\ vacuum.state = "DRAINING_ENTRY" /\ DrainOnce(vacuum)
        \/ EmptyTakesOver(p) /\ DrainOrCommitEmpty(p, RetargetedEmpty(vacuum, p), Outcome(vacuum.gen))
        \/ /\ ~EmptyTakesOver(p) /\ ~(vacuum.gen # NoPeriod /\ vacuum.state = "DRAINING_ENTRY")
           /\ UNCHANGED core

-----------------------------------------------------------------------------
(* The snapshot step *)

\* Closes since the last authority ended belong to nobody: they are a gap to be fenced.
MissedPeriod(p) == vacuum = NoVacuum /\ ~Blocks /\ authority.period + 1 < p

\* Mutant: the newer Selection waits for an older generation's fence.
DrainsOnlyGaps(p) ==
  vacuum.state \in {"OPEN", "DRAINING_ENTRY"} /\ vacuum.blocker = "AUTHORITY_GAP"

\* A fence whose ENTRY is still being drained is drained before anyone takes it over.
DrainsFirst(p) ==
  /\ vacuum.state \in {"OPEN", "DRAINING_ENTRY"}
  /\ \/ vacuum.blocker = "AUTHORITY_GAP"
     \/ vacuum.gen # NoPeriod /\ vacuum.period < p

\* A drained vacuum nobody owns: a gap that waits, or a pause that was resumed.
GapHandoff ==
  /\ vacuum.gen = NoPeriod
  /\ \/ vacuum.state = "RECOVERY_PENDING" /\ vacuum.blocker = "AUTHORITY_GAP"
     \/ vacuum.state = "OWNER_PAUSED"

\* retarget_generic_gap_vacuum_with_generation
GapHandedOver(p) ==
  /\ GapHandoff /\ vacuum.period <= p /\ ~NewerSelection(p)
  /\ NoDrainBlockers(ticket) /\ PreviousUnchanged
  /\ IF vacuum.state = "OWNER_PAUSED" THEN OwnerResumeMatches ELSE authority.owner = owner

\* retarget_interrupted_generic_vacuum_with_generation
InterruptedHandedOver(p) ==
  /\ vacuum.gen # NoPeriod /\ vacuum.period < p /\ vacuum.drained # "no" /\ ~NewerSelection(p)
  /\ NoDrainBlockers(ticket)
  /\ \/ /\ vacuum.state = "RECONFIGURING"
        /\ gen[vacuum.gen].state \in {"FAILED_CLOSED", "MATERIALIZING", "STAGED"}
     \/ /\ vacuum.state = "OWNER_PAUSED" /\ gen[vacuum.gen].state = "ABANDONED"
        /\ OwnerResumeMatches

NewGeneration == [NoGeneration EXCEPT !.state = "PENDING", !.born = owner]

\* Mutant: the generation that lost its vacuum keeps running.
HandOverKeepingOld(p, blocker) ==
  /\ gen' = [gen EXCEPT ![p] = [NewGeneration EXCEPT !.state = "MATERIALIZING", !.retargeted = TRUE]]
  /\ vacuum' = Retargeted(vacuum, p, blocker)
  /\ UNCHANGED <<authority, universe, armed, ticket>>

HandOver(p, blocker) ==
  /\ gen' = [Outcome(vacuum.gen) EXCEPT
               ![p] = [NewGeneration EXCEPT !.state = "MATERIALIZING", !.retargeted = TRUE]]
  /\ vacuum' = Retargeted(vacuum, p, blocker)
  /\ UNCHANGED <<authority, universe, armed, ticket>>

\* commit_generic_no_change: the same members under a Selection of their own.  An empty or
\* lapsed authority has nothing to extend, and a gap's recovery cannot be extended either.
NoChangeCommits(p) ==
  /\ ~Blocks /\ authority.period + 1 >= p
  /\ PreviousUnchanged /\ authority.owner = owner
  /\ ~(authority.kind = "recovery" /\ authority.outcome = "PRE_FENCE_CONTINUITY")
  /\ CurrentCloseProof(p)

AlreadyUnchanged(p) == authority.outcome = "NO_CHANGE" /\ authority.source = p

SnapshotCommits(p) ==
  \/ /\ MissedPeriod(p) /\ authority.owner = owner
     /\ vacuum' = GapVacuum(authority.period + 1)
     /\ UNCHANGED <<authority, universe, gen, armed, ticket>>
  \/ DrainsFirst(p) /\ DrainOnce(vacuum)
  \/ ~MissedPeriod(p) /\ ~DrainsFirst(p) /\ snap[p].members = {} /\ EmptyStep(p)
  \/ /\ ~MissedPeriod(p) /\ vacuum = NoVacuum /\ snap[p].members = universe
     /\ ~AlreadyUnchanged(p) /\ NoChangeCommits(p)
     /\ authority' = NormalGrant(p, "NO_CHANGE")
     /\ gen' = Superseding
     /\ UNCHANGED <<universe, vacuum, armed, ticket>>
  \/ /\ ~MissedPeriod(p) /\ vacuum = NoVacuum /\ snap[p].members \notin {{}, universe}
     /\ gen' = [Superseding EXCEPT ![p] = NewGeneration]
     /\ UNCHANGED <<authority, universe, vacuum, armed, ticket>>
  \/ snap[p].members # {} /\ GapHandedOver(p) /\ HandOver(p, "AUTHORITY_GAP")
  \/ snap[p].members # {} /\ InterruptedHandedOver(p) /\ HandOver(p, "LATEST_VALID_SELECTION")
  \/ /\ ~DrainsFirst(p) /\ snap[p].members # {}        \* blocked, not certified, slot busy or refused
     /\ vacuum # NoVacuum \/ snap[p].members = universe
     /\ UNCHANGED core

SnapshotStep(p) ==
  \/ gen[p].state # "none" /\ GenerationStep(p)
  \/ /\ gen[p].state = "none" /\ Enabled /\ hour < Expires(p)
     /\ SnapshotCommits(p)
  \/ gen[p].state = "none" /\ (~Enabled \/ hour >= Expires(p)) /\ UNCHANGED core

-----------------------------------------------------------------------------
(* The runtime worker *)

\* What there is to do for the latest due period, read in a transaction of its own.
Choose ==
  /\ run = Idle
  /\ LET p == PeriodOf(hour)
     IN  run' =
           CASE snap[p].ready /\ vacuum = NoVacuum /\ Actionable = {} /\ gen[p].state = "ACTIVE"
                  -> [pc |-> "generation", period |-> p]
             [] snap[p].ready /\ ~(vacuum = NoVacuum /\ Actionable = {} /\ gen[p].state = "ACTIVE")
                  -> [pc |-> "continuity", period |-> p]
             [] ~snap[p].ready /\ Actionable # {}
                  -> [pc |-> "generation",
                      period |-> CHOOSE q \in Actionable : \A r \in Actionable : r <= q]
             [] ~snap[p].ready /\ Actionable = {} /\ vacuum.gen # NoPeriod
                  -> [pc |-> "generation", period |-> vacuum.gen]
             [] OTHER -> [pc |-> "period", period |-> p]
  /\ UNCHANGED <<hour, snap, owner, authority, universe, vacuum, gen, consumed, armed, ticket>>

CoordinatePeriod ==
  /\ run.pc = "period" /\ PeriodStep(run.period) /\ run' = Idle
  /\ UNCHANGED <<hour, snap, owner, consumed>>

\* With a snapshot the period step comes first; a universe that is merely not ready yet
\* ends the round, unless the snapshot is empty.
CoordinateContinuity ==
  /\ run.pc = "continuity" /\ PeriodStep(run.period)
  /\ \/ run' = [run EXCEPT !.pc = "snapshot"]
     \/ /\ UNCHANGED core /\ Certifies(run.period) /\ snap[run.period].members # {}
        /\ run' = Idle
  /\ UNCHANGED <<hour, snap, owner, consumed>>

CoordinateSnapshot ==
  /\ run.pc = "snapshot" /\ SnapshotStep(run.period) /\ run' = Idle
  /\ UNCHANGED <<hour, snap, owner, consumed>>

CoordinateGeneration ==
  /\ run.pc = "generation" /\ GenerationStep(run.period) /\ run' = Idle
  /\ UNCHANGED <<hour, snap, owner, consumed>>

-----------------------------------------------------------------------------
(* Around the runtime: clock, Selection job, Owner, observation, tickets *)

Tick ==
  /\ hour + 1 < Expires(NumPeriods)
  /\ hour' = hour + 1 /\ consumed' = {}
  /\ snap' = [p \in Periods |-> [snap[p] EXCEPT !.fresh = FALSE]]
  /\ UNCHANGED <<owner, authority, universe, vacuum, gen, armed, ticket, run>>

\* The Selection job of the period whose cutoff is the latest: one snapshot, any members.
Select(members) ==
  LET p == PeriodOf(hour + 1)
  IN  /\ p \in Periods /\ ~snap[p].ready /\ Enabled
      /\ snap' = [snap EXCEPT ![p] = [ready |-> TRUE, members |-> members, fresh |-> TRUE]]
      /\ UNCHANGED <<hour, owner, authority, universe, vacuum, gen, consumed, armed, ticket, run>>

\* set_strategy_entry_state: a pause fences at once, unless a vacuum already does.
PauseFence == IF vacuum = NoVacuum THEN PauseVacuum(owner + 1, NoPeriod) ELSE vacuum

PauseOrResume ==
  /\ owner < MaxOwner
  /\ owner' = owner + 1
  /\ vacuum' = IF Enabled THEN PauseFence ELSE vacuum
  /\ UNCHANGED <<hour, snap, authority, universe, gen, consumed, armed, ticket, run>>

\* A member observes the close; triggered, it becomes the group's ENTRY.
ObserveClose(m, triggered) ==
  /\ EntryPermitted /\ m \in universe \ consumed
  /\ consumed' = consumed \cup {m}
  /\ IF triggered
     THEN /\ ticket = "none" /\ Recovering => m \in armed
          /\ ticket' = "pending" /\ UNCHANGED armed
     ELSE armed' = armed \cup {m} /\ UNCHANGED ticket
  /\ UNCHANGED <<hour, snap, owner, authority, universe, vacuum, gen, run>>

DispatchAllowed == vacuum = NoVacuum

\* A claimed ENTRY is sent, or superseded when a vacuum was opened since it was issued.
DispatchEntry ==
  /\ ticket = "pending"
  /\ ticket' = IF DispatchAllowed THEN "sent" ELSE "none"
  /\ UNCHANGED <<hour, snap, owner, authority, universe, vacuum, gen, consumed, armed, run>>

\* The venue accepts, refuses, fills; a filled ENTRY is protected in the end.
VenueMoves ==
  /\ \/ ticket = "sent" /\ ticket' \in {"accepted", "none"}
     \/ ticket \in {"accepted", "cancelling"} /\ ticket' = "protecting"
     \/ ticket = "protecting" /\ ticket' = "none"
  /\ UNCHANGED <<hour, snap, owner, authority, universe, vacuum, gen, consumed, armed, run>>

\* The reconciliation worker: a resting ENTRY under a draining vacuum is cancelled, and a
\* confirmed cancellation without fill ends it.
ReconcileDraining ==
  /\ vacuum.state = "DRAINING_ENTRY"
  /\ \/ ticket = "accepted" /\ ticket' = "cancelling"
     \/ ticket = "cancelling" /\ ticket' = "none"
  /\ UNCHANGED <<hour, snap, owner, authority, universe, vacuum, gen, consumed, armed, run>>

Runtime == Choose \/ CoordinatePeriod \/ CoordinateContinuity \/ CoordinateSnapshot
           \/ CoordinateGeneration

Next ==
  \/ Runtime
  \/ Tick
  \/ \E members \in Selections : Select(members)
  \/ PauseOrResume
  \/ \E m \in Members, triggered \in BOOLEAN : ObserveClose(m, triggered)
  \/ DispatchEntry
  \/ VenueMoves
  \/ ReconcileDraining

\* The runtime and the reconciliation worker poll; the venue settles what it was sent.
Fairness ==
  /\ WF_vars(Choose) /\ WF_vars(CoordinatePeriod) /\ WF_vars(CoordinateContinuity)
  /\ WF_vars(CoordinateSnapshot) /\ WF_vars(CoordinateGeneration)
  /\ WF_vars(VenueMoves) /\ WF_vars(ReconcileDraining)

Spec == Init /\ [][Next]_vars /\ Fairness

-----------------------------------------------------------------------------
(* Properties *)

Versions == 1..MaxOwner

\* Rows of selection_authority_current with their Event binding.
AuthorityRow ==
  /\ authority.outcome \in {"ACTIVE_NEW", "NO_CHANGE", "PRE_FENCE_CONTINUITY",
                            "FALLBACK_PREVIOUS", "VALID_EMPTY"}
  /\ authority.kind \in {"normal", "recovery"} /\ authority.continued \in BOOLEAN
  /\ authority.period \in Periods \cup {NumPeriods + 1} /\ authority.source \in Periods
  /\ authority.owner \in Versions /\ authority.first \in 0..Expires(NumPeriods)
  /\ authority.members = {} <=> Blocks
  /\ authority.kind = "recovery" => ~authority.continued

\* Rows of materialization_generations and the targets they install.
GenerationRow(g) ==
  /\ g.state \in Unfenced \cup Fenced
                 \cup {"none", "ACTIVE", "FAILED_CLOSED", "ABANDONED", "SUPERSEDED"}
  /\ g.born \in Versions \cup {0} /\ g.retargeted \in BOOLEAN
  /\ g.target \in {"none", "warming", "staged", "active", "abandoned"}
  /\ g.left \in {"none", "unfenced", "draining", "reconfiguring", "expired"}
  /\ g.pause \in Versions \cup {0}
  /\ g.state \in {"none"} \cup Unfenced \cup {"DRAINING_ENTRY"} => g.target = "none"
  /\ g.state = "ACTIVE" <=> g.target = "active"
  /\ g.left # "none" <=> g.state = "ABANDONED"

\* Rows fit their tables: authority, vacuum, generations, snapshots, and the worker's memory.
TypeOK ==
  /\ hour \in 0..Expires(NumPeriods) - 1
  /\ snap \in [Periods -> [ready : BOOLEAN, members : Selections, fresh : BOOLEAN]]
  /\ owner \in Versions
  /\ AuthorityRow
  /\ universe \in Selections \ {{}}
  /\ VacuumRow(vacuum, Periods, Versions)
  /\ \A p \in Periods : GenerationRow(gen[p])
  /\ consumed \subseteq Members /\ armed \subseteq Members
  /\ ticket \in {"none", "pending", "sent", "accepted", "cancelling", "protecting"}
  /\ run \in [pc : {"idle"}, period : {NoPeriod}]
             \cup [pc : {"period", "continuity", "snapshot", "generation"}, period : Periods]

\* At most one generation is at work; one that fenced the group owns the vacuum, and only
\* such a one has a universe that warms or is staged: neither a failure, a pause nor a newer
\* Selection leaves a second target that could still go into force.  Once a vacuum has drained,
\* no ENTRY of the group is in flight until it is resolved, whoever takes it over.
FencedGenerationOwnsVacuum ==
  /\ Cardinality(Actionable) <= 1
  /\ vacuum.state \in {"RECONFIGURING", "RECOVERY_PENDING", "OWNER_PAUSED"} => ticket = "none"
  /\ \A p \in Periods :
       /\ gen[p].state \in Fenced => vacuum.gen = p
       /\ gen[p].target \in {"warming", "staged"} => gen[p].state \in {"MATERIALIZING", "STAGED"}

\* Whenever ENTRY is permitted, the universe is what the Selection the authority stands on
\* chose, that Selection is at most one period old, and the Owner has not paused since the
\* grant: neither continuity, fallback nor recovery stretches a member set's age.
EntryNeedsFreshSelection ==
  EntryPermitted =>
    /\ universe = authority.members
    /\ universe = snap[authority.source].members
    /\ PeriodOf(hour) - authority.source <= 1
    /\ Enabled /\ authority.owner = owner

\* A generation's fence is drained in the end unless the Owner pauses: the runtime that
\* supersedes, the worker that cancels and the venue's late fill do not wait for each other,
\* and a newer Selection does not keep the old fence from being drained.
DrainOutstanding ==
  vacuum.state = "DRAINING_ENTRY" /\ vacuum.blocker = "ENTRY_DRAIN_REQUIRED" /\ Enabled

GenerationDrainEnds == DrainOutstanding ~> ~DrainOutstanding

=============================================================================
