-------------------- MODULE SelectionMaterializationProofs --------------------
(***************************************************************************)
(* Theorems about SelectionMaterialization, for every family of member     *)
(* sets, every cadence and number of periods and every number of pauses:   *)
(* type correctness, the fence that one generation owns, and the freshness *)
(* of the Selection behind every permitted ENTRY.                          *)
(***************************************************************************)
EXTENDS SelectionMaterialization, FiniteSetTheorems, TLAPS

\* What the columns may hold.
Outcomes == {"ACTIVE_NEW", "NO_CHANGE", "PRE_FENCE_CONTINUITY", "FALLBACK_PREVIOUS", "VALID_EMPTY"}
DrainedStates == {"RECONFIGURING", "RECOVERY_PENDING", "OWNER_PAUSED"}
GenerationStates == Unfenced \cup Fenced \cup {"none", "ACTIVE", "FAILED_CLOSED", "ABANDONED", "SUPERSEDED"}

\* The columns of the three kinds of rows.
AuthorityRecord ==
    [outcome : Outcomes, kind : {"normal", "recovery"}, continued : BOOLEAN,
     period : 1..NumPeriods + 1, source : Periods, members : Selections, owner : Versions,
     first : 0..Expires(NumPeriods)]

VacuumRecord ==
    [state : CurrentStates \cup {"none"}, blocker : Blockers \cup {"none"},
     period : Periods \cup {NoPeriod}, gen : Periods \cup {NoPeriod},
     drained : {"no"} \cup DrainedStates, opened : {"none", "GENERATION", "GAP", "EMPTY", "PAUSE"},
     pause : Versions \cup {0}]

GenerationRecord ==
    [state : GenerationStates, born : Versions \cup {0}, retargeted : BOOLEAN,
     target : {"none", "warming", "staged", "active", "abandoned"},
     left : {"none", "unfenced", "draining", "reconfiguring", "expired"},
     pause : Versions \cup {0}]

\* What the runtime does not write in a transaction of the coordinator, ...
Around ==
    /\ hour \in 0..Expires(NumPeriods) - 1
    /\ snap \in [Periods -> [ready : BOOLEAN, members : Selections, fresh : BOOLEAN]]
    /\ owner \in Versions
    /\ consumed \subseteq Members
    /\ \A p \in Periods : ~snap[p].ready => snap[p].members = {}

RunTyped ==
    run \in [pc : {"idle"}, period : {NoPeriod}]
           \cup [pc : {"period", "continuity", "snapshot", "generation"}, period : Periods]

\* ... and the rows it writes.
Rows ==
    /\ authority \in AuthorityRecord
    /\ universe \in Selections \ {{}}
    /\ vacuum \in VacuumRecord
    /\ gen \in [Periods -> GenerationRecord]
    /\ armed \subseteq Members
    /\ ticket \in {"none", "pending", "sent", "accepted", "cancelling", "protecting"}

\* What the columns of one generation say of each other, and of its Selection.
GenShape(g) ==
    /\ g.state \in {"none"} \cup Unfenced \cup {"DRAINING_ENTRY"} => g.target = "none"
    /\ g.state = "ACTIVE" <=> g.target = "active"
    /\ g.left # "none" <=> g.state = "ABANDONED"
    /\ g.target \in {"warming", "staged"} => g.state \in {"MATERIALIZING", "STAGED"}

\* What the columns of the vacuum say of each other.
VacShape(v) ==
    \/ v = NoVacuum
    \/ /\ v.state # "none" /\ v.blocker # "none" /\ v.opened # "none"
       /\ v.state = "OPEN" => v.drained = "no" /\ v.gen = NoPeriod
       /\ v.state \in DrainedStates => v.drained # "no"
       /\ v.state = "RECONFIGURING" => v.gen # NoPeriod /\ v.blocker # "OWNER_PAUSED"
       /\ v.state = "RECOVERY_PENDING" => v.gen = NoPeriod /\ v.blocker = "AUTHORITY_GAP"
       /\ v.state = "OWNER_PAUSED" => v.blocker = "OWNER_PAUSED"
       /\ v.blocker = "NO_SELECTION_READY_MEMBERS" => v.gen = NoPeriod /\ v.state = "DRAINING_ENTRY"
       /\ v.opened = "PAUSE" <=> v.pause # 0

\* The vacuum and the generations tell one story.
Owns(v, gs) ==
    /\ \A p \in Periods :
         /\ gs[p].state = "DRAINING_ENTRY" => v.gen = p /\ v.state = "DRAINING_ENTRY"
         /\ gs[p].state \in {"MATERIALIZING", "STAGED"} => v.gen = p /\ v.state = "RECONFIGURING"
    /\ v.gen # NoPeriod =>
         /\ v.blocker = "OWNER_PAUSED" => gs[v.gen].state = "ABANDONED"
         /\ v.state = "DRAINING_ENTRY" /\ v.blocker # "OWNER_PAUSED" =>
               gs[v.gen].state = "DRAINING_ENTRY"
         /\ v.state = "RECONFIGURING" =>
               gs[v.gen].state \in {"MATERIALIZING", "STAGED", "FAILED_CLOSED"}

AtWork(gs) == {p \in Periods : gs[p].state \in Unfenced \cup Fenced}
OneAtWork(gs) == \A p, q \in AtWork(gs) : p = q

FenceInv ==
    /\ \A p \in Periods : GenShape(gen[p])
    /\ VacShape(vacuum) /\ Owns(vacuum, gen) /\ OneAtWork(gen)
    /\ vacuum.state \in DrainedStates => ticket = "none"

\* A generation at work switches to the members of a Selection.
TargetsReady == \A p \in AtWork(gen) : snap[p].members # {}

\* The authority stands on a Selection; where no vacuum is open it names the universe and
\* the Owner's version in force.
GrantInv ==
    /\ authority.members = {} <=> Blocks
    /\ authority.kind = "recovery" => ~authority.continued
    /\ ~Blocks =>
         /\ authority.members = snap[authority.source].members
         /\ authority.period - authority.source <= 1
    /\ ~Blocks /\ vacuum = NoVacuum =>
         universe = authority.members /\ Enabled /\ authority.owner = owner

RowsInv == Rows /\ FenceInv /\ TargetsReady /\ GrantInv

IInv == Around /\ RunTyped /\ RowsInv

\* What no transaction of the coordinator changes.
SameAround == UNCHANGED <<hour, snap, owner, consumed>>

-----------------------------------------------------------------------------
(* Periods. *)

\* The bounds of the constants.
LEMMA Constants ==
    /\ Cadence \in Nat /\ Cadence >= 1 /\ NumPeriods \in Nat /\ NumPeriods >= 1
    /\ MaxOwner \in Nat /\ MaxOwner >= 1
    /\ {} \in Selections /\ First \in Selections /\ First # {}
BY SelectionAssumption

\* An hour belongs to one of the periods that have begun by it.
LEMMA PeriodBound ==
    ASSUME NEW h \in Nat, NEW n \in Nat, h < n * Cadence
    PROVE  PeriodOf(h) \in 1..n
<1> DEFINE q == h \div Cadence
           r == h % Cadence
<1>1. Cadence \in Nat /\ Cadence >= 1
      BY Constants
<1>2. q \in Int /\ r \in 0..Cadence - 1 /\ h = Cadence * q + r
      BY <1>1
<1> HIDE DEF q, r
<1>3. q >= 0
  <2>1. CASE q <= -1
    <3>1. Cadence * q <= -Cadence
          BY <2>1, <1>1, <1>2
    <3> QED BY <3>1, <1>1, <1>2
  <2> QED BY <2>1, <1>2
<1>4. q < n
  <2>1. CASE q >= n
    <3>1. Cadence * q >= Cadence * n
          BY <2>1, <1>1, <1>2
    <3> QED BY <3>1, <1>1, <1>2
  <2> QED BY <2>1, <1>2
<1> QED BY <1>2, <1>3, <1>4 DEF PeriodOf, q

\* The run of periods ends at an hour; the first period lies within it.
LEMMA LastHour ==
    /\ Expires(NumPeriods) \in Nat /\ Expires(NumPeriods) >= Cadence
    /\ Expires(NumPeriods) < (NumPeriods + 1) * Cadence
<1>1. NumPeriods * Cadence \in Nat
      BY Constants
<1>2. NumPeriods * Cadence >= 1 * Cadence
  <2>1. (NumPeriods - 1) * Cadence >= 0
        BY Constants
  <2> QED BY <2>1, Constants
<1>3. (NumPeriods + 1) * Cadence = NumPeriods * Cadence + Cadence
      BY Constants
<1> QED BY <1>1, <1>2, <1>3, Constants DEF Expires

\* The periods of this hour and of the next close.
LEMMA PeriodsNow ==
    ASSUME Around
    PROVE  /\ hour \in Nat
           /\ PeriodOf(hour) \in Periods
           /\ PeriodOf(hour + 1) \in 1..NumPeriods + 1
           /\ \A p \in Nat : hour < Expires(p) => PeriodOf(hour) \in 1..p
           /\ \A p \in Nat : hour + 1 < Expires(p) => PeriodOf(hour + 1) \in 1..p
           /\ \A p \in Nat : hour < Expires(p) => PeriodOf(hour + 1) \in 1..p + 1
<1>1. hour \in Nat /\ hour < NumPeriods * Cadence /\ hour + 1 < (NumPeriods + 1) * Cadence
  <2>1. hour \in 0..Expires(NumPeriods) - 1
        BY DEF Around
  <2>2. hour \in Nat /\ hour < Expires(NumPeriods) /\ hour + 1 < (NumPeriods + 1) * Cadence
    <3>1. (NumPeriods + 1) * Cadence \in Nat
          BY Constants
    <3> QED BY <2>1, <3>1, LastHour
  <2> QED BY <2>2 DEF Expires
<1>2. \A p \in Nat : (p + 1) * Cadence = p * Cadence + Cadence
      BY Constants
<1>3. \A p \in Nat : hour < p * Cadence => hour + 1 < (p + 1) * Cadence
  <2> SUFFICES ASSUME NEW p \in Nat, hour < p * Cadence PROVE hour + 1 < (p + 1) * Cadence
      OBVIOUS
  <2>1. p * Cadence \in Nat
        BY Constants
  <2>2. (p + 1) * Cadence = p * Cadence + Cadence
        BY <1>2
  <2> QED BY <2>1, <2>2, <1>1, Constants
<1> QED BY <1>1, <1>3, PeriodBound, Constants DEF Expires, Periods

-----------------------------------------------------------------------------
(* Rows. *)

\* The vacua that the coordinator and the Owner open are well formed and belong to no
\* generation but the one they are opened for.
LEMMA OpenedVacua ==
    ASSUME NEW p \in Periods, NEW n \in Versions, NEW d \in Periods \cup {NoPeriod}
    PROVE  /\ NoVacuum \in VacuumRecord /\ VacShape(NoVacuum)
           /\ GenerationVacuum(p) \in VacuumRecord /\ VacShape(GenerationVacuum(p))
           /\ GapVacuum(p) \in VacuumRecord /\ VacShape(GapVacuum(p))
           /\ MarkDraining(EmptyVacuum(p)) \in VacuumRecord /\ VacShape(MarkDraining(EmptyVacuum(p)))
           /\ PauseVacuum(n, d) \in VacuumRecord /\ VacShape(PauseVacuum(n, d))
           /\ MarkDraining(PauseVacuum(n, d)) \in VacuumRecord
           /\ VacShape(MarkDraining(PauseVacuum(n, d)))
<1>1. /\ NoVacuum \in VacuumRecord /\ GenerationVacuum(p) \in VacuumRecord
      /\ GapVacuum(p) \in VacuumRecord /\ MarkDraining(EmptyVacuum(p)) \in VacuumRecord
      BY DEF VacuumRecord, NoVacuum, GenerationVacuum, GapVacuum, EmptyVacuum, MarkDraining,
             CurrentStates, Blockers, NoPeriod
<1>2. /\ PauseVacuum(n, d) \in VacuumRecord /\ MarkDraining(PauseVacuum(n, d)) \in VacuumRecord
      BY DEF VacuumRecord, NoVacuum, PauseVacuum, MarkDraining, CurrentStates, Blockers, NoPeriod
<1>3. VacShape(NoVacuum)
      BY DEF VacShape
<1>4. VacShape(GenerationVacuum(p)) /\ VacShape(GapVacuum(p))
      BY DEF VacShape, NoVacuum, GenerationVacuum, GapVacuum, DrainedStates, NoPeriod
<1>5. VacShape(MarkDraining(EmptyVacuum(p)))
      BY DEF VacShape, NoVacuum, EmptyVacuum, MarkDraining, DrainedStates, NoPeriod
<1>6. VacShape(PauseVacuum(n, d)) /\ VacShape(MarkDraining(PauseVacuum(n, d)))
      BY Constants DEF VacShape, NoVacuum, PauseVacuum, MarkDraining, DrainedStates, NoPeriod, Versions
<1> QED BY <1>1, <1>2, <1>3, <1>4, <1>5, <1>6

\* A vacuum without a generation goes with generations that have not fenced.
LEMMA Unowned ==
    ASSUME NEW v, NEW gs, v.gen = NoPeriod, \A p \in Periods : gs[p].state \notin Fenced
    PROVE  Owns(v, gs)
BY DEF Owns, Fenced

\* ... and conversely.
LEMMA NobodyFences ==
    ASSUME NEW v, NEW gs, v.gen = NoPeriod, Owns(v, gs)
    PROVE  \A p \in Periods : gs[p].state \notin Fenced
BY DEF Owns, Fenced, Periods, NoPeriod

\* A vacuum that is open or drains, once it is marked, is well formed.
LEMMA Marked ==
    ASSUME NEW v \in VacuumRecord, VacShape(v)
    PROVE  /\ v.state = "OPEN" =>
                 /\ MarkDraining(v) \in VacuumRecord /\ VacShape(MarkDraining(v))
                 /\ MarkDraining(v) = [v EXCEPT !.state = "DRAINING_ENTRY"]
                 /\ MarkDraining(v).gen = NoPeriod /\ MarkDraining(v) # NoVacuum
           /\ v.state = "DRAINING_ENTRY" /\ DrainTarget(v) # "DRAINING_ENTRY" =>
                 LET w == MarkDrained(v, DrainTarget(v))
                 IN  /\ w \in VacuumRecord /\ VacShape(w)
                     /\ w.state = DrainTarget(v) /\ w.gen = v.gen /\ w.blocker = v.blocker
<1>1. ASSUME v.state = "OPEN"
      PROVE  /\ MarkDraining(v) \in VacuumRecord /\ VacShape(MarkDraining(v))
             /\ MarkDraining(v) = [v EXCEPT !.state = "DRAINING_ENTRY"]
             /\ MarkDraining(v).gen = NoPeriod /\ MarkDraining(v) # NoVacuum
      BY <1>1 DEF VacuumRecord, VacShape, NoVacuum, MarkDraining, CurrentStates, DrainedStates
<1>2. ASSUME v.state = "DRAINING_ENTRY", DrainTarget(v) # "DRAINING_ENTRY"
      PROVE  LET w == MarkDrained(v, DrainTarget(v))
             IN  /\ w \in VacuumRecord /\ VacShape(w)
                 /\ w.state = DrainTarget(v) /\ w.gen = v.gen /\ w.blocker = v.blocker
  <2> DEFINE to == DrainTarget(v)
             w == MarkDrained(v, to)
  <2>1. /\ to \in DrainedStates
        /\ to = "OWNER_PAUSED" => v.blocker = "OWNER_PAUSED"
        /\ to = "RECONFIGURING" => v.gen # NoPeriod /\ v.blocker # "OWNER_PAUSED"
        /\ to = "RECOVERY_PENDING" => v.gen = NoPeriod /\ v.blocker = "AUTHORITY_GAP"
        BY <1>2 DEF DrainTarget, DrainedStates
  <2> HIDE DEF to
  <2>2. /\ w.state = to /\ w.drained = to /\ w.gen = v.gen /\ w.blocker = v.blocker
        /\ w.opened = v.opened /\ w.pause = v.pause /\ w.period = v.period
        /\ w \in VacuumRecord
        BY <2>1 DEF MarkDrained, VacuumRecord, DrainedStates, CurrentStates
  <2> HIDE DEF w
  <2>3. v # NoVacuum
        BY <1>2 DEF NoVacuum
  <2>4. VacShape(w)
        BY <2>1, <2>2, <2>3 DEF VacShape, DrainedStates
  <2> QED BY <2>2, <2>4 DEF w, to
<1> QED BY <1>1, <1>2

-----------------------------------------------------------------------------
(* Transactions that leave the authority alone. *)

Tickets == {"none", "pending", "sent", "accepted", "cancelling", "protecting"}

\* The rows of vacuum, generations and ENTRY fit each other.
FenceRows(v, gs, t) ==
    /\ v \in VacuumRecord /\ VacShape(v)
    /\ gs \in [Periods -> GenerationRecord] /\ \A p \in Periods : GenShape(gs[p])
    /\ Owns(v, gs) /\ OneAtWork(gs)
    /\ t \in Tickets
    /\ v.state \in DrainedStates => t = "none"

\* The invariant says so.
LEMMA FenceRowsNow ==
    ASSUME RowsInv
    PROVE  FenceRows(vacuum, gen, ticket)
BY DEF RowsInv, Rows, FenceInv, FenceRows, Tickets

\* A transaction that fences on, for generations whose Selections have members.
LEMMA FenceStep ==
    ASSUME RowsInv, SameAround, UNCHANGED <<authority, universe, armed>>,
           FenceRows(vacuum', gen', ticket'),
           \A p \in AtWork(gen') : snap[p].members # {},
           vacuum' = NoVacuum => vacuum = NoVacuum
    PROVE  RowsInv'
<1>1. Rows' /\ FenceInv'
      BY DEF RowsInv, Rows, FenceInv, FenceRows, Tickets
<1>2. TargetsReady'
      BY DEF TargetsReady, SameAround, AtWork
<1>3. GrantInv'
      BY DEF RowsInv, GrantInv, SameAround, Blocks, Enabled
<1> QED BY <1>1, <1>2, <1>3 DEF RowsInv

\* Fewer generations at work than before are still one at most, with their Selections.
LEMMA FewerAtWork ==
    ASSUME RowsInv, NEW gs, AtWork(gs) \subseteq AtWork(gen)
    PROVE  OneAtWork(gs) /\ \A p \in AtWork(gs) : snap[p].members # {}
BY DEF RowsInv, FenceInv, OneAtWork, TargetsReady

\* One generation moves.
LEMMA OneMoves ==
    ASSUME NEW p \in Periods, NEW g \in GenerationRecord, RowsInv, GenShape(g)
    PROVE  /\ [gen EXCEPT ![p] = g] \in [Periods -> GenerationRecord]
           /\ \A q \in Periods : GenShape([gen EXCEPT ![p] = g][q])
           /\ \A q \in Periods : [gen EXCEPT ![p] = g][q] = IF q = p THEN g ELSE gen[q]
           /\ p \in AtWork(gen) \/ g.state \notin Unfenced \cup Fenced =>
                 AtWork([gen EXCEPT ![p] = g]) \subseteq AtWork(gen)
BY DEF RowsInv, Rows, FenceInv, AtWork

\* complete_entry_vacuum_drain
LEMMA CompletedDrain ==
    ASSUME RowsInv, vacuum.state = "DRAINING_ENTRY", ticket = "none", CompleteDrain(vacuum)
    PROVE  /\ FenceRows(vacuum', gen', "none") /\ vacuum' # NoVacuum
           /\ AtWork(gen') \subseteq AtWork(gen)
<1> DEFINE to == DrainTarget(vacuum)
<1>0. FenceRows(vacuum, gen, "none") /\ vacuum # NoVacuum
      BY FenceRowsNow DEF NoVacuum
<1>1. to \in DrainedStates \cup {"DRAINING_ENTRY"}
      BY DEF DrainTarget, DrainedStates
<1>2. CASE to = "DRAINING_ENTRY"
      BY <1>0, <1>2 DEF CompleteDrain
<1>3. ASSUME to # "DRAINING_ENTRY", vacuum' \in {vacuum, MarkDrained(vacuum, to)}
      PROVE  /\ vacuum' \in VacuumRecord /\ VacShape(vacuum') /\ vacuum' # NoVacuum
             /\ vacuum'.gen = vacuum.gen /\ vacuum'.blocker = vacuum.blocker
             /\ vacuum'.state \in {"DRAINING_ENTRY", to}
      BY <1>0, <1>1, <1>3, Marked DEF FenceRows, NoVacuum, DrainedStates
<1>4. CASE to = "RECONFIGURING"
  <2> DEFINE p == vacuum.gen
             g == [gen[p] EXCEPT !.state = "MATERIALIZING"]
  <2>1. vacuum' = MarkDrained(vacuum, to) /\ gen' = [gen EXCEPT ![p].state = "MATERIALIZING"]
        BY <1>4 DEF CompleteDrain
  <2>2. p \in Periods /\ vacuum.blocker # "OWNER_PAUSED"
        BY <1>0, <1>4 DEF FenceRows, VacuumRecord, DrainTarget
  <2>3. gen[p].state = "DRAINING_ENTRY" /\ gen[p] \in GenerationRecord /\ GenShape(gen[p])
        BY <1>0, <2>2 DEF FenceRows, Owns, Periods, NoPeriod
  <2>4. g \in GenerationRecord /\ GenShape(g) /\ g.state = "MATERIALIZING"
        BY <2>3 DEF GenerationRecord, GenShape, GenerationStates, Fenced, Unfenced
  <2>5. gen' = [gen EXCEPT ![p] = g] /\ p \in AtWork(gen)
        BY <2>1, <2>2, <2>3 DEF AtWork, Fenced
  <2>6. vacuum'.state = "RECONFIGURING"
        BY <1>0, <1>4, <2>1, Marked DEF FenceRows
  <2> HIDE DEF g
  <2>7. Owns(vacuum', gen')
        BY <1>0, <1>3, <1>4, <2>1, <2>2, <2>3, <2>4, <2>5, <2>6, OneMoves DEF Owns, FenceRows, Periods, NoPeriod
  <2>8. /\ gen' \in [Periods -> GenerationRecord] /\ \A q \in Periods : GenShape(gen'[q])
        /\ AtWork(gen') \subseteq AtWork(gen)
        BY <2>2, <2>4, <2>5, OneMoves
  <2>9. vacuum' \in VacuumRecord /\ VacShape(vacuum') /\ vacuum' # NoVacuum
        BY <1>3, <1>4, <2>1
  <2> QED BY <2>7, <2>8, <2>9, FewerAtWork DEF FenceRows, Tickets
<1>5. CASE to \in {"OWNER_PAUSED", "RECOVERY_PENDING"}
  <2>1. gen' = gen /\ vacuum' \in {vacuum, MarkDrained(vacuum, to)}
        BY <1>5 DEF CompleteDrain
  <2>2. vacuum.gen # NoPeriod => gen[vacuum.gen].state = "ABANDONED"
        BY <1>0, <1>5 DEF FenceRows, Owns, DrainTarget
  <2>3. Owns(vacuum', gen')
    <3>1. \A q \in Periods : gen[q].state \notin Fenced
          BY <1>0, <2>2 DEF FenceRows, Owns, Fenced, Periods, NoPeriod
    <3>2. vacuum'.blocker # "OWNER_PAUSED" => vacuum'.gen = NoPeriod
          BY <1>3, <1>5, <2>1 DEF DrainTarget
    <3>3. vacuum'.state # "RECONFIGURING" /\ vacuum'.gen = vacuum.gen
      <4>1. vacuum'.state \in {"DRAINING_ENTRY", to} /\ vacuum'.gen = vacuum.gen
            BY <1>3, <1>5, <2>1
      <4> QED BY <1>5, <4>1
    <3> QED BY <2>1, <2>2, <3>1, <3>2, <3>3 DEF Owns, Fenced
  <2> QED BY <1>0, <1>3, <1>5, <2>1, <2>3 DEF FenceRows
<1> QED BY <1>1, <1>2, <1>4, <1>5 DEF DrainedStates

\* drain_strategy_entry_vacuum_once
LEMMA DrainKeeps ==
    ASSUME RowsInv, SameAround, DrainOnce(vacuum)
    PROVE  RowsInv'
<1>0. FenceRows(vacuum, gen, ticket) /\ UNCHANGED <<authority, universe, armed>>
      BY FenceRowsNow DEF DrainOnce
<1>1. \A p \in AtWork(gen) : snap[p].members # {}
      BY FewerAtWork
<1>2. CASE vacuum.state = "OPEN" /\ vacuum' = MarkDraining(vacuum) /\ UNCHANGED <<gen, ticket>>
  <2>1. FenceRows(vacuum', gen, ticket) /\ vacuum' # NoVacuum
    <3>1. /\ vacuum' \in VacuumRecord /\ VacShape(vacuum') /\ vacuum' # NoVacuum
          /\ vacuum'.gen = NoPeriod /\ vacuum'.state = "DRAINING_ENTRY" /\ vacuum.gen = NoPeriod
          BY <1>0, <1>2, Marked DEF FenceRows, VacuumRecord, VacShape, NoVacuum
    <3>2. Owns(vacuum', gen)
          BY <1>0, <3>1, Unowned, NobodyFences DEF FenceRows
    <3> QED BY <1>0, <3>1, <3>2 DEF FenceRows, DrainedStates
  <2> QED BY <1>0, <1>1, <1>2, <2>1, FenceStep
<1>3. CASE vacuum.state = "DRAINING_ENTRY" /\ vacuum' = vacuum /\ gen' = gen /\ ticket' \in {"none", ticket}
  <2>1. FenceRows(vacuum', gen', ticket')
        BY <1>0, <1>3 DEF FenceRows, Tickets
  <2> QED BY <1>0, <1>1, <1>3, <2>1, FenceStep
<1>4. CASE vacuum.state = "DRAINING_ENTRY" /\ ticket = "none" /\ ticket' = ticket /\ CompleteDrain(vacuum)
      BY <1>0, <1>4, CompletedDrain, FewerAtWork, FenceStep
<1> QED BY <1>2, <1>3, <1>4 DEF DrainOnce, NoDrainBlockers

-----------------------------------------------------------------------------
(* Generations that end with an outcome. *)

\* No generation of gs is at work, and those that never began are as they were.
Ended(gs) ==
    /\ gs \in [Periods -> GenerationRecord] /\ \A q \in Periods : GenShape(gs[q])
    /\ AtWork(gs) = {}
    /\ \A q \in Periods : gen[q].state \notin Unfenced \cup Fenced => gs[q].state = gen[q].state

\* A generation that never fenced is superseded.
LEMMA SupersededGeneration ==
    ASSUME NEW g \in GenerationRecord, GenShape(g), g.state \in Unfenced
    PROVE  /\ [g EXCEPT !.state = "SUPERSEDED"] \in GenerationRecord
           /\ GenShape([g EXCEPT !.state = "SUPERSEDED"])
BY DEF GenerationRecord, GenShape, GenerationStates, Unfenced, Fenced

\* While no generation owns the vacuum, those are all that are at work.
LEMMA SupersedingEnds ==
    ASSUME RowsInv, vacuum.gen = NoPeriod
    PROVE  Ended(Superseding)
<1>1. /\ gen \in [Periods -> GenerationRecord] /\ \A q \in Periods : GenShape(gen[q])
      /\ \A q \in Periods : gen[q].state \notin Fenced
      BY NobodyFences, FenceRowsNow DEF FenceRows
<1>2. ASSUME NEW q \in Periods
      PROVE  /\ Superseding[q] \in GenerationRecord /\ GenShape(Superseding[q])
             /\ Superseding[q].state \notin Unfenced \cup Fenced
             /\ gen[q].state \notin Unfenced => Superseding[q] = gen[q]
  <2>1. CASE gen[q].state \in Unfenced
    <3>1. Superseding[q] = [gen[q] EXCEPT !.state = "SUPERSEDED"]
          BY <2>1 DEF Superseding
    <3>2. [gen[q] EXCEPT !.state = "SUPERSEDED"].state = "SUPERSEDED"
          BY <1>1 DEF GenerationRecord
    <3> QED BY <1>1, <2>1, <3>1, <3>2, SupersededGeneration DEF Unfenced, Fenced
  <2>2. CASE gen[q].state \notin Unfenced
    <3>1. Superseding[q] = gen[q]
          BY <2>2 DEF Superseding
    <3> QED BY <1>1, <2>2, <3>1
  <2> QED BY <2>1, <2>2
<1>3. Superseding \in [Periods -> GenerationRecord]
      BY <1>2 DEF Superseding
<1> QED BY <1>2, <1>3 DEF Ended, AtWork

\* A generation leaves its target behind.
LEMMA LeavesTarget ==
    ASSUME NEW g \in GenerationRecord, GenShape(g)
    PROVE  /\ LeftTarget(g) \in {"none", "active", "abandoned"}
           /\ g.state # "ACTIVE" => LeftTarget(g) # "active"
           /\ g.state \notin {"MATERIALIZING", "STAGED"} => LeftTarget(g) = g.target
BY DEF GenerationRecord, GenShape, LeftTarget

\* The states of a target universe.
Targets == {"none", "warming", "staged", "active", "abandoned"}

\* Generations that end when a vacuum is taken over, its owner among them.
LEMMA OutcomeEnds ==
    ASSUME RowsInv, NEW g, g = vacuum.gen,
           g = NoPeriod \/ vacuum.state \in {"RECONFIGURING", "OWNER_PAUSED"}
    PROVE  Ended(Outcome(g))
<1>1. FenceRows(vacuum, gen, ticket)
      BY FenceRowsNow
<1>2. CASE g = NoPeriod
  <2>1. Outcome(g) = Superseding
        BY <1>2 DEF Outcome, Superseding, Displaced
  <2> QED BY <1>2, <2>1, SupersedingEnds
<1>3. CASE g # NoPeriod
  <2> DEFINE s == IF gen[g].state \in {"MATERIALIZING", "STAGED"} THEN "SUPERSEDED"
                  ELSE gen[g].state
             moved == [gen[g] EXCEPT !.target = LeftTarget(gen[g]), !.state = s]
  <2>1. g \in Periods /\ gen[g] \in GenerationRecord /\ GenShape(gen[g])
        BY <1>1, <1>3 DEF FenceRows, VacuumRecord
  <2>2. \A q \in Periods : gen[q].state \in Fenced =>
             q = g /\ gen[q].state \in {"MATERIALIZING", "STAGED"}
        BY <1>1, <1>3 DEF FenceRows, Owns, Fenced
  <2>3. gen[g].state \in {"MATERIALIZING", "STAGED", "FAILED_CLOSED", "ABANDONED"}
        BY <1>1, <1>3, <2>1 DEF FenceRows, Owns, VacShape, NoVacuum
  <2>4. /\ moved \in GenerationRecord /\ moved.state = s
        /\ moved.target = LeftTarget(gen[g]) /\ moved.left = gen[g].left
    <3>1. LeftTarget(gen[g]) \in Targets
          BY <2>1, LeavesTarget DEF Targets
    <3>2. s \in GenerationStates
          BY <2>1 DEF GenerationRecord, GenerationStates
    <3> HIDE DEF s
    <3> QED BY <2>1, <3>1, <3>2 DEF GenerationRecord, Targets
  <2>5. GenShape(moved)
        BY <2>1, <2>3, <2>4, LeavesTarget DEF GenShape, Unfenced
  <2>6. Displaced(g) = [gen EXCEPT ![g] = moved]
        BY <1>1, <1>3, <2>1 DEF Displaced, FenceRows
  <2> HIDE DEF moved
  <2>7. ASSUME NEW q \in Periods
        PROVE  /\ Outcome(g)[q] \in GenerationRecord /\ GenShape(Outcome(g)[q])
               /\ Outcome(g)[q].state \notin Unfenced \cup Fenced
               /\ gen[q].state \notin Unfenced \cup Fenced => Outcome(g)[q].state = gen[q].state
    <3>1. CASE q = g
      <4>1. Displaced(g)[q] = moved
            BY <1>1, <2>6, <3>1 DEF FenceRows
      <4>2. moved.state \notin Unfenced \cup Fenced
            BY <2>3, <2>4 DEF Unfenced, Fenced
      <4>3. Outcome(g)[q] = moved
            BY <4>1, <4>2 DEF Outcome
      <4> QED BY <2>1, <2>3, <2>4, <2>5, <3>1, <4>2, <4>3 DEF Fenced
    <3>2. CASE q # g
      <4>1. Displaced(g)[q] = gen[q] /\ gen[q] \in GenerationRecord /\ GenShape(gen[q])
            BY <1>1, <2>1, <2>6, <3>2 DEF FenceRows
      <4>2. Outcome(g)[q] = IF gen[q].state \in Unfenced
                            THEN [gen[q] EXCEPT !.state = "SUPERSEDED"] ELSE gen[q]
            BY <4>1 DEF Outcome
      <4>3. [gen[q] EXCEPT !.state = "SUPERSEDED"].state = "SUPERSEDED"
            BY <4>1 DEF GenerationRecord
      <4>4. gen[q].state \notin Fenced
            BY <2>2, <3>2
      <4>5. CASE gen[q].state \in Unfenced
            BY <4>1, <4>2, <4>3, <4>5, SupersededGeneration DEF Unfenced, Fenced
      <4>6. CASE gen[q].state \notin Unfenced
            BY <4>1, <4>2, <4>4, <4>6
      <4> QED BY <4>5, <4>6
    <3> QED BY <3>1, <3>2
  <2>8. Outcome(g) \in [Periods -> GenerationRecord]
        BY <2>7 DEF Outcome
  <2> QED BY <2>7, <2>8 DEF Ended, AtWork
<1> QED BY <1>2, <1>3

-----------------------------------------------------------------------------
(* Transactions that grant. *)

\* A grant over rows that fit.
LEMMA GrantStep ==
    ASSUME SameAround, FenceRows(vacuum', gen', ticket'),
           \A p \in AtWork(gen') : snap[p].members # {},
           universe' \in Selections \ {{}}, armed' \subseteq Members,
           authority' \in AuthorityRecord, GrantInv'
    PROVE  RowsInv'
<1>1. Rows' /\ FenceInv'
      BY DEF Rows, FenceInv, FenceRows, Tickets
<1>2. TargetsReady'
      BY DEF TargetsReady, SameAround, AtWork
<1> QED BY <1>1, <1>2 DEF RowsInv

\* A recovery grants a member set its own Selection chose, one period ago at most.
LEMMA RecoveryGranted ==
    ASSUME Around, SameAround, Enabled, NEW outcome \in Outcomes \ {"VALID_EMPTY"},
           NEW source \in Periods, NEW members \in Selections \ {{}},
           members = snap[source].members, PeriodOf(hour + 1) - source <= 1,
           universe' = members, authority' = RecoveryGrant(outcome, source, members)
    PROVE  authority' \in AuthorityRecord /\ GrantInv'
<1>1. /\ hour + 1 \in 0..Expires(NumPeriods) /\ PeriodOf(hour + 1) \in 1..NumPeriods + 1
      /\ owner \in Versions
  <2>1. hour \in 0..Expires(NumPeriods) - 1 /\ owner \in Versions
        BY DEF Around
  <2> QED BY <2>1, LastHour, PeriodsNow
<1>2. /\ authority' \in AuthorityRecord /\ authority'.outcome = outcome
      /\ authority'.kind = "recovery" /\ authority'.continued = FALSE
      /\ authority'.period = PeriodOf(hour + 1) /\ authority'.source = source
      /\ authority'.members = members /\ authority'.owner = owner
      BY <1>1 DEF RecoveryGrant, AuthorityRecord, Outcomes
<1> QED BY <1>2 DEF GrantInv, Blocks, Enabled, SameAround

\* The columns of a normal grant.
LEMMA NormalColumns ==
    ASSUME Around, RowsInv
    PROVE  /\ Continued \in AuthorityRecord
           /\ Continued.kind = "normal" /\ Continued.source = authority.source
           /\ Continued.members = authority.members /\ Continued.owner = authority.owner
           /\ \A outcome \in Outcomes, p \in Periods :
                LET g == NormalGrant(p, outcome)
                IN  /\ g \in AuthorityRecord /\ g.outcome = outcome /\ g.kind = "normal"
                    /\ g.period = p /\ g.source = p /\ g.members = snap[p].members
                    /\ g.owner = owner
<1>1. /\ authority \in AuthorityRecord /\ hour \in 0..Expires(NumPeriods) /\ owner \in Versions
      /\ \A p \in Periods : snap[p].members \in Selections
  <2>1. hour \in 0..Expires(NumPeriods) - 1
        BY DEF Around
  <2>2. hour \in 0..Expires(NumPeriods)
        BY <2>1, LastHour
  <2> QED BY <2>2 DEF RowsInv, Rows, Around
<1>2. Recovering \in BOOLEAN
      BY <1>1 DEF Recovering, AuthorityRecord
<1> HIDE DEF Recovering
<1>3. /\ Continued \in AuthorityRecord
      /\ Continued.kind = "normal" /\ Continued.source = authority.source
      /\ Continued.members = authority.members /\ Continued.owner = authority.owner
      BY <1>1, <1>2 DEF Continued, AuthorityRecord
<1>4. ASSUME NEW outcome \in Outcomes, NEW p \in Periods
      PROVE  LET g == NormalGrant(p, outcome)
             IN  /\ g \in AuthorityRecord /\ g.outcome = outcome /\ g.kind = "normal"
                 /\ g.period = p /\ g.source = p /\ g.members = snap[p].members
                 /\ g.owner = owner
  <2>1. p \in 1..NumPeriods + 1
        BY Constants DEF Periods
  <2> QED BY <1>1, <1>3, <2>1 DEF NormalGrant, AuthorityRecord
<1> QED BY <1>3, <1>4

\* A normal grant of a period to the members its own Selection chose.
LEMMA NormalGranted ==
    ASSUME SameAround, Enabled, NEW p \in Periods, authority' \in AuthorityRecord,
           authority'.outcome \in Outcomes \ {"VALID_EMPTY"}, authority'.kind = "normal",
           authority'.period = p, authority'.source = p, authority'.members = snap[p].members,
           authority'.owner = owner, snap[p].members # {}, universe' = snap[p].members
    PROVE  GrantInv'
<1>1. p - p <= 1
      BY DEF Periods
<1> QED BY <1>1 DEF GrantInv, Blocks, Enabled, SameAround

\* A resolved vacuum leaves no generation fenced.
LEMMA ResolvedRows ==
    ASSUME NEW gs \in [Periods -> GenerationRecord], \A q \in Periods : GenShape(gs[q]),
           \A q \in Periods : gs[q].state \notin Fenced, OneAtWork(gs), NEW t \in Tickets
    PROVE  FenceRows(NoVacuum, gs, t)
<1>1. NoVacuum \in VacuumRecord /\ VacShape(NoVacuum)
      BY DEF VacuumRecord, VacShape, NoVacuum, CurrentStates, Blockers, NoPeriod
<1>2. NoVacuum.gen = NoPeriod /\ NoVacuum.state = "none"
      BY DEF NoVacuum
<1> QED BY <1>1, <1>2, Unowned DEF FenceRows, DrainedStates

-----------------------------------------------------------------------------
(* The empty Selection. *)

\* A vacuum taken over by an empty Selection belongs to no generation and drains.
LEMMA TakenOver ==
    ASSUME NEW v \in VacuumRecord, VacShape(v), v # NoVacuum, NEW p \in Periods
    PROVE  LET w == RetargetedEmpty(v, p)
           IN  w \in VacuumRecord /\ VacShape(w) /\ w.gen = NoPeriod /\ w.state = "DRAINING_ENTRY"
<1> DEFINE w == RetargetedEmpty(v, p)
<1>1. /\ w.state = "DRAINING_ENTRY" /\ w.blocker = "NO_SELECTION_READY_MEMBERS"
      /\ w.gen = NoPeriod /\ w.period = p /\ w.opened = v.opened /\ w.pause = v.pause
      /\ w \in VacuumRecord
      BY DEF RetargetedEmpty, VacuumRecord, CurrentStates, Blockers, NoPeriod
<1>2. VacShape(w)
      BY <1>1 DEF VacShape, DrainedStates
<1> QED BY <1>1, <1>2

\* commit_generic_valid_empty and the drain before it
LEMMA EmptyCommitted ==
    ASSUME Around, RowsInv, SameAround, NEW p \in Periods,
           NEW v \in VacuumRecord, VacShape(v), v.gen = NoPeriod, v.state = "DRAINING_ENTRY",
           NEW next, Ended(next), DrainOrCommitEmpty(p, v, next)
    PROVE  RowsInv'
<1>1. \A q \in Periods : next[q].state \notin Fenced
      BY DEF Ended, AtWork
<1>2. OneAtWork(next) /\ \A q \in AtWork(next) : snap[q].members # {}
      BY DEF Ended, OneAtWork
<1>3. ticket \in Tickets
      BY FenceRowsNow DEF FenceRows
<1>4. CASE ~NoDrainBlockers(ticket)
  <2>1. /\ vacuum' = v /\ gen' = next /\ UNCHANGED <<authority, universe, armed>>
        /\ ticket' \in {"none", ticket}
        BY <1>4 DEF DrainOrCommitEmpty
  <2>2. v # NoVacuum
        BY DEF NoVacuum
  <2>3. FenceRows(vacuum', gen', ticket')
        BY <1>1, <1>2, <1>3, <2>1, Unowned DEF FenceRows, Ended, Tickets, DrainedStates
  <2> QED BY <1>2, <2>1, <2>2, <2>3, FenceStep
<1>5. CASE NoDrainBlockers(ticket)
  <2>1. /\ vacuum' = NoVacuum /\ gen' = next /\ UNCHANGED <<universe, armed, ticket>>
        /\ authority' = [authority EXCEPT !.outcome = "VALID_EMPTY", !.kind = "normal", !.period = p,
                           !.source = p, !.members = {}, !.owner = owner, !.continued = FALSE,
                           !.first = hour]
        BY <1>5 DEF DrainOrCommitEmpty
  <2>2. FenceRows(vacuum', gen', ticket')
        BY <1>1, <1>2, <1>3, <2>1, ResolvedRows DEF Ended
  <2>3. /\ authority \in AuthorityRecord /\ hour \in 0..Expires(NumPeriods) /\ owner \in Versions
        /\ p \in 1..NumPeriods + 1
    <3>1. hour \in 0..Expires(NumPeriods) - 1
          BY DEF Around
    <3>2. hour \in 0..Expires(NumPeriods)
          BY <3>1, LastHour
    <3> QED BY <3>2, Constants DEF RowsInv, Rows, Around, Periods
  <2>4. /\ authority' \in AuthorityRecord /\ authority'.outcome = "VALID_EMPTY"
        /\ authority'.kind = "normal" /\ authority'.members = {}
        BY <2>1, <2>3, Constants DEF AuthorityRecord, Outcomes
  <2>5. GrantInv'
        BY <2>4 DEF GrantInv, Blocks
  <2> QED BY <1>2, <2>1, <2>2, <2>4, <2>5, GrantStep DEF RowsInv, Rows
<1> QED BY <1>4, <1>5

\* The step of an empty Selection.
LEMMA EmptyKeeps ==
    ASSUME Around, RowsInv, SameAround, NEW p \in Periods, EmptyStep(p)
    PROVE  RowsInv'
<1>0. FenceRows(vacuum, gen, ticket)
      BY FenceRowsNow
<1>1. CASE UNCHANGED core
  <2>1. \A q \in AtWork(gen') : snap[q].members # {}
        BY <1>1, FewerAtWork DEF core
  <2> QED BY <1>0, <1>1, <2>1, FenceStep DEF core
<1>2. CASE /\ vacuum = NoVacuum /\ vacuum' = MarkDraining(EmptyVacuum(p))
           /\ UNCHANGED <<authority, universe, gen, armed, ticket>>
  <2>1. vacuum' \in VacuumRecord /\ VacShape(vacuum')
        BY <1>2, OpenedVacua, Constants DEF Versions
  <2>2. vacuum'.gen = NoPeriod /\ vacuum'.state = "DRAINING_ENTRY" /\ vacuum.gen = NoPeriod
        BY <1>2 DEF MarkDraining, EmptyVacuum, NoVacuum
  <2>3. Owns(vacuum', gen)
        BY <1>0, <2>2, Unowned, NobodyFences DEF FenceRows
  <2>4. FenceRows(vacuum', gen', ticket')
        BY <1>0, <1>2, <2>1, <2>2, <2>3 DEF FenceRows, DrainedStates
  <2> QED BY <1>2, <2>4, FewerAtWork, FenceStep
<1>3. CASE OwnEmpty(p) /\ DrainOrCommitEmpty(p, vacuum, Outcome(NoPeriod))
  <2>1. vacuum.gen = NoPeriod /\ vacuum.blocker = "NO_SELECTION_READY_MEMBERS"
        BY <1>0, <1>3 DEF OwnEmpty, FenceRows, VacShape, NoVacuum
  <2>2. Ended(Outcome(NoPeriod)) /\ vacuum.state = "DRAINING_ENTRY"
        BY <1>0, <2>1, OutcomeEnds DEF FenceRows, VacShape, NoVacuum
  <2> QED BY <1>0, <1>3, <2>1, <2>2, EmptyCommitted DEF FenceRows
<1>4. CASE DrainOnce(vacuum)
      BY <1>4, DrainKeeps
<1>5. CASE /\ vacuum # NoVacuum /\ EmptyTakesOver(p)
           /\ DrainOrCommitEmpty(p, RetargetedEmpty(vacuum, p), Outcome(vacuum.gen))
  <2>1. vacuum.gen = NoPeriod \/ vacuum.state \in {"RECONFIGURING", "OWNER_PAUSED"}
        BY <1>5 DEF EmptyTakesOver
  <2>2. Ended(Outcome(vacuum.gen))
        BY <2>1, OutcomeEnds
  <2> QED BY <1>0, <1>5, <2>2, TakenOver, EmptyCommitted DEF FenceRows
<1> QED BY <1>1, <1>2, <1>3, <1>4, <1>5 DEF EmptyStep

-----------------------------------------------------------------------------
(* The period step. *)

\* A step that refuses changes nothing.
LEMMA RefusalKeeps ==
    ASSUME RowsInv, SameAround, UNCHANGED core
    PROVE  RowsInv'
<1>1. FenceRows(vacuum', gen', ticket')
      BY FenceRowsNow DEF core
<1>2. \A p \in AtWork(gen') : snap[p].members # {}
      BY FewerAtWork DEF core
<1> QED BY <1>1, <1>2, FenceStep DEF core

\* A vacuum opened for no generation, where there was none.
LEMMA FenceOpened ==
    ASSUME RowsInv, SameAround, vacuum = NoVacuum, UNCHANGED <<authority, universe, gen, armed, ticket>>,
           vacuum' \in VacuumRecord, VacShape(vacuum'), vacuum'.gen = NoPeriod,
           vacuum'.state \in {"OPEN", "DRAINING_ENTRY"}
    PROVE  RowsInv'
<1>1. FenceRows(vacuum, gen, ticket) /\ vacuum.gen = NoPeriod
      BY FenceRowsNow DEF NoVacuum
<1>2. Owns(vacuum', gen)
      BY <1>1, Unowned, NobodyFences DEF FenceRows
<1>3. FenceRows(vacuum', gen', ticket')
      BY <1>1, <1>2 DEF FenceRows, DrainedStates
<1> QED BY <1>3, FewerAtWork, FenceStep

\* commit_generic_gap_continuity
LEMMA GapContinuity ==
    ASSUME Around, RowsInv, SameAround, NEW p \in Periods, GapContinues(p), ContinueAfterGap
    PROVE  RowsInv'
<1>1. FenceRows(vacuum, gen, ticket)
      BY FenceRowsNow
<1>2. /\ Enabled /\ vacuum.state = "RECOVERY_PENDING" /\ ~Blocks /\ authority.members = universe
      /\ p - authority.source = 1 /\ hour + 1 < Expires(p)
      BY DEF GapContinues, PeriodDue, GapProofMatches, PriorCovers, PreviousUnchanged
<1>3. vacuum.gen = NoPeriod
      BY <1>1, <1>2 DEF FenceRows, VacShape, NoVacuum
<1>4. FenceRows(vacuum', gen', ticket')
      BY <1>1, <1>3, NobodyFences, ResolvedRows DEF FenceRows, ContinueAfterGap
<1>5. /\ authority.source \in Periods /\ authority.members \in Selections \ {{}}
      /\ authority.members = snap[authority.source].members
      BY <1>2 DEF RowsInv, Rows, GrantInv, AuthorityRecord
<1>6. PeriodOf(hour + 1) - authority.source <= 1
  <2>1. PeriodOf(hour + 1) \in 1..p
        BY <1>2, PeriodsNow DEF Periods
  <2> QED BY <1>2, <1>5, <2>1 DEF Periods
<1>7. /\ authority' = RecoveryGrant("PRE_FENCE_CONTINUITY", authority.source, authority.members)
      /\ universe' = authority.members /\ gen' = gen /\ armed' = {}
      BY <1>2 DEF ContinueAfterGap
<1>8. authority' \in AuthorityRecord /\ GrantInv'
      BY <1>2, <1>5, <1>6, <1>7, RecoveryGranted DEF Outcomes
<1> QED BY <1>4, <1>5, <1>7, <1>8, FewerAtWork, GrantStep

\* The first close of the period goes to the same members.
LEMMA Renewal ==
    ASSUME Around, RowsInv, SameAround, NEW p \in Periods, PeriodRenews(p),
           authority' = [Continued EXCEPT !.outcome = "PRE_FENCE_CONTINUITY", !.period = p],
           UNCHANGED <<universe, vacuum, gen, armed, ticket>>
    PROVE  RowsInv'
<1>1. FenceRows(vacuum', gen', ticket') /\ \A q \in AtWork(gen') : snap[q].members # {}
      BY FenceRowsNow, FewerAtWork
<1>2. /\ Enabled /\ vacuum = NoVacuum /\ ~Blocks /\ p - authority.source = 1
      /\ authority.owner = owner
      BY DEF PeriodRenews, Certifies, PeriodDue, PriorCovers
<1>3. /\ authority' \in AuthorityRecord /\ authority'.outcome = "PRE_FENCE_CONTINUITY"
      /\ authority'.kind = "normal" /\ authority'.period = p
      /\ authority'.source = authority.source /\ authority'.members = authority.members
      /\ authority'.owner = authority.owner
  <2>1. p \in 1..NumPeriods + 1
        BY Constants DEF Periods
  <2> QED BY <2>1, NormalColumns DEF AuthorityRecord, Outcomes
<1>4. GrantInv'
      BY <1>2, <1>3 DEF GrantInv, RowsInv, Blocks, Enabled, SameAround
<1> QED BY <1>1, <1>3, <1>4, GrantStep DEF RowsInv, Rows

\* The step of a period.
LEMMA PeriodKeeps ==
    ASSUME Around, RowsInv, SameAround, NEW p \in Periods, PeriodStep(p)
    PROVE  RowsInv'
<1>1. CASE PeriodDrains(p) /\ DrainOnce(vacuum)
      BY <1>1, DrainKeeps
<1>2. CASE GapContinues(p) /\ ContinueAfterGap
      BY <1>2, GapContinuity
<1>3. CASE PeriodOpens(p) /\ vacuum' = GapVacuum(p) /\ UNCHANGED <<authority, universe, gen, armed, ticket>>
  <2>1. vacuum' \in VacuumRecord /\ VacShape(vacuum')
        BY <1>3, OpenedVacua, Constants DEF Versions
  <2>2. vacuum'.gen = NoPeriod /\ vacuum'.state = "OPEN" /\ vacuum = NoVacuum
        BY <1>3 DEF GapVacuum, NoVacuum, PeriodOpens, Certifies
  <2> QED BY <1>3, <2>1, <2>2, FenceOpened
<1>4. CASE /\ PeriodRenews(p)
           /\ authority' = [Continued EXCEPT !.outcome = "PRE_FENCE_CONTINUITY", !.period = p]
           /\ UNCHANGED <<universe, vacuum, gen, armed, ticket>>
      BY <1>4, Renewal
<1>5. CASE UNCHANGED core
      BY <1>5, RefusalKeeps
<1> QED BY <1>1, <1>2, <1>3, <1>4, <1>5 DEF PeriodStep

-----------------------------------------------------------------------------
(* The generation step. *)

\* One generation at work moves on, the vacuum is kept or marked.
LEMMA WorkMoves ==
    ASSUME RowsInv, SameAround, UNCHANGED <<authority, universe, armed, ticket>>,
           NEW p \in Periods, NEW g \in GenerationRecord, GenShape(g), gen' = [gen EXCEPT ![p] = g],
           p \in AtWork(gen) \/ g.state \notin Unfenced \cup Fenced,
           vacuum' \in VacuumRecord, VacShape(vacuum'), Owns(vacuum', gen'),
           vacuum'.state \in DrainedStates => ticket = "none",
           vacuum' = NoVacuum => vacuum = NoVacuum
    PROVE  RowsInv'
<1>1. /\ gen' \in [Periods -> GenerationRecord] /\ \A q \in Periods : GenShape(gen'[q])
      /\ AtWork(gen') \subseteq AtWork(gen)
      BY OneMoves
<1>2. FenceRows(vacuum', gen', ticket')
      BY <1>1, FewerAtWork, FenceRowsNow DEF FenceRows
<1> QED BY <1>1, <1>2, FewerAtWork, FenceStep

\* The generation that an Owner pause ends.
LEMMA AbandonedGeneration ==
    ASSUME Around, RowsInv, NEW p \in Periods, p \in AtWork(gen),
           NEW left \in {"unfenced", "draining", "reconfiguring"}
    PROVE  \E g \in GenerationRecord :
             /\ GenShape(g) /\ g.state = "ABANDONED" /\ Abandoned(p, left) = [gen EXCEPT ![p] = g]
<1> DEFINE g == [gen[p] EXCEPT !.state = "ABANDONED", !.left = left, !.pause = LatestPause,
                               !.target = LeftTarget(gen[p])]
<1>1. /\ gen \in [Periods -> GenerationRecord] /\ gen[p] \in GenerationRecord /\ GenShape(gen[p])
      BY FenceRowsNow DEF FenceRows
<1>2. LatestPause \in Versions \cup {0}
      BY Constants DEF Around, LatestPause, Versions
<1>3. LeftTarget(gen[p]) \in {"none", "abandoned"}
      BY <1>1, LeavesTarget DEF AtWork, Unfenced, Fenced
<1>4. g \in GenerationRecord /\ g.state = "ABANDONED" /\ g.left = left /\ g.target = LeftTarget(gen[p])
      BY <1>1, <1>2, <1>3 DEF GenerationRecord, GenerationStates
<1>5. GenShape(g)
      BY <1>3, <1>4 DEF GenShape, Unfenced
<1>6. Abandoned(p, left) = [gen EXCEPT ![p] = g]
      BY <1>1 DEF Abandoned
<1> QED BY <1>4, <1>5, <1>6

\* abandon_generation_for_owner_pause
LEMMA AbandonKeeps ==
    ASSUME Around, RowsInv, SameAround, NEW p \in Periods, p \in AtWork(gen), AbandonForPause(p)
    PROVE  RowsInv'
<1> DEFINE opened == IF vacuum = NoVacuum /\ ~Enabled /\ gen[p].state \in Unfenced
                     THEN PauseVacuum(owner, p) ELSE vacuum
           v == IF opened.state = "OPEN" /\ opened.blocker = "OWNER_PAUSED"
                THEN MarkDraining(opened) ELSE opened
<1>1. FenceRows(vacuum, gen, ticket)
      BY FenceRowsNow
<1>2. /\ opened \in VacuumRecord /\ VacShape(opened)
      /\ opened = vacuum \/ (opened # NoVacuum /\ opened.gen = NoPeriod /\ vacuum.gen = NoPeriod)
  <2>1. PauseVacuum(owner, p) \in VacuumRecord /\ VacShape(PauseVacuum(owner, p))
        BY OpenedVacua DEF Around
  <2>2. PauseVacuum(owner, p) # NoVacuum /\ PauseVacuum(owner, p).gen = NoPeriod
        BY DEF PauseVacuum, NoVacuum
  <2> QED BY <1>1, <2>1, <2>2 DEF FenceRows, NoVacuum
<1>3. opened.state = "OPEN" => opened.gen = NoPeriod
      BY <1>2 DEF VacShape, NoVacuum
<1> HIDE DEF opened
<1>4. /\ v \in VacuumRecord /\ VacShape(v) /\ (v = NoVacuum => vacuum = NoVacuum)
      /\ v.gen = vacuum.gen /\ (v = vacuum \/ v.gen = NoPeriod)
      BY <1>2, <1>3, Marked
<1>5. /\ UNCHANGED <<authority, universe, armed, ticket>>
      /\ \/ /\ gen[p].state \in Unfenced
            /\ v.blocker = "OWNER_PAUSED" /\ v.gen = NoPeriod /\ v.state = "DRAINING_ENTRY"
            /\ vacuum' = v /\ gen' = Abandoned(p, "unfenced")
         \/ /\ gen[p].state = "DRAINING_ENTRY" /\ v.gen = p /\ v.state = "DRAINING_ENTRY"
            /\ vacuum' = [v EXCEPT !.blocker = "OWNER_PAUSED"]
            /\ gen' = Abandoned(p, "draining")
         \/ /\ gen[p].state \in {"MATERIALIZING", "STAGED"} /\ v.gen = p /\ v.state = "RECONFIGURING"
            /\ vacuum' = [v EXCEPT !.state = "OWNER_PAUSED", !.blocker = "OWNER_PAUSED"]
            /\ gen' = Abandoned(p, "reconfiguring")
         \/ UNCHANGED <<vacuum, gen>>
      BY DEF AbandonForPause, opened
<1> HIDE DEF v
<1>6. p # NoPeriod
      BY DEF Periods, NoPeriod
<1>7. CASE /\ v.blocker = "OWNER_PAUSED" /\ v.gen = NoPeriod /\ v.state = "DRAINING_ENTRY"
           /\ vacuum' = v /\ gen' = Abandoned(p, "unfenced")
  <2>1. PICK g \in GenerationRecord :
          GenShape(g) /\ g.state = "ABANDONED" /\ gen' = [gen EXCEPT ![p] = g]
        BY <1>7, AbandonedGeneration
  <2>2. \A q \in Periods : gen'[q].state \notin Fenced
        BY <1>1, <1>4, <1>7, <2>1, NobodyFences DEF FenceRows, Fenced
  <2>3. Owns(vacuum', gen')
        BY <1>7, <2>2, Unowned
  <2> QED BY <1>4, <1>5, <1>7, <2>1, <2>3, WorkMoves DEF DrainedStates
<1>8. CASE /\ gen[p].state = "DRAINING_ENTRY" /\ v.gen = p /\ v.state = "DRAINING_ENTRY"
           /\ vacuum' = [v EXCEPT !.blocker = "OWNER_PAUSED"]
           /\ gen' = Abandoned(p, "draining")
  <2>1. PICK g \in GenerationRecord :
          GenShape(g) /\ g.state = "ABANDONED" /\ gen' = [gen EXCEPT ![p] = g]
        BY <1>8, AbandonedGeneration
  <2>2. /\ vacuum' \in VacuumRecord /\ vacuum'.state = "DRAINING_ENTRY" /\ vacuum'.gen = p
        /\ vacuum'.blocker = "OWNER_PAUSED" /\ vacuum'.opened = v.opened
        /\ vacuum'.pause = v.pause
        BY <1>4, <1>8 DEF VacuumRecord, Blockers
  <2>3. VacShape(vacuum') /\ vacuum' # NoVacuum
        BY <1>4, <1>6, <1>8, <2>2 DEF VacShape, NoVacuum, DrainedStates
  <2>4. \A q \in Periods : gen'[q].state \notin Fenced
        BY <1>1, <1>4, <1>6, <1>8, <2>1 DEF FenceRows, Owns, Fenced
  <2>5. Owns(vacuum', gen')
        BY <1>1, <2>1, <2>2, <2>4 DEF Owns, Fenced, FenceRows
  <2> QED BY <1>5, <2>1, <2>2, <2>3, <2>5, WorkMoves DEF DrainedStates
<1>9. CASE /\ gen[p].state \in {"MATERIALIZING", "STAGED"} /\ v.gen = p /\ v.state = "RECONFIGURING"
           /\ vacuum' = [v EXCEPT !.state = "OWNER_PAUSED", !.blocker = "OWNER_PAUSED"]
           /\ gen' = Abandoned(p, "reconfiguring")
  <2>1. PICK g \in GenerationRecord :
          GenShape(g) /\ g.state = "ABANDONED" /\ gen' = [gen EXCEPT ![p] = g]
        BY <1>9, AbandonedGeneration
  <2>2. /\ vacuum' \in VacuumRecord /\ vacuum'.state = "OWNER_PAUSED" /\ vacuum'.gen = p
        /\ vacuum'.blocker = "OWNER_PAUSED" /\ vacuum'.opened = v.opened
        /\ vacuum'.pause = v.pause /\ vacuum'.drained = v.drained
        BY <1>4, <1>9 DEF VacuumRecord, Blockers, CurrentStates
  <2>3. VacShape(vacuum') /\ vacuum' # NoVacuum /\ ticket = "none"
    <3>1. v = vacuum /\ v # NoVacuum
          BY <1>4, <1>6, <1>9 DEF NoVacuum
    <3>2. v.drained # "no" /\ (v.opened = "PAUSE" <=> v.pause # 0) /\ v.opened # "none"
          BY <1>4, <1>9, <3>1 DEF VacShape, DrainedStates
    <3>3. ticket = "none"
          BY <1>1, <1>9, <3>1 DEF FenceRows, DrainedStates
    <3>4. VacShape(vacuum')
          BY <2>2, <3>2 DEF VacShape, DrainedStates
    <3>5. vacuum' # NoVacuum
          BY <2>2 DEF NoVacuum
    <3> QED BY <3>3, <3>4, <3>5
  <2>4. \A q \in Periods : gen'[q].state \notin Fenced
        BY <1>1, <1>4, <1>6, <1>9, <2>1 DEF FenceRows, Owns, Fenced
  <2>5. Owns(vacuum', gen')
        BY <1>1, <2>1, <2>2, <2>4 DEF Owns, Fenced, FenceRows
  <2> QED BY <1>5, <2>1, <2>2, <2>3, <2>5, WorkMoves
<1>10. CASE UNCHANGED <<vacuum, gen>>
       BY <1>5, <1>10, RefusalKeeps DEF core
<1> QED BY <1>5, <1>7, <1>8, <1>9, <1>10

\* The states a generation has while its vacuum is drained and it goes on.
LEMMA WorkingGeneration ==
    ASSUME RowsInv, NEW p \in Periods, gen[p].state \in {"MATERIALIZING", "STAGED"}
    PROVE  /\ vacuum.gen = p /\ vacuum.state = "RECONFIGURING" /\ vacuum # NoVacuum
           /\ p \in AtWork(gen) /\ ticket = "none"
BY FenceRowsNow DEF FenceRows, Owns, AtWork, Fenced, NoVacuum, DrainedStates

\* fail_generic_materialization_generation
LEMMA FailureKeeps ==
    ASSUME RowsInv, SameAround, NEW p \in Periods, gen[p].state \in {"MATERIALIZING", "STAGED"},
           FailGeneration(p)
    PROVE  RowsInv'
<1> DEFINE g == [gen[p] EXCEPT !.state = "FAILED_CLOSED", !.target = LeftTarget(gen[p])]
<1>1. FenceRows(vacuum, gen, ticket)
      BY FenceRowsNow
<1>2. LeftTarget(gen[p]) \in {"none", "abandoned"}
      BY <1>1, LeavesTarget DEF FenceRows
<1>3. /\ g \in GenerationRecord /\ g.state = "FAILED_CLOSED" /\ g.target = LeftTarget(gen[p])
      /\ g.left = gen[p].left /\ gen[p].left = "none"
      BY <1>1, <1>2 DEF FenceRows, GenerationRecord, GenerationStates, GenShape
<1>4. GenShape(g)
      BY <1>2, <1>3 DEF GenShape, Unfenced
<1>5. /\ gen' = [gen EXCEPT ![p] = g] /\ vacuum' = [vacuum EXCEPT !.blocker = "FAILED"]
      /\ UNCHANGED <<authority, universe, armed, ticket>>
      BY <1>1 DEF FailGeneration, FenceRows
<1> HIDE DEF g
<1>6. /\ vacuum' \in VacuumRecord /\ vacuum'.state = "RECONFIGURING" /\ vacuum'.gen = p
      /\ vacuum'.blocker = "FAILED" /\ vacuum'.drained = vacuum.drained
      /\ vacuum'.opened = vacuum.opened /\ vacuum'.pause = vacuum.pause
      BY <1>1, <1>5, WorkingGeneration DEF FenceRows, VacuumRecord, Blockers
<1>7. VacShape(vacuum') /\ vacuum' # NoVacuum
  <2>1. /\ vacuum.drained # "no" /\ vacuum.opened # "none" /\ p # NoPeriod
        /\ (vacuum.opened = "PAUSE" <=> vacuum.pause # 0)
        BY <1>1, WorkingGeneration DEF FenceRows, VacShape, DrainedStates, Periods, NoPeriod
  <2>2. VacShape(vacuum')
        BY <1>6, <2>1 DEF VacShape, DrainedStates
  <2> QED BY <1>6, <2>2 DEF NoVacuum
<1>8. Owns(vacuum', gen')
  <2>1. \A q \in Periods : gen'[q].state \notin Fenced
        BY <1>1, <1>3, <1>5, WorkingGeneration DEF FenceRows, Owns, Fenced
  <2> QED BY <1>1, <1>3, <1>5, <1>6, <2>1 DEF Owns, Fenced, FenceRows
<1> QED BY <1>3, <1>4, <1>5, <1>6, <1>7, <1>8, WorkingGeneration, WorkMoves

\* A generation that never fenced expires, or becomes the desired one.
LEMMA UnfencedMoves ==
    ASSUME RowsInv, SameAround, NEW p \in Periods, gen[p].state \in Unfenced,
           UNCHANGED <<authority, universe, vacuum, armed, ticket>>,
           \/ gen' = [gen EXCEPT ![p].state = "DESIRED"]
           \/ gen' = [gen EXCEPT ![p].state = "ABANDONED", ![p].left = "expired"]
    PROVE  RowsInv'
<1>1. FenceRows(vacuum, gen, ticket) /\ p \in AtWork(gen)
      BY FenceRowsNow DEF AtWork
<1>2. \E g \in GenerationRecord :
        GenShape(g) /\ g.state \in {"DESIRED", "ABANDONED"} /\ gen' = [gen EXCEPT ![p] = g]
  <2>1. gen[p] \in GenerationRecord /\ GenShape(gen[p])
        BY <1>1 DEF FenceRows
  <2>2. CASE gen' = [gen EXCEPT ![p].state = "DESIRED"]
    <3> DEFINE g == [gen[p] EXCEPT !.state = "DESIRED"]
    <3>1. g \in GenerationRecord /\ g.state = "DESIRED" /\ g.target = gen[p].target /\ g.left = gen[p].left
          BY <2>1 DEF GenerationRecord, GenerationStates, Unfenced
    <3>2. GenShape(g)
          BY <2>1, <3>1 DEF GenShape, Unfenced
    <3>3. gen' = [gen EXCEPT ![p] = g]
          BY <1>1, <2>2 DEF FenceRows
    <3> QED BY <3>1, <3>2, <3>3
  <2>3. CASE gen' = [gen EXCEPT ![p].state = "ABANDONED", ![p].left = "expired"]
    <3> DEFINE g == [gen[p] EXCEPT !.state = "ABANDONED", !.left = "expired"]
    <3>1. g \in GenerationRecord /\ g.state = "ABANDONED" /\ g.target = gen[p].target /\ g.left = "expired"
          BY <2>1 DEF GenerationRecord, GenerationStates
    <3>2. GenShape(g)
          BY <2>1, <3>1 DEF GenShape, Unfenced
    <3>3. gen' = [gen EXCEPT ![p] = g]
          BY <1>1, <2>3 DEF FenceRows
    <3> QED BY <3>1, <3>2, <3>3
  <2> QED BY <2>2, <2>3
<1>3. PICK g \in GenerationRecord :
        GenShape(g) /\ g.state \in {"DESIRED", "ABANDONED"} /\ gen' = [gen EXCEPT ![p] = g]
      BY <1>2
<1>4. Owns(vacuum, gen')
      BY <1>1, <1>3 DEF FenceRows, Owns, Unfenced
<1> QED BY <1>1, <1>3, <1>4, WorkMoves DEF FenceRows

\* open_strategy_entry_vacuum for a generation
LEMMA FencingKeeps ==
    ASSUME RowsInv, SameAround, NEW p \in Periods, gen[p].state = "DESIRED", vacuum = NoVacuum,
           OpenGenerationVacuum(p)
    PROVE  RowsInv'
<1> DEFINE g == [gen[p] EXCEPT !.state = "DRAINING_ENTRY"]
<1>1. FenceRows(vacuum, gen, ticket) /\ p \in AtWork(gen)
      BY FenceRowsNow DEF AtWork, Unfenced
<1>2. gen[p] \in GenerationRecord /\ GenShape(gen[p])
      BY <1>1 DEF FenceRows
<1>3. /\ g \in GenerationRecord /\ g.state = "DRAINING_ENTRY" /\ g.target = gen[p].target
      /\ g.left = gen[p].left
      BY <1>2 DEF GenerationRecord, GenerationStates, Fenced
<1>4. GenShape(g)
      BY <1>2, <1>3 DEF GenShape, Unfenced
<1>5. /\ gen' = [gen EXCEPT ![p] = g] /\ vacuum' = GenerationVacuum(p)
      /\ UNCHANGED <<authority, universe, armed, ticket>>
      BY <1>1 DEF OpenGenerationVacuum, FenceRows
<1> HIDE DEF g
<1>6. vacuum' \in VacuumRecord /\ VacShape(vacuum')
      BY <1>5, OpenedVacua, Constants DEF Versions
<1>7. /\ vacuum'.gen = p /\ vacuum'.state = "DRAINING_ENTRY"
      /\ vacuum'.blocker = "ENTRY_DRAIN_REQUIRED" /\ vacuum.gen = NoPeriod
      BY <1>5 DEF GenerationVacuum, NoVacuum
<1>8. \A q \in Periods : gen[q].state \notin Fenced
      BY <1>1, <1>7, NobodyFences DEF FenceRows
<1>9. Owns(vacuum', gen')
      BY <1>1, <1>3, <1>5, <1>7, <1>8 DEF Owns, FenceRows, Fenced
<1>10. vacuum' # NoVacuum
       BY <1>7 DEF NoVacuum
<1> QED BY <1>1, <1>3, <1>4, <1>5, <1>6, <1>7, <1>9, <1>10, WorkMoves DEF DrainedStates

\* install_strategy_universe, STAGE_DYNAMIC
LEMMA StagingKeeps ==
    ASSUME RowsInv, SameAround, NEW p \in Periods, gen[p].state = "MATERIALIZING", StageTarget(p)
    PROVE  RowsInv'
<1>1. FenceRows(vacuum, gen, ticket) /\ gen[p] \in GenerationRecord /\ GenShape(gen[p])
      BY FenceRowsNow DEF FenceRows
<1>2. \E g \in GenerationRecord :
        GenShape(g) /\ g.state \in {"MATERIALIZING", "STAGED"} /\ gen' = [gen EXCEPT ![p] = g]
  <2>1. CASE gen' = [gen EXCEPT ![p].target = InstalledTarget(p)]
    <3> DEFINE g == [gen[p] EXCEPT !.target = InstalledTarget(p)]
    <3>1. InstalledTarget(p) \in Targets \ {"none", "active"}
          BY <1>1 DEF InstalledTarget, GenerationRecord, GenShape, Targets
    <3>2. /\ g \in GenerationRecord /\ g.state = "MATERIALIZING" /\ g.target = InstalledTarget(p)
          /\ g.left = gen[p].left
          BY <1>1, <3>1 DEF GenerationRecord, Targets
    <3>3. GenShape(g)
          BY <1>1, <3>1, <3>2 DEF GenShape, Unfenced
    <3>4. gen' = [gen EXCEPT ![p] = g]
          BY <1>1, <2>1 DEF FenceRows
    <3> QED BY <3>2, <3>3, <3>4
  <2>2. CASE gen' = [gen EXCEPT ![p].target = "staged", ![p].state = "STAGED"]
    <3> DEFINE g == [gen[p] EXCEPT !.target = "staged", !.state = "STAGED"]
    <3>1. g \in GenerationRecord /\ g.state = "STAGED" /\ g.target = "staged" /\ g.left = gen[p].left
          BY <1>1 DEF GenerationRecord, GenerationStates, Fenced
    <3>2. GenShape(g)
          BY <1>1, <3>1 DEF GenShape, Unfenced
    <3>3. gen' = [gen EXCEPT ![p] = g]
          BY <1>1, <2>2 DEF FenceRows
    <3> QED BY <3>1, <3>2, <3>3
  <2> QED BY <2>1, <2>2 DEF StageTarget
<1>3. PICK g \in GenerationRecord :
        GenShape(g) /\ g.state \in {"MATERIALIZING", "STAGED"} /\ gen' = [gen EXCEPT ![p] = g]
      BY <1>2
<1>4. UNCHANGED <<authority, universe, vacuum, armed, ticket>>
      BY DEF StageTarget
<1>5. Owns(vacuum', gen')
      BY <1>1, <1>3, <1>4, WorkingGeneration DEF FenceRows, Owns, VacShape, NoVacuum
<1> QED BY <1>1, <1>3, <1>4, <1>5, WorkingGeneration, WorkMoves DEF FenceRows

\* _activate_generic
LEMMA ActivationKeeps ==
    ASSUME Around, RowsInv, SameAround, NEW p \in Periods, gen[p].state = "STAGED", NEW grant,
           Activate(p, grant), grant \in AuthorityRecord, GrantInv'
    PROVE  RowsInv'
<1> DEFINE g == [gen[p] EXCEPT !.state = "ACTIVE", !.target = "active"]
<1>1. FenceRows(vacuum, gen, ticket) /\ gen[p] \in GenerationRecord /\ GenShape(gen[p])
      BY FenceRowsNow DEF FenceRows
<1>2. g \in GenerationRecord /\ g.state = "ACTIVE" /\ g.target = "active" /\ g.left = gen[p].left
      BY <1>1 DEF GenerationRecord, GenerationStates
<1>3. GenShape(g)
      BY <1>1, <1>2 DEF GenShape, Unfenced
<1>4. /\ gen' = [gen EXCEPT ![p] = g] /\ vacuum' = NoVacuum /\ ticket' = ticket
      /\ authority' = grant /\ universe' = snap[p].members /\ armed' = {}
      BY <1>1 DEF Activate, FenceRows
<1> HIDE DEF g
<1>5. /\ gen' \in [Periods -> GenerationRecord] /\ \A q \in Periods : GenShape(gen'[q])
      /\ AtWork(gen') \subseteq AtWork(gen)
      BY <1>2, <1>3, <1>4, OneMoves DEF Unfenced, Fenced
<1>6. \A q \in Periods : gen'[q].state \notin Fenced
      BY <1>1, <1>2, <1>4, WorkingGeneration DEF FenceRows, Owns, Fenced
<1>7. FenceRows(vacuum', gen', ticket')
      BY <1>1, <1>4, <1>5, <1>6, FewerAtWork, ResolvedRows DEF FenceRows
<1>8. snap[p].members \in Selections \ {{}}
      BY WorkingGeneration, FewerAtWork DEF Around
<1> QED BY <1>4, <1>5, <1>7, <1>8, FewerAtWork, GrantStep

\* A failed switch returns to the previous members.
LEMMA FallBackKeeps ==
    ASSUME Around, RowsInv, SameAround, NEW p \in Periods, gen[p].state = "FAILED_CLOSED",
           CanFallBack(p), FallBack
    PROVE  RowsInv'
<1>1. FenceRows(vacuum, gen, ticket)
      BY FenceRowsNow
<1>2. /\ Enabled /\ vacuum.gen = p /\ authority.members = universe
      /\ PeriodOf(hour + 1) - authority.source <= 1
      BY DEF CanFallBack, PreviousUnchanged
<1>3. \A q \in Periods : gen[q].state \notin Fenced
      BY <1>1, <1>2 DEF FenceRows, Owns, Fenced
<1>4. FenceRows(vacuum', gen', ticket') /\ \A q \in AtWork(gen') : snap[q].members # {}
      BY <1>1, <1>3, ResolvedRows, FewerAtWork DEF FenceRows, FallBack
<1>5. /\ authority.source \in Periods /\ authority.members \in Selections \ {{}}
      /\ authority.members = snap[authority.source].members
      BY <1>2 DEF RowsInv, Rows, GrantInv, AuthorityRecord
<1>6. /\ authority' = RecoveryGrant("FALLBACK_PREVIOUS", authority.source, authority.members)
      /\ universe' = authority.members /\ armed' = {}
      BY <1>2 DEF FallBack
<1>7. authority' \in AuthorityRecord /\ GrantInv'
      BY <1>2, <1>5, <1>6, RecoveryGranted DEF Outcomes
<1> QED BY <1>4, <1>5, <1>6, <1>7, GrantStep

\* A generation at work whose period lasts, or that still drains.
LEMMA AdvanceKeeps ==
    ASSUME Around, RowsInv, SameAround, NEW p \in Periods, AdvanceGeneration(p), Enabled,
           hour >= Expires(p) => gen[p].state = "DRAINING_ENTRY"
    PROVE  RowsInv'
<1>1. CASE /\ gen[p].state = "PENDING" /\ gen' = [gen EXCEPT ![p].state = "DESIRED"]
           /\ UNCHANGED <<authority, universe, vacuum, armed, ticket>>
      BY <1>1, UnfencedMoves DEF Unfenced
<1>2. CASE gen[p].state = "DESIRED" /\ CanFence(p) /\ OpenGenerationVacuum(p)
      BY <1>2, FencingKeeps DEF CanFence
<1>3. CASE UNCHANGED core
      BY <1>3, RefusalKeeps
<1>4. CASE DrainOnce(vacuum)
      BY <1>4, DrainKeeps
<1>5. CASE gen[p].state = "MATERIALIZING" /\ StageTarget(p)
      BY <1>5, StagingKeeps
<1>6. ASSUME gen[p].state = "STAGED"
      PROVE  snap[p].members \in Selections \ {{}} /\ hour < Expires(p)
  <2>1. snap[p].members \in Selections \ {{}}
        BY <1>6, WorkingGeneration, FewerAtWork DEF Around
  <2>2. hour \in Nat /\ Expires(p) \in Int
        BY PeriodsNow, Constants DEF Expires, Periods
  <2> QED BY <1>6, <2>1, <2>2
<1>7. CASE /\ gen[p].state = "STAGED"
           /\ Activate(p, [NormalGrant(p, "ACTIVE_NEW") EXCEPT !.continued = FALSE])
  <2> DEFINE grant == [NormalGrant(p, "ACTIVE_NEW") EXCEPT !.continued = FALSE]
  <2>1. /\ grant \in AuthorityRecord /\ grant.outcome = "ACTIVE_NEW" /\ grant.kind = "normal"
        /\ grant.period = p /\ grant.source = p /\ grant.members = snap[p].members
        /\ grant.owner = owner
    <3>1. "ACTIVE_NEW" \in Outcomes
          BY DEF Outcomes
    <3>2. LET g == NormalGrant(p, "ACTIVE_NEW")
          IN  /\ g \in AuthorityRecord /\ g.outcome = "ACTIVE_NEW" /\ g.kind = "normal"
              /\ g.period = p /\ g.source = p /\ g.members = snap[p].members /\ g.owner = owner
          BY <3>1, NormalColumns
    <3> QED BY <3>2 DEF AuthorityRecord
  <2>2. authority' = grant /\ universe' = snap[p].members
        BY <1>7 DEF Activate
  <2> HIDE DEF grant
  <2>3. GrantInv'
        BY <1>6, <1>7, <2>1, <2>2, NormalGranted DEF Outcomes
  <2>4. Activate(p, grant)
        BY <1>7 DEF grant
  <2> QED BY <1>7, <2>1, <2>3, <2>4, ActivationKeeps
<1>8. CASE gen[p].state = "STAGED" /\ Activate(p, RecoveryGrant("ACTIVE_NEW", p, snap[p].members))
  <2>1. /\ authority' = RecoveryGrant("ACTIVE_NEW", p, snap[p].members)
        /\ universe' = snap[p].members
        BY <1>8 DEF Activate
  <2>2. PeriodOf(hour + 1) - p <= 1
    <3>1. PeriodOf(hour + 1) \in 1..p + 1
          BY <1>6, <1>8, PeriodsNow DEF Periods
    <3> QED BY <3>1 DEF Periods
  <2>3. authority' \in AuthorityRecord /\ GrantInv'
        BY <1>6, <1>8, <2>1, <2>2, RecoveryGranted DEF Outcomes
  <2> QED BY <1>8, <2>1, <2>3, ActivationKeeps
<1> QED BY <1>1, <1>2, <1>3, <1>4, <1>5, <1>7, <1>8 DEF AdvanceGeneration

\* The step of a generation.
LEMMA GenerationKeeps ==
    ASSUME Around, RowsInv, SameAround, NEW p \in Periods, GenerationStep(p)
    PROVE  RowsInv'
<1>1. CASE gen[p].state \in Unfenced \cup Fenced /\ AbandonForPause(p)
      BY <1>1, AbandonKeeps DEF AtWork
<1>2. CASE DrainOnce(vacuum)
      BY <1>2, DrainKeeps
<1>3. CASE gen[p].state = "FAILED_CLOSED" /\ CanFallBack(p) /\ FallBack
      BY <1>3, FallBackKeeps
<1>4. CASE /\ gen[p].state \in Unfenced
           /\ gen' = [gen EXCEPT ![p].state = "ABANDONED", ![p].left = "expired"]
           /\ UNCHANGED <<authority, universe, vacuum, armed, ticket>>
      BY <1>4, UnfencedMoves
<1>5. CASE gen[p].state \in {"MATERIALIZING", "STAGED"} /\ FailGeneration(p)
      BY <1>5, FailureKeeps
<1>6. CASE /\ Enabled /\ AdvanceGeneration(p)
           /\ hour >= Expires(p) => gen[p].state = "DRAINING_ENTRY"
      BY <1>6, AdvanceKeeps
<1>7. CASE UNCHANGED core
      BY <1>7, RefusalKeeps
<1> QED BY <1>1, <1>2, <1>3, <1>4, <1>5, <1>6, <1>7 DEF GenerationStep

-----------------------------------------------------------------------------
(* The snapshot step. *)

\* A generation that is born is well formed.
LEMMA Newborn ==
    ASSUME Around
    PROVE  /\ NewGeneration \in GenerationRecord /\ GenShape(NewGeneration)
           /\ NewGeneration.state = "PENDING"
           /\ LET g == [NewGeneration EXCEPT !.state = "MATERIALIZING", !.retargeted = TRUE]
              IN  g \in GenerationRecord /\ GenShape(g) /\ g.state = "MATERIALIZING"
<1>1. owner \in Versions
      BY DEF Around
<1>2. /\ NewGeneration \in GenerationRecord /\ NewGeneration.state = "PENDING"
      /\ NewGeneration.target = "none" /\ NewGeneration.left = "none"
      BY <1>1 DEF NewGeneration, NoGeneration, GenerationRecord, GenerationStates, Unfenced
<1>3. GenShape(NewGeneration)
      BY <1>2 DEF GenShape, Unfenced
<1>4. LET g == [NewGeneration EXCEPT !.state = "MATERIALIZING", !.retargeted = TRUE]
      IN  /\ g \in GenerationRecord /\ g.state = "MATERIALIZING" /\ g.target = "none"
          /\ g.left = "none"
      BY <1>2 DEF GenerationRecord, GenerationStates, Fenced
<1>5. GenShape([NewGeneration EXCEPT !.state = "MATERIALIZING", !.retargeted = TRUE])
      BY <1>4 DEF GenShape, Unfenced
<1> QED BY <1>2, <1>3, <1>4, <1>5

\* One generation begins where all others have ended.
LEMMA OneBegins ==
    ASSUME NEW gs, Ended(gs), NEW p \in Periods, NEW g \in GenerationRecord, GenShape(g)
    PROVE  LET new == [gs EXCEPT ![p] = g]
           IN  /\ new \in [Periods -> GenerationRecord] /\ \A q \in Periods : GenShape(new[q])
               /\ \A q \in Periods : new[q] = IF q = p THEN g ELSE gs[q]
               /\ AtWork(new) \subseteq {p} /\ OneAtWork(new)
               /\ \A q \in Periods : q # p => new[q].state \notin Fenced
<1>1. gs \in [Periods -> GenerationRecord] /\ \A q \in Periods : GenShape(gs[q])
      BY DEF Ended
<1>2. \A q \in Periods : gs[q].state \notin Unfenced \cup Fenced
      BY DEF Ended, AtWork
<1> DEFINE new == [gs EXCEPT ![p] = g]
<1>3. new \in [Periods -> GenerationRecord] /\ \A q \in Periods : new[q] = IF q = p THEN g ELSE gs[q]
      BY <1>1
<1> HIDE DEF new
<1>4. (\A q \in Periods : GenShape(new[q])) /\ \A q \in Periods : q # p => new[q].state \notin Fenced
      BY <1>1, <1>2, <1>3
<1>5. AtWork(new) \subseteq {p}
      BY <1>2, <1>3 DEF AtWork
<1>6. OneAtWork(new)
      BY <1>5 DEF OneAtWork
<1> QED BY <1>3, <1>4, <1>5, <1>6 DEF new

\* A vacuum that was drained is handed to a new generation with its fence and its drain.
LEMMA HandOverKeeps ==
    ASSUME Around, RowsInv, SameAround, NEW p \in Periods,
           NEW blocker \in {"AUTHORITY_GAP", "LATEST_VALID_SELECTION"},
           snap[p].members # {}, HandOver(p, blocker), ticket = "none",
           vacuum.state \in DrainedStates, vacuum.gen = NoPeriod \/ vacuum.state # "RECOVERY_PENDING"
    PROVE  RowsInv'
<1> DEFINE g == [NewGeneration EXCEPT !.state = "MATERIALIZING", !.retargeted = TRUE]
<1>1. FenceRows(vacuum, gen, ticket)
      BY FenceRowsNow
<1>2. g \in GenerationRecord /\ GenShape(g) /\ g.state = "MATERIALIZING"
      BY Newborn
<1>3. /\ gen' = [Outcome(vacuum.gen) EXCEPT ![p] = g] /\ vacuum' = Retargeted(vacuum, p, blocker)
      /\ UNCHANGED <<authority, universe, armed, ticket>>
      BY DEF HandOver
<1> HIDE DEF g
<1>4. Ended(Outcome(vacuum.gen))
      BY OutcomeEnds DEF DrainedStates
<1>5. /\ gen' \in [Periods -> GenerationRecord] /\ \A q \in Periods : GenShape(gen'[q])
      /\ gen'[p] = g /\ AtWork(gen') \subseteq {p} /\ OneAtWork(gen')
      /\ \A q \in Periods : q # p => gen'[q].state \notin Fenced
      BY <1>2, <1>3, <1>4, OneBegins
<1>6. /\ vacuum' \in VacuumRecord /\ vacuum'.state = "RECONFIGURING" /\ vacuum'.gen = p
      /\ vacuum'.blocker = blocker /\ vacuum'.drained = vacuum.drained
      /\ vacuum'.opened = vacuum.opened /\ vacuum'.pause = vacuum.pause
      BY <1>1, <1>3 DEF FenceRows, Retargeted, VacuumRecord, CurrentStates, Blockers
<1>7. VacShape(vacuum') /\ vacuum' # NoVacuum
  <2>1. vacuum # NoVacuum /\ p # NoPeriod
        BY DEF NoVacuum, DrainedStates, Periods, NoPeriod
  <2>2. /\ vacuum.drained # "no" /\ vacuum.opened # "none"
        /\ (vacuum.opened = "PAUSE" <=> vacuum.pause # 0)
        BY <1>1, <2>1 DEF FenceRows, VacShape
  <2>3. VacShape(vacuum')
        BY <1>6, <2>1, <2>2 DEF VacShape, DrainedStates
  <2> QED BY <1>6, <2>3 DEF NoVacuum
<1>8. Owns(vacuum', gen')
      BY <1>2, <1>5, <1>6 DEF Owns, Fenced
<1>9. FenceRows(vacuum', gen', ticket')
      BY <1>3, <1>5, <1>6, <1>7, <1>8 DEF FenceRows, Tickets
<1>10. \A q \in AtWork(gen') : snap[q].members # {}
       BY <1>5
<1> QED BY <1>3, <1>7, <1>9, <1>10, FenceStep

\* The step of a Selection that has not been acted on.
LEMMA CommitsKeep ==
    ASSUME Around, RowsInv, SameAround, NEW p \in Periods, Enabled, SnapshotCommits(p)
    PROVE  RowsInv'
<1>0. FenceRows(vacuum, gen, ticket)
      BY FenceRowsNow
<1>1. CASE /\ MissedPeriod(p) /\ vacuum' = GapVacuum(authority.period + 1)
           /\ UNCHANGED <<authority, universe, gen, armed, ticket>>
  <2>1. authority.period + 1 \in Periods /\ vacuum = NoVacuum
    <3>1. authority.period \in 1..NumPeriods + 1
          BY DEF RowsInv, Rows, AuthorityRecord
    <3>2. authority.period + 1 < p /\ vacuum = NoVacuum
          BY <1>1 DEF MissedPeriod
    <3> QED BY <3>1, <3>2, Constants DEF Periods
  <2>2. vacuum' \in VacuumRecord /\ VacShape(vacuum')
        BY <1>1, <2>1, OpenedVacua, Constants DEF Versions
  <2>3. vacuum'.gen = NoPeriod /\ vacuum'.state = "OPEN"
        BY <1>1 DEF GapVacuum, NoVacuum
  <2> QED BY <1>1, <2>1, <2>2, <2>3, FenceOpened
<1>2. CASE DrainOnce(vacuum)
      BY <1>2, DrainKeeps
<1>3. CASE EmptyStep(p)
      BY <1>3, EmptyKeeps
<1>4. CASE /\ vacuum = NoVacuum /\ snap[p].members = universe
           /\ authority' = NormalGrant(p, "NO_CHANGE") /\ gen' = Superseding
           /\ UNCHANGED <<universe, vacuum, armed, ticket>>
  <2>1. Ended(Superseding)
        BY <1>4, SupersedingEnds DEF NoVacuum
  <2>2. FenceRows(vacuum', gen', ticket') /\ \A q \in AtWork(gen') : snap[q].members # {}
        BY <1>0, <1>4, <2>1, ResolvedRows DEF FenceRows, Ended, AtWork, OneAtWork
  <2>3. universe \in Selections \ {{}} /\ "NO_CHANGE" \in Outcomes
        BY DEF RowsInv, Rows, Outcomes
  <2>4. /\ authority' \in AuthorityRecord /\ authority'.outcome = "NO_CHANGE"
        /\ authority'.kind = "normal" /\ authority'.period = p /\ authority'.source = p
        /\ authority'.members = snap[p].members /\ authority'.owner = owner
        BY <1>4, <2>3, NormalColumns
  <2>5. GrantInv'
        BY <1>4, <2>3, <2>4, NormalGranted DEF Outcomes
  <2> QED BY <1>4, <2>2, <2>3, <2>4, <2>5, GrantStep DEF RowsInv, Rows
<1>5. CASE /\ vacuum = NoVacuum /\ snap[p].members # {}
           /\ gen' = [Superseding EXCEPT ![p] = NewGeneration]
           /\ UNCHANGED <<authority, universe, vacuum, armed, ticket>>
  <2>1. Ended(Superseding)
        BY <1>5, SupersedingEnds DEF NoVacuum
  <2>2. NewGeneration \in GenerationRecord /\ GenShape(NewGeneration) /\ NewGeneration.state = "PENDING"
        BY Newborn
  <2>3. /\ gen' \in [Periods -> GenerationRecord] /\ \A q \in Periods : GenShape(gen'[q])
        /\ gen'[p] = NewGeneration /\ AtWork(gen') \subseteq {p} /\ OneAtWork(gen')
        /\ \A q \in Periods : q # p => gen'[q].state \notin Fenced
        BY <1>5, <2>1, <2>2, OneBegins
  <2>4. \A q \in Periods : gen'[q].state \notin Fenced
        BY <2>2, <2>3 DEF Fenced
  <2>5. FenceRows(vacuum', gen', ticket') /\ \A q \in AtWork(gen') : snap[q].members # {}
        BY <1>0, <1>5, <2>3, <2>4, ResolvedRows DEF FenceRows
  <2> QED BY <1>5, <2>5, FenceStep
<1>6. CASE snap[p].members # {} /\ GapHandedOver(p) /\ HandOver(p, "AUTHORITY_GAP")
      BY <1>6, HandOverKeeps DEF GapHandedOver, GapHandoff, NoDrainBlockers, DrainedStates
<1>7. CASE snap[p].members # {} /\ InterruptedHandedOver(p) /\ HandOver(p, "LATEST_VALID_SELECTION")
      BY <1>7, HandOverKeeps DEF InterruptedHandedOver, NoDrainBlockers, DrainedStates
<1>8. CASE UNCHANGED core
      BY <1>8, RefusalKeeps
<1> QED BY <1>1, <1>2, <1>3, <1>4, <1>5, <1>6, <1>7, <1>8 DEF SnapshotCommits

\* The step of a snapshot.
LEMMA SnapshotKeeps ==
    ASSUME Around, RowsInv, SameAround, NEW p \in Periods, SnapshotStep(p)
    PROVE  RowsInv'
BY GenerationKeeps, CommitsKeep, RefusalKeeps DEF SnapshotStep

-----------------------------------------------------------------------------
(* Invariance. *)

\* What the coordinator leaves alone stays typed.
LEMMA AroundStays ==
    ASSUME Around, SameAround
    PROVE  Around'
<1>1. /\ hour' = hour /\ snap' = snap /\ owner' = owner /\ consumed' = consumed
      BY DEF SameAround
<1> QED BY <1>1 DEF Around

\* The run starts with the first member set in force.
LEMMA InitInv == Init => IInv
<1> SUFFICES ASSUME Init PROVE IInv
    OBVIOUS
<1>1. /\ 1 \in Periods /\ 1 \in Versions /\ Cadence \in Nat /\ Expires(1) = Cadence
      /\ 1 \in 1..NumPeriods + 1
      BY Constants DEF Periods, Versions, Expires
<1>2. First \in Selections \ {{}} /\ {} \in Selections /\ First \subseteq Members
      BY Constants DEF Members
<1>3. Around
  <2>1. hour \in 0..Expires(NumPeriods) - 1
        BY <1>1, LastHour, Constants DEF Init
  <2>2. snap \in [Periods -> [ready : BOOLEAN, members : Selections, fresh : BOOLEAN]]
        BY <1>2 DEF Init, NoSnapshot
  <2>3. \A p \in Periods : ~snap[p].ready => snap[p].members = {}
        BY DEF Init, NoSnapshot
  <2> QED BY <1>1, <1>2, <2>1, <2>2, <2>3 DEF Init, Around
<1>4. RunTyped
      BY DEF Init, Idle, RunTyped
<1>5. ActiveGeneration \in GenerationRecord /\ GenShape(ActiveGeneration)
  <2>1. /\ ActiveGeneration \in GenerationRecord /\ ActiveGeneration.state = "ACTIVE"
        /\ ActiveGeneration.target = "active" /\ ActiveGeneration.left = "none"
        BY <1>1 DEF ActiveGeneration, NoGeneration, GenerationRecord, GenerationStates
  <2> QED BY <2>1 DEF GenShape, Unfenced
<1>6. NoGeneration \in GenerationRecord /\ GenShape(NoGeneration)
      BY DEF NoGeneration, GenerationRecord, GenerationStates, GenShape, Unfenced
<1>7. /\ gen \in [Periods -> GenerationRecord] /\ \A p \in Periods : GenShape(gen[p])
      /\ \A p \in Periods : gen[p].state \in {"ACTIVE", "none"}
  <2>1. ActiveGeneration.state = "ACTIVE" /\ NoGeneration.state = "none"
        BY DEF ActiveGeneration, NoGeneration
  <2>2. \A p \in Periods : gen[p] \in {ActiveGeneration, NoGeneration}
        BY DEF Init
  <2>3. gen = [p \in Periods |-> gen[p]]
        BY DEF Init
  <2> QED BY <1>5, <1>6, <2>1, <2>2, <2>3
<1>8. AtWork(gen) = {} /\ OneAtWork(gen) /\ \A p \in Periods : gen[p].state \notin Fenced
      BY <1>7 DEF AtWork, OneAtWork, Unfenced, Fenced
<1>9. FenceRows(vacuum, gen, ticket)
      BY <1>7, <1>8, ResolvedRows DEF Init, Tickets
<1>10. /\ authority \in AuthorityRecord /\ authority.outcome = "ACTIVE_NEW"
       /\ authority.kind = "normal" /\ authority.source = 1 /\ authority.period = 1
       /\ authority.members = First /\ authority.owner = 1
  <2>1. 0 \in 0..Expires(NumPeriods)
        BY LastHour
  <2> QED BY <1>1, <1>2, <2>1 DEF Init, AuthorityRecord, Outcomes
<1>11. Rows
       BY <1>2, <1>9, <1>10 DEF Rows, FenceRows, Init
<1>12. FenceInv
       BY <1>9 DEF FenceInv, FenceRows
<1>13. TargetsReady
       BY <1>8 DEF TargetsReady
<1>14. GrantInv
  <2>1. snap[1].members = First /\ universe = First /\ owner = 1
        BY <1>1 DEF Init
  <2> QED BY <1>2, <1>10, <2>1 DEF GrantInv, Blocks, Enabled
<1> QED BY <1>3, <1>4, <1>11, <1>12, <1>13, <1>14 DEF IInv, RowsInv

\* Choosing what to do.
LEMMA ChooseKeeps ==
    ASSUME IInv, Choose
    PROVE  IInv'
<1>1. /\ Around /\ RowsInv /\ SameAround /\ UNCHANGED core
      BY DEF IInv, Choose, SameAround, core
<1>2. Around' /\ RowsInv'
      BY <1>1, AroundStays, RefusalKeeps
<1>3. RunTyped'
  <2> DEFINE p == PeriodOf(hour)
             q == CHOOSE q \in Actionable : \A r \in Actionable : r <= q
  <2>1. p \in Periods
        BY <1>1, PeriodsNow
  <2>2. Actionable # {} => q \in Periods
    <3> SUFFICES ASSUME Actionable # {} PROVE q \in Periods
        OBVIOUS
    <3>1. PICK x : x \in Actionable
          OBVIOUS
    <3>2. \A r \in Actionable : r = x /\ x \in Int
          BY <1>1, <3>1 DEF RowsInv, FenceInv, OneAtWork, AtWork, Actionable, Periods
    <3>3. x \in Actionable /\ \A r \in Actionable : r <= x
          BY <3>1, <3>2
    <3>4. q \in Actionable
          BY <3>3
    <3> QED BY <3>4 DEF Actionable
  <2>3. vacuum.gen # NoPeriod => vacuum.gen \in Periods
        BY <1>1 DEF RowsInv, Rows, VacuumRecord
  <2> HIDE DEF p, q
  <2>4. \/ run' = [pc |-> "generation", period |-> p]
        \/ run' = [pc |-> "continuity", period |-> p]
        \/ run' = [pc |-> "generation", period |-> q] /\ Actionable # {}
        \/ run' = [pc |-> "generation", period |-> vacuum.gen] /\ vacuum.gen # NoPeriod
        \/ run' = [pc |-> "period", period |-> p]
        BY DEF Choose, p, q
  <2> QED BY <2>1, <2>2, <2>3, <2>4 DEF RunTyped, Periods
<1> QED BY <1>2, <1>3 DEF IInv

\* The transactions of the coordinator.
LEMMA CoordinatorKeeps ==
    ASSUME IInv,
           CoordinatePeriod \/ CoordinateContinuity \/ CoordinateSnapshot \/ CoordinateGeneration
    PROVE  IInv'
<1>1. Around /\ RowsInv /\ RunTyped
      BY DEF IInv
<1>2. SameAround
      BY DEF CoordinatePeriod, CoordinateContinuity, CoordinateSnapshot, CoordinateGeneration, SameAround
<1>3. run.period \in Periods /\ run.pc \in {"period", "continuity", "snapshot", "generation"}
  <2>1. run.pc \in {"period", "continuity", "snapshot", "generation"}
        BY DEF CoordinatePeriod, CoordinateContinuity, CoordinateSnapshot, CoordinateGeneration
  <2> QED BY <1>1, <2>1 DEF RunTyped
<1>4. RowsInv'
      BY <1>1, <1>2, <1>3, PeriodKeeps, SnapshotKeeps, GenerationKeeps
         DEF CoordinatePeriod, CoordinateContinuity, CoordinateSnapshot, CoordinateGeneration
<1>5. RunTyped'
  <2>1. run' = Idle \/ run' = [run EXCEPT !.pc = "snapshot"]
        BY DEF CoordinatePeriod, CoordinateContinuity, CoordinateSnapshot, CoordinateGeneration
  <2> QED BY <1>1, <1>3, <2>1 DEF RunTyped, Idle, NoPeriod, Periods
<1> QED BY <1>1, <1>2, <1>4, <1>5, AroundStays DEF IInv

\* An hour passes.
LEMMA TickKeeps ==
    ASSUME IInv, Tick
    PROVE  IInv'
<1>1. Around /\ RowsInv /\ RunTyped
      BY DEF IInv
<1>2. Around' /\ \A p \in Periods : snap'[p].members = snap[p].members
  <2>1. hour' \in 0..Expires(NumPeriods) - 1
    <3>1. hour \in 0..Expires(NumPeriods) - 1 /\ hour' = hour + 1 /\ hour + 1 < Expires(NumPeriods)
          BY <1>1 DEF Around, Tick
    <3> QED BY <3>1, LastHour
  <2>2. snap' = [p \in Periods |-> [snap[p] EXCEPT !.fresh = FALSE]]
        BY DEF Tick
  <2>3. \A p \in Periods : snap[p] \in [ready : BOOLEAN, members : Selections, fresh : BOOLEAN]
        BY <1>1 DEF Around
  <2>4. \A p \in Periods :
          /\ snap'[p] \in [ready : BOOLEAN, members : Selections, fresh : BOOLEAN]
          /\ snap'[p].members = snap[p].members /\ snap'[p].ready = snap[p].ready
        BY <2>2, <2>3
  <2>5. snap' \in [Periods -> [ready : BOOLEAN, members : Selections, fresh : BOOLEAN]]
        BY <2>2, <2>4
  <2>6. owner' = owner /\ consumed' = {}
        BY DEF Tick
  <2> QED BY <1>1, <2>1, <2>4, <2>5, <2>6 DEF Around
<1>3. UNCHANGED <<owner, authority, universe, vacuum, gen, armed, ticket, run>>
      BY DEF Tick
<1>4. Rows' /\ FenceInv'
      BY <1>1, <1>3 DEF RowsInv, Rows, FenceInv
<1>5. TargetsReady'
      BY <1>1, <1>2, <1>3 DEF RowsInv, TargetsReady, AtWork
<1>6. GrantInv'
  <2>1. authority.source \in Periods
        BY <1>1 DEF RowsInv, Rows, AuthorityRecord
  <2> QED BY <1>1, <1>2, <1>3, <2>1 DEF RowsInv, GrantInv, Blocks, Enabled
<1>7. RunTyped'
      BY <1>1, <1>3 DEF RunTyped
<1> QED BY <1>2, <1>4, <1>5, <1>6, <1>7 DEF IInv, RowsInv

\* The Selection job commits a snapshot where there was none.
LEMMA SelectKeeps ==
    ASSUME IInv, NEW members \in Selections, Select(members)
    PROVE  IInv'
<1>1. Around /\ RowsInv /\ RunTyped
      BY DEF IInv
<1> DEFINE p == PeriodOf(hour + 1)
           s == [ready |-> TRUE, members |-> members, fresh |-> TRUE]
<1>2. /\ p \in Periods /\ ~snap[p].ready /\ snap' = [snap EXCEPT ![p] = s]
      /\ UNCHANGED <<hour, owner, authority, universe, vacuum, gen, consumed, armed, ticket, run>>
      BY DEF Select
<1> HIDE DEF p
<1>3. /\ snap' \in [Periods -> [ready : BOOLEAN, members : Selections, fresh : BOOLEAN]]
      /\ snap'[p].ready /\ \A q \in Periods : q # p => snap'[q] = snap[q]
      BY <1>1, <1>2 DEF Around
<1>4. snap[p].members = {}
      BY <1>1, <1>2 DEF Around
<1>5. \A q \in Periods : snap[q].members # {} => snap'[q] = snap[q]
      BY <1>3, <1>4
<1>6. Around'
  <2>1. \A q \in Periods : ~snap'[q].ready => snap'[q].members = {}
        BY <1>1, <1>3 DEF Around
  <2> QED BY <1>1, <1>2, <1>3, <2>1 DEF Around
<1>7. Rows' /\ FenceInv' /\ RunTyped'
      BY <1>1, <1>2 DEF RowsInv, Rows, FenceInv, RunTyped
<1>8. TargetsReady'
      BY <1>1, <1>2, <1>5 DEF RowsInv, TargetsReady, AtWork
<1>9. GrantInv'
  <2>1. authority.source \in Periods
        BY <1>1 DEF RowsInv, Rows, AuthorityRecord
  <2> QED BY <1>1, <1>2, <1>5, <2>1 DEF RowsInv, GrantInv, Blocks, Enabled
<1> QED BY <1>6, <1>7, <1>8, <1>9 DEF IInv, RowsInv

\* set_strategy_entry_state
LEMMA PauseKeeps ==
    ASSUME IInv, PauseOrResume
    PROVE  IInv'
<1>1. Around /\ RowsInv /\ RunTyped /\ FenceRows(vacuum, gen, ticket)
      BY FenceRowsNow DEF IInv
<1>2. /\ owner' = owner + 1 /\ owner < MaxOwner
      /\ vacuum' = IF Enabled THEN PauseFence ELSE vacuum
      /\ UNCHANGED <<hour, snap, authority, universe, gen, consumed, armed, ticket, run>>
      BY DEF PauseOrResume
<1>3. owner' \in Versions
      BY <1>1, <1>2, Constants DEF Around, Versions
<1>4. Around' /\ RunTyped'
      BY <1>1, <1>2, <1>3 DEF Around, RunTyped
<1>5. PauseVacuum(owner', NoPeriod) \in VacuumRecord /\ VacShape(PauseVacuum(owner', NoPeriod))
  <2>1. 1 \in Periods
        BY Constants DEF Periods
  <2> QED BY <1>3, <2>1, OpenedVacua
<1>6. /\ PauseVacuum(owner', NoPeriod).gen = NoPeriod /\ PauseVacuum(owner', NoPeriod) # NoVacuum
      /\ PauseVacuum(owner', NoPeriod).state = "OPEN"
      BY DEF PauseVacuum, NoVacuum
<1>7. vacuum' = vacuum \/ (vacuum = NoVacuum /\ vacuum' = PauseVacuum(owner', NoPeriod))
      BY <1>2 DEF PauseFence
<1>8. FenceRows(vacuum', gen', ticket')
  <2>1. CASE vacuum' = vacuum
        BY <1>1, <1>2, <2>1
  <2>2. CASE vacuum = NoVacuum /\ vacuum' = PauseVacuum(owner', NoPeriod)
    <3>1. vacuum.gen = NoPeriod
          BY <2>2 DEF NoVacuum
    <3>2. Owns(vacuum', gen')
          BY <1>1, <1>2, <1>6, <2>2, <3>1, Unowned, NobodyFences DEF FenceRows
    <3> QED BY <1>1, <1>2, <1>5, <1>6, <2>2, <3>2 DEF FenceRows, DrainedStates
  <2> QED BY <1>7, <2>1, <2>2
<1>9. Rows' /\ FenceInv' /\ TargetsReady'
      BY <1>1, <1>2, <1>8 DEF RowsInv, Rows, FenceInv, FenceRows, Tickets, TargetsReady, AtWork
<1>10. GrantInv'
  <2>1. ~Blocks /\ vacuum' = NoVacuum => FALSE
    <3> SUFFICES ASSUME ~Blocks, vacuum' = NoVacuum PROVE FALSE
        OBVIOUS
    <3>1. vacuum = NoVacuum
          BY <1>6, <1>7
    <3>2. Enabled
          BY <1>1, <3>1 DEF RowsInv, GrantInv
    <3>3. vacuum' = PauseVacuum(owner', NoPeriod)
          BY <1>2, <3>1, <3>2 DEF PauseFence
    <3> QED BY <1>6, <3>3
  <2>2. authority' = authority /\ snap' = snap
        BY <1>2
  <2> QED BY <1>1, <2>1, <2>2 DEF RowsInv, GrantInv, Blocks
<1> QED BY <1>4, <1>9, <1>10 DEF IInv, RowsInv

\* Observation, dispatch, the venue and reconciliation.
LEMMA EntryKeeps ==
    ASSUME IInv,
           \/ \E m \in Members, triggered \in BOOLEAN : ObserveClose(m, triggered)
           \/ DispatchEntry \/ VenueMoves \/ ReconcileDraining
    PROVE  IInv'
<1>1. Around /\ RowsInv /\ RunTyped /\ FenceRows(vacuum, gen, ticket)
      BY FenceRowsNow DEF IInv
<1>2. /\ UNCHANGED <<hour, snap, owner, authority, universe, vacuum, gen, run>>
      /\ consumed' \subseteq Members /\ armed' \subseteq Members
      BY <1>1 DEF ObserveClose, DispatchEntry, VenueMoves, ReconcileDraining, Around, RowsInv, Rows
<1>3. /\ ticket' \in Tickets
      /\ ticket = "none" => ticket' = "none" \/ vacuum = NoVacuum
      BY <1>1 DEF ObserveClose, EntryPermitted, DispatchEntry, VenueMoves, ReconcileDraining, Tickets,
                  FenceRows
<1>4. vacuum.state \in DrainedStates => ticket' = "none"
      BY <1>1, <1>3 DEF FenceRows, NoVacuum, DrainedStates
<1>5. Around' /\ RunTyped'
      BY <1>1, <1>2 DEF Around, RunTyped
<1>6. Rows' /\ FenceInv'
      BY <1>1, <1>2, <1>3, <1>4 DEF RowsInv, Rows, FenceInv, Tickets
<1>7. TargetsReady' /\ GrantInv'
      BY <1>1, <1>2 DEF RowsInv, TargetsReady, AtWork, GrantInv, Blocks, Enabled
<1> QED BY <1>5, <1>6, <1>7 DEF IInv, RowsInv

\* Every step keeps the invariant.
LEMMA NextKeeps == IInv /\ [Next]_vars => IInv'
<1> SUFFICES ASSUME IInv, [Next]_vars PROVE IInv'
    OBVIOUS
<1>1. CASE Runtime
      BY <1>1, ChooseKeeps, CoordinatorKeeps DEF Runtime
<1>2. CASE Tick
      BY <1>2, TickKeeps
<1>3. CASE \E members \in Selections : Select(members)
      BY <1>3, SelectKeeps
<1>4. CASE PauseOrResume
      BY <1>4, PauseKeeps
<1>5. CASE \/ \E m \in Members, triggered \in BOOLEAN : ObserveClose(m, triggered)
           \/ DispatchEntry \/ VenueMoves \/ ReconcileDraining
      BY <1>5, EntryKeeps
<1>6. CASE UNCHANGED vars
  <2>1. SameAround /\ UNCHANGED core /\ UNCHANGED run
        BY <1>6 DEF vars, SameAround, core
  <2> QED BY <2>1, AroundStays, RefusalKeeps DEF IInv, RunTyped
<1> QED BY <1>1, <1>2, <1>3, <1>4, <1>5, <1>6 DEF Next

\* The inductive invariant of a generic group: its rows are typed, vacuum and generations tell
\* one story, and the authority stands on a Selection.
THEOREM Invariance == Spec => []IInv
<1>1. Init => IInv
      BY InitInv
<1>2. IInv /\ [Next]_vars => IInv'
      BY NextKeeps
<1> QED BY <1>1, <1>2, PTL DEF Spec

\* Authority, vacuum, generations, snapshots and the worker's memory fit their tables.
THEOREM TypeCorrectness == Spec => []TypeOK
<1>1. IInv => TypeOK
  <2> SUFFICES ASSUME IInv PROVE TypeOK
      OBVIOUS
  <2>1. Around /\ RunTyped /\ Rows /\ FenceInv /\ GrantInv
        BY DEF IInv, RowsInv
  <2>2. AuthorityRow
        BY <2>1, Constants DEF AuthorityRow, Rows, AuthorityRecord, Outcomes, GrantInv, Periods
  <2>3. VacuumRow(vacuum, Periods, Versions)
    <3>1. CASE vacuum = NoVacuum
          BY <3>1 DEF VacuumRow
    <3>2. CASE vacuum # NoVacuum
          BY <2>1, <3>2 DEF VacuumRow, Rows, VacuumRecord, FenceInv, VacShape, DrainedStates
    <3> QED BY <3>1, <3>2
  <2>4. \A p \in Periods : GenerationRow(gen[p])
    <3> SUFFICES ASSUME NEW p \in Periods PROVE GenerationRow(gen[p])
        OBVIOUS
    <3>1. gen[p] \in GenerationRecord /\ GenShape(gen[p])
          BY <2>1 DEF Rows, FenceInv
    <3> QED BY <3>1 DEF GenerationRow, GenerationRecord, GenerationStates, GenShape
  <2> QED BY <2>1, <2>2, <2>3, <2>4 DEF TypeOK, Around, RunTyped, Rows
<1> QED BY <1>1, Invariance, PTL

\* At most one generation is at work, the one that fenced owns the vacuum, and a drained vacuum
\* keeps ENTRY away until it is resolved: through every failure, pause, retarget and newer
\* Selection (coordinate_selection_materialization.py).
THEOREM FenceHasOneOwner == Spec => []FencedGenerationOwnsVacuum
<1>1. IInv => FencedGenerationOwnsVacuum
  <2> SUFFICES ASSUME IInv PROVE FencedGenerationOwnsVacuum
      OBVIOUS
  <2>1. FenceRows(vacuum, gen, ticket)
        BY FenceRowsNow DEF IInv
  <2>2. Actionable = AtWork(gen)
        BY DEF Actionable, AtWork
  <2>3. Cardinality(Actionable) <= 1
    <3>1. CASE Actionable = {}
          BY <3>1, FS_EmptySet
    <3>2. CASE Actionable # {}
      <4>1. PICK x : x \in Actionable
            BY <3>2
      <4>2. Actionable = {x}
            BY <2>1, <2>2, <4>1 DEF FenceRows, OneAtWork
      <4> QED BY <4>2, FS_Singleton
    <3> QED BY <3>1, <3>2
  <2>4. vacuum.state \in {"RECONFIGURING", "RECOVERY_PENDING", "OWNER_PAUSED"} => ticket = "none"
        BY <2>1 DEF FenceRows, DrainedStates
  <2>5. \A p \in Periods :
          /\ gen[p].state \in Fenced => vacuum.gen = p
          /\ gen[p].target \in {"warming", "staged"} => gen[p].state \in {"MATERIALIZING", "STAGED"}
        BY <2>1 DEF FenceRows, Owns, GenShape, Fenced
  <2> QED BY <2>3, <2>4, <2>5 DEF FencedGenerationOwnsVacuum
<1> QED BY <1>1, Invariance, PTL

\* Whenever ENTRY is permitted the universe is what the Selection behind the authority chose,
\* that Selection is one period old at most, and the Owner has not paused since the grant.
THEOREM EntriesStandOnFreshSelections == Spec => []EntryNeedsFreshSelection
<1>1. IInv => EntryNeedsFreshSelection
  <2> SUFFICES ASSUME IInv, EntryPermitted
               PROVE  /\ universe = authority.members
                      /\ universe = snap[authority.source].members
                      /\ PeriodOf(hour) - authority.source <= 1
                      /\ Enabled /\ authority.owner = owner
      BY DEF EntryNeedsFreshSelection
  <2>1. Around /\ Rows /\ GrantInv /\ vacuum = NoVacuum /\ ~Blocks /\ hour < Expires(authority.period)
        BY DEF IInv, RowsInv, EntryPermitted
  <2>2. /\ universe = authority.members /\ universe = snap[authority.source].members
        /\ Enabled /\ authority.owner = owner /\ authority.period - authority.source <= 1
        BY <2>1 DEF GrantInv
  <2>3. authority.period \in 1..NumPeriods + 1 /\ authority.source \in Periods
        BY <2>1 DEF Rows, AuthorityRecord
  <2>4. PeriodOf(hour) \in 1..authority.period
        BY <2>1, <2>3, PeriodsNow, Constants
  <2>5. PeriodOf(hour) - authority.source <= 1
        BY <2>2, <2>3, <2>4, Constants DEF Periods
  <2> QED BY <2>2, <2>5
<1> QED BY <1>1, Invariance, PTL
=============================================================================
