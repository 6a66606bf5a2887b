----------------------------- MODULE DailySelection -----------------------------
(***************************************************************************)
(* The hourly ORB group (SOR-1H-001): one Selection a day, the authority   *)
(* that lets the group trade its pair of universes, the generations that   *)
(* switch the pair, and the gap audits every grant must pass               *)
(* (coordinate_selection_materialization.py, selection_runtime_worker.py,  *)
(* drain_strategy_entry_vacuum.py, the ORB half of                         *)
(* pg_instrument_selection_repository.py and pg_universe_repository.py,    *)
(* owner_control.py and the triggers of migration 0011).                   *)
(*                                                                         *)
(* Three actors share the tables.  The Owner pauses, resumes, and stages a *)
(* switch to dynamic selection or back to the static baseline for the next *)
(* session.  The Selection loop commits a snapshot of the session.  The    *)
(* materialization loop ticks: one drain or coordination transaction, and, *)
(* when an audit is due, an evaluation outside any transaction between a   *)
(* transaction that reads and one that commits.  A transaction that raises *)
(* leaves no trace, and is therefore no step.                              *)
(*                                                                         *)
(* Time is counted in hours.  The first close a grant made in hour h may   *)
(* take is h+1, so a commit belongs to the hour of its read; thirty        *)
(* minutes after a start in hour h lie in hour h or h+1.                   *)
(***************************************************************************)
EXTENDS Naturals, FiniteSets

CONSTANTS Selections,    \* member sets a Selection may commit
          Baseline,      \* members of the static baseline
          DayHours,      \* hours of a session (24 in the code)
          NumSessions,   \* sessions of the run
          MaxOwner       \* versions of the Owner's control

ASSUME DailyAssumption ==
    /\ Baseline \in Selections /\ Baseline # {}
    /\ DayHours \in Nat /\ DayHours >= 3
    /\ NumSessions \in Nat \ {0} /\ MaxOwner \in Nat \ {0}

VARIABLES
  now,         \* hours since the first session began
  owner,       \* control_version of the Owner's strategy control: odd is enabled
  control,     \* strategy_selection_control_current of the group
  snap,        \* instrument_selection_snapshots, by session
  pair,        \* the current long and short universe: where it came from, its members
  gens,        \* materialization generations, by session
  vacuum,      \* the current row of strategy_entry_vacuums_current
  busy,        \* an ENTRY of the group is not yet protected
  authority,   \* selection_authority_current
  before,      \* lineage of the authority it continues
  audit,       \* authority gap audits of this session, by kind
  job          \* the audit the materialization worker is completing

vars == <<now, owner, control, snap, pair, gens, vacuum, busy, authority, before, audit, job>>

Sessions == 1..NumSessions
Session  == now \div DayHours + 1
Hour     == now % DayHours
None     == 0        \* no session, no generation, no version

Unfenced    == {"PENDING", "DESIRED"}
Working     == {"MATERIALIZING", "STAGED"}
Fenced      == Working \cup {"DRAINING_ENTRY"}
Nonterminal == Unfenced \cup Fenced
Ended       == {"ACTIVE", "FALLBACK_PREVIOUS", "ABANDONED", "SUPERSEDED", "FAILED_CLOSED"}
Grants      == {"ACTIVE_NEW", "NO_CHANGE", "PRE_FENCE_CONTINUITY", "FALLBACK_PREVIOUS"}
Kinds       == {"CONTINUITY", "NO_CHANGE", "OWNER_PAUSE", "ACTIVE_NEW", "FALLBACK_PREVIOUS"}

NoSnapshot   == [ready |-> FALSE, members |-> {}, epoch |-> None, version |-> None]
NoGeneration == [state |-> "none", mode |-> "none", members |-> {}, previous |-> None,
                 authorized |-> FALSE, version |-> None, epoch |-> None, start |-> 0, staged |-> 0]
NoVacuum     == [state |-> "none", gen |-> None, anchor |-> None, blocker |-> "none", pause |-> None]
NoAuthority  == [outcome |-> "none", session |-> None, snapshot |-> FALSE, pair |-> None,
                 owner |-> None, version |-> None, epoch |-> None]
NoAudits     == [k \in Kinds |-> "none"]
Idle         == [pc |-> "idle", kind |-> "none", session |-> None, seen |-> <<>>]

Init ==
  /\ now = DayHours - 1
  /\ owner = 1
  /\ control = [mode |-> "STATIC", pending |-> "none", from |-> None, version |-> 1, epoch |-> None]
  /\ snap = [s \in Sessions |-> NoSnapshot]
  /\ pair = [source |-> None, members |-> Baseline]
  /\ gens = [s \in Sessions |-> NoGeneration]
  /\ vacuum = NoVacuum
  /\ busy = FALSE
  /\ authority = NoAuthority
  /\ before = NoAuthority
  /\ audit = NoAudits
  /\ job = Idle

-----------------------------------------------------------------------------
(* What the steps ask *)

Enabled == owner % 2 = 1

\* current_sor_selection_session_start_ms: the first hour of a session is not due.
Due == Hour >= 1

\* No close of the session is left to grant after its next-to-last hour.
NoFutureClose == Hour >= DayHours - 1

PendingDue(mode) == control.pending = mode /\ control.from <= Session

\* get_snapshot_disposition: the session's snapshot, under the current epoch only.
Selected(s) == snap[s].ready /\ control.epoch # None /\ snap[s].epoch = control.epoch

\* The lineage an authority written now carries; one that ends a pending mode carries the
\* version the control is about to get (_daily_control_lineage).
Lineage(outcome, snapshot, source, activates) ==
  [outcome |-> outcome, session |-> Session, snapshot |-> snapshot, pair |-> source, owner |-> owner,
   version |-> IF activates THEN control.version + 1 ELSE control.version, epoch |-> control.epoch]

Activated ==
  [mode |-> "DYNAMIC", pending |-> "none", from |-> None, version |-> control.version + 1,
   epoch |-> control.epoch]

StaticCommitted ==
  [mode |-> "STATIC", pending |-> "none", from |-> None, version |-> control.version + 1, epoch |-> None]

\* A timeout after thirty minutes may strike in the hour of the start or the next, and has by then.
InBudget(g) == now <= g.start + 1

\* The previous authority does not forbid ENTRY.
PreviousAuthorized == authority.outcome \notin {"VALID_EMPTY", "OWNER_PAUSED"}

NewGeneration(mode, members, state) ==
  [state |-> state, mode |-> mode, members |-> members, previous |-> pair.source,
   authorized |-> PreviousAuthorized, version |-> control.version, epoch |-> control.epoch,
   start |-> now, staged |-> 0]

InState(g, state) ==
  [state |-> state, mode |-> g.mode, members |-> g.members, previous |-> g.previous,
   authorized |-> g.authorized, version |-> g.version, epoch |-> g.epoch, start |-> g.start,
   staged |-> g.staged]

\* Mutant: the unique index covers only the generations that have fenced ENTRY.
OpenFenced == {s \in Sessions : gens[s].state \in Fenced}

\* One nonterminal generation of a group at a time (a unique index).
Open == {s \in Sessions : gens[s].state \in Nonterminal}

-----------------------------------------------------------------------------
(* The Owner, the Selection loop, tickets and time *)

\* A pause opens a vacuum of its own in the same transaction, unless one is current.
Pause ==
  /\ Enabled /\ owner < MaxOwner
  /\ owner' = owner + 1
  /\ \/ /\ vacuum = NoVacuum
        /\ vacuum' = [state |-> "OPEN", gen |-> None, anchor |-> Session, blocker |-> "OWNER_PAUSED",
                      pause |-> owner + 1]
        /\ audit' = [audit EXCEPT !["OWNER_PAUSE"] = "none"]
     \/ vacuum # NoVacuum /\ UNCHANGED <<vacuum, audit>>
  /\ UNCHANGED <<now, control, snap, pair, gens, busy, authority, before, job>>

Resume ==
  /\ ~Enabled /\ owner < MaxOwner
  /\ owner' = owner + 1
  /\ UNCHANGED <<now, control, snap, pair, gens, vacuum, busy, authority, before, audit, job>>

\* A mode is staged for the next session; dynamic selection gets a new epoch.
StageDynamic ==
  /\ control.mode = "STATIC" /\ control.pending = "none" /\ control.epoch = None
  /\ Session < NumSessions
  /\ control' = [mode |-> "STATIC", pending |-> "DYNAMIC", from |-> Session + 1,
                 version |-> control.version + 1, epoch |-> control.version + 1]
  /\ UNCHANGED <<now, owner, snap, pair, gens, vacuum, busy, authority, before, audit, job>>

StageStatic ==
  /\ control.mode = "DYNAMIC" /\ control.pending = "none"
  /\ Session < NumSessions
  /\ control' = [mode |-> "DYNAMIC", pending |-> "STATIC", from |-> Session + 1,
                 version |-> control.version, epoch |-> control.epoch]
  /\ UNCHANGED <<now, owner, snap, pair, gens, vacuum, busy, authority, before, audit, job>>

Select(members) ==
  /\ Due /\ Enabled /\ ~snap[Session].ready
  /\ control.mode = "DYNAMIC" \/ PendingDue("DYNAMIC")
  /\ snap' = [snap EXCEPT ![Session] = [ready |-> TRUE, members |-> members, epoch |-> control.epoch,
                                        version |-> control.version]]
  /\ UNCHANGED <<now, owner, control, pair, gens, vacuum, busy, authority, before, audit, job>>

\* No ENTRY is issued while a vacuum is current or the Owner has paused.
TicketOpens ==
  /\ Enabled /\ vacuum = NoVacuum /\ ~busy
  /\ busy' = TRUE
  /\ UNCHANGED <<now, owner, control, snap, pair, gens, vacuum, authority, before, audit, job>>

TicketProtected ==
  /\ busy
  /\ busy' = FALSE
  /\ UNCHANGED <<now, owner, control, snap, pair, gens, vacuum, authority, before, audit, job>>

\* Audits carry their session in their identity: a new session has none.
HourPasses ==
  /\ (now + 1) \div DayHours + 1 \in Sessions
  /\ now' = now + 1
  /\ audit' = IF (now + 1) % DayHours = 0 THEN NoAudits ELSE audit
  /\ UNCHANGED <<owner, control, snap, pair, gens, vacuum, busy, authority, before, job>>

-----------------------------------------------------------------------------
(* The drain transaction of a tick *)

Ticks == job = Idle /\ Due /\ (control.mode = "DYNAMIC" \/ control.pending # "none")

VacuumIn(state) ==
  [state |-> state, gen |-> vacuum.gen, anchor |-> vacuum.anchor, blocker |-> vacuum.blocker,
   pause |-> vacuum.pause]

BeginDrain ==
  /\ Ticks /\ vacuum.state = "OPEN"
  /\ vacuum' = VacuumIn("DRAINING_ENTRY")
  /\ UNCHANGED <<now, owner, control, snap, pair, gens, busy, authority, before, audit, job>>

Drained == Ticks /\ vacuum.state = "DRAINING_ENTRY" /\ ~busy

DrainPause ==
  /\ Drained /\ vacuum.blocker = "OWNER_PAUSED" /\ ~Enabled
  /\ vacuum' = VacuumIn("OWNER_PAUSED")
  /\ UNCHANGED <<now, owner, control, snap, pair, gens, busy, authority, before, audit, job>>

\* The fence of a generation is drained whether or not the Owner has paused meanwhile.
DrainFence ==
  /\ Drained /\ vacuum.gen # None
  /\ vacuum' = VacuumIn("RECONFIGURING")
  /\ gens' = [gens EXCEPT ![vacuum.gen] = InState(gens[vacuum.gen], "MATERIALIZING")]
  /\ UNCHANGED <<now, owner, control, snap, pair, busy, authority, before, audit, job>>

\* An empty Selection takes effect when its drain ends, in the session it belongs to.
DrainEmpty ==
  /\ Drained /\ vacuum.blocker = "NO_SELECTION_READY_MEMBERS"
  /\ vacuum.anchor = Session /\ Selected(Session) /\ snap[Session].members = {} /\ Enabled
  /\ \/ control.mode = "DYNAMIC" /\ control.pending = "none" /\ control' = control
     \/ control.mode = "STATIC" /\ PendingDue("DYNAMIC") /\ control' = Activated
  /\ authority' = Lineage("VALID_EMPTY", TRUE, None, control.mode = "STATIC")
  /\ before' = authority
  /\ vacuum' = NoVacuum
  /\ UNCHANGED <<now, owner, snap, pair, gens, busy, audit, job>>

-----------------------------------------------------------------------------
(* The coordination transaction of a tick *)

Coordinates == Ticks /\ vacuum.state \in {"none", "RECONFIGURING", "OWNER_PAUSED"}

\* A static rollback that is due goes first.
StaticDue == PendingDue("STATIC") /\ Enabled

\* An audit is inserted once and then completed by the same tick; one that failed is never retried.
Prepare(kind) ==
  /\ audit[kind] \in {"none", "PENDING"}
  /\ job' = [pc |-> "prepared", kind |-> kind, session |-> Session, seen |-> <<>>]

PrepareResume ==
  /\ Coordinates /\ ~StaticDue
  /\ Enabled /\ vacuum.state = "OWNER_PAUSED" /\ vacuum.gen = None /\ control.mode = "DYNAMIC"
  /\ Prepare("OWNER_PAUSE") /\ audit' = [audit EXCEPT !["OWNER_PAUSE"] = "PENDING"]
  /\ UNCHANGED <<now, owner, control, snap, pair, gens, vacuum, busy, authority, before>>

PauseRecorded == authority.outcome = "OWNER_PAUSED" /\ authority.session = Session /\ authority.owner = owner

RecordPause ==
  \/ PauseRecorded /\ UNCHANGED <<authority, before>>
  \/ /\ ~PauseRecorded
     /\ authority' = Lineage("OWNER_PAUSED", Selected(Session), None, FALSE)
     /\ before' = authority

\* A pause ends the generation whose fence is drained; its vacuum keeps it as source.
AbandonGeneration ==
  /\ Coordinates /\ ~Enabled
  /\ vacuum.state = "RECONFIGURING" /\ gens[vacuum.gen].state \in Working
  /\ gens' = [gens EXCEPT ![vacuum.gen] = InState(gens[vacuum.gen], "ABANDONED")]
  /\ vacuum' = [state |-> "OWNER_PAUSED", gen |-> vacuum.gen, anchor |-> vacuum.anchor,
                blocker |-> "OWNER_PAUSED", pause |-> vacuum.pause]
  /\ audit' = [k \in Kinds |-> IF k \in {"ACTIVE_NEW", "FALLBACK_PREVIOUS"} /\ audit[k] = "PENDING"
                               THEN "FAILED" ELSE audit[k]]
  /\ RecordPause
  /\ UNCHANGED <<now, owner, control, snap, pair, busy, job>>

\* A generation that has not fenced anything makes this transaction raise.
OwnerPaused ==
  /\ Coordinates /\ ~Enabled
  /\ vacuum.state = "OWNER_PAUSED" /\ vacuum.gen = None /\ Open = {} /\ ~PauseRecorded
  /\ RecordPause
  /\ UNCHANGED <<now, owner, control, snap, pair, gens, vacuum, busy, audit, job>>

TerminalAuthority ==
  /\ Selected(Session) /\ authority.session = Session /\ authority.snapshot
  /\ \/ authority.outcome = "VALID_EMPTY" /\ snap[Session].members = {}
     \/ /\ authority.outcome \in {"ACTIVE_NEW", "NO_CHANGE", "FALLBACK_PREVIOUS"}
        /\ authority.pair = pair.source

\* plan_selection_materialization: dynamic selection is in force or due, nothing is fenced or
\* committed, and a close of the session is left.
Plans ==
  /\ Coordinates /\ Enabled /\ ~StaticDue /\ vacuum = NoVacuum
  /\ ~TerminalAuthority /\ ~NoFutureClose
  /\ control.mode = "DYNAMIC" \/ PendingDue("DYNAMIC")

Dormant == authority.outcome = "VALID_EMPTY"

ContinuityExists ==
  /\ authority.outcome = "PRE_FENCE_CONTINUITY" /\ authority.session = Session
  /\ authority.pair = pair.source /\ authority.owner = owner

\* In dynamic mode the session's continuity comes before its Selection.
PlansSelection == Plans /\ Selected(Session) /\ (Dormant \/ control.mode = "STATIC" \/ ContinuityExists)

PrepareContinuity ==
  /\ Plans /\ ~Dormant /\ control.mode = "DYNAMIC" /\ ~ContinuityExists
  /\ Prepare("CONTINUITY") /\ audit' = [audit EXCEPT !["CONTINUITY"] = "PENDING"]
  /\ UNCHANGED <<now, owner, control, snap, pair, gens, vacuum, busy, authority, before>>

OpenEmptyIntent ==
  /\ PlansSelection /\ snap[Session].members = {}
  /\ vacuum' = [state |-> "OPEN", gen |-> None, anchor |-> Session,
                blocker |-> "NO_SELECTION_READY_MEMBERS", pause |-> None]
  /\ UNCHANGED <<now, owner, control, snap, pair, gens, busy, authority, before, audit, job>>

SameMembers == ~Dormant /\ snap[Session].members = pair.members

\* The first dynamic session: before the first eligible close the grant needs no audit.
FirstNoChange ==
  /\ PlansSelection /\ SameMembers /\ control.mode = "STATIC" /\ Hour < 2
  /\ authority' = Lineage("NO_CHANGE", TRUE, pair.source, TRUE)
  /\ before' = NoAuthority
  /\ control' = Activated
  /\ UNCHANGED <<now, owner, snap, pair, gens, vacuum, busy, audit, job>>

PrepareNoChange ==
  /\ PlansSelection /\ SameMembers /\ control.mode = "STATIC" /\ Hour >= 2
  /\ Prepare("NO_CHANGE") /\ audit' = [audit EXCEPT !["NO_CHANGE"] = "PENDING"]
  /\ UNCHANGED <<now, owner, control, snap, pair, gens, vacuum, busy, authority, before>>

\* The successor keeps its predecessor's pair, owner and lineage.
NoChangeSuccessor ==
  /\ PlansSelection /\ SameMembers /\ control.mode = "DYNAMIC"
  /\ authority.version = control.version /\ authority.epoch = control.epoch
  /\ authority' = [outcome |-> "NO_CHANGE", session |-> authority.session, snapshot |-> TRUE,
                  pair |-> authority.pair, owner |-> authority.owner, version |-> authority.version,
                  epoch |-> authority.epoch]
  /\ before' = authority
  /\ UNCHANGED <<now, owner, control, snap, pair, gens, vacuum, busy, audit, job>>

-----------------------------------------------------------------------------
(* Generations *)

PlansGeneration == PlansSelection /\ snap[Session].members # {} /\ ~SameMembers

AddGeneration ==
  /\ PlansGeneration /\ gens[Session].state = "none"
  /\ Open = {} /\ snap[Session].version = control.version
  /\ gens' = [gens EXCEPT ![Session] = NewGeneration("dynamic", snap[Session].members, "PENDING")]
  /\ UNCHANGED <<now, owner, control, snap, pair, vacuum, busy, authority, before, audit, job>>

\* A rollback starts with no vacuum, and replaces a generation that fenced nothing yet.
AddStatic ==
  /\ Coordinates /\ StaticDue /\ ~NoFutureClose /\ vacuum = NoVacuum /\ gens[Session].state = "none"
  /\ \A s \in Open : /\ gens[s].state \in Unfenced
                     /\ gens[s].epoch = control.epoch /\ gens[s].version = control.version
                     /\ gens[s].previous = pair.source
  /\ gens' = [s \in Sessions |-> IF s = Session THEN NewGeneration("static", Baseline, "PENDING")
                                 ELSE IF s \in Open THEN InState(gens[s], "SUPERSEDED") ELSE gens[s]]
  /\ UNCHANGED <<now, owner, control, snap, pair, vacuum, busy, authority, before, audit, job>>

\* The session's own generation is carried on by the plan, or by the rollback that made it.
CarriesOn ==
  /\ vacuum = NoVacuum
  /\ \/ PlansGeneration /\ gens[Session].mode = "dynamic"
     \/ Coordinates /\ StaticDue /\ ~NoFutureClose /\ gens[Session].mode = "static"
  /\ gens[Session].version = control.version /\ gens[Session].epoch = control.epoch

Desire ==
  /\ CarriesOn /\ gens[Session].state = "PENDING"
  /\ gens' = [gens EXCEPT ![Session] =
                InState(gens[Session], IF gens[Session].previous = pair.source THEN "DESIRED" ELSE "ABANDONED")]
  /\ UNCHANGED <<now, owner, control, snap, pair, vacuum, busy, authority, before, audit, job>>

StartedNow(g, state) ==
  [state |-> state, mode |-> g.mode, members |-> g.members, previous |-> g.previous,
   authorized |-> g.authorized, version |-> g.version, epoch |-> g.epoch, start |-> now, staged |-> 0]

Fence ==
  /\ CarriesOn /\ gens[Session].state = "DESIRED"
  /\ gens' = [gens EXCEPT ![Session] = StartedNow(gens[Session], "DRAINING_ENTRY")]
  /\ vacuum' = [state |-> "DRAINING_ENTRY", gen |-> Session, anchor |-> Session, blocker |-> "FENCE",
                pause |-> None]
  /\ UNCHANGED <<now, owner, control, snap, pair, busy, authority, before, audit, job>>

\* A newer session takes a drained fence over, from a generation that is unfinished or that
\* failed closed; fence and anchor stay, and the new generation has a budget of its own.
Retargets(mode, members) ==
  LET old == vacuum.gen IN
  /\ vacuum.state = "RECONFIGURING" /\ old < Session /\ gens[Session].state = "none" /\ ~NoFutureClose
  /\ \/ gens[old].state \in Working
     \/ gens[old].state = "FAILED_CLOSED" /\ gens[old].version = control.version
  /\ Open \subseteq {old}
  /\ gens' = [s \in Sessions |->
                IF s = Session THEN NewGeneration(mode, members, "MATERIALIZING")
                ELSE IF s = old /\ gens[s].state \in Working THEN InState(gens[s], "SUPERSEDED") ELSE gens[s]]
  /\ vacuum' = [state |-> "RECONFIGURING", gen |-> Session, anchor |-> vacuum.anchor,
                blocker |-> "FENCE", pause |-> vacuum.pause]
  /\ UNCHANGED <<now, owner, control, snap, pair, busy, authority, before, audit, job>>

RetargetDynamic ==
  /\ Coordinates /\ Enabled /\ ~StaticDue
  /\ Selected(Session) /\ snap[Session].members # {} /\ snap[Session].version = control.version
  /\ Retargets("dynamic", snap[Session].members)

RetargetStatic ==
  /\ Coordinates /\ StaticDue /\ ~busy
  /\ vacuum.gen # None
  /\ gens[vacuum.gen].epoch = control.epoch /\ gens[vacuum.gen].previous = pair.source
  /\ Retargets("static", Baseline)

-----------------------------------------------------------------------------
(* Materialization of the session's generation behind its drained fence *)

Materializes ==
  /\ Coordinates /\ Enabled
  /\ vacuum.state = "RECONFIGURING" /\ vacuum.gen = Session /\ gens[Session].state \in Working
  /\ gens[Session].mode = IF StaticDue THEN "static" ELSE "dynamic"
  /\ StaticDue \/ Selected(Session)

Staged(n) ==
  LET g == gens[Session] IN
  [state |-> IF n = 2 THEN "STAGED" ELSE g.state, mode |-> g.mode, members |-> g.members,
   previous |-> g.previous, authorized |-> g.authorized, version |-> g.version, epoch |-> g.epoch,
   start |-> g.start, staged |-> n]

\* The long universe is installed and staged before the short one; a warm-up may take ticks.
StageLong ==
  /\ Materializes /\ audit["FALLBACK_PREVIOUS"] = "none" /\ InBudget(gens[Session])
  /\ gens[Session].staged = 0
  /\ gens' = [gens EXCEPT ![Session] = Staged(1)]
  /\ UNCHANGED <<now, owner, control, snap, pair, vacuum, busy, authority, before, audit, job>>

\* With both staged the same transaction prepares the audit of the activation.
StageShort ==
  /\ Materializes /\ audit["FALLBACK_PREVIOUS"] = "none" /\ InBudget(gens[Session])
  /\ gens[Session].staged >= 1
  /\ gens' = [gens EXCEPT ![Session] = Staged(2)]
  /\ Prepare("ACTIVE_NEW") /\ audit' = [audit EXCEPT !["ACTIVE_NEW"] = "PENDING"]
  /\ UNCHANGED <<now, owner, control, snap, pair, vacuum, busy, authority, before>>

\* A timeout or a blocked warm-up gives the targets up.  Members an empty Selection has put to
\* rest are not restored: the generation fails closed behind its fence.
FailClosed ==
  /\ Materializes /\ audit["FALLBACK_PREVIOUS"] = "none"
  /\ Dormant /\ ~gens[Session].authorized
  /\ gens' = [gens EXCEPT ![Session] = InState(gens[Session], "FAILED_CLOSED")]
  /\ vacuum' = [state |-> vacuum.state, gen |-> vacuum.gen, anchor |-> vacuum.anchor,
                blocker |-> "NO_PREVIOUS_ENTRY_AUTHORITY", pause |-> vacuum.pause]
  /\ UNCHANGED <<now, owner, control, snap, pair, busy, authority, before, audit, job>>

PrepareFallback ==
  /\ Materializes
  /\ \/ /\ audit["FALLBACK_PREVIOUS"] = "none" /\ ~Dormant
        /\ gens' = [gens EXCEPT ![Session] = Staged(0)]
        /\ vacuum' = [state |-> vacuum.state, gen |-> vacuum.gen, anchor |-> vacuum.anchor,
                      blocker |-> "FALLBACK", pause |-> vacuum.pause]
     \/ audit["FALLBACK_PREVIOUS"] = "PENDING" /\ UNCHANGED <<gens, vacuum>>
  /\ Prepare("FALLBACK_PREVIOUS")
  /\ audit' = [k \in Kinds |-> IF k = "FALLBACK_PREVIOUS" THEN "PENDING"
                               ELSE IF k = "ACTIVE_NEW" /\ audit[k] = "PENDING" THEN "FAILED" ELSE audit[k]]
  /\ UNCHANGED <<now, owner, control, snap, pair, busy, authority, before>>

-----------------------------------------------------------------------------
(* Completing an audit: read, evaluate outside any transaction, commit *)

\* Mutant: the commit does not read the Owner's control again.
FactsWithoutOwner == <<now, control, authority, pair, vacuum>>

\* What the commit compares with what was read; a commit in a later hour comes after the
\* first close it would grant.
Facts == <<now, owner, control, authority, pair, vacuum>>

TargetReady ==
  /\ job.kind = "ACTIVE_NEW" => gens[Session].state = "STAGED" /\ gens[Session].staged = 2
  /\ job.kind = "FALLBACK_PREVIOUS" => gens[Session].state \in Working

ReadAudit ==
  /\ job.pc = "prepared" /\ job.session = Session /\ audit[job.kind] = "PENDING"
  /\ Enabled /\ (control.mode = "DYNAMIC" \/ PendingDue("DYNAMIC"))
  /\ TargetReady /\ ~NoFutureClose
  /\ job' = [pc |-> "evaluating", kind |-> job.kind, session |-> job.session, seen |-> Facts]
  /\ UNCHANGED <<now, owner, control, snap, pair, gens, vacuum, busy, authority, before, audit>>

\* A source that is unavailable, or whose answer is not complete, fails the audit for good.
EvaluationFails ==
  /\ job.pc = "evaluating"
  /\ audit' = IF job.session = Session THEN [audit EXCEPT ![job.kind] = "FAILED"] ELSE audit
  /\ job' = Idle
  /\ UNCHANGED <<now, owner, control, snap, pair, gens, vacuum, busy, authority, before>>

\* The worker gives up (drift, a paused Owner, a window that closed, a commit that raised) or dies.
JobEnds ==
  /\ job # Idle
  /\ job' = Idle
  /\ UNCHANGED <<now, owner, control, snap, pair, gens, vacuum, busy, authority, before, audit>>

Commits(kind) ==
  /\ job.pc = "evaluating" /\ job.kind = kind /\ job.seen = Facts /\ TargetReady
  /\ audit' = [audit EXCEPT ![kind] = "COMPLETE"]
  /\ job' = Idle
  /\ UNCHANGED <<now, owner, snap, busy>>

\* A continuity continues a grant of the current pair under the current lineage, and names no
\* snapshot: one that is already there makes the commit raise.
Continues(prior) ==
  /\ ~Selected(Session) /\ control.mode = "DYNAMIC"
  /\ prior.outcome \in Grants /\ prior.pair = pair.source
  /\ prior.epoch = control.epoch /\ prior.version = control.version

CommitContinuity ==
  /\ Commits("CONTINUITY")
  /\ Continues(authority) /\ authority.owner = owner
  /\ authority' = Lineage("PRE_FENCE_CONTINUITY", FALSE, pair.source, FALSE)
  /\ before' = authority
  /\ UNCHANGED <<control, pair, gens, vacuum>>

\* brc_orb_owner_resume_matches: the Owner resumed, once, from the pause that opened the vacuum.
OwnerResumeMatches == vacuum.state = "OWNER_PAUSED" /\ vacuum.gen = None /\ vacuum.pause = owner - 1

CommitResume ==
  /\ Commits("OWNER_PAUSE")
  /\ OwnerResumeMatches /\ Continues(before)
  /\ authority' = Lineage("PRE_FENCE_CONTINUITY", FALSE, pair.source, FALSE)
  /\ vacuum' = NoVacuum
  /\ UNCHANGED <<control, pair, gens, before>>

CommitNoChange ==
  /\ Commits("NO_CHANGE")
  /\ Selected(Session) /\ control.pending = "DYNAMIC" /\ snap[Session].members = pair.members
  /\ authority' = Lineage("NO_CHANGE", TRUE, pair.source, TRUE)
  /\ before' = authority
  /\ control' = Activated
  /\ UNCHANGED <<pair, gens, vacuum>>

\* The generation's own sources are unchanged since it was made.
SourceUnchanged(g) ==
  /\ g.previous = pair.source /\ g.version = control.version /\ g.epoch = control.epoch
  /\ vacuum.gen = Session /\ vacuum.state = "RECONFIGURING"

\* While a rollback is pending only the rollback's own generation can be resolved.
ActivateGeneration ==
  LET g == gens[Session] IN
  /\ Commits("ACTIVE_NEW") /\ SourceUnchanged(g)
  /\ \/ /\ g.mode = "dynamic" /\ control.pending # "STATIC" /\ Selected(Session)
        /\ control' = IF control.pending = "DYNAMIC" THEN Activated ELSE control
     \/ /\ g.mode = "static" /\ control.pending = "STATIC" /\ ~Selected(Session) /\ InBudget(g)
        /\ control' = StaticCommitted
  /\ authority' = Lineage("ACTIVE_NEW", g.mode = "dynamic", Session, control.pending # "none")
  /\ before' = authority
  /\ pair' = [source |-> Session, members |-> g.members]
  /\ gens' = [gens EXCEPT ![Session] = InState(g, "ACTIVE")]
  /\ vacuum' = NoVacuum

\* The previous pair is granted again, unless its last authority forbade ENTRY.
FallBackPrevious ==
  LET g == gens[Session] IN
  /\ Commits("FALLBACK_PREVIOUS") /\ SourceUnchanged(g) /\ g.authorized
  /\ \/ g.mode = "dynamic" /\ control.pending # "STATIC" /\ Selected(Session)
     \/ g.mode = "static" /\ control.pending = "STATIC" /\ ~Selected(Session)
  /\ authority' = Lineage("FALLBACK_PREVIOUS", g.mode = "dynamic", pair.source, FALSE)
  /\ before' = IF control.mode = "STATIC" THEN NoAuthority ELSE authority
  /\ gens' = [gens EXCEPT ![Session] = InState(g, "FALLBACK_PREVIOUS")]
  /\ vacuum' = NoVacuum
  /\ UNCHANGED <<control, pair>>

-----------------------------------------------------------------------------
OwnerNext == Pause \/ Resume \/ StageDynamic \/ StageStatic

DrainNext == BeginDrain \/ DrainPause \/ DrainFence \/ DrainEmpty

PlanNext ==
  \/ PrepareResume \/ AbandonGeneration \/ OwnerPaused \/ PrepareContinuity \/ OpenEmptyIntent
  \/ FirstNoChange \/ PrepareNoChange \/ NoChangeSuccessor

GenerationNext ==
  \/ AddGeneration \/ AddStatic \/ Desire \/ Fence \/ RetargetDynamic \/ RetargetStatic
  \/ StageLong \/ StageShort \/ FailClosed \/ PrepareFallback

AuditNext ==
  \/ ReadAudit \/ EvaluationFails \/ JobEnds
  \/ CommitContinuity \/ CommitResume \/ CommitNoChange \/ ActivateGeneration \/ FallBackPrevious

Next ==
  \/ OwnerNext \/ DrainNext \/ PlanNext \/ GenerationNext \/ AuditNext
  \/ \E members \in Selections : Select(members)
  \/ TicketOpens \/ TicketProtected \/ HourPasses

Spec == Init /\ [][Next]_vars

-----------------------------------------------------------------------------
Rows == [state : {"none"} \cup Nonterminal \cup Ended, mode : {"none", "dynamic", "static"},
         members : Selections \cup {{}}, previous : Sessions \cup {None}, authorized : BOOLEAN,
         version : Nat, epoch : Nat, start : Nat, staged : 0..2]

Vacuums == [state : {"none", "OPEN", "DRAINING_ENTRY", "RECONFIGURING", "OWNER_PAUSED"},
            gen : Sessions \cup {None}, anchor : Sessions \cup {None},
            blocker : {"none", "OWNER_PAUSED", "NO_SELECTION_READY_MEMBERS", "FENCE", "FALLBACK",
                       "NO_PREVIOUS_ENTRY_AUTHORITY"},
            pause : Nat]

TypeOK ==
  /\ now \in Nat /\ Session \in Sessions
  /\ owner \in Nat
  /\ control \in [mode : {"STATIC", "DYNAMIC"}, pending : {"none", "STATIC", "DYNAMIC"},
                  from : Nat, version : Nat, epoch : Nat]
  /\ pair.source \in Sessions \cup {None}
  /\ gens \in [Sessions -> Rows]
  /\ vacuum \in Vacuums
  /\ busy \in BOOLEAN
  /\ snap \in [Sessions -> [ready : BOOLEAN, members : Selections \cup {{}}, epoch : Nat, version : Nat]]

\* A grant in force is the current one: it names the pair in force, was given under the Owner's
\* latest version, which permits ENTRY, and, in dynamic mode, under the control version and epoch
\* in force.  So a pause revokes every grant, however it crosses an audit, a drain or a switch of mode
\* (_complete_pending_authority_gap_audit, set_strategy_entry_state, _daily_control_lineage).
GrantIsCurrent ==
  vacuum = NoVacuum /\ authority.outcome \in Grants =>
    /\ authority.pair = pair.source
    /\ authority.owner = owner /\ Enabled
    /\ control.mode = "DYNAMIC" => authority.version = control.version /\ authority.epoch = control.epoch

Alive == {s \in Sessions : gens[s].state \in Nonterminal}

\* The vacuum and the generations tell one story: a group has at most one unfinished
\* generation, one that has fenced ENTRY is the source of the vacuum, in the state the vacuum
\* says, and behind a drained vacuum no ENTRY is under way (open_generation_entry_vacuum,
\* supersede_generation_and_retarget_vacuum, abandon_generation_for_owner_pause).
FenceAgrees ==
  /\ \A s, t \in Alive : s = t
  /\ \A s \in Sessions : gens[s].state \in Fenced => vacuum.gen = s
  /\ vacuum.gen # None =>
       \/ vacuum.state = "DRAINING_ENTRY" /\ gens[vacuum.gen].state = "DRAINING_ENTRY"
       \/ vacuum.state = "RECONFIGURING" /\ gens[vacuum.gen].state \in Working \cup {"FAILED_CLOSED"}
       \/ vacuum.state = "OWNER_PAUSED" /\ gens[vacuum.gen].state = "ABANDONED"
  /\ vacuum.state \in {"RECONFIGURING", "OWNER_PAUSED"} => ~busy

\* The design (docs/superpowers/specs/2026-10-13-sor-1h-dynamic-design.md:341-343): after a
\* VALID_EMPTY the next session "must not secretly restore Static or previous from the dormant
\* current: it stays EMPTY until a legal new Selection is granted again".  A rollback the Owner
\* ordered is an activation; every other grant that follows a VALID_EMPTY has a snapshot.
EmptyStaysEmpty ==
  [][authority.outcome = "VALID_EMPTY" /\ authority'.outcome \in Grants \ {"ACTIVE_NEW"} =>
       authority'.snapshot]_vars

=============================================================================
