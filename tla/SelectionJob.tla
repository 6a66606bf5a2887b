---------------------------- MODULE SelectionJob ----------------------------
(***************************************************************************)
(* The queue of Selection jobs of one strategy family: a runtime worker    *)
(* decides that a period is due, claims its job in one transaction, reads  *)
(* the source panel outside any transaction, and commits a Snapshot, a     *)
(* failure or an expiry in another (run_instrument_selection.py,           *)
(* selection_runtime_worker.py and the job operations of                   *)
(* pg_instrument_selection_repository.py).  Between those steps the clock  *)
(* moves, leases lapse, a second worker runs, a worker dies, and the Owner *)
(* stages Dynamic or Static Selection, whose epoch the job belongs to.     *)
(*                                                                         *)
(* Generic families (cpm, mpg, mi) supersede older work, retry a transient *)
(* source failure and read the clock inside the committing transaction;    *)
(* the hourly ORB family supersedes but never retries and captures the     *)
(* clock after its read; the SOR family has no epochs (its one epoch is    *)
(* SorEpoch), never supersedes and asks for no control when it claims.     *)
(*                                                                         *)
(* An operation that raises rolls back and ends the worker's run.          *)
(***************************************************************************)
EXTENDS SelectionRules, TLC

CONSTANTS
    AllWorkers,         \* selection runtime workers
    Setups,             \* sequence of [family, workers, market, pauses, epochs]: what one
                        \* behaviour is about; the market shows a source panel for
                        \* each period, the Owner pauses and opens epochs so often
    Lease,              \* lease_duration_ms
    Backoff,            \* GENERIC_SOURCE_RETRY_BACKOFF_MS
    MaxAttempts,        \* GENERIC_SOURCE_MAX_ATTEMPTS
    MaxEpoch,           \* bound: epochs of any setup
    MaxFaults           \* bound: crashes and failed reads

ASSUME JobAssumption ==
    /\ {Lease, Backoff, MaxAttempts} \subseteq Nat \ {0}
    /\ {MaxEpoch, MaxFaults} \subseteq Nat
    /\ \A i \in DOMAIN Setups :
       LET s == Setups[i] IN
         /\ s.family \in DailyFamilies \cup GenericFamilies
         /\ s.workers \subseteq AllWorkers
         /\ s.epochs <= MaxEpoch /\ s.pauses \in Nat
         /\ Len(s.market) >= 1
         /\ \A p \in DOMAIN s.market : ValidPanel(s.family, s.market[p])

VARIABLES
    setup,      \* the index of the setup: family, workers and closed bars are fixed
    now,        \* the clock
    control,    \* strategy_selection_control_current
    owner,      \* entry control of the Owner: [enabled, pauses]
    job,        \* instrument_selection_jobs_current by epoch and period
    snap,       \* instrument_selection_snapshots by epoch and period
    attempts,   \* instrument_selection_attempts: <<epoch, period, attempt>>
    worker,     \* what each worker is doing
    faults

vars == <<setup, now, control, owner, job, snap, attempts, worker, faults>>

family  == Setups[setup].family
market  == Setups[setup].market
Workers == Setups[setup].workers

SorEpoch == 0
Epochs   == 0 .. MaxEpoch
LastPeriod == Len(market)
Periods  == 1 .. LastPeriod
Anchor(p) == p * PeriodLength(family)
MaxTime   == Anchor(LastPeriod) + PeriodLength(family) - 1
Cutoff(p)  == Period(family, Anchor(p)).cutoff
Expires(p) == Period(family, Anchor(p)).expires
CurrentPeriod == now \div PeriodLength(family)

None    == "none"
NoJob   == [state |-> None, attempts |-> 0, retry |-> 0, owner |-> None, lease |-> 0,
            version |-> 0, control |-> 0, pred |-> 0]
NoSnap  == [state |-> None]
Idle    == [at |-> "idle"]
Actionable == {"DUE", "CLAIMED"}
Failed     == {"SOURCE_FAILED", "COMPUTE_FAILED"}

(* The row that SelectionJobRecord and the table's CHECKs accept.          *)
JobRow(e, r) ==
    /\ r.state \in Actionable \cup Failed \cup {"SNAPSHOT_READY", "EXPIRED", "SUPERSEDED"}
    /\ r.version >= 1
    /\ (r.state = "CLAIMED") = (r.owner # None) /\ (r.owner = None) = (r.lease = 0)
    /\ r.state \in {"EXPIRED", "SUPERSEDED"} => e # SorEpoch
    /\ r.retry # 0 => r.state \in Failed

-----------------------------------------------------------------------------
(* A pending intent takes effect at its own period, whatever the current   *)
(* mode says of earlier ones.                                              *)
PermitsDynamic(c, p) ==
    IF c.pending # None /\ p >= c.anchor
    THEN c.pending = "dynamic"
    ELSE c.mode = "dynamic"

ControlAllows(e, p) == control.epoch = e /\ PermitsDynamic(control, p)

(* The runtime's own look at the clock, the control and the Owner, before  *)
(* it runs the Selection.  The daily families compare their control by     *)
(* mode: SOR demands the pending session to be today's, ORB not later.     *)
DailyControlDue(p) ==
    \/ control.mode = "dynamic"
    \/ /\ control.mode = "static" /\ control.pending = "dynamic"
       /\ IF family = "orb" THEN control.anchor <= p ELSE control.anchor = p

RuntimeDue(p) ==
    /\ p \in Periods /\ now >= Cutoff(p)
    /\ owner.enabled
    /\ IF family \in DailyFamilies THEN DailyControlDue(p)
       ELSE control.epoch # SorEpoch /\ PermitsDynamic(control, p)
    /\ family = "orb" => control.epoch # SorEpoch

StartRun(w) ==
    /\ w \in Workers /\ worker[w] = Idle
    /\ RuntimeDue(CurrentPeriod)
    /\ worker' = [worker EXCEPT ![w] =
          [at |-> "chosen", period |-> CurrentPeriod,
           epoch |-> IF family = "sor" THEN SorEpoch ELSE control.epoch]]
    /\ UNCHANGED <<setup, now, control, owner, job, snap, attempts, faults>>

-----------------------------------------------------------------------------
(* Claiming.  Retire(r, s) is the UPDATE that ends an unfinished row.      *)
Retire(r, s) ==
    [r EXCEPT !.state = s, !.retry = 0, !.owner = None, !.lease = 0, !.version = @ + 1]

NewerJob(e, p) == \E q \in Periods : q > p /\ job[e][q].state # None

(* Unfinished work that the claim of a period overtakes.  The Generic      *)
(* claim retires the latest job of another epoch and the latest older one  *)
(* of its own; the ORB claim retires the two latest of either kind.        *)
Overtaken(e, p, d, q) ==
    d # SorEpoch /\ job[d][q].state \in Actionable /\ (d # e \/ q < p)

(* Mutant: only work of other epochs is retired. *)
SupersededOtherEpochs(e, p, d, q) == Overtaken(e, p, d, q) /\ d # e

Superseded(e, p, d, q) ==
    /\ family # "sor" /\ Overtaken(e, p, d, q)
    /\ LET later == {x \in Epochs \X Periods : x[2] > q /\ Overtaken(e, p, x[1], x[2])}
       IN  IF family = "orb" THEN Cardinality(later) < 2
           ELSE \A x \in later : (x[1] = e) # (d = e)

AfterSuperseding(e, p) ==
    [d \in Epochs |-> [q \in Periods |->
        IF Superseded(e, p, d, q) THEN Retire(job[d][q], "SUPERSEDED") ELSE job[d][q]]]

(* Mutant: the query lacks its ORDER BY period DESC. *)
PredecessorOldest(e, p) ==
    LET earlier == {q \in Periods : q < p /\ snap[e][q] # NoSnap}
    IN  IF earlier = {} THEN 0 ELSE Min(earlier)

(* The latest earlier Snapshot of the epoch; only Generic claims carry it. *)
Predecessor(e, p) ==
    LET earlier == {q \in Periods : q < p /\ snap[e][q] # NoSnap}
    IN  IF earlier = {} THEN 0 ELSE Max(earlier)

ClaimedPredecessor(e, p) ==
    IF family \in GenericFamilies THEN Predecessor(e, p) ELSE 0

(* A row that may be claimed now: new, failed with a retry that has come,  *)
(* or one whose lease has lapsed.                                          *)
Claimable(r) ==
    \/ r.state \in {None, "DUE"}
    \/ r.state = "CLAIMED" /\ r.lease <= now
    \/ r.state \in Failed /\ r.retry # 0 /\ r.retry <= now

NextAttempt(r) == r.attempts + 1

ClaimRow(w, e, p, r) ==
    LET row == [state |-> "CLAIMED", attempts |-> NextAttempt(r), retry |-> 0, owner |-> w,
                lease |-> now + Lease,
                version |-> (IF r.state = None THEN 1 ELSE r.version) + 1,
                control |-> IF family = "sor" THEN 0 ELSE control.version,
                pred |-> ClaimedPredecessor(e, p)]
    IN  /\ job' = [AfterSuperseding(e, p) EXCEPT ![e][p] = row]
        /\ worker' = [worker EXCEPT ![w] =
              [at |-> "reading", period |-> p, epoch |-> e, attempt |-> row.attempts,
               version |-> row.version, control |-> row.control, pred |-> row.pred]]

(* The claim of an elapsed or overtaken Generic period settles its row.    *)
SettledRow(e, p) ==
    LET r == job[e][p]
    IN  IF NewerJob(e, p)
        THEN IF r.state = None THEN [NoJob EXCEPT !.state = "SUPERSEDED", !.version = 1,
                                                  !.control = control.version]
             ELSE IF r.state \in Actionable THEN Retire(r, "SUPERSEDED") ELSE r
        ELSE IF r.state = None THEN [NoJob EXCEPT !.state = "EXPIRED", !.version = 1,
                                                  !.control = control.version]
             ELSE IF r.state \in Actionable \cup Failed THEN Retire(r, "EXPIRED") ELSE r

(* The rows after claim_generic_selection_job found nothing to claim: the  *)
(* superseding commits, and a period overtaken or elapsed is settled.      *)
GenericNotClaimed(e, p) ==
    IF ~ControlAllows(e, p) THEN job
    ELSE IF NewerJob(e, p) \/ now >= Expires(p)
         THEN [AfterSuperseding(e, p) EXCEPT ![e][p] = SettledRow(e, p)]
         ELSE AfterSuperseding(e, p)

OrbNotClaimed(e, p) ==
    IF ~ControlAllows(e, p) THEN job
    ELSE IF ~NewerJob(e, p) /\ now >= Expires(p) /\ job[e][p].state \in Actionable
         THEN [AfterSuperseding(e, p) EXCEPT ![e][p] = Retire(job[e][p], "EXPIRED")]
         ELSE AfterSuperseding(e, p)

NotClaimed(e, p) ==
    IF family = "sor" THEN job
    ELSE IF family = "orb" THEN OrbNotClaimed(e, p) ELSE GenericNotClaimed(e, p)

(* Whether the claim gets as far as the row of its own period.  ORB looks  *)
(* at the clock before its transaction and SOR never at its expiry.        *)
ReachesRow(e, p) ==
    \/ family = "sor"
    \/ ControlAllows(e, p) /\ ~NewerJob(e, p) /\ now < Expires(p)

(* A live lease, a retry not yet due for SOR and an ORB row already ended  *)
(* raise: the transaction, superseding included, is rolled back.           *)
ClaimRaises(e, p) ==
    LET r == job[e][p]
    IN  /\ ReachesRow(e, p)
        /\ \/ r.state = "CLAIMED" /\ r.lease > now
           \/ family = "orb" /\ r.state \in {"EXPIRED", "SUPERSEDED"}

ClaimJob(w) ==
    /\ worker[w].at = "chosen"
    /\ LET e == worker[w].epoch
           p == worker[w].period
       IN  IF (family = "orb" /\ now >= Expires(p)) \/ ClaimRaises(e, p)
           THEN job' = job /\ worker' = [worker EXCEPT ![w] = Idle]
           ELSE IF ReachesRow(e, p) /\ Claimable(job[e][p])
                THEN ClaimRow(w, e, p, job[e][p])
                ELSE job' = NotClaimed(e, p) /\ worker' = [worker EXCEPT ![w] = Idle]
    /\ UNCHANGED <<setup, now, control, owner, snap, attempts, faults>>

-----------------------------------------------------------------------------
(* Reading.  The panel is read outside PG; the attempt leaves it with the  *)
(* panel, with a source failure (transient or not), or undefined.  The     *)
(* clock captured here is the one SOR and ORB commit with.                 *)
ReadPanel(w) ==
    /\ worker[w].at = "reading"
    /\ LET panel == market[worker[w].period]
       IN  worker' = [worker EXCEPT ![w] = [@ EXCEPT !.at = "read"] @@
              [result |-> IF ComputeDefined(family, panel) THEN "panel" ELSE "COMPUTE_FAILED",
               clock |-> now]]
    /\ UNCHANGED <<setup, now, control, owner, job, snap, attempts, faults>>

ReadFails(w, result) ==
    /\ worker[w].at = "reading" /\ faults < MaxFaults
    /\ worker' = [worker EXCEPT ![w] = [@ EXCEPT !.at = "read"] @@
          [result |-> result, clock |-> now]]
    /\ faults' = faults + 1
    /\ UNCHANGED <<setup, now, control, owner, job, snap, attempts>>

-----------------------------------------------------------------------------
(* Completing.  A claim is live while its row still carries it and its     *)
(* lease has not run out: SOR may commit at the very end of the lease.     *)
LiveClaim(w, t) ==
    LET c == worker[w]
        r == job[c.epoch][c.period]
    IN  /\ r.state = "CLAIMED" /\ r.owner = w
        /\ r.version = c.version /\ r.attempts = c.attempt
        /\ r.control = c.control /\ r.pred = c.pred
        /\ IF family = "sor" THEN t <= r.lease ELSE t < r.lease

ControlUnchanged(c) == ControlAllows(c.epoch, c.period) /\ control.version = c.control

Release(r, s, retry) ==
    [r EXCEPT !.state = s, !.retry = retry, !.owner = None, !.lease = 0, !.version = @ + 1]

(* What the committing transaction demands of the control, of newer jobs   *)
(* and, for a Generic Snapshot, of the lineage it extends.                 *)
MayCommit(w, t) ==
    LET c == worker[w]
    IN  /\ LiveClaim(w, t)
        /\ family # "sor" => ControlUnchanged(c)
        /\ family \in GenericFamilies =>
              /\ ~NewerJob(c.epoch, c.period)
              /\ Predecessor(c.epoch, c.period) = c.pred
              /\ \A q \in Periods : q >= c.period => snap[c.epoch][q] = NoSnap

SnapshotOf(w) ==
    LET c    == worker[w]
        pred == IF family = "orb" THEN Predecessor(c.epoch, c.period) ELSE c.pred
        previous == IF family \in GenericFamilies /\ c.pred # 0
                    THEN SelectedMembers(snap[c.epoch][c.pred].members) ELSE {}
    IN  [state |-> "committed", pred |-> pred,
         members |-> Decisions(family, market[c.period], previous)]

CommitSnapshot(w, t) ==
    LET c == worker[w]
    IN  IF MayCommit(w, t)
        THEN /\ snap' = [snap EXCEPT ![c.epoch][c.period] = SnapshotOf(w)]
             /\ job' = [job EXCEPT ![c.epoch][c.period] = Release(@, "SNAPSHOT_READY", 0)]
             /\ attempts' = attempts \cup {<<c.epoch, c.period, c.attempt>>}
        ELSE UNCHANGED <<snap, job, attempts>>

(* Generic retries a transient failure while attempts and time are left.   *)
RetryAt(c) ==
    IF /\ family \in GenericFamilies /\ c.result = "transient"
       /\ c.attempt < MaxAttempts /\ c.clock + Backoff < Expires(c.period)
    THEN c.clock + Backoff ELSE 0

MayFail(w) ==
    LET c == worker[w]
    IN  /\ LiveClaim(w, c.clock)
        /\ family # "sor" => /\ ControlUnchanged(c) /\ ~NewerJob(c.epoch, c.period)
                             /\ c.clock < Expires(c.period)

CommitFailure(w) ==
    LET c == worker[w]
        s == IF c.result = "COMPUTE_FAILED" THEN "COMPUTE_FAILED" ELSE "SOURCE_FAILED"
    IN  /\ IF MayFail(w)
           THEN /\ job' = [job EXCEPT ![c.epoch][c.period] = Release(@, s, RetryAt(c))]
                /\ attempts' = attempts \cup {<<c.epoch, c.period, c.attempt>>}
           ELSE UNCHANGED <<job, attempts>>
        /\ UNCHANGED snap

(* The period ran out during the read: the run claims again, only to       *)
(* settle the row.                                                         *)
ExpireRun(w) ==
    /\ job' = NotClaimed(worker[w].epoch, worker[w].period)
    /\ UNCHANGED <<snap, attempts>>

FinishRun(w) ==
    /\ worker[w].at = "read"
    /\ LET c == worker[w]
       IN  IF family = "sor"
           THEN IF c.result = "panel" THEN CommitSnapshot(w, c.clock) ELSE CommitFailure(w)
           ELSE IF c.clock >= Expires(c.period) THEN ExpireRun(w)
           ELSE IF c.result # "panel" THEN CommitFailure(w)
           ELSE IF family = "orb" THEN CommitSnapshot(w, c.clock)
           ELSE IF now >= Expires(c.period) THEN ExpireRun(w) ELSE CommitSnapshot(w, now)
    /\ worker' = [worker EXCEPT ![w] = Idle]
    /\ UNCHANGED <<setup, now, control, owner, faults>>

Crash(w) ==
    /\ worker[w] # Idle /\ faults < MaxFaults
    /\ worker' = [worker EXCEPT ![w] = Idle]
    /\ faults' = faults + 1
    /\ UNCHANGED <<setup, now, control, owner, job, snap, attempts>>

-----------------------------------------------------------------------------
(* The Owner and the coordinator change the control the jobs depend on.    *)
NextAnchor ==
    IF family = "sor" /\ now % Day < Hour THEN CurrentPeriod ELSE CurrentPeriod + 1

(* Dynamic is staged for the next period, under a new epoch (SOR has none).*)
StageDynamic ==
    /\ control.mode = "static" /\ control.pending = None
    /\ family # "sor" => control.epochs < Setups[setup].epochs
    /\ control' = [control EXCEPT
          !.pending = "dynamic", !.anchor = NextAnchor, !.version = @ + 1,
          !.epochs = IF family = "sor" THEN @ ELSE @ + 1,
          !.epoch = IF family = "sor" THEN SorEpoch ELSE control.epochs + 1]
    /\ UNCHANGED <<setup, now, owner, job, snap, attempts, worker, faults>>

(* The coordinator activates the pending mode with the first Snapshot.     *)
ActivateDynamic ==
    /\ control.pending = "dynamic"
    /\ \E p \in Periods : p >= control.anchor /\ snap[control.epoch][p] # NoSnap
    /\ control' = [control EXCEPT !.mode = "dynamic", !.pending = None, !.anchor = 0,
                                  !.version = @ + 1]
    /\ UNCHANGED <<setup, now, owner, job, snap, attempts, worker, faults>>

(* Static restoration is an intent for the next period: the version stays. *)
StageStatic ==
    /\ family # "sor" /\ control.mode = "dynamic" /\ control.pending = None
    /\ control' = [control EXCEPT !.pending = "static", !.anchor = CurrentPeriod + 1]
    /\ UNCHANGED <<setup, now, owner, job, snap, attempts, worker, faults>>

CommitStatic ==
    /\ control.pending = "static" /\ CurrentPeriod >= control.anchor
    /\ control' = [control EXCEPT !.mode = "static", !.pending = None, !.anchor = 0,
                                  !.epoch = SorEpoch, !.version = @ + 1]
    /\ UNCHANGED <<setup, now, owner, job, snap, attempts, worker, faults>>

PauseOrResume ==
    /\ owner.enabled => owner.pauses < Setups[setup].pauses
    /\ owner' = [enabled |-> ~owner.enabled,
                 pauses |-> IF owner.enabled THEN owner.pauses + 1 ELSE owner.pauses]
    /\ UNCHANGED <<setup, now, control, job, snap, attempts, worker, faults>>

Tick ==
    /\ now < MaxTime
    /\ now' = now + 1
    /\ UNCHANGED <<setup, control, owner, job, snap, attempts, worker, faults>>

-----------------------------------------------------------------------------
Init ==
    /\ setup \in DOMAIN Setups
    /\ now = PeriodLength(family) - 1
    /\ control = [mode |-> "static", pending |-> None, anchor |-> 0, epoch |-> SorEpoch,
                  version |-> 1, epochs |-> 0]
    /\ owner = [enabled |-> TRUE, pauses |-> 0]
    /\ job = [e \in Epochs |-> [p \in Periods |-> NoJob]]
    /\ snap = [e \in Epochs |-> [p \in Periods |-> NoSnap]]
    /\ attempts = {}
    /\ worker = [w \in AllWorkers |-> Idle]
    /\ faults = 0

WorkerStep(w) ==
    \/ StartRun(w)
    \/ ClaimJob(w)
    \/ ReadPanel(w)
    \/ FinishRun(w)

Next ==
    \/ \E w \in Workers :
         \/ WorkerStep(w)
         \/ \E result \in {"transient", "integrity"} : ReadFails(w, result)
         \/ Crash(w)
    \/ StageDynamic \/ ActivateDynamic \/ StageStatic \/ CommitStatic
    \/ PauseOrResume
    \/ Tick

Spec == Init /\ [][Next]_vars

(* A worker polls for ever and always finishes a step it has begun; the    *)
(* clock does not stop.  The Owner and the coordinator owe nothing.  A     *)
(* worker's fairness is weak: Ready(w) is when WorkerStep(w) is enabled    *)
(* (it does not make TLC compute a Snapshot to find that out).             *)
Ready(w) == w \in Workers /\ (worker[w] # Idle \/ RuntimeDue(CurrentPeriod))
Moves(w) == worker'[w] # worker[w]

FairSpec ==
    /\ Spec
    /\ WF_vars(Tick)
    /\ \A w \in AllWorkers : []<>~Ready(w) \/ []<><<Moves(w)>>_vars
-----------------------------------------------------------------------------
(* Properties.                                                             *)

TypeOK ==
    /\ setup \in DOMAIN Setups /\ now \in 0 .. MaxTime
    /\ \A e \in Epochs, p \in Periods : job[e][p] = NoJob \/ JobRow(e, job[e][p])

(* A slow worker never commits a Snapshot behind a later period: once a    *)
(* later period of the epoch has a job, the claim it read under is dead    *)
(* (complete_generic_selection_snapshot, complete_orb_selection_snapshot). *)
SnapshotNotOvertaken ==
    [][\A e \in Epochs, p \in Periods :
         (family # "sor" /\ snap[e][p] = NoSnap /\ snap'[e][p] # NoSnap)
           => \A q \in Periods : q > p => job[e][q].state = None /\ snap[e][q] = NoSnap]_vars

(* The members of a Snapshot pass the validators that every reader applies *)
(* again (get_generic_snapshot, SelectionComputation), and no candidate    *)
(* left out would have been ranked before one that was taken.              *)
Canonical(e, p) ==
    LET m == snap[e][p].members
        previous == IF snap[e][p].pred = 0 THEN {}
                    ELSE SelectedMembers(snap[e][snap[e][p].pred].members)
        feature == [c \in Candidates |-> OpeningRange(market[p][c])]
    IN  IF family \in DailyFamilies
        THEN /\ ValidDailyDecisions(m)
             /\ \A c \in SelectedMembers(m), d \in ReadyMembers(m) \ SelectedMembers(m) :
                  ~RangeBefore(feature, d, c)
        ELSE ValidGenericDecisions(family, m, previous)

(* The claims of pg_instrument_selection_repository.py retire what they    *)
(* overtake, whatever its epoch: at most one job of a family is DUE or     *)
(* CLAIMED, and every Snapshot extends the latest earlier one of its       *)
(* epoch, also when its attempt was claimed before that one committed; a   *)
(* member kept beyond the entry rank was selected there, and what was      *)
(* committed stays canonical for the readers that validate it again.       *)
OneLineage ==
    /\ \A e \in Epochs, p \in Periods : snap[e][p] # NoSnap => Canonical(e, p)
    /\ family # "sor" =>
         /\ Cardinality({<<e, p>> \in Epochs \X Periods : job[e][p].state \in Actionable}) <= 1
         /\ \A e \in Epochs, p \in Periods :
              snap[e][p] # NoSnap =>
                LET s == snap[e][p]
                    earlier == {q \in Periods : q < p /\ snap[e][q] # NoSnap}
                IN  /\ s.pred = Max(earlier \cup {0})
                    /\ family \in GenericFamilies =>
                         \A c \in SelectedMembers(s.members) :
                           s.members[c].rank > EntryRank[family] =>
                             s.pred # 0 /\ c \in SelectedMembers(snap[e][s.pred].members)

(* No job is left behind: while the runtime goes on being due and Dynamic  *)
(* stays permitted, every claimed job of an earlier period is finished or  *)
(* retired, also one whose worker died (claim_generic_selection_job and    *)
(* claim_orb_selection_job supersede it).                                  *)
LeftBehind ==
    family # "sor" /\ \E e \in Epochs, p \in Periods :
                        p < CurrentPeriod /\ job[e][p].state \in Actionable

DueJobEnds == (<>[](RuntimeDue(LastPeriod) /\ ControlAllows(control.epoch, LastPeriod))) =>
      <>[]~LeftBehind
=============================================================================
