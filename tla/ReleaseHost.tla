----------------------------- MODULE ReleaseHost -----------------------------
(***************************************************************************)
(* The production host a release is deployed to, and what its processes do *)
(* between the steps of a deployment: the systemd units, the ENTRY fence   *)
(* file, the release directory and symlink, the runtime identity rows of   *)
(* the database, and the Owner API (deploy/systemd, runtime_fence.py,      *)
(* runtime_authority_seed.py, backend of deploy_tokyo_release.py).         *)
(*                                                                         *)
(* Two releases exist, the running "old" one and the target "new" one.     *)
(* Lifecycle and reconciliation workers are always stopped and started     *)
(* together and share the writer certification: they are one unit here,    *)
(* "keepers".  A process keeps the code and the environment it started     *)
(* with.                                                                   *)
(***************************************************************************)
EXTENDS Naturals, FiniteSets

CONSTANTS Plans,        \* deployments considered: subset of {"regular", "closure", "compatible"}
          MaxFaults,    \* failing calls, killed programs and restarted Owner APIs
          MaxOwner,     \* versions of the Owner policy
          MaxHistory    \* Selection rows written by Observation

ASSUME HostAssumption ==
  /\ Plans \subseteq {"regular", "closure", "compatible"} /\ Plans # {}
  /\ MaxFaults \in Nat /\ MaxOwner \in Nat /\ MaxHistory \in Nat

VARIABLES plan,      \* the deployment plan
          site,      \* the host: fence, units, symlink, environment file, target directory
          db,        \* the database: schema, runtime identity, release fact, policy, incident
          exposure,  \* the account: flat, open, exiting (drain requested), closing (unreviewed)
          op,        \* the deployment program
          promoter,  \* the ENTRY promotion program
          faults

host == <<plan, site, db, exposure>>

Releases == {"old", "new"}
Units == {"observation", "keepers", "entry"}
SAFETY_SERVICES == {"observation", "keepers"}
ALL_SERVICES == Units

\* A compatible upgrade changes the schema, a regular deployment keeps it.
SchemaOf(release) == IF plan = "compatible" /\ release = "new" THEN 2 ELSE 1

Fault == faults < MaxFaults /\ faults' = faults + 1
NoFault == UNCHANGED faults

-----------------------------------------------------------------------------
(* The host *)

Down == [state |-> "down", code |-> "none", env |-> "none"]

\* systemctl start: an active unit keeps its process, a stopped one gets the code behind the
\* symlink and the environment file; the ENTRY shell waits as long as the fence file exists.
Started(s, units) ==
  [s EXCEPT !.unit = [u \in Units |->
     IF u \in units /\ s.unit[u].state = "down"
     THEN [state |-> IF u = "entry" /\ s.fence THEN "parked" ELSE "up",
           code |-> s.current, env |-> s.env]
     ELSE s.unit[u]],
   !.enabled = @ \/ "entry" \in units]

Stopped(s, units) ==
  [s EXCEPT !.unit = [u \in Units |-> IF u \in units THEN Down ELSE s.unit[u]]]

\* fence_entry: neither the touch nor the disable --now is checked.
Fenced(s, touched, disabled) ==
  LET t == [s EXCEPT !.fence = @ \/ touched]
  IN IF disabled THEN [Stopped(t, {"entry"}) EXCEPT !.enabled = FALSE] ELSE t

services_active(s) == {u \in Units : s.unit[u].state # "down"}

\* What keeps ENTRY from being inactive, disabled and fenced.  A failing remote call reads as
\* "not active" and "not enabled", never as "fenced".
EntryObstacles(s) ==
  {o \in {"active", "enabled"} : \/ o = "active" /\ s.unit["entry"].state # "down"
                                 \/ o = "enabled" /\ s.enabled}

EntryAtRest(s) == s.fence /\ EntryObstacles(s) = {}

\* What keeps the writers from being stopped, as migration_writers_stopped_and_entry_fenced reads it.
WriterObstacles(s) ==
  services_active(s) \cup {o \in {"api", "enabled"} : \/ o = "api" /\ s.api
                                                      \/ o = "enabled" /\ s.enabled}

WritersStopped(s) == s.fence /\ WriterObstacles(s) = {}

\* A check passes on the host's state or, when one remote read fails, without that read's answer.
ReadsAtRest(s) ==
  \/ EntryAtRest(s) /\ NoFault
  \/ s.fence /\ Cardinality(EntryObstacles(s)) = 1 /\ Fault

ReadsWritersStopped(s) ==
  \/ WritersStopped(s) /\ NoFault
  \/ s.fence /\ Cardinality(WriterObstacles(s)) = 1 /\ Fault

ReadsServing(s) ==
  \/ services_active(s) = SAFETY_SERVICES /\ NoFault
  \/ services_active(s) = ALL_SERVICES /\ Fault

NoBaseline == [history |-> MaxHistory + 1, owner |-> MaxOwner + 1]

\* install_release removes the directory with its markers, then fills it; scripts run from a full one.
Installed(s, files) == [s EXCEPT !.files = files, !.baseline = NoBaseline]
Runs(s) == s.files = "full"

\* activate_release writes the markers and the environment file first, the symlink last.  Cut
\* off between its two edits, the file names the new commit and the old revision.
Marked(s) == [s EXCEPT !.env = "new"]
HalfMarked(s) == [s EXCEPT !.env = IF @ = "new" THEN "new" ELSE "mixed"]
Linked(s) == [s EXCEPT !.current = "new"]

-----------------------------------------------------------------------------
(* The database *)

OpenIncident(d) == d.incident = "open"

\* _require_zero_runtime_activity and the migration gate: no Ticket short of its Review.
ZeroActivity(d) == exposure = "flat" /\ ~OpenIncident(d)

\* The flat certification counts active Netting Domains, positions, commands, incidents and
\* reservations: a Ticket that waits for Settlement or Review has released all of them.
FlatCertified(d) == exposure \in {"flat", "closing"} /\ ~OpenIncident(d)

\* One transaction: alembic upgrade to the target revision, which locks and demands flatness.
Migrated(d) == [d EXCEPT !.schema = 2]
MayMigrate(d) == ZeroActivity(d) /\ d.schema = 1

\* _deploy_runtime_identity: the runtime commit of the metadata and of both capabilities.
MayDeployIdentity(d) ==
  IF plan = "closure" THEN exposure = "closing" /\ ~OpenIncident(d) ELSE ZeroActivity(d)
Identified(d) == [d EXCEPT !.identity = "new"]

MayDeployCompatible(d) == exposure = "flat" /\ d.schema = 2

\* The identity transaction of a compatible upgrade resolves the runtime-fence incident ...
FenceResolved(d) == [d EXCEPT !.incident = IF @ = "open" THEN "resolved" ELSE @]

\* ... and, on the first rotation from the source, pauses the Owner policy.
EntryPaused(d) ==
  IF d.identity = "old" /\ d.owner.entry # "paused"
  THEN [d EXCEPT !.owner = [version |-> @.version + 1, entry |-> "paused"]] ELSE d

CompatibleIdentified(d) == [EntryPaused(FenceResolved(d)) EXCEPT !.identity = "new"]

Persisted(d) == [d EXCEPT !.fact = TRUE]

-----------------------------------------------------------------------------
(* What runs on the host between the steps of the programs *)

Certified(u) == site.unit[u].state = "up" /\ site.unit[u].env = db.identity

\* The fence is gone: the ENTRY shell executes the worker of the directory it was started in.
Unpark ==
  /\ site.unit["entry"].state = "parked" /\ ~site.fence
  /\ site' = [site EXCEPT !.unit["entry"].state = "up"]
  /\ UNCHANGED <<plan, db, exposure, op, promoter, faults>>

EntryTrades ==
  /\ Certified("entry") /\ db.owner.entry # "paused" /\ ~OpenIncident(db)
  /\ exposure = "flat" /\ exposure' = "open"
  /\ UNCHANGED <<plan, site, db, op, promoter, faults>>

\* The safety workers bring a position to its end and its Ticket to Settlement and Review.
PositionCloses ==
  /\ Certified("keepers") /\ exposure \in {"open", "exiting"}
  /\ exposure' = "closing"
  /\ UNCHANGED <<plan, site, db, op, promoter, faults>>

TicketReviewed ==
  /\ Certified("keepers") /\ exposure = "closing"
  /\ exposure' = "flat"
  /\ UNCHANGED <<plan, site, db, op, promoter, faults>>

\* runtime_writer_is_certified of a worker whose identity is not the deployed one; the incident
\* has a constant identity, so a resolved one is never opened again.
FenceIncident ==
  /\ site.unit["keepers"].state = "up" /\ ~Certified("keepers")
  /\ db.incident = "none"
  /\ db' = [db EXCEPT !.incident = "open"]
  /\ UNCHANGED <<plan, site, exposure, op, promoter, faults>>

\* Observation runs the Selection cadence; it does not ask the writer certification.
ObservationSelects ==
  /\ site.unit["observation"].state = "up" /\ db.history < MaxHistory
  /\ db' = [db EXCEPT !.history = @ + 1]
  /\ UNCHANGED <<plan, site, exposure, op, promoter, faults>>

\* An Owner pauses or resumes ENTRY through the Owner API.
OwnerToggles ==
  /\ site.api /\ db.owner.version < MaxOwner
  /\ db' = [db EXCEPT !.owner = [version |-> @.version + 1,
                                    entry |-> IF @.entry = "paused" THEN "resumed" ELSE "paused"]]
  /\ UNCHANGED <<plan, site, exposure, op, promoter, faults>>

\* arm_acceptance_policy and promote_full_policy, from the command line: a new version that
\* enables ENTRY, only without any runtime activity.
PolicyTransition ==
  /\ ZeroActivity(db) /\ db.owner.version < MaxOwner
  /\ db' = [db EXCEPT !.owner = [version |-> @.version + 1, entry |-> "armed"]]
  /\ UNCHANGED <<plan, site, exposure, op, promoter, faults>>

\* The operator stops the Owner API for a deployment; somebody may start it again.
StopApi ==
  /\ site.api /\ site' = [site EXCEPT !.api = FALSE]
  /\ UNCHANGED <<plan, db, exposure, op, promoter, faults>>

StartApi ==
  /\ ~site.api /\ Fault /\ site' = [site EXCEPT !.api = TRUE]
  /\ UNCHANGED <<plan, db, exposure, op, promoter>>

\* The old release serves: ENTRY is promoted, or was left at rest before an upgrade.
HostInit ==
  /\ plan \in Plans
  /\ \E resting \in BOOLEAN :
       site = [fence |-> resting, enabled |-> ~resting, current |-> "old", env |-> "old",
               api |-> TRUE, files |-> "absent", baseline |-> NoBaseline,
               unit |-> [u \in Units |-> IF u = "entry" /\ resting THEN Down
                                         ELSE [state |-> "up", code |-> "old", env |-> "old"]]]
  /\ db = [schema |-> 1, identity |-> "old", fact |-> FALSE, incident |-> "none",
           owner |-> [version |-> 0, entry |-> "resumed"], history |-> 0]
  /\ exposure = "flat"
  /\ faults = 0

HostTypeOK ==
  /\ plan \in Plans
  /\ site \in [fence : BOOLEAN, enabled : BOOLEAN, current : Releases, env : Releases \cup {"mixed"},
               api : BOOLEAN, files : {"absent", "partial", "full"},
               baseline : [history : 0..MaxHistory + 1, owner : 0..MaxOwner + 1],
               unit : [Units -> [state : {"down", "parked", "up"}, code : Releases \cup {"none"},
                                 env : Releases \cup {"mixed", "none"}]]]
  /\ db \in [schema : {1, 2}, identity : Releases, fact : BOOLEAN,
             incident : {"none", "open", "resolved"},
             owner : [version : 0..MaxOwner + 1, entry : {"resumed", "armed", "paused"}], history : 0..MaxHistory]
  /\ exposure \in {"flat", "open", "exiting", "closing"}
  /\ faults \in 0..MaxFaults

=============================================================================
