---------------------------- MODULE ReleaseUpgrade ----------------------------
(***************************************************************************)
(* The deployment program of scripts/trading_kernel/deploy_tokyo_release.  *)
(* py, run by an operator against the host over ssh: a regular deployment, *)
(* a closure handover, or a compatible upgrade that migrates the schema    *)
(* and can only be fixed forward.  Every remote call is a step.  A call    *)
(* may fail with or without its effect; the program may be killed between  *)
(* two calls; the operator runs it again.                                  *)
(*                                                                         *)
(* op.flags holds the local variables its exception handlers read.         *)
(***************************************************************************)
EXTENDS ReleaseHost

Compatible == plan = "compatible"

\* Calls before the try block, in it, and in the except block.
Preflight == {"drain_fence", "drain_gate", "drain", "entry_at_rest", "install", "inspect", "facts",
              "resume"}
Guarded == {"fence", "stop", "gate", "recheck", "baseline", "migrate", "inspect_after", "preserve",
            "persist", "read_back", "certify_r4", "identity", "mark", "link", "keepers", "await",
            "postflight", "safety", "running", "final"}
Recovery == {"x_fence", "x_decide", "x_certify_r4", "x_persist", "x_read_back", "x_mark", "x_link",
             "x_start"}
Calls == Preflight \cup Guarded \cup Recovery

Flags == {"services_stopped", "transition_started", "identity_attempted", "target_activated",
          "migration_attempted", "schema_migrated", "persistence_attempted", "persisted",
          "target_safety_started", "drain_requested"}

At(call) == op.pc = call
Has(flag) == flag \in op.flags

Go(call, gained) == op' = [op EXCEPT !.pc = call, !.flags = @ \cup gained]
End(pc) == op' = [pc |-> pc, flags |-> {}, source |-> FALSE]

\* An exception leaves the preflight, enters the except block, or ends the recovery; the except
\* block does nothing before the services were stopped (the transition started).
Raise ==
  CASE op.pc = "migrate" -> Go("inspect_after", {})
    [] op.pc = "persist" -> Go("read_back", {})
    [] op.pc = "x_persist" -> Go("x_read_back", {})
    [] /\ op.pc \in Guarded \ {"migrate", "persist"}
       /\ Has("services_stopped") \/ Has("transition_started") -> Go("x_fence", {})
    [] OTHER -> End("idle")

\* A call that reads: it holds and the program goes on, it does not or the call fails.
Check(holds, next, gained) ==
  /\ \/ holds /\ Go(next, gained) /\ NoFault
     \/ ~holds /\ Raise /\ NoFault
     \/ Raise /\ Fault
  /\ UNCHANGED <<plan, site, db, exposure, promoter>>

\* A call that changes the host (one of the states partial, when it fails half way).
ChangeSite(done, partial, next, gained) ==
  /\ \/ site' = done /\ Go(next, gained) /\ NoFault
     \/ site' \in partial \cup {site, done} /\ Raise /\ Fault
  /\ UNCHANGED <<plan, db, exposure, promoter>>

\* A call that runs a database transaction: refused, committed, or of unknown outcome.
ChangeDb(allowed, done, next, gained) ==
  /\ \/ allowed /\ db' = done /\ Go(next, gained) /\ NoFault
     \/ ~allowed /\ Raise /\ NoFault /\ UNCHANGED db
     \/ Raise /\ Fault /\ (UNCHANGED db \/ (allowed /\ db' = done))
  /\ UNCHANGED <<plan, site, exposure, promoter>>

\* fence_entry does not look at the outcome of its remote calls.
FenceCall(next, gained) ==
  /\ \E touched, disabled \in BOOLEAN :
       /\ site' = Fenced(site, touched, disabled)
       /\ IF touched /\ disabled THEN NoFault ELSE Fault
  /\ Go(next, gained)
  /\ UNCHANGED <<plan, db, exposure, promoter>>

-----------------------------------------------------------------------------
(* Preflight *)

\* deploy_tokyo_release: a drain is part of a compatible upgrade only; a regular run that finds
\* the target active resumes, and a closure handover then refuses.
Begin(drain) ==
  /\ At("idle")
  /\ drain => Compatible
  /\ IF drain THEN Go("drain_fence", {})
     ELSE IF Compatible THEN Go("entry_at_rest", {})
     ELSE IF site.current = "new" THEN Go("resume", {}) ELSE Go("install", {})
  /\ NoFault /\ UNCHANGED <<plan, site, db, exposure, promoter>>

DrainFence == At("drain_fence") /\ FenceCall("drain_gate", {})

DrainGate ==
  At("drain_gate")
  /\ Check(EntryAtRest(site) /\ services_active(site) = SAFETY_SERVICES, "drain", {})

\* The bridge answers for the source identity and schema only.
DrainAnswers == db.identity = site.env /\ db.schema = 1

\* It asks for the exit of an open position, once.
DrainRequests == DrainAnswers /\ exposure = "open" /\ ~Has("drain_requested")

\* run_deployment_drain: a Ticket whose position is closed and whose Review is pending contradicts
\* the flat exchange and blocks the drain; a drain that takes too long fails.
Drain ==
  /\ At("drain")
  /\ LET drained == DrainAnswers /\ exposure = "flat"
     IN \/ drained /\ Go("entry_at_rest", {}) /\ NoFault /\ UNCHANGED exposure
        \/ DrainRequests /\ exposure' = "exiting" /\ Go("drain", {"drain_requested"}) /\ NoFault
        \/ DrainRequests /\ exposure' = "exiting" /\ Raise /\ Fault
        \/ ~DrainRequests /\ ~drained /\ Raise /\ NoFault /\ UNCHANGED exposure
        \/ Raise /\ Fault /\ UNCHANGED exposure
  /\ UNCHANGED <<plan, site, db, promoter>>

\* entry_is_inactive_disabled_and_fenced fails open on a failing read, and so does
\* release_exists: the target is installed over what is there.
EntryRests ==
  /\ At("entry_at_rest")
  /\ LET next == IF site.files = "absent" THEN "install" ELSE "inspect"
     IN \/ ReadsAtRest(site) /\ Go(next, {})
        \/ EntryAtRest(site) /\ site.files # "absent" /\ Go("install", {}) /\ Fault
        \/ ~EntryAtRest(site) /\ Raise /\ NoFault
  /\ UNCHANGED <<plan, site, db, exposure, promoter>>

\* The Python environment is copied from the current release: when that is the target, it
\* was removed a moment ago and the installation fails half way.
Install ==
  /\ At("install")
  /\ \/ /\ site.current = "old"
        /\ ChangeSite(Installed(site, "full"),
                      {Installed(site, "absent"), Installed(site, "partial")},
                      IF Compatible THEN "inspect" ELSE "facts", {})
     \/ /\ site.current = "new"
        /\ site' = Installed(site, "partial") /\ Raise /\ NoFault
        /\ UNCHANGED <<plan, db, exposure, promoter>>

\* inspect_schema, and what the two possible revisions demand before the cutover.
SourceFacts == ZeroActivity(db) /\ db.schema = 1 /\ db.identity = "old"

Inspect ==
  /\ At("inspect")
  /\ \/ /\ Runs(site)
        /\ IF db.schema = 1 THEN SourceFacts ELSE (site.current = "new" => db.fact)
        /\ op' = [op EXCEPT !.pc = "fence", !.source = db.schema = 1,
                            !.flags = @ \cup (IF db.schema = 2 THEN {"schema_migrated"} ELSE {})
                                        \cup (IF site.current = "new" THEN {"target_activated"}
                                              ELSE {})]
        /\ NoFault
     \/ /\ ~Runs(site) \/ ~(IF db.schema = 1 THEN SourceFacts ELSE site.current = "new" => db.fact)
        /\ Raise /\ NoFault
     \/ Raise /\ Fault
  /\ UNCHANGED <<plan, site, db, exposure, promoter>>

\* _read_release_facts: the flat certification, or the exact Ticket waiting to be closed.
ReleaseFacts ==
  Runs(site) /\ IF plan = "closure" THEN exposure = "closing" /\ ~OpenIncident(db)
                ELSE FlatCertified(db)

Facts == At("facts") /\ Check(ReleaseFacts /\ db.identity = "old", "stop", {})

-----------------------------------------------------------------------------
(* Cutover *)

\* services_stopped is set after the call: when the call raises, the except block does nothing.
StopServices ==
  /\ At("stop")
  /\ LET units == IF Compatible THEN SAFETY_SERVICES ELSE ALL_SERVICES
     IN ChangeSite(Stopped(site, units), {Stopped(site, s) : s \in SUBSET units},
                   IF Compatible THEN "gate" ELSE "fence",
                   IF Compatible THEN {} ELSE {"services_stopped"})

Fence ==
  At("fence") /\ IF Compatible THEN FenceCall("stop", {"transition_started"})
                 ELSE FenceCall("gate", {})

\* Mutant: the gate forgets to ask the units.
GateAsksNoUnit ==
  /\ At("gate")
  /\ IF site.fence THEN Go("recheck", {}) ELSE Raise
  /\ NoFault /\ UNCHANGED <<plan, site, db, exposure, promoter>>

Gate ==
  /\ At("gate")
  /\ \/ ReadsWritersStopped(site) /\ Go(IF Compatible /\ ~op.source THEN "persist" ELSE "recheck",
                                        IF Compatible /\ ~op.source THEN {"persistence_attempted"}
                                        ELSE {})
     \/ ~WritersStopped(site) /\ Raise /\ NoFault
  /\ UNCHANGED <<plan, site, db, exposure, promoter>>

\* The facts again, now that no writer runs; the source identity must be the same.
Recheck ==
  At("recheck")
  /\ Check(Runs(site) /\ db.identity = "old" /\ (IF Compatible THEN SourceFacts ELSE ReleaseFacts),
           IF plan = "closure" THEN "identity" ELSE "baseline",
           IF plan = "closure" THEN {"identity_attempted"} ELSE {})

\* record_preserved_runtime: the history and the control posture of the stopped source.
Baseline ==
  At("baseline")
  /\ ChangeSite([site EXCEPT !.baseline = [history |-> db.history, owner |-> db.owner.version]], {},
                IF Compatible THEN "migrate" ELSE "identity",
                IF Compatible THEN {"migration_attempted"} ELSE {"identity_attempted"})

Migrate == At("migrate") /\ ChangeDb(MayMigrate(db), Migrated(db), "preserve", {"schema_migrated"})

\* A failed migration is inspected: only a revision that moved is fixed forward.
InspectAfter ==
  /\ At("inspect_after")
  /\ \/ Go("x_fence", IF db.schema = 2 THEN {"schema_migrated"} ELSE {}) /\ NoFault
     \/ Go("x_fence", {}) /\ Fault
  /\ UNCHANGED <<plan, site, db, exposure, promoter>>

\* verify_preservation: the manifest covers the source's own rows, which no writer changes now.
Preserve == At("preserve") /\ Check(Runs(site), "persist", {"persistence_attempted"})

Persist == At("persist") /\ ChangeDb(Runs(site), Persisted(db), "certify_r4", {"persisted"})

\* _persist_release_compatibility_exact: an unknown write is settled by reading it.
ReadBack ==
  /\ At("read_back")
  /\ \/ db.fact /\ Go("certify_r4", {"persisted"}) /\ NoFault
     \/ ~db.fact /\ Go("x_fence", {}) /\ NoFault
     \/ Go("x_fence", {}) /\ Fault
  /\ UNCHANGED <<plan, site, db, exposure, promoter>>

\* certify_r4_recovery: the migration gate of the target, open incidents included.
CertifyR4 == At("certify_r4") /\ Check(Runs(site) /\ ZeroActivity(db), "identity", {})

DeployIdentity ==
  At("identity")
  /\ IF Compatible THEN ChangeDb(MayDeployCompatible(db), CompatibleIdentified(db), "mark", {})
     ELSE ChangeDb(MayDeployIdentity(db), Identified(db), "mark", {})

Mark == At("mark") /\ ChangeSite(Marked(site), {HalfMarked(site)}, "link", {})

Link ==
  At("link") /\ ChangeSite(Linked(site), {}, IF Compatible THEN "postflight" ELSE "keepers",
                           {"target_activated"})

StartKeepers ==
  At("keepers") /\ ChangeSite(Started(site, {"keepers"}), {},
                              IF plan = "closure" THEN "postflight" ELSE "await", {})

\* await_current_certification: a certified Reconciliation refreshes the members.
Await == At("await") /\ Check(Certified("keepers"), "postflight", {})

\* _require_target_postflight
TargetPostflight ==
  /\ ReleaseFacts /\ db.identity = "new"
  /\ Compatible => /\ db.fact /\ db.owner.entry = "paused"
                   /\ site.baseline # NoBaseline /\ db.history = site.baseline.history
  /\ plan = "regular" => site.baseline = [history |-> db.history, owner |-> db.owner.version]

Postflight == At("postflight") /\ Check(TargetPostflight, "safety", {})

StartSafety ==
  At("safety") /\ ChangeSite(Started(site, SAFETY_SERVICES),
                             {Started(site, {u}) : u \in SAFETY_SERVICES},
                             IF plan = "closure" THEN "final" ELSE "running",
                             {"target_safety_started"})

\* _require_running_target_postflight
RunningPostflight ==
  /\ FlatCertified(db) /\ db.identity = "new" /\ site.baseline # NoBaseline
  /\ Compatible => db.owner.entry = "paused"
  /\ plan = "regular" => site.baseline.owner = db.owner.version

Running ==
  /\ At("running")
  /\ \/ RunningPostflight /\ (IF Compatible THEN ReadsServing(site) ELSE NoFault) /\ Go("final", {})
     \/ ~(RunningPostflight /\ (Compatible => services_active(site) = SAFETY_SERVICES))
        /\ Raise /\ NoFault
     \/ Raise /\ Fault
  /\ UNCHANGED <<plan, site, db, exposure, promoter>>

Final ==
  /\ At("final")
  /\ LET rests == plan # "regular" => EntryAtRest(site)
     IN \/ rests /\ ReadsServing(site) /\ End("passed")
        \/ ~(rests /\ services_active(site) = SAFETY_SERVICES) /\ Raise /\ NoFault
        \/ Raise /\ Fault
  /\ UNCHANGED <<plan, site, db, exposure, promoter>>

\* _resume_regular_deployment
Resume ==
  /\ At("resume")
  /\ LET ready == /\ plan = "regular" /\ EntryAtRest(site)
                  /\ services_active(site) = SAFETY_SERVICES
                  /\ Certified("keepers") /\ TargetPostflight
     IN \/ ready /\ End("passed") /\ NoFault
        \/ ~ready /\ Raise /\ NoFault
        \/ Raise /\ Fault
  /\ UNCHANGED <<plan, site, db, exposure, promoter>>

-----------------------------------------------------------------------------
(* The except blocks *)

RecoveryFence == At("x_fence") /\ FenceCall("x_decide", {})

\* Mutant: the source workers are started again although the migration was attempted.
DecideIgnoresMigration ==
  /\ At("x_decide")
  /\ IF site.current = "old" THEN Go("x_start", {}) ELSE End("idle")
  /\ NoFault /\ UNCHANGED <<plan, site, db, exposure, promoter>>

\* What may be started again: the source only before anything was attempted, the target only when
\* the schema moved, its fact is durable and its release is active.
Decide ==
  /\ At("x_decide")
  /\ IF ~Compatible
     THEN IF Has("target_activated") \/ ~Has("identity_attempted") THEN Go("x_start", {})
          ELSE End("idle")
     ELSE IF ~Has("schema_migrated")
     THEN IF ~Has("migration_attempted") /\ site.current = "old" THEN Go("x_start", {})
          ELSE End("idle")
     ELSE IF ~Has("persisted") /\ ~Has("persistence_attempted") THEN Go("x_certify_r4", {})
     ELSE IF ~Has("persisted") THEN End("idle")
     ELSE IF site.current # "new" THEN Go("x_mark", {})
     ELSE IF ~Has("target_safety_started") \/ services_active(site) # SAFETY_SERVICES
     THEN Go("x_start", {}) ELSE End("idle")
  /\ NoFault /\ UNCHANGED <<plan, site, db, exposure, promoter>>

RecoveryCertifyR4 ==
  At("x_certify_r4") /\ Check(Runs(site) /\ ZeroActivity(db), "x_persist", {"persistence_attempted"})

RecoveryPersist == At("x_persist") /\ ChangeDb(Runs(site), Persisted(db), "x_decide", {"persisted"})

RecoveryReadBack ==
  At("x_read_back") /\ Check(db.fact, "x_decide", {"persisted"})

RecoveryMark == At("x_mark") /\ ChangeSite(Marked(site), {HalfMarked(site)}, "x_link", {})

RecoveryLink == At("x_link") /\ ChangeSite(Linked(site), {}, "x_start", {"target_activated"})

\* Mutant: the recovery ends without starting the workers it stopped.
RecoveryStartsNothing ==
  /\ At("x_start") /\ End("idle") /\ NoFault
  /\ UNCHANGED <<plan, site, db, exposure, promoter>>

RecoveryStart ==
  /\ At("x_start")
  /\ \/ site' = Started(site, SAFETY_SERVICES) /\ NoFault
     \/ site' \in {Started(site, s) : s \in SUBSET SAFETY_SERVICES} /\ Fault
  /\ End("idle")
  /\ UNCHANGED <<plan, db, exposure, promoter>>

\* The operator's machine or connection is lost: the program ends where it is.
Kill ==
  /\ op.pc \in Calls /\ Fault /\ End("idle")
  /\ UNCHANGED <<plan, site, db, exposure, promoter>>

Deploy ==
  \/ DrainFence \/ DrainGate \/ Drain \/ EntryRests \/ Install \/ Inspect \/ Facts
  \/ StopServices \/ Fence \/ Gate \/ Recheck \/ Baseline \/ Migrate \/ InspectAfter \/ Preserve
  \/ Persist \/ ReadBack \/ CertifyR4 \/ DeployIdentity \/ Mark \/ Link \/ StartKeepers \/ Await
  \/ Postflight \/ StartSafety \/ Running \/ Final \/ Resume
  \/ RecoveryFence \/ Decide \/ RecoveryCertifyR4 \/ RecoveryPersist \/ RecoveryReadBack
  \/ RecoveryMark \/ RecoveryLink \/ RecoveryStart

UpgradeInit == op = [pc |-> "idle", flags |-> {}, source |-> FALSE]

UpgradeTypeOK ==
  op \in [pc : Calls \cup {"idle", "passed"}, flags : SUBSET Flags, source : BOOLEAN]

=============================================================================
