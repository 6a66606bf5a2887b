--------------------------- MODULE ReleaseDeployment ---------------------------
(***************************************************************************)
(* A production host under deployment: the deployment program, the ENTRY   *)
(* promotion program and the processes of the host, with their failures.   *)
(***************************************************************************)
EXTENDS ReleaseUpgrade, EntryPromotion

vars == <<plan, site, db, exposure, op, promoter, faults>>

Init == HostInit /\ UpgradeInit /\ PromotionInit

Host ==
  \/ Unpark \/ EntryTrades \/ PositionCloses \/ TicketReviewed \/ FenceIncident
  \/ ObservationSelects \/ OwnerToggles \/ PolicyTransition \/ StopApi \/ StartApi

Next ==
  \/ \E drain \in BOOLEAN : Begin(drain)
  \/ Deploy \/ Kill
  \/ BeginPromotion \/ Promote \/ PromotionFails
  \/ Host

Spec == Init /\ [][Next]_vars

\* Programs run on, the operator stops the Owner API and runs a failed deployment again, with the
\* drain (which fences ENTRY first) and without it; certified workers finish what is open.
Fairness ==
  /\ WF_vars(Deploy) /\ WF_vars(Promote)
  /\ SF_vars(Begin(FALSE)) /\ SF_vars(Begin(TRUE)) /\ WF_vars(StopApi)
  /\ WF_vars(PositionCloses) /\ WF_vars(TicketReviewed)

FairSpec == Spec /\ Fairness

-----------------------------------------------------------------------------

\* Types of the host, the database and the two programs.
TypeOK == HostTypeOK /\ UpgradeTypeOK /\ PromotionTypeOK

\* No safety worker runs the code of one release on the schema of the other: neither an interrupted
\* migration nor its recovery brings a source worker up on the target schema.
RuntimeMatchesSchema ==
  \A u \in SAFETY_SERVICES :
     site.unit[u].state = "up" => SchemaOf(site.unit[u].code) = db.schema

\* The schema and the runtime identity change only while no worker of any release is running,
\* whatever the promotion program did between the gate and the write.
MutationsAreQuiet ==
  [][(db.schema' # db.schema \/ db.identity' # db.identity)
       => \A u \in Units : site.unit[u].state # "up"]_vars

\* Once the schema has moved, safety workers of the target run again however the upgrade was
\* interrupted, when the operator runs it again.
FixForwardRestoresSafety ==
  db.schema = 2 ~> site.unit["keepers"] = [state |-> "up", code |-> "new", env |-> "new"]
=============================================================================
