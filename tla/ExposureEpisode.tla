--------------------------- MODULE ExposureEpisode ---------------------------
(***************************************************************************)
(* The rising-edge Episode reducer and its two barriers                    *)
(* (domain/exposure_episode.py, domain/authority_recovery_rebase.py).      *)
(*                                                                         *)
(* A strategy may raise one Signal per Episode: a run of TRIGGERED closes  *)
(* that starts after a NOT_TRIGGERED close.  Two barriers suppress a       *)
(* TRIGGERED close until a NOT_TRIGGERED one was seen under the present    *)
(* comparison binding, and under the present recovery of the authority.    *)
(*                                                                         *)
(* A close is a positive number, 0 is "none".  Each reducer of the code    *)
(* either raises or returns; Refuses says when it raises, and the operator *)
(* of the same name what it returns otherwise.  projection_version only    *)
(* serves the compare-and-set of the row, which the row lock already       *)
(* serialises, and is left out.                                            *)
(***************************************************************************)
EXTENDS Naturals

Triggered    == "triggered"
NotTriggered == "not_triggered"
Invalid      == "invalid"

\* States of an Episode row; "none" is the absent row.
EpisodeStates == {"none", "armed", "triggered",
                  "comparison_rebase_required", "authority_rebase_required"}
RebaseStates  == {"comparison_rebase_required", "authority_rebase_required"}

NoEpisode    == [state |-> "none", id |-> 0, last |-> 0]
NoComparison == [revision |-> 0, armed |-> 0, last |-> 0, status |-> "none"]
NoRecovery   == [revision |-> 0, first |-> 0, armed |-> 0, last |-> 0, status |-> "none"]

-----------------------------------------------------------------------------
(* advance_exposure_episode *)

EpisodeRefuses(ep, status, at) ==
    \/ ep.state \in RebaseStates /\ status = Triggered
    \/ at < ep.last
    \/ at = ep.last /\ ep.state # (IF status = Triggered THEN "triggered" ELSE "armed")

\* Mutant: every TRIGGERED close starts an Episode of its own.
EpisodePerTrigger(ep, status, at) ==
    IF at = ep.last THEN ep
    ELSE [state |-> IF status = Triggered THEN "triggered" ELSE "armed",
          id    |-> IF status = Triggered THEN at ELSE 0, last |-> at]

AdvanceExposureEpisode(ep, status, at) ==
    IF at = ep.last THEN ep
    ELSE IF status = NotTriggered THEN [state |-> "armed", id |-> 0, last |-> at]
    ELSE [state |-> "triggered",
          id    |-> IF ep.state = "triggered" THEN ep.id ELSE at,
          last  |-> at]

-----------------------------------------------------------------------------
(* advance_comparison_bound_exposure_episode *)

\* A TRIGGERED close under a binding that no NOT_TRIGGERED close armed yet.
ComparisonSuppresses(cp, status, revision) ==
    status = Triggered /\ (cp.revision # revision \/ cp.armed = 0)

ComparisonRefuses(ep, cp, status, at, revision) ==
    \/ revision < cp.revision
    \/ revision > cp.revision /\ (at <= ep.last \/ at <= cp.last)
    \/ revision = cp.revision
       /\ \/ at < cp.last
          \/ at = cp.last /\ (status # cp.status \/ (cp.armed # 0 /\ ep.last # at))
    \/ ~ComparisonSuppresses(cp, status, revision) /\ EpisodeRefuses(ep, status, at)

\* _arm_under_comparison_binding is the case of a NOT_TRIGGERED close.
AdvanceComparison(cp, status, at, revision) ==
    IF cp.revision = revision /\ at = cp.last THEN cp
    ELSE [revision |-> revision,
          armed    |-> IF cp.revision = revision /\ cp.armed # 0 THEN cp.armed
                       ELSE IF status = NotTriggered THEN at ELSE 0,
          last     |-> at,
          status   |-> status]

-----------------------------------------------------------------------------
(* begin_authority_recovery_rebase, advance_authority_recovery_rebase *)

Highest(S) == CHOOSE m \in S : \A n \in S : n <= m

\* The barrier of a new recovery keeps the high-water mark of consumed closes.
BeginAuthorityRecoveryRebase(rc, revision, first, consumed) ==
    IF rc.revision = revision THEN rc
    ELSE [revision |-> revision, first |-> first, armed |-> 0,
          last |-> Highest({rc.last, consumed}), status |-> "none"]

RecoveryRefuses(ep, cp, rc, status, at, binding) ==
    \/ at < rc.first \/ at < rc.last
    \/ at = rc.last /\ status # rc.status
    \/ at < ep.last \/ (at = ep.last /\ at # rc.last)
    \/ binding < cp.revision
    \/ at < cp.last \/ (at = cp.last /\ at # rc.last)

\* RECOVERY_CLOSE_ALREADY_OBSERVED and RECOVERY_REBASE_REQUIRED.
RecoverySuppresses(rc, status, at) ==
    at = rc.last \/ (rc.armed = 0 /\ status = Triggered)

AdvanceAuthorityRecoveryRebase(rc, status, at) ==
    IF at = rc.last THEN rc
    ELSE [revision |-> rc.revision, first |-> rc.first,
          armed    |-> IF rc.armed = 0 /\ status = NotTriggered THEN at ELSE rc.armed,
          last     |-> at, status |-> status]

\* recovery_rebase_entry_rejection is NULL: the Signal of this close may enter.
RecoveryEntryAllowed(rc, at) ==
    rc.armed # 0 /\ rc.status = Triggered /\ rc.last = at /\ at > rc.armed

\* recovery_comparison_entry_rejection is NULL.
ComparisonEntryAllowed(cp, at, revision) ==
    IF revision = 0 THEN cp = NoComparison
    ELSE /\ cp.revision = revision /\ cp.armed # 0
         /\ cp.status = Triggered /\ cp.last = at /\ at > cp.armed

-----------------------------------------------------------------------------
(* brc_exposure_episode_current: the rows its CHECK constraints admit.  A row
   they refuse would fail every later observation of the scope. *)

RecoveryRow(rc) ==
    rc = NoRecovery \/
    /\ rc.revision > 0
    /\ \/ rc.status = "none" /\ rc.armed = 0 /\ rc.last < rc.first
       \/ /\ rc.status \in {Triggered, NotTriggered} /\ rc.first <= rc.last
          /\ \/ rc.armed = 0 /\ rc.status = Triggered
             \/ /\ rc.armed \in rc.first..rc.last
                /\ rc.status = Triggered => rc.armed # rc.last

ComparisonRow(cp) ==
    cp = NoComparison \/
    /\ cp.revision > 0 /\ cp.last > 0 /\ cp.status \in {Triggered, NotTriggered}
    /\ (cp.armed = 0 /\ cp.status = Triggered) \/ cp.armed \in 1..cp.last

EpisodeRow(ep, cp, rc) ==
    ep = NoEpisode \/
    /\ ep.state \in EpisodeStates \ {"none"}
    /\ ep.last = 0 => /\ ep.state = "authority_rebase_required"
                      /\ rc.revision > 0 /\ rc.last = 0 /\ rc.status = "none"
    /\ ep.state = "triggered" <=> ep.id > 0
    /\ ep.state = "comparison_rebase_required" => cp # NoComparison
    /\ ep.state = "authority_rebase_required"  => rc # NoRecovery /\ rc.armed = 0
=============================================================================
