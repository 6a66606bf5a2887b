----------------------------- MODULE EntryVacuum -----------------------------
(***************************************************************************)
(* The Selection Entry Vacuum of a strategy group: one durable row that    *)
(* forbids new ENTRY while a selection is switched, missed, empty or       *)
(* paused (domain/strategy_entry_vacuum.py, drain_strategy_entry_vacuum.py *)
(* and the vacuum half of pg_instrument_selection_repository.py).          *)
(*                                                                         *)
(* The row is a record; the operators here are what the repository writes. *)
(* Fence and drain times are kept as the facts later steps ask of them:    *)
(* who opened the row, and which state its drain ended in.                 *)
(***************************************************************************)
EXTENDS Naturals

NoPeriod == 0     \* no generation, no period, the start of the day

\* States in which a row is the current vacuum of its group.  (The table also counts SUPERSEDED
\* and FAILED_CLOSED rows; the steps of a generic group leave none between transactions.)
CurrentStates == {"OPEN", "DRAINING_ENTRY", "RECONFIGURING", "RECOVERY_PENDING", "OWNER_PAUSED"}

\* first_blocker, as far as a later step reads it.
Blockers == {"ENTRY_DRAIN_REQUIRED", "AUTHORITY_GAP", "NO_SELECTION_READY_MEMBERS", "OWNER_PAUSED",
             "LATEST_VALID_SELECTION", "FAILED"}

NoVacuum == [state |-> "none", blocker |-> "none", period |-> NoPeriod, gen |-> NoPeriod,
             drained |-> "no", opened |-> "none", pause |-> 0]

\* A generation's fence is written OPEN and DRAINING_ENTRY in one transaction.
GenerationVacuum(p) ==
  [NoVacuum EXCEPT !.state = "DRAINING_ENTRY", !.blocker = "ENTRY_DRAIN_REQUIRED", !.period = p,
                   !.gen = p, !.opened = "GENERATION"]

GapVacuum(p) ==
  [NoVacuum EXCEPT !.state = "OPEN", !.blocker = "AUTHORITY_GAP", !.period = p, !.opened = "GAP"]

EmptyVacuum(p) ==
  [NoVacuum EXCEPT !.state = "OPEN", !.blocker = "NO_SELECTION_READY_MEMBERS", !.period = p,
                   !.opened = "EMPTY"]

\* An Owner pause without a vacuum opens one that belongs to no generation; its
\* period is the start of the day, its event keeps the version of the pause.
PauseVacuum(version, period) ==
  [NoVacuum EXCEPT !.state = "OPEN", !.blocker = "OWNER_PAUSED", !.period = period,
                   !.opened = "PAUSE", !.pause = version]

MarkDraining(v) == [v EXCEPT !.state = "DRAINING_ENTRY"]

MarkDrained(v, to) == [v EXCEPT !.state = to, !.drained = to]

\* entry_vacuum_has_drain_blockers: no ENTRY of the group is short of its protection.
NoDrainBlockers(ticket) == ticket = "none"

\* An ENTRY command nobody claimed yet is superseded by the drain itself.
PreDispatch(ticket) == ticket = "pending"

\* Where a drained vacuum goes: a paused one waits for the Owner, a generation's
\* one for its target, a gap for its continuity; an empty one is committed by the caller.
DrainTarget(v) ==
  CASE v.blocker = "OWNER_PAUSED" -> "OWNER_PAUSED"
    [] v.blocker # "OWNER_PAUSED" /\ v.gen # NoPeriod -> "RECONFIGURING"
    [] v.blocker = "AUTHORITY_GAP" /\ v.gen = NoPeriod -> "RECOVERY_PENDING"
    [] OTHER -> "DRAINING_ENTRY"

\* A vacuum handed to a newer generation keeps its fence and its drain.
Retargeted(v, p, blocker) ==
  [v EXCEPT !.state = "RECONFIGURING", !.blocker = blocker, !.gen = p, !.period = p]

RetargetedEmpty(v, p) ==
  [v EXCEPT !.state = "DRAINING_ENTRY", !.blocker = "NO_SELECTION_READY_MEMBERS",
            !.gen = NoPeriod, !.period = p]

\* Rows of strategy_entry_vacuums_current the table's checks admit: a drained state
\* has its drain, an open one has none, only a gap or a pause waits without a generation.
VacuumRow(v, periods, versions) ==
  \/ v = NoVacuum
  \/ /\ v.state \in CurrentStates /\ v.blocker \in Blockers
     /\ v.period \in periods \cup {NoPeriod} /\ v.gen \in periods \cup {NoPeriod}
     /\ v.opened \in {"GENERATION", "GAP", "EMPTY", "PAUSE"}
     /\ v.drained \in {"no", "RECONFIGURING", "RECOVERY_PENDING", "OWNER_PAUSED"}
     /\ v.pause \in versions \cup {0}
     /\ v.state = "OPEN" => v.drained = "no" /\ v.gen = NoPeriod
     /\ v.state \in {"RECONFIGURING", "RECOVERY_PENDING", "OWNER_PAUSED"} => v.drained # "no"
     /\ v.state = "RECONFIGURING" => v.gen # NoPeriod
     /\ v.state = "RECOVERY_PENDING" => v.gen = NoPeriod /\ v.blocker = "AUTHORITY_GAP"
     /\ v.state = "OWNER_PAUSED" => v.blocker = "OWNER_PAUSED"
     /\ v.opened = "PAUSE" <=> v.pause # 0

=============================================================================
