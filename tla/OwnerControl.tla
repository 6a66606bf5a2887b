----------------------------- MODULE OwnerControl -----------------------------
(***************************************************************************)
(* The Owner console: the handlers that pause and resume ENTRY, flatten     *)
(* every position, switch and retire Exit Profiles, pause a strategy and    *)
(* stage its Selection Mode; the two workers that carry a flatten through;  *)
(* and the Tickets, as far as these handlers read them.                     *)
(*                                                                          *)
(* A call is one HTTP request.  It is composed from what the console shows, *)
(* may be delayed, sent again with the same idempotency key, or cut off by  *)
(* a crash between two of its transactions.  What a handler reads without a *)
(* lock and what it writes are separate steps.                              *)
(***************************************************************************)
EXTENDS Naturals, Sequences

CONSTANTS
    Key,           \* idempotency keys
    Slot,          \* requests the API serves at the same time
    Ticket,        \* Tickets of the account
    Held,          \* those that hold a protected position at first
    Event,         \* Event Specs with an Exit Profile binding
    Profile,       \* Exit Profiles
    None,
    Scenes,        \* the parts of the console the instance uses, within AllScenes
    CallLimit,     \* bound: requests sent, by scene
    MaxDisturbances, \* bound: commands, closes and incidents that come by themselves
    MaxPeriod      \* bound: selection periods

AllScenes == {"entry", "exit", "selection"}

ASSUME OwnerControlAssumption ==
    /\ Scenes \subseteq AllScenes
    /\ CallLimit \in [AllScenes -> Nat] /\ MaxDisturbances \in Nat /\ MaxPeriod \in Nat
    /\ Key \subseteq Nat /\ Slot \subseteq Nat

VARIABLES
    scene,      \* the part of the console in use
    calls,      \* requests being served, by slot
    auth,       \* owner_authorizations, by idempotency key
    effects,    \* how often the requests of a key have changed anything
    policy,     \* owner_policy_current: version and new_entry_submit_enabled
    ops,        \* owner_control_operations_current
    ticket,     \* Tickets: stage and the policy version they were issued under
    issue,      \* the issuing transaction in flight: its Ticket and the version it read
    incidents,  \* Tickets with an open incident
    binding,    \* event_exit_profile_binding_current
    profiles,   \* exit_policies: status
    authority,  \* holder of EXIT_PROFILE_AUTHORITY_WRITE_LOCK
    strategy,   \* strategy_entry_controls_current
    selection,  \* strategy_selection_control_current
    vacuum,     \* whether a Vacuum is open
    period,     \* the current selection period
    used        \* requests and disturbances so far

entryVars == <<policy, ops, ticket, issue, incidents>>
exitVars == <<binding, profiles, authority>>
selectionVars == <<strategy, selection, vacuum, period>>
consoleVars == <<calls, auth, effects>>
vars == <<scene, consoleVars, entryVars, exitVars, selectionVars, used>>

\* Statuses of the aggregate, as far as the handlers tell them apart.  "exiting" is an exit
\* that is pending, accepted or unknown, "cleanup" a cleanup cancel that was rejected or is
\* of unknown outcome.
Stages == {"none", "issued", "sent", "open", "busy", "exiting", "exit_rejected", "reconciling",
           "cleanup", "settling", "reviewing", "terminal"}

OperationStates == {"VALIDATING", "PENDING", "BLOCKED", "EXITS_REQUESTED", "EXIT_IN_PROGRESS",
                    "RECONCILIATION_PENDING", "SETTLEMENT_PENDING", "REVIEW_PENDING",
                    "NEEDS_INTERVENTION", "COMPLETED"}
NoCall == [body |-> None, key |-> None, step |-> "idle", seen |-> None]

\* Request bodies: what is asked, the version the Owner was shown, and of what.
Bodies ==
    [kind : {"entry_pause", "entry_resume", "owner_flatten_all", "strategy_pause", "strategy_resume"},
     expected : Nat, arg : {None}]
    \cup [kind : {"exit_profile_bind"}, expected : Nat, arg : [event : Event, profile : Profile]]
    \cup [kind : {"exit_profile_retire"}, expected : Nat, arg : [profile : Profile]]
    \cup [kind : {"selection_dynamic", "selection_static"}, expected : Nat,
          arg : [version : Nat, anchor : Nat, epoch : Key \cup {None}]]

ASSUME NoneAssumption == None \notin Bodies \cup Key

Init ==
    /\ scene \in Scenes
    /\ calls = [s \in Slot |-> NoCall]
    /\ auth = [k \in Key |-> None]
    /\ effects = [k \in Key |-> 0]
    /\ policy \in [version : {1}, enabled : IF scene = "entry" THEN BOOLEAN ELSE {TRUE}]
    /\ ops = <<>>
    /\ ticket = [t \in Ticket |-> [stage |-> IF scene # "entry" THEN "terminal"
                                              ELSE IF t \in Held THEN "open" ELSE "none",
                                    policy |-> 0]]
    /\ issue = None /\ incidents = {}
    /\ \E p \in Profile : binding = [e \in Event |-> [profile |-> p, version |-> 1]]
    /\ profiles = [p \in Profile |-> "active"]
    /\ authority = None
    /\ strategy = [version |-> 1, enabled |-> TRUE]
    /\ selection = [mode |-> "static_baseline", pending |-> None, intent |-> None,
                    epoch |-> None, version |-> 1, generation |-> "none", baseline |-> FALSE]
    /\ vacuum = FALSE /\ period = 1
    /\ used = [calls |-> 0, disturbances |-> 0]

-----------------------------------------------------------------------------
(* Requests. *)

StageOf(t) == ticket[t].stage
Active(t) == StageOf(t) \notin {"none", "terminal"}

ClassifyControlledExitStatus(stage) ==
    CASE stage = "open" -> "eligible"
      [] stage \in {"exiting", "reconciling", "settling", "reviewing"} -> "in_progress"
      [] stage = "terminal" -> "terminal"
      [] OTHER -> "blocked"

\* What the Owner is shown before a flatten and what the digest is taken of.
PreviewFlattenAll ==
    [version |-> policy.version, enabled |-> policy.enabled,
     states |-> [t \in {u \in Ticket : Active(u)} |-> ClassifyControlledExitStatus(StageOf(t))]]

Body(kind, expected, arg) == [kind |-> kind, expected |-> expected, arg |-> arg]

\* The versions and identities the console's pages show.
ReadControls == [policy |-> policy.version, strategy |-> strategy.version]
ReadExitBindings == [e \in Event |-> binding[e].version]
NextAnchor == period + 1
PreviewSelection ==
    [version |-> selection.version, anchor |-> NextAnchor, epoch |-> selection.epoch]

\* Bodies the Owner may compose from what is shown now.
ControlWriteBodies ==
    CASE scene = "entry" ->
           {Body(kind, ReadControls.policy, None) : kind \in {"entry_pause", "entry_resume"}}
           \cup {Body("owner_flatten_all", 0, None)}
      [] scene = "exit" ->
           {Body("exit_profile_bind", ReadExitBindings[e], [event |-> e, profile |-> p]) :
              e \in Event, p \in Profile}
           \cup {Body("exit_profile_retire", 1, [profile |-> p]) : p \in Profile}
      [] scene = "selection" ->
           {Body(kind, ReadControls.strategy, None) : kind \in {"strategy_pause", "strategy_resume"}}
           \cup {Body(kind, PreviewSelection.version, PreviewSelection) :
                   kind \in {"selection_dynamic", "selection_static"}}

NeedsStepUp(kind) == kind \notin {"entry_pause", "strategy_pause"}

\* Slots and keys are alike: the first free slot and the first fresh key stand for any.
FirstIdle(s) == calls[s] = NoCall /\ \A u \in Slot : u < s => calls[u] # NoCall
KeysInUse == {k \in Key : auth[k] # None \/ \E s \in Slot : calls[s].key = k}
FirstFresh(k) == k \in KeysInUse \/ \A j \in Key : j < k => j \in KeysInUse

Deliver(s, k, body) ==
    /\ FirstIdle(s) /\ FirstFresh(k) /\ used.calls < CallLimit[scene]
    /\ used' = [used EXCEPT !.calls = @ + 1]
    /\ calls' = [calls EXCEPT ![s] = [body |-> body, key |-> k, step |-> "read", seen |-> None]]
    /\ UNCHANGED <<scene, auth, effects, entryVars, exitVars, selectionVars>>

Submit(s, k) == \E body \in ControlWriteBodies : Deliver(s, k, body)

\* The client or the Owner sends again what is still being served or has been authorized.
Resend(s, k) ==
    \E body \in {calls[u].body : u \in {v \in Slot : calls[v].key = k}} \cup ({auth[k]} \ {None}) :
        Deliver(s, k, body)

Reply(s) == calls' = [calls EXCEPT ![s] = NoCall]
GoTo(s, step) == calls' = [calls EXCEPT ![s].step = step]
Serving(s, step, kinds) == calls[s].step = step /\ calls[s].body.kind \in kinds

\* A proof that is wrong, expired or used: the handler has changed nothing yet.
RefuseStepUp(s) ==
    /\ calls[s].step = "read" /\ NeedsStepUp(calls[s].body.kind)
    /\ Reply(s)
    /\ UNCHANGED <<scene, auth, effects, entryVars, exitVars, selectionVars, used>>

\* The API stops between two transactions of a handler; one that stops before the first
\* commit leaves what a refused request leaves.
Crash(s) ==
    /\ calls[s].step = "freeze"
    /\ Reply(s)
    /\ UNCHANGED <<scene, auth, effects, entryVars, exitVars, selectionVars, used>>

\* Mutant: the idempotency key is not unique.
DuplicateKeysAccepted(s) == TRUE

\* owner_authorizations has one row per key: a second insert fails the transaction.
AddAuthorizationSucceeds(s) == auth[calls[s].key] = None

Authorize(s) ==
    /\ auth' = [auth EXCEPT ![calls[s].key] = calls[s].body]
    /\ effects' = [effects EXCEPT ![calls[s].key] = @ + 1]

ReplyWithoutEffect(s) ==
    /\ Reply(s)
    /\ UNCHANGED <<auth, effects>>

-----------------------------------------------------------------------------
(* Global ENTRY. *)

\* Commands prepared, claimed, started or of unknown outcome; the command of an exit or of a
\* cleanup may have its answer already.
Unresolved == {t \in Ticket : StageOf(t) \in {"issued", "sent", "busy"}}
MayBeUnresolved == {t \in Ticket : StageOf(t) \in {"exiting", "reconciling", "cleanup"}}

ResumeBlockers ==
    IF incidents # {} \/ Unresolved # {} THEN {TRUE}
    ELSE IF MayBeUnresolved # {} THEN BOOLEAN ELSE {FALSE}

\* set_global_entry_state up to its first write: nothing is locked yet.
ReadGlobalEntryState(s) ==
    /\ Serving(s, "read", {"entry_pause", "entry_resume"})
    /\ LET body == calls[s].body
           enabled == body.kind = "entry_resume"
       IN  \E blocked \in ResumeBlockers :
             IF \/ auth[calls[s].key] # None
                \/ policy.version # body.expected
                \/ policy.enabled = enabled
                \/ enabled /\ blocked
             THEN Reply(s) ELSE GoTo(s, "write")
    /\ UNCHANGED <<scene, auth, effects, entryVars, exitVars, selectionVars, used>>

\* A resume ends what the pause of an operation has promised.
Unfenced(enabled) ==
    IF enabled THEN [i \in DOMAIN ops |-> [ops[i] EXCEPT !.fenced = FALSE]] ELSE ops

CommitGlobalEntryState(s) ==
    /\ Serving(s, "write", {"entry_pause", "entry_resume"})
    /\ LET body == calls[s].body
           enabled == body.kind = "entry_resume"
       IN  IF AddAuthorizationSucceeds(s) /\ policy.version = body.expected
           THEN /\ policy' = [version |-> policy.version + 1, enabled |-> enabled]
                /\ ops' = Unfenced(enabled)
                /\ Authorize(s) /\ Reply(s)
           ELSE ReplyWithoutEffect(s) /\ UNCHANGED <<policy, ops>>
    /\ UNCHANGED <<scene, ticket, issue, incidents, exitVars, selectionVars, used>>

-----------------------------------------------------------------------------
(* Flatten all. *)

OperationOf(k) == CHOOSE i \in DOMAIN ops : ops[i].key = k

\* The digest of the preview the Owner was shown is part of the body.  It is compared before
\* the key is looked up, so a body that is served at all carries the digest of this moment;
\* under a known key that is the digest the operation began with.
ReadFlattenAll(s) ==
    /\ Serving(s, "read", {"owner_flatten_all"})
    /\ LET existing == auth[calls[s].key]
       IN  \/ Reply(s)
          \/ /\ existing = None
             /\ calls' = [calls EXCEPT ![s].step = "write", ![s].seen = PreviewFlattenAll]
          \/ /\ existing = calls[s].body
             /\ ops[OperationOf(calls[s].key)].digest = PreviewFlattenAll
             /\ GoTo(s, "freeze")
    /\ UNCHANGED <<scene, auth, effects, entryVars, exitVars, selectionVars, used>>

\* begin_flatten_all: the pause and the operation are one transaction.  ENTRY that the
\* preview saw paused is not looked at again.
BeginFlattenAll(s) ==
    /\ Serving(s, "write", {"owner_flatten_all"})
    /\ LET preview == calls[s].seen
           paused == [version |-> policy.version + 1, enabled |-> FALSE]
       IN  IF AddAuthorizationSucceeds(s) /\ (preview.enabled => policy.version = preview.version)
           THEN /\ policy' = IF preview.enabled THEN paused ELSE policy
                /\ ops' = Append(ops, [key |-> calls[s].key, state |-> "VALIDATING",
                                       targets |-> {}, digest |-> preview,
                                       fenced |-> preview.enabled \/ ~ policy.enabled])
                /\ Authorize(s)
                /\ GoTo(s, "freeze")
           ELSE ReplyWithoutEffect(s) /\ UNCHANGED <<policy, ops>>
    /\ UNCHANGED <<scene, ticket, issue, incidents, exitVars, selectionVars, used>>

\* Mutant: the targets are the Tickets the Owner was shown.
TargetsFromPreview(i) == DOMAIN ops[i].digest.states

\* The Tickets that are active after the pause.
FlattenTargets(i) == {t \in Ticket : Active(t)}

\* freeze_flatten_targets, in a transaction of its own.  After it a request with the same
\* key changes nothing, and the digest is dropped here.
FreezeFlattenTargets(s) ==
    /\ Serving(s, "freeze", {"owner_flatten_all"})
    /\ LET i == OperationOf(calls[s].key)
           targets == FlattenTargets(i)
           state == IF \E t \in targets : ClassifyControlledExitStatus(StageOf(t)) = "blocked"
                    THEN "BLOCKED"
                    ELSE IF targets = {} THEN "COMPLETED" ELSE "PENDING"
       IN  ops' = IF ops[i].state # "VALIDATING" THEN ops
                  ELSE [ops EXCEPT ![i].state = state, ![i].targets = targets, ![i].digest = None]
    /\ calls' = [calls EXCEPT ![s] = NoCall]
    /\ UNCHANGED <<scene, auth, effects, policy, ticket, issue, incidents, exitVars, selectionVars, used>>

\* The operations are in the order of created_at_ms.
OldestIn(states) ==
    LET is == {i \in DOMAIN ops : ops[i].state \in states}
    IN  {i \in is : \A j \in is : i <= j}

\* The Lifecycle worker: all targets are classified under their locks first.
ConsumePendingFlatten ==
    \E i \in OldestIn({"PENDING"}) :
      /\ LET class(t) == ClassifyControlledExitStatus(StageOf(t))
         IN  IF \E t \in ops[i].targets : class(t) = "blocked"
             THEN ops' = [ops EXCEPT ![i].state = "BLOCKED"] /\ UNCHANGED ticket
             ELSE /\ ops' = [ops EXCEPT ![i].state = "EXITS_REQUESTED"]
                  /\ ticket' = [t \in Ticket |->
                                  IF t \in ops[i].targets /\ class(t) = "eligible"
                                  THEN [ticket[t] EXCEPT !.stage = "exiting"] ELSE ticket[t]]
      /\ UNCHANGED <<scene, consoleVars, policy, issue, incidents, exitVars, selectionVars, used>>

\* Mutant: an operation that needs intervention is left to the Owner.
ProgressableWithoutIntervention ==
    OldestIn({"EXITS_REQUESTED", "EXIT_IN_PROGRESS", "RECONCILIATION_PENDING",
              "SETTLEMENT_PENDING", "REVIEW_PENDING"})

GetProgressableOperation ==
    OldestIn({"EXITS_REQUESTED", "EXIT_IN_PROGRESS", "RECONCILIATION_PENDING",
              "SETTLEMENT_PENDING", "REVIEW_PENDING", "NEEDS_INTERVENTION"})

ProgressTarget(state, stages) ==
    LET flat == stages \subseteq {"settling", "reviewing", "terminal"}
    IN  CASE state = "EXITS_REQUESTED" ->
               IF flat THEN "RECONCILIATION_PENDING" ELSE "EXIT_IN_PROGRESS"
          [] state = "EXIT_IN_PROGRESS" -> IF flat THEN "RECONCILIATION_PENDING" ELSE state
          [] state = "RECONCILIATION_PENDING" -> IF flat THEN "SETTLEMENT_PENDING" ELSE state
          [] state = "SETTLEMENT_PENDING" ->
               IF stages \subseteq {"reviewing", "terminal"} THEN "REVIEW_PENDING" ELSE state
          [] state \in {"REVIEW_PENDING", "NEEDS_INTERVENTION"} ->
               IF stages \subseteq {"terminal"} THEN "COMPLETED" ELSE state

\* The Reconciliation worker: one step of the oldest operation under way.
AdvanceFlattenOperation ==
    \E i \in GetProgressableOperation :
      /\ LET targets == ops[i].targets
             next == IF targets \cap incidents # {} THEN "NEEDS_INTERVENTION"
                     ELSE ProgressTarget(ops[i].state, {StageOf(t) : t \in targets})
         IN  /\ next # ops[i].state
             /\ ops' = [ops EXCEPT ![i].state = next]
      /\ UNCHANGED <<scene, consoleVars, policy, ticket, issue, incidents, exitVars,
                     selectionVars, used>>

-----------------------------------------------------------------------------
(* Tickets, by the contract of TicketLife. *)

TicketStep(t, from, to) ==
    /\ StageOf(t) \in from
    /\ ticket' = [ticket EXCEPT ![t].stage = to]
    /\ UNCHANGED <<scene, consoleVars, policy, ops, issue, incidents, exitVars, selectionVars, used>>

\* The issuing transaction reads the policy without a lock and commits later.
ReadOwnerPolicy(t) ==
    /\ issue = None /\ policy.enabled
    /\ StageOf(t) = "none" /\ \A u \in Ticket : StageOf(u) \notin {"issued", "sent"}
    /\ issue' = [ticket |-> t, policy |-> policy.version]
    /\ UNCHANGED <<scene, consoleVars, policy, ops, ticket, incidents, exitVars, selectionVars, used>>

IssueTicket ==
    /\ issue # None
    /\ ticket' = [ticket EXCEPT ![issue.ticket] = [stage |-> "issued", policy |-> issue.policy]]
    /\ issue' = None
    /\ UNCHANGED <<scene, consoleVars, policy, ops, incidents, exitVars, selectionVars, used>>

PolicyAllowsDispatch(t) == policy.enabled /\ policy.version = ticket[t].policy

DispatchEntry(t) == PolicyAllowsDispatch(t) /\ TicketStep(t, {"issued"}, "sent")
RefuseDispatch(t) == TicketStep(t, {"issued"}, "terminal")
EntryAbsent(t) == TicketStep(t, {"sent"}, "terminal")
PositionProtected(t) == TicketStep(t, {"sent"}, "open")
MaintenanceDone(t) == t \notin incidents /\ TicketStep(t, {"busy"}, "open")
Settle(t) == TicketStep(t, {"settling"}, "reviewing")
Review(t) == TicketStep(t, {"reviewing"}, "terminal")

\* The venue has no position left: the exit filled, or a stop did after a rejected exit.
PositionFlat(t) == TicketStep(t, {"exiting", "exit_rejected"}, "reconciling")

\* The venue refuses the exit, or it is found absent after an unknown outcome, which closes
\* that incident.  No worker asks for another exit.
ExitRejected(t) ==
    /\ StageOf(t) = "exiting"
    /\ ticket' = [ticket EXCEPT ![t].stage = "exit_rejected"]
    /\ \/ incidents' = incidents \cup {t}
       \/ t \in incidents /\ incidents' = incidents \ {t}
    /\ UNCHANGED <<scene, consoleVars, policy, ops, issue, exitVars, selectionVars, used>>

\* A cleanup cancel that failed is found absent, or its order is found and cancelled again.
CleanupResumes(t) == TicketStep(t, {"cleanup"}, "reconciling")

\* Nothing is left at the venue: every incident of the Ticket is resolved.
ReconciliationMatched(t) ==
    /\ StageOf(t) = "reconciling"
    /\ ticket' = [ticket EXCEPT ![t].stage = "settling"]
    /\ incidents' = incidents \ {t}
    /\ UNCHANGED <<scene, consoleVars, policy, ops, issue, exitVars, selectionVars, used>>

Disturb == used.disturbances < MaxDisturbances /\ used' = [used EXCEPT !.disturbances = @ + 1]

\* The position needs a command of its own (a Runner stop, say), leaves by its Exit Profile,
\* or is closed from outside; a cleanup cancel fails.
DisturbPosition(t) ==
    /\ Disturb
    /\ \/ /\ StageOf(t) = "open"
          /\ \E stage \in {"busy", "exiting"} : ticket' = [ticket EXCEPT ![t].stage = stage]
          /\ UNCHANGED incidents
       \/ /\ StageOf(t) \in {"open", "busy"}
          /\ ticket' = [ticket EXCEPT ![t].stage = "reconciling"]
          /\ incidents' = incidents \cup {t}
       \/ /\ StageOf(t) = "reconciling"
          /\ ticket' = [ticket EXCEPT ![t].stage = "cleanup"]
          /\ incidents' = incidents \cup {t}
    /\ UNCHANGED <<scene, consoleVars, policy, ops, issue, exitVars, selectionVars>>

OpenIncident(t) ==
    /\ Disturb
    /\ t \notin incidents /\ StageOf(t) \in {"sent", "open", "busy", "exiting", "reconciling"}
    /\ incidents' = incidents \cup {t}
    /\ UNCHANGED <<scene, consoleVars, policy, ops, ticket, issue, exitVars, selectionVars>>

\* The incident of a rejected exit, of a close from outside and of a foreign order stays
\* open until ReconciliationMatched.
ResolveIncident(t) ==
    /\ t \in incidents /\ StageOf(t) \notin {"exit_rejected", "reconciling"}
    /\ incidents' = incidents \ {t}
    /\ UNCHANGED <<scene, consoleVars, policy, ops, ticket, issue, exitVars, selectionVars, used>>

-----------------------------------------------------------------------------
(* Exit Profiles: binding and retirement. *)

\* acquire_authority_write_lock: waits, and is held to the end of the transaction.
AuthorityFree == authority = None

BindBlocked(body) ==
    \/ binding[body.arg.event].version # body.expected
    \/ profiles[body.arg.profile] # "active"

RetireBlocked(body) ==
    \/ profiles[body.arg.profile] # "active"
    \/ \E e \in Event : binding[e].profile = body.arg.profile

ExitProfileBlocked(body) ==
    IF body.kind = "exit_profile_bind" THEN BindBlocked(body) ELSE RetireBlocked(body)

\* Everything the handler checks.
ReadExitProfileAuthority(s) ==
    /\ Serving(s, "read", {"exit_profile_bind", "exit_profile_retire"})
    /\ AuthorityFree
    /\ IF auth[calls[s].key] # None \/ ExitProfileBlocked(calls[s].body)
       THEN Reply(s) /\ UNCHANGED authority
       ELSE GoTo(s, "write") /\ authority' = s
    /\ UNCHANGED <<scene, auth, effects, entryVars, binding, profiles, selectionVars, used>>

SwitchCurrentBinding(e, p) ==
    /\ binding' = [binding EXCEPT ![e] = [profile |-> p, version |-> @.version + 1]]
    /\ UNCHANGED profiles

RetireProfile(p) ==
    /\ profiles' = [profiles EXCEPT ![p] = "retired"]
    /\ UNCHANGED binding

CommitExitProfile(s) ==
    /\ Serving(s, "write", {"exit_profile_bind", "exit_profile_retire"})
    /\ LET body == calls[s].body
           arg == body.arg
       IN  IF ~ AddAuthorizationSucceeds(s)
           THEN ReplyWithoutEffect(s) /\ UNCHANGED <<binding, profiles>>
           ELSE /\ Authorize(s) /\ Reply(s)
                /\ \/ body.kind = "exit_profile_bind" /\ SwitchCurrentBinding(arg.event, arg.profile)
                   \/ body.kind = "exit_profile_retire" /\ RetireProfile(arg.profile)
    /\ authority' = IF authority = s THEN None ELSE authority
    /\ UNCHANGED <<scene, entryVars, selectionVars, used>>

-----------------------------------------------------------------------------
(* Strategy pause and Selection Mode. *)

StrategyKinds == {"strategy_pause", "strategy_resume"}

\* set_strategy_entry_state looks the key up before it locks the row.
ReadStrategyAuthorization(s) ==
    /\ Serving(s, "read", StrategyKinds)
    /\ calls' = [calls EXCEPT ![s].step = "write", ![s].seen = auth[calls[s].key]]
    /\ UNCHANGED <<scene, auth, effects, entryVars, exitVars, selectionVars, used>>

TransitionStrategyEntryControl(enabled) ==
    [version |-> strategy.version + 1, enabled |-> enabled]

\* A pause opens a Vacuum unless one is current.
OpenOwnerPausedEntryVacuum(enabled) == vacuum \/ ~ enabled

CommitStrategyEntryState(s) ==
    /\ Serving(s, "write", StrategyKinds)
    /\ LET enabled == calls[s].body.kind = "strategy_resume"
       IN  IF /\ calls[s].seen = None
              /\ strategy.version = calls[s].body.expected /\ strategy.enabled # enabled
              /\ AddAuthorizationSucceeds(s)
           THEN /\ strategy' = TransitionStrategyEntryControl(enabled)
                /\ vacuum' = OpenOwnerPausedEntryVacuum(enabled)
                /\ Authorize(s) /\ Reply(s)
           ELSE ReplyWithoutEffect(s) /\ UNCHANGED <<strategy, vacuum>>
    /\ UNCHANGED <<scene, entryVars, exitVars, selection, period, used>>

\* An earlier Static intent may be replaced once its generation has failed, drained.
ReplacesFailedIntent ==
    /\ selection.pending = "static_baseline" /\ selection.generation = "failed"
    /\ strategy.enabled /\ vacuum

DynamicIntentAccepted(body) == selection.mode = "static_baseline" /\ selection.pending = None

StaticIntentAccepted(body) ==
    /\ selection.mode = "dynamic_selection" /\ selection.epoch = body.arg.epoch
    /\ selection.baseline
    /\ selection.pending = None \/ ReplacesFailedIntent

\* The rows of the strategy and of its Selection Control are locked throughout.
SelectionIntentAccepted(s) ==
    LET body == calls[s].body IN
    /\ auth[calls[s].key] = None
    /\ selection.version = body.expected /\ body.arg.anchor = NextAnchor
    /\ IF body.kind = "selection_dynamic"
       THEN DynamicIntentAccepted(body) ELSE StaticIntentAccepted(body)

\* The Static Universes of the moment are kept for a rollback, once.
StagedDynamic(k) ==
    [selection EXCEPT !.pending = "dynamic_selection", !.intent = k, !.epoch = k, !.version = @ + 1,
                      !.baseline = TRUE]

StagedStatic(k) ==
    [selection EXCEPT !.pending = "static_baseline", !.intent = k, !.generation = "none"]

\* A Dynamic intent is a new epoch and a new version; a Static one keeps both.
StageSelectionMode(s) ==
    /\ Serving(s, "read", {"selection_dynamic", "selection_static"})
    /\ IF SelectionIntentAccepted(s)
       THEN /\ selection' = IF calls[s].body.kind = "selection_dynamic"
                            THEN StagedDynamic(calls[s].key) ELSE StagedStatic(calls[s].key)
            /\ Authorize(s) /\ Reply(s)
       ELSE ReplyWithoutEffect(s) /\ UNCHANGED selection
    /\ UNCHANGED <<scene, entryVars, exitVars, strategy, vacuum, period, used>>

\* The coordinator carries a pending Mode out or, for Static, fails closed.
ActivateSelectionMode ==
    /\ selection.pending # None /\ strategy.enabled
    /\ selection' = [selection EXCEPT !.mode = selection.pending, !.pending = None, !.intent = None,
                       !.version = @ + 1, !.generation = "none",
                       !.epoch = IF selection.pending = "static_baseline" THEN None ELSE @]
    /\ vacuum' = FALSE
    /\ UNCHANGED <<scene, consoleVars, entryVars, exitVars, strategy, period, used>>

FailStaticGeneration ==
    /\ selection.pending = "static_baseline" /\ selection.generation = "none"
    /\ selection' = [selection EXCEPT !.generation = "failed"]
    /\ vacuum' = TRUE
    /\ UNCHANGED <<scene, consoleVars, entryVars, exitVars, strategy, period, used>>

NextPeriod ==
    /\ scene = "selection" /\ period < MaxPeriod
    /\ period' = period + 1
    /\ UNCHANGED <<scene, consoleVars, entryVars, exitVars, strategy, selection, vacuum, used>>

-----------------------------------------------------------------------------
Next ==
    \/ \E s \in Slot, k \in Key : Submit(s, k) \/ Resend(s, k)
    \/ \E s \in Slot :
         \/ RefuseStepUp(s) \/ Crash(s)
         \/ ReadGlobalEntryState(s) \/ CommitGlobalEntryState(s)
         \/ ReadFlattenAll(s) \/ BeginFlattenAll(s) \/ FreezeFlattenTargets(s)
         \/ ReadExitProfileAuthority(s) \/ CommitExitProfile(s)
         \/ ReadStrategyAuthorization(s) \/ CommitStrategyEntryState(s) \/ StageSelectionMode(s)
    \/ ConsumePendingFlatten \/ AdvanceFlattenOperation
    \/ IssueTicket
    \/ \E t \in Ticket :
         \/ ReadOwnerPolicy(t) \/ DispatchEntry(t) \/ RefuseDispatch(t) \/ EntryAbsent(t)
         \/ PositionProtected(t) \/ DisturbPosition(t) \/ MaintenanceDone(t)
         \/ PositionFlat(t) \/ ExitRejected(t) \/ CleanupResumes(t) \/ ReconciliationMatched(t)
         \/ Settle(t) \/ Review(t)
         \/ OpenIncident(t) \/ ResolveIncident(t)
    \/ ActivateSelectionMode \/ FailStaticGeneration \/ NextPeriod

Spec == Init /\ [][Next]_vars

\* The two workers run on.  Nothing is assumed of the Owner, the market or the Tickets: an
\* exit may never fill, be rejected or miss its deadline, and an incident may stay open.
Fairness == WF_vars(ConsumePendingFlatten) /\ WF_vars(AdvanceFlattenOperation)

FairSpec == Spec /\ Fairness

-----------------------------------------------------------------------------
(* Properties. *)

\* A request takes effect at most once, however often and in whatever order it is
\* delivered and whichever requests run beside it: the authorization row is the only
\* thing that ties two deliveries of a flatten together.
NoSecondEffect == \A k \in Key : effects[k] <= 1

\* When a flatten has completed and ENTRY has not been resumed since it began, no
\* Ticket is exposed: not one that was being issued while the targets were frozen.
CompletedMeansFlat ==
    \A i \in DOMAIN ops :
        ops[i].state = "COMPLETED" /\ ops[i].fenced
          => \A t \in Ticket :
               StageOf(t) \notin {"sent", "open", "busy", "exiting", "exit_rejected"}

\* An operation whose targets are frozen and that has not ended.
Unfinished(i) ==
    i \in DOMAIN ops /\ ops[i].state \notin {"VALIDATING", "COMPLETED", "BLOCKED"}

\* A target of the operation or of an unfinished older one has not been closed.
WaitsForTicket(i) ==
    \E j \in DOMAIN ops :
        j <= i /\ Unfinished(j) /\ \E t \in ops[j].targets : StageOf(t) # "terminal"

\* A flatten comes to an end once its Tickets are closed, in spite of incidents they had
\* on the way and of operations that are older: what stays unfinished for good waits for a
\* Ticket, its own or an older operation's, that is never closed (an exit that was rejected
\* or missed its deadline, say).
FlattenEnds == \A i \in Key : <>[]Unfinished(i) => <>[]WaitsForTicket(i)
=============================================================================
