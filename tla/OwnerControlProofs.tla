------------------------- MODULE OwnerControlProofs -------------------------
(***************************************************************************)
(* Theorems about OwnerControl, for any number of requests, keys, Tickets,  *)
(* Event Specs and disturbances: a request takes effect at most once, and a *)
(* completed flatten leaves nothing exposed until ENTRY is resumed.         *)
(***************************************************************************)
EXTENDS OwnerControl, TLAPS, SequenceTheorems

Previews == [version : Nat, enabled : BOOLEAN,
             states : UNION {[S -> {"eligible", "in_progress", "terminal", "blocked"}] :
                               S \in SUBSET Ticket}]

Operations == [key : Key \cup {None}, state : OperationStates, targets : SUBSET Ticket,
               digest : Previews \cup Bodies \cup {None}, fenced : BOOLEAN]

CallRecords == [body : Bodies \cup {None}, key : Key \cup {None},
                step : {"idle", "read", "write", "freeze"},
                seen : Previews \cup Bodies \cup {None}]

\* A request that is being served has a body and a key.
CallsOK ==
    /\ calls \in [Slot -> CallRecords]
    /\ \A s \in Slot : \/ calls[s] = NoCall
                       \/ calls[s].step # "idle" /\ calls[s].body \in Bodies /\ calls[s].key \in Key

\* The authorization row of a key and the effects of its requests come together.
EffectsAuthorized ==
    /\ auth \in [Key -> Bodies \cup {None}]
    /\ effects \in [Key -> Nat]
    /\ \A k \in Key : effects[k] = IF auth[k] = None THEN 0 ELSE 1

EntryOK ==
    /\ policy \in [version : Nat, enabled : BOOLEAN]
    /\ ops \in Seq(Operations)
    /\ ticket \in [Ticket -> [stage : Stages, policy : Nat]]
    /\ issue \in {None} \cup [ticket : Ticket, policy : Nat]

ExitOK == binding \in [Event -> [profile : Profile, version : Nat]]

Selections ==
    [mode : {"static_baseline", "dynamic_selection"},
     pending : {"static_baseline", "dynamic_selection", None},
     intent : Key \cup {None}, epoch : Key \cup {None}, version : Nat,
     generation : {"none", "failed"}, baseline : BOOLEAN]

SelectionOK ==
    /\ strategy \in [version : Nat, enabled : BOOLEAN]
    /\ selection \in Selections
    /\ period \in Nat

Exposed == {t \in Ticket : StageOf(t) \in {"sent", "open", "busy", "exiting", "exit_rejected"}}

\* While the pause of an operation holds, ENTRY is off; once its targets are frozen they
\* include every exposed Ticket, and when it has completed there is none.
FencedFlatten ==
    \A i \in DOMAIN ops : ops[i].fenced =>
        /\ ~ policy.enabled
        /\ ops[i].state # "VALIDATING" => Exposed \subseteq ops[i].targets
        /\ ops[i].state = "COMPLETED" => Exposed = {}

IInv ==
    /\ scene \in AllScenes
    /\ CallsOK /\ EffectsAuthorized /\ EntryOK /\ ExitOK /\ SelectionOK /\ FencedFlatten

-----------------------------------------------------------------------------
(* Requests. *)

LEMMA InitInv == Init => IInv
<1> SUFFICES ASSUME Init PROVE IInv
    OBVIOUS
<1>1. scene \in AllScenes
      BY OwnerControlAssumption DEF Init
<1>2. CallsOK
      BY DEF Init, CallsOK, NoCall, CallRecords
<1>3. EffectsAuthorized
      BY DEF Init, EffectsAuthorized
<1>4. EntryOK
  <2>1. policy \in [version : Nat, enabled : BOOLEAN]
    <3>1. CASE scene = "entry"
          BY <3>1 DEF Init
    <3>2. CASE scene # "entry"
      <4>1. policy \in [version : {1}, enabled : {TRUE}]
            BY <3>2 DEF Init
      <4>2. policy = [version |-> 1, enabled |-> TRUE]
            BY <4>1
      <4> QED BY <4>2
    <3> QED BY <3>1, <3>2
  <2>2. ops \in Seq(Operations)
        BY DEF Init
  <2>3. ticket \in [Ticket -> [stage : Stages, policy : Nat]]
        BY DEF Init, Stages
  <2> QED BY <2>1, <2>2, <2>3 DEF EntryOK, Init
<1>5. ExitOK
      BY DEF Init, ExitOK
<1>6. SelectionOK
      BY DEF Init, SelectionOK, Selections
<1>7. FencedFlatten
      BY DEF Init, FencedFlatten
<1> QED BY <1>1, <1>2, <1>3, <1>4, <1>5, <1>6, <1>7 DEF IInv

\* What the console lets the Owner compose is a well-formed body.
LEMMA ComposedBodies == IInv => ControlWriteBodies \subseteq Bodies
<1> SUFFICES ASSUME IInv PROVE ControlWriteBodies \subseteq Bodies
    OBVIOUS
<1>1. CASE scene = "entry"
      BY <1>1 DEF ControlWriteBodies, Bodies, Body, ReadControls,
                  IInv, EntryOK
<1>2. CASE scene = "exit"
      BY <1>2 DEF ControlWriteBodies, Bodies, Body,
                  ReadExitBindings, IInv, ExitOK
<1>3. CASE scene = "selection"
      BY <1>3 DEF ControlWriteBodies, Bodies, Body, ReadControls,
                  PreviewSelection, NextAnchor, IInv, SelectionOK, Selections
<1> QED BY <1>1, <1>2, <1>3 DEF IInv, AllScenes

\* Taking a request, going on with it and replying to it keep the slots well-formed.
LEMMA CallUpdates ==
    ASSUME CallsOK, NEW s \in Slot
    PROVE  /\ Reply(s) => CallsOK'
           /\ \A step \in {"read", "write", "freeze"} :
                 calls[s].step # "idle" /\ GoTo(s, step) => CallsOK'
           /\ \A step \in {"read", "write", "freeze"}, seen \in Previews \cup Bodies \cup {None} :
                 /\ calls[s].step # "idle"
                 /\ calls' = [calls EXCEPT ![s].step = step, ![s].seen = seen]
                 => CallsOK'
           /\ \A body \in Bodies, k \in Key :
                 calls' = [calls EXCEPT ![s] = [body |-> body, key |-> k, step |-> "read",
                                                seen |-> None]]
                 => CallsOK'
<1>1. Reply(s) => CallsOK'
      BY DEF CallsOK, CallRecords, Reply, NoCall
<1>2. ASSUME NEW step \in {"read", "write", "freeze"}, calls[s].step # "idle", GoTo(s, step)
      PROVE  CallsOK'
      BY <1>2 DEF CallsOK, CallRecords, GoTo, NoCall
<1>3. ASSUME NEW step \in {"read", "write", "freeze"},
             NEW seen \in Previews \cup Bodies \cup {None}, calls[s].step # "idle",
             calls' = [calls EXCEPT ![s].step = step, ![s].seen = seen]
      PROVE  CallsOK'
  <2>1. calls' = [calls EXCEPT ![s] = [calls[s] EXCEPT !.step = step, !.seen = seen]]
        BY <1>3 DEF CallsOK
  <2>2. calls[s] \in CallRecords /\ calls[s].body \in Bodies /\ calls[s].key \in Key
        BY <1>3 DEF CallsOK, NoCall
  <2> DEFINE r == [calls[s] EXCEPT !.step = step, !.seen = seen]
  <2>3. r \in CallRecords /\ r.step # "idle" /\ r.body \in Bodies /\ r.key \in Key
        BY <2>2 DEF CallRecords
  <2> HIDE DEF r
  <2>4. calls' \in [Slot -> CallRecords]
        BY <2>1, <2>3 DEF CallsOK, r
  <2>5. \A u \in Slot : calls'[u] = IF u = s THEN r ELSE calls[u]
        BY <2>1 DEF CallsOK, r
  <2> QED BY <2>3, <2>4, <2>5 DEF CallsOK
<1>4. ASSUME NEW body \in Bodies, NEW k \in Key,
             calls' = [calls EXCEPT ![s] = [body |-> body, key |-> k, step |-> "read",
                                            seen |-> None]]
      PROVE  CallsOK'
      BY <1>4 DEF CallsOK, CallRecords
<1> QED BY <1>1, <1>2, <1>3, <1>4

\* An authorization is recorded for a key that has none, and counts one effect.
LEMMA AuthorizeCounts ==
    ASSUME CallsOK, EffectsAuthorized, NEW s \in Slot, calls[s].step # "idle",
           AddAuthorizationSucceeds(s), Authorize(s)
    PROVE  EffectsAuthorized'
<1>1. calls[s].body \in Bodies /\ calls[s].body # None /\ calls[s].key \in Key
      BY NoneAssumption DEF CallsOK, NoCall
<1> QED BY <1>1 DEF EffectsAuthorized, Authorize, AddAuthorizationSucceeds

-----------------------------------------------------------------------------
(* Exposure under a pause. *)

\* A step that leaves the pause and the operations alone and exposes no Ticket.
LEMMA FencedFrame ==
    ASSUME FencedFlatten, UNCHANGED <<policy, ops>>, Exposed' \subseteq Exposed
    PROVE  FencedFlatten'
BY DEF FencedFlatten

\* While ENTRY is on no operation is fenced, so a Ticket may become exposed.
LEMMA UnfencedFrame ==
    ASSUME FencedFlatten, policy.enabled, UNCHANGED <<policy, ops>>
    PROVE  FencedFlatten'
BY DEF FencedFlatten

\* A step of one Ticket from one stage to another that is not more exposed.
LEMMA StageStep ==
    ASSUME EntryOK, FencedFlatten, NEW t \in Ticket, NEW stage \in Stages,
           ticket' = [ticket EXCEPT ![t].stage = stage],
           UNCHANGED <<policy, ops, issue>>,
           \/ t \in Exposed
           \/ stage \notin {"sent", "open", "busy", "exiting", "exit_rejected"}
           \/ policy.enabled
    PROVE  EntryOK' /\ FencedFlatten'
<1>1. EntryOK'
      BY DEF EntryOK
<1>2. CASE policy.enabled
      BY <1>1, <1>2, UnfencedFrame
<1>3. CASE t \in Exposed \/ stage \notin {"sent", "open", "busy", "exiting", "exit_rejected"}
  <2>1. Exposed' \subseteq Exposed
        BY <1>3 DEF Exposed, StageOf, EntryOK
  <2> QED BY <1>1, <2>1, FencedFrame
<1> QED BY <1>1, <1>2, <1>3

LEMMA TicketSteps ==
    ASSUME IInv, NEW t \in Ticket,
           \/ DispatchEntry(t) \/ RefuseDispatch(t) \/ EntryAbsent(t)
           \/ PositionProtected(t) \/ DisturbPosition(t) \/ MaintenanceDone(t)
           \/ PositionFlat(t) \/ ExitRejected(t) \/ CleanupResumes(t)
           \/ ReconciliationMatched(t) \/ Settle(t) \/ Review(t)
    PROVE  IInv'
<1> USE DEF IInv
<1>1. EntryOK' /\ FencedFlatten'
  <2>1. ASSUME NEW from, NEW to \in Stages, TicketStep(t, from, to),
               \/ from \subseteq {"sent", "open", "busy", "exiting", "exit_rejected"}
               \/ to \notin {"sent", "open", "busy", "exiting", "exit_rejected"}
               \/ policy.enabled
        PROVE  EntryOK' /\ FencedFlatten'
        BY <2>1, StageStep DEF TicketStep, Exposed
  <2>2. CASE DispatchEntry(t)
        BY <2>1, <2>2 DEF DispatchEntry, PolicyAllowsDispatch, Stages
  <2>3. CASE DisturbPosition(t)
        BY <2>3, StageStep DEF DisturbPosition, Exposed, Stages
  <2>4. CASE RefuseDispatch(t) \/ EntryAbsent(t) \/ PositionProtected(t) \/ MaintenanceDone(t)
             \/ PositionFlat(t) \/ CleanupResumes(t) \/ Settle(t) \/ Review(t)
        BY <2>1, <2>4 DEF RefuseDispatch, EntryAbsent, PositionProtected, MaintenanceDone,
                          PositionFlat, CleanupResumes, Settle, Review, Stages
  <2>5. CASE ExitRejected(t) \/ ReconciliationMatched(t)
        BY <2>5, StageStep DEF ExitRejected, ReconciliationMatched, Exposed, Stages
  <2> QED BY <2>2, <2>3, <2>4, <2>5
<1>2. UNCHANGED <<scene, consoleVars, exitVars, selectionVars>>
      BY DEF DispatchEntry, RefuseDispatch, EntryAbsent, PositionProtected, DisturbPosition,
             MaintenanceDone, PositionFlat, ExitRejected, CleanupResumes, ReconciliationMatched,
             Settle, Review, TicketStep
<1>3. CallsOK' /\ EffectsAuthorized' /\ ExitOK' /\ SelectionOK'
      BY <1>2 DEF consoleVars, exitVars, selectionVars, CallsOK, EffectsAuthorized, ExitOK,
                  SelectionOK
<1> QED BY <1>1, <1>2, <1>3

\* Issuing exposes nothing: the Ticket's ENTRY has not been sent.
LEMMA IssueSteps ==
    ASSUME IInv,
           \/ IssueTicket
           \/ \E t \in Ticket : ReadOwnerPolicy(t) \/ OpenIncident(t) \/ ResolveIncident(t)
    PROVE  IInv'
<1> USE DEF IInv
<1>1. UNCHANGED <<scene, consoleVars, policy, ops, exitVars, selectionVars>>
      BY DEF IssueTicket, ReadOwnerPolicy, OpenIncident, ResolveIncident
<1>2. EntryOK' /\ Exposed' \subseteq Exposed
  <2>1. CASE IssueTicket
    <3>1. issue \in [ticket : Ticket, policy : Nat]
          BY <2>1 DEF IssueTicket, EntryOK
    <3>2. issue.ticket \in Ticket /\ issue.policy \in Nat
          BY <3>1
    <3>3. ticket' = [ticket EXCEPT ![issue.ticket] = [stage |-> "issued", policy |-> issue.policy]]
          /\ issue' = None
          BY <2>1 DEF IssueTicket
    <3>4. EntryOK'
          BY <1>1, <3>2, <3>3 DEF EntryOK, Stages
    <3>5. Exposed' \subseteq Exposed
          BY <3>2, <3>3 DEF EntryOK, Exposed, StageOf
    <3> QED BY <3>4, <3>5
  <2>2. ASSUME NEW t \in Ticket, ReadOwnerPolicy(t)
        PROVE  EntryOK' /\ Exposed' \subseteq Exposed
        BY <2>2 DEF ReadOwnerPolicy, EntryOK, Exposed, StageOf
  <2>3. ASSUME NEW t \in Ticket, OpenIncident(t) \/ ResolveIncident(t)
        PROVE  EntryOK' /\ Exposed' \subseteq Exposed
        BY <2>3 DEF OpenIncident, ResolveIncident, EntryOK, Exposed, StageOf
  <2> QED BY <2>1, <2>2, <2>3
<1>4. CallsOK' /\ EffectsAuthorized' /\ ExitOK' /\ SelectionOK'
      BY <1>1 DEF consoleVars, exitVars, selectionVars, CallsOK, EffectsAuthorized, ExitOK,
                  SelectionOK
<1> QED BY <1>1, <1>2, <1>4, FencedFrame

-----------------------------------------------------------------------------
(* Handlers. *)

\* A step of the console alone.
LEMMA ConsoleFrame ==
    ASSUME IInv, CallsOK',
           UNCHANGED <<scene, auth, effects, entryVars, binding, selectionVars>>
    PROVE  IInv'
<1> USE DEF IInv
<1>1. UNCHANGED <<scene, auth, effects, policy, ops, ticket, issue, binding, strategy,
                  selection, period>>
      BY DEF entryVars, selectionVars
<1>2. EffectsAuthorized' /\ EntryOK' /\ ExitOK' /\ SelectionOK'
      BY <1>1 DEF EffectsAuthorized, EntryOK, ExitOK, SelectionOK
<1>3. Exposed' \subseteq Exposed
      BY <1>1 DEF Exposed, StageOf
<1> QED BY <1>1, <1>2, <1>3, FencedFrame

\* A request arrives, for the first time or again.
LEMMA DeliverSteps ==
    ASSUME IInv, NEW s \in Slot, NEW k \in Key, Submit(s, k) \/ Resend(s, k)
    PROVE  IInv'
<1>1. PICK body \in Bodies : Deliver(s, k, body)
  <2>1. CASE Submit(s, k)
        BY <2>1, ComposedBodies DEF Submit
  <2>2. CASE Resend(s, k)
    <3>1. PICK body \in {calls[u].body : u \in {v \in Slot : calls[v].key = k}}
                        \cup ({auth[k]} \ {None}) : Deliver(s, k, body)
          BY <2>2 DEF Resend
    <3>2. CASE body \in Bodies
          BY <3>1, <3>2
    <3>3. CASE body = None
      <4>1. PICK u \in Slot : calls[u].key = k /\ calls[u].body = None
            BY <3>1, <3>3
      <4>2. calls[u] = NoCall
            BY <4>1, NoneAssumption DEF IInv, CallsOK
      <4> QED BY <4>1, <4>2, NoneAssumption DEF NoCall
    <3> QED BY <3>1, <3>2, <3>3 DEF IInv, CallsOK, CallRecords, EffectsAuthorized
  <2> QED BY <2>1, <2>2
<1>2. CallsOK'
      BY <1>1, CallUpdates DEF Deliver, IInv
<1> QED BY <1>1, <1>2, ConsoleFrame DEF Deliver, exitVars

\* The steps of a handler up to its first write.
LEMMA ReadSteps ==
    ASSUME IInv, NEW s \in Slot,
           \/ RefuseStepUp(s) \/ Crash(s) \/ ReadGlobalEntryState(s) \/ ReadFlattenAll(s)
           \/ ReadExitProfileAuthority(s) \/ ReadStrategyAuthorization(s)
    PROVE  IInv'
<1>1. UNCHANGED <<scene, auth, effects, entryVars, binding, selectionVars>>
      BY DEF RefuseStepUp, Crash, ReadGlobalEntryState, ReadFlattenAll,
             ReadExitProfileAuthority, ReadStrategyAuthorization, exitVars
<1>2. calls[s].step # "idle"
      BY DEF RefuseStepUp, Crash, ReadGlobalEntryState, ReadFlattenAll,
             ReadExitProfileAuthority, ReadStrategyAuthorization, Serving
<1>3. calls[s].key \in Key
      BY <1>2 DEF IInv, CallsOK, NoCall
<1>4. \/ Reply(s)
      \/ \E step \in {"write", "freeze"} : GoTo(s, step)
      \/ \E seen \in Previews \cup Bodies \cup {None} :
            calls' = [calls EXCEPT ![s].step = "write", ![s].seen = seen]
  <2>1. CASE RefuseStepUp(s) \/ Crash(s)
        BY <2>1 DEF RefuseStepUp, Crash
  <2>2. CASE ReadGlobalEntryState(s)
        BY <2>2 DEF ReadGlobalEntryState
  <2>3. CASE ReadFlattenAll(s)
    <3>1. PreviewFlattenAll \in Previews
      <4> DEFINE S == {u \in Ticket : Active(u)}
                 C == {"eligible", "in_progress", "terminal", "blocked"}
                 states == [t \in S |-> ClassifyControlledExitStatus(StageOf(t))]
      <4>1. S \in SUBSET Ticket
            OBVIOUS
      <4>2. \A stage : ClassifyControlledExitStatus(stage) \in C
            BY DEF ClassifyControlledExitStatus
      <4>3. states \in [S -> C]
            BY <4>2
      <4>4. states \in UNION {[T -> C] : T \in SUBSET Ticket}
            BY <4>1, <4>3
      <4> QED BY <4>4 DEF PreviewFlattenAll, Previews, IInv, EntryOK
    <3> QED BY <2>3, <3>1 DEF ReadFlattenAll
  <2>4. CASE ReadExitProfileAuthority(s)
        BY <2>4 DEF ReadExitProfileAuthority
  <2>5. CASE ReadStrategyAuthorization(s)
        BY <1>3, <2>5 DEF ReadStrategyAuthorization, IInv, EffectsAuthorized
  <2> QED BY <2>1, <2>2, <2>3, <2>4, <2>5
<1>5. CallsOK'
      BY <1>2, <1>4, CallUpdates DEF IInv
<1> QED BY <1>1, <1>5, ConsoleFrame

\* begin_flatten_all and the pause and resume of ENTRY.
LEMMA EntryCommits ==
    ASSUME IInv, NEW s \in Slot, CommitGlobalEntryState(s) \/ BeginFlattenAll(s)
    PROVE  IInv'
<1> USE DEF IInv
<1> DEFINE key == calls[s].key
           preview == calls[s].seen
<1>1. UNCHANGED <<scene, ticket, issue, binding, selectionVars>>
      BY DEF CommitGlobalEntryState, BeginFlattenAll, exitVars
<1>2. calls[s].step # "idle" /\ key \in Key
      BY DEF CommitGlobalEntryState, BeginFlattenAll, Serving, CallsOK, NoCall
<1>3. CallsOK'
      BY <1>2, CallUpdates DEF CommitGlobalEntryState, BeginFlattenAll, ReplyWithoutEffect
<1>4. EffectsAuthorized'
  <2>1. CASE UNCHANGED <<auth, effects>>
        BY <2>1 DEF EffectsAuthorized
  <2>2. CASE AddAuthorizationSucceeds(s) /\ Authorize(s)
        BY <1>2, <2>2, AuthorizeCounts
  <2> QED BY <2>1, <2>2 DEF CommitGlobalEntryState, BeginFlattenAll, ReplyWithoutEffect
<1>5. EntryOK' /\ FencedFlatten'
  <2>1. CASE UNCHANGED <<policy, ops>>
    <3>1. Exposed' \subseteq Exposed
          BY <1>1 DEF Exposed, StageOf
    <3> QED BY <1>1, <2>1, <3>1, FencedFrame DEF EntryOK
  <2>2. ASSUME NEW enabled \in BOOLEAN, ops' = Unfenced(enabled),
               policy' = [version |-> policy.version + 1, enabled |-> enabled]
        PROVE  EntryOK' /\ FencedFlatten'
    <3>1. CASE enabled
      <4>1. ops' = [i \in 1 .. Len(ops) |-> [ops[i] EXCEPT !.fenced = FALSE]]
            BY <2>2, <3>1 DEF Unfenced, EntryOK
      <4>2. ASSUME NEW i \in 1 .. Len(ops)
            PROVE  /\ [ops[i] EXCEPT !.fenced = FALSE] \in Operations
                   /\ [ops[i] EXCEPT !.fenced = FALSE].fenced = FALSE
        <5>1. ops[i] \in Operations
              BY <4>2, ElementOfSeq DEF EntryOK
        <5> QED BY <5>1 DEF Operations
      <4>3. ops' \in Seq(Operations)
            BY <4>1, <4>2 DEF EntryOK
      <4>4. \A i \in DOMAIN ops' : ~ ops'[i].fenced
            BY <4>1, <4>2
      <4> QED BY <1>1, <2>2, <4>3, <4>4 DEF EntryOK, FencedFlatten
    <3>2. CASE ~ enabled
      <4>1. ops' = ops /\ ~ policy'.enabled
            BY <2>2, <3>2 DEF Unfenced
      <4>2. Exposed' = Exposed
            BY <1>1 DEF Exposed, StageOf
      <4> QED BY <1>1, <2>2, <4>1, <4>2 DEF EntryOK, FencedFlatten
    <3> QED BY <3>1, <3>2
  <2>3. ASSUME BeginFlattenAll(s), Authorize(s),
               policy' = IF preview.enabled
                         THEN [version |-> policy.version + 1, enabled |-> FALSE] ELSE policy,
               ops' = Append(ops, [key |-> key, state |-> "VALIDATING",
                                   targets |-> {}, digest |-> preview,
                                   fenced |-> preview.enabled \/ ~ policy.enabled])
        PROVE  EntryOK' /\ FencedFlatten'
    <3> DEFINE op == [key |-> key, state |-> "VALIDATING", targets |-> {}, digest |-> preview,
                      fenced |-> preview.enabled \/ ~ policy.enabled]
    <3>1. op \in Operations
          BY <1>2 DEF Operations, OperationStates, CallsOK, CallRecords
    <3>2. op.fenced => ~ policy'.enabled
          BY <2>3
    <3>3. op.state = "VALIDATING"
          OBVIOUS
    <3> HIDE DEF op
    <3>4. /\ ops' \in Seq(Operations)
          /\ DOMAIN ops' = DOMAIN ops \cup {Len(ops) + 1}
          /\ ops'[Len(ops) + 1] = op
          /\ \A i \in DOMAIN ops : ops'[i] = ops[i]
          BY <2>3, <3>1 DEF EntryOK, op
    <3>5. policy' \in [version : Nat, enabled : BOOLEAN] /\ (policy'.enabled => policy.enabled)
          BY <2>3 DEF EntryOK
    <3>6. Exposed' = Exposed
          BY <1>1 DEF Exposed, StageOf
    <3> QED BY <1>1, <3>2, <3>3, <3>4, <3>5, <3>6 DEF EntryOK, FencedFlatten
  <2> QED BY <2>1, <2>2, <2>3 DEF CommitGlobalEntryState, BeginFlattenAll
<1>6. ExitOK' /\ SelectionOK'
      BY <1>1 DEF ExitOK, SelectionOK, selectionVars
<1> QED BY <1>1, <1>3, <1>4, <1>5, <1>6

\* One operation goes on.  Unless it completes, what its fence promises stays; when it
\* completes no Ticket may be exposed.
LEMMA OperationStep ==
    ASSUME IInv, NEW i \in DOMAIN ops, NEW op \in Operations, ops' = [ops EXCEPT ![i] = op],
           UNCHANGED <<policy, issue>>, ticket' \in [Ticket -> [stage : Stages, policy : Nat]],
           Exposed' \subseteq Exposed, op.fenced = ops[i].fenced, op.state # "VALIDATING",
           op.fenced => Exposed \subseteq op.targets,
           op.fenced /\ op.state = "COMPLETED" => Exposed = {}
    PROVE  EntryOK' /\ FencedFlatten'
<1> USE DEF IInv
<1>1. /\ ops' \in Seq(Operations) /\ DOMAIN ops' = DOMAIN ops
      /\ \A j \in DOMAIN ops : ops'[j] = IF j = i THEN op ELSE ops[j]
      BY ExceptSeq DEF EntryOK
<1>2. EntryOK'
      BY <1>1 DEF EntryOK
<1>3. ASSUME NEW j \in DOMAIN ops, ops'[j].fenced
      PROVE  /\ ~ policy.enabled
             /\ ops'[j].state # "VALIDATING" => Exposed' \subseteq ops'[j].targets
             /\ ops'[j].state = "COMPLETED" => Exposed' = {}
      BY <1>1, <1>3 DEF FencedFlatten
<1> QED BY <1>1, <1>2, <1>3 DEF FencedFlatten

\* freeze_flatten_targets takes every active Ticket; with none the operation completes.
LEMMA FreezeStep ==
    ASSUME IInv, NEW s \in Slot, FreezeFlattenTargets(s)
    PROVE  IInv'
<1> USE DEF IInv
<1> DEFINE i == OperationOf(calls[s].key)
           targets == FlattenTargets(i)
           state == IF \E t \in targets : ClassifyControlledExitStatus(StageOf(t)) = "blocked"
                    THEN "BLOCKED"
                    ELSE IF targets = {} THEN "COMPLETED" ELSE "PENDING"
           op == [ops[i] EXCEPT !.state = state, !.targets = targets, !.digest = None]
<1>1. UNCHANGED <<scene, auth, effects, policy, ticket, issue, binding, selectionVars>>
      BY DEF FreezeFlattenTargets, exitVars
<1>2. CallsOK'
      BY CallUpdates DEF FreezeFlattenTargets, Reply
<1>3. Exposed' = Exposed /\ Exposed \subseteq targets
      BY <1>1 DEF Exposed, StageOf, FlattenTargets, Active
<1>4. EntryOK' /\ FencedFlatten'
  <2>1. CASE ops' = ops
        BY <1>1, <1>3, <2>1, FencedFrame DEF EntryOK
  <2>2. CASE i \in DOMAIN ops /\ ops' = [ops EXCEPT ![i] = op]
    <3>1. ops[i] \in Operations
          BY <2>2, ElementOfSeq DEF EntryOK
    <3>2. targets \subseteq Ticket /\ state \in OperationStates /\ state # "VALIDATING"
          /\ (state = "COMPLETED" => targets = {})
          BY DEF FlattenTargets, OperationStates
    <3> HIDE DEF targets, state, i
    <3>3. op \in Operations /\ op.fenced = ops[i].fenced /\ op.state = state
          /\ op.targets = targets
          BY <3>1, <3>2 DEF Operations
    <3> HIDE DEF op
    <3> QED BY <1>1, <1>3, <2>2, <3>2, <3>3, OperationStep DEF EntryOK
  <2>3. ops' = ops \/ (i \in DOMAIN ops /\ ops' = [ops EXCEPT ![i] = op])
    <3>1. ops' = ops \/ ops' = [ops EXCEPT ![i].state = state, ![i].targets = targets,
                                          ![i].digest = None]
          BY DEF FreezeFlattenTargets
    <3> HIDE DEF i, targets, state
    <3> DEFINE new == [ops EXCEPT ![i].state = state, ![i].targets = targets, ![i].digest = None]
    <3>2. ops \in [1 .. Len(ops) -> Operations]
          BY DEF EntryOK
    <3>3. CASE i \in 1 .. Len(ops)
          BY <3>1, <3>2, <3>3
    <3>4. CASE i \notin 1 .. Len(ops)
      <4>1. new \in [1 .. Len(ops) -> Operations] /\ \A j \in 1 .. Len(ops) : new[j] = ops[j]
            BY <3>2, <3>4
      <4>2. new = ops
            BY <3>2, <4>1
      <4> QED BY <3>1, <4>2
    <3> QED BY <3>3, <3>4
  <2> QED BY <2>1, <2>2, <2>3
<1>5. EffectsAuthorized' /\ ExitOK' /\ SelectionOK'
      BY <1>1 DEF EffectsAuthorized, ExitOK, SelectionOK, selectionVars
<1> QED BY <1>1, <1>2, <1>4, <1>5

\* The operation a worker takes is past the freeze.
LEMMA WorkerStep ==
    ASSUME IInv, NEW states \in SUBSET (OperationStates \ {"VALIDATING"}), NEW i \in OldestIn(states),
           NEW state \in OperationStates \ {"VALIDATING"},
           ops' = [ops EXCEPT ![i].state = state],
           UNCHANGED <<scene, consoleVars, policy, issue, exitVars, selectionVars>>,
           ticket' \in [Ticket -> [stage : Stages, policy : Nat]], Exposed' \subseteq Exposed,
           state = "COMPLETED" => \A t \in ops[i].targets : StageOf(t) = "terminal"
    PROVE  IInv'
<1> USE DEF IInv
<1> DEFINE op == [ops[i] EXCEPT !.state = state]
<1>1. i \in DOMAIN ops /\ ops[i].state # "VALIDATING"
      BY DEF OldestIn
<1>2. ops[i] \in Operations
      BY <1>1, ElementOfSeq DEF EntryOK
<1>3. op \in Operations /\ op.state = state /\ op.fenced = ops[i].fenced
      /\ op.targets = ops[i].targets
      BY <1>2 DEF Operations
<1>4. ops' = [ops EXCEPT ![i] = op]
      BY <1>1 DEF EntryOK
<1>5. op.fenced => Exposed \subseteq op.targets
      BY <1>1, <1>3 DEF FencedFlatten
<1>6. op.fenced /\ op.state = "COMPLETED" => Exposed = {}
      BY <1>3, <1>5 DEF Exposed
<1> HIDE DEF op
<1>7. EntryOK' /\ FencedFlatten'
      BY <1>1, <1>3, <1>4, <1>5, <1>6, OperationStep
<1>8. CallsOK' /\ EffectsAuthorized' /\ ExitOK' /\ SelectionOK'
      BY DEF consoleVars, exitVars, selectionVars, CallsOK, EffectsAuthorized, ExitOK, SelectionOK
<1> QED BY <1>7, <1>8

\* The Lifecycle worker requests the exits.
LEMMA ConsumeStep == IInv /\ ConsumePendingFlatten => IInv'
<1> SUFFICES ASSUME IInv, ConsumePendingFlatten PROVE IInv'
    OBVIOUS
<1> USE DEF IInv
<1> DEFINE class(t) == ClassifyControlledExitStatus(StageOf(t))
<1>1. PICK i \in OldestIn({"PENDING"}) :
        /\ \/ ops' = [ops EXCEPT ![i].state = "BLOCKED"] /\ UNCHANGED ticket
           \/ /\ ops' = [ops EXCEPT ![i].state = "EXITS_REQUESTED"]
              /\ ticket' = [t \in Ticket |->
                              IF t \in ops[i].targets /\ class(t) = "eligible"
                              THEN [ticket[t] EXCEPT !.stage = "exiting"] ELSE ticket[t]]
        /\ UNCHANGED <<scene, consoleVars, policy, issue, exitVars, selectionVars>>
      BY DEF ConsumePendingFlatten
<1>2. \A t \in Ticket : class(t) = "eligible" => StageOf(t) = "open"
      BY DEF ClassifyControlledExitStatus
<1>3. /\ ticket' \in [Ticket -> [stage : Stages, policy : Nat]]
      /\ \A t \in Ticket : ticket'[t] = ticket[t] \/ (StageOf(t) = "open" /\ ticket'[t].stage = "exiting")
  <2>1. CASE UNCHANGED ticket
        BY <2>1 DEF EntryOK
  <2>2. CASE ticket' = [t \in Ticket |->
                          IF t \in ops[i].targets /\ class(t) = "eligible"
                          THEN [ticket[t] EXCEPT !.stage = "exiting"] ELSE ticket[t]]
    <3> HIDE DEF class
    <3>1. \A t \in Ticket : /\ ticket[t] \in [stage : Stages, policy : Nat]
                            /\ [ticket[t] EXCEPT !.stage = "exiting"] \in [stage : Stages, policy : Nat]
                            /\ [ticket[t] EXCEPT !.stage = "exiting"].stage = "exiting"
          BY DEF EntryOK, Stages
    <3> QED BY <1>2, <2>2, <3>1
  <2> QED BY <1>1, <2>1, <2>2
<1>4. Exposed' \subseteq Exposed
      BY <1>3 DEF Exposed, StageOf
<1>5. PICK state \in {"BLOCKED", "EXITS_REQUESTED"} : ops' = [ops EXCEPT ![i].state = state]
      BY <1>1
<1>6. {"PENDING"} \in SUBSET (OperationStates \ {"VALIDATING"})
      /\ state \in OperationStates \ {"VALIDATING"} /\ state # "COMPLETED"
      BY DEF OperationStates
<1> QED BY <1>1, <1>3, <1>4, <1>5, <1>6, WorkerStep

\* The Reconciliation worker completes an operation when every target is terminal.
LEMMA AdvanceStep == IInv /\ AdvanceFlattenOperation => IInv'
<1> SUFFICES ASSUME IInv, AdvanceFlattenOperation PROVE IInv'
    OBVIOUS
<1> USE DEF IInv
<1> DEFINE S == {"EXITS_REQUESTED", "EXIT_IN_PROGRESS", "RECONCILIATION_PENDING",
                 "SETTLEMENT_PENDING", "REVIEW_PENDING", "NEEDS_INTERVENTION"}
           stages(i) == {StageOf(t) : t \in ops[i].targets}
           next(i) == IF ops[i].targets \cap incidents # {} THEN "NEEDS_INTERVENTION"
                      ELSE ProgressTarget(ops[i].state, stages(i))
<1>1. PICK i \in OldestIn(S) :
        /\ ops' = [ops EXCEPT ![i].state = next(i)]
        /\ UNCHANGED <<scene, consoleVars, policy, ticket, issue, exitVars, selectionVars>>
      BY DEF AdvanceFlattenOperation, GetProgressableOperation
<1>2. ops[i].state \in S
      BY <1>1 DEF OldestIn
<1>3. /\ next(i) \in OperationStates \ {"VALIDATING"}
      /\ next(i) = "COMPLETED" => stages(i) \subseteq {"terminal"}
      BY <1>2 DEF ProgressTarget, OperationStates
<1>4. next(i) = "COMPLETED" => \A t \in ops[i].targets : StageOf(t) = "terminal"
      BY <1>3
<1>5. S \in SUBSET (OperationStates \ {"VALIDATING"})
      BY DEF OperationStates
<1>6. Exposed' \subseteq Exposed /\ ticket' \in [Ticket -> [stage : Stages, policy : Nat]]
      BY <1>1 DEF Exposed, StageOf, EntryOK
<1> HIDE DEF next, S
<1> QED BY <1>1, <1>3, <1>4, <1>5, <1>6, WorkerStep

\* A row of the Selection Control, written field by field.
LEMMA SelectionFields ==
    ASSUME NEW x \in Selections
    PROVE  /\ \A m \in {"static_baseline", "dynamic_selection"} : [x EXCEPT !.mode = m] \in Selections
           /\ \A m \in {"static_baseline", "dynamic_selection", None} :
                 [x EXCEPT !.pending = m] \in Selections
           /\ \A k \in Key \cup {None} : /\ [x EXCEPT !.intent = k] \in Selections
                                         /\ [x EXCEPT !.epoch = k] \in Selections
           /\ \A n \in Nat : [x EXCEPT !.version = n] \in Selections
           /\ \A g \in {"none", "failed"} : [x EXCEPT !.generation = g] \in Selections
           /\ \A b \in BOOLEAN : [x EXCEPT !.baseline = b] \in Selections
BY DEF Selections

LEMMA StagedSelections ==
    ASSUME selection \in Selections, NEW k \in Key
    PROVE  StagedDynamic(k) \in Selections /\ StagedStatic(k) \in Selections
<1> DEFINE x1 == [selection EXCEPT !.pending = "dynamic_selection"]
           x2 == [x1 EXCEPT !.intent = k]
           x3 == [x2 EXCEPT !.epoch = k]
           x4 == [x3 EXCEPT !.version = selection.version + 1]
           x5 == [x4 EXCEPT !.baseline = TRUE]
           y1 == [selection EXCEPT !.pending = "static_baseline"]
           y2 == [y1 EXCEPT !.intent = k]
           y3 == [y2 EXCEPT !.generation = "none"]
<1>1. StagedDynamic(k) = x5 /\ StagedStatic(k) = y3
      BY DEF StagedDynamic, StagedStatic, Selections
<1>2. selection.version + 1 \in Nat
      BY DEF Selections
<1>3. x1 \in Selections /\ y1 \in Selections
      BY SelectionFields
<1> HIDE DEF x1, y1
<1>4. x2 \in Selections /\ y2 \in Selections
      BY <1>3, SelectionFields
<1> HIDE DEF x2, y2
<1>5. x3 \in Selections /\ y3 \in Selections
      BY <1>4, SelectionFields
<1> HIDE DEF x3, y3
<1>6. x4 \in Selections
      BY <1>2, <1>5, SelectionFields
<1> HIDE DEF x4
<1>7. x5 \in Selections
      BY <1>6, SelectionFields
<1> QED BY <1>1, <1>5, <1>7

LEMMA ActivatedSelection ==
    ASSUME selection \in Selections, selection.pending # None
    PROVE  [selection EXCEPT !.mode = selection.pending, !.pending = None, !.intent = None,
                             !.version = @ + 1, !.generation = "none",
                             !.epoch = IF selection.pending = "static_baseline" THEN None ELSE @]
           \in Selections
<1> DEFINE epoch == IF selection.pending = "static_baseline" THEN None ELSE selection.epoch
           x1 == [selection EXCEPT !.mode = selection.pending]
           x2 == [x1 EXCEPT !.pending = None]
           x3 == [x2 EXCEPT !.intent = None]
           x4 == [x3 EXCEPT !.version = selection.version + 1]
           x5 == [x4 EXCEPT !.generation = "none"]
           x6 == [x5 EXCEPT !.epoch = epoch]
<1>1. [selection EXCEPT !.mode = selection.pending, !.pending = None, !.intent = None,
                        !.version = @ + 1, !.generation = "none",
                        !.epoch = IF selection.pending = "static_baseline" THEN None ELSE @] = x6
      BY DEF Selections
<1>2. selection.version + 1 \in Nat /\ epoch \in Key \cup {None}
      /\ selection.pending \in {"static_baseline", "dynamic_selection"}
      BY DEF Selections
<1> HIDE DEF epoch
<1>3. x1 \in Selections
      BY <1>2, SelectionFields
<1> HIDE DEF x1
<1>4. x2 \in Selections
      BY <1>3, SelectionFields
<1> HIDE DEF x2
<1>5. x3 \in Selections
      BY <1>4, SelectionFields
<1> HIDE DEF x3
<1>6. x4 \in Selections
      BY <1>2, <1>5, SelectionFields
<1> HIDE DEF x4
<1>7. x5 \in Selections
      BY <1>6, SelectionFields
<1> HIDE DEF x5
<1>8. x6 \in Selections
      BY <1>2, <1>7, SelectionFields
<1> QED BY <1>1, <1>8

\* The commits of the exit and selection handlers and the coordinator's steps: they leave
\* ENTRY and the Tickets alone.
LEMMA OtherCommits ==
    ASSUME IInv,
           \/ \E s \in Slot : CommitExitProfile(s) \/ CommitStrategyEntryState(s) \/ StageSelectionMode(s)
           \/ ActivateSelectionMode \/ FailStaticGeneration \/ NextPeriod
    PROVE  IInv'
<1> USE DEF IInv
<1>1. UNCHANGED <<scene, entryVars>>
      BY DEF CommitExitProfile, CommitStrategyEntryState, StageSelectionMode,
             ActivateSelectionMode, FailStaticGeneration, NextPeriod
<1>2. EntryOK' /\ FencedFlatten'
  <2>1. Exposed' \subseteq Exposed
        BY <1>1 DEF Exposed, StageOf, entryVars
  <2> QED BY <1>1, <2>1, FencedFrame DEF EntryOK, entryVars
<1>3. ASSUME NEW s \in Slot, CommitExitProfile(s)
      PROVE  IInv'
  <2>1. calls[s].step # "idle" /\ calls[s].body \in Bodies
        BY <1>3 DEF CommitExitProfile, Serving, CallsOK, NoCall
  <2>2. CallsOK'
        BY <1>3, CallUpdates DEF CommitExitProfile, ReplyWithoutEffect
  <2>3. EffectsAuthorized'
    <3>1. CASE UNCHANGED <<auth, effects>>
          BY <3>1 DEF EffectsAuthorized
    <3>2. CASE AddAuthorizationSucceeds(s) /\ Authorize(s)
          BY <2>1, <3>2, AuthorizeCounts
    <3> QED BY <1>3, <3>1, <3>2 DEF CommitExitProfile, ReplyWithoutEffect
  <2>4. ExitOK'
    <3>1. CASE UNCHANGED binding
          BY <3>1 DEF ExitOK
    <3>2. CASE /\ calls[s].body.kind = "exit_profile_bind"
               /\ SwitchCurrentBinding(calls[s].body.arg.event, calls[s].body.arg.profile)
      <4>1. calls[s].body.arg \in [event : Event, profile : Profile]
            BY <2>1, <3>2 DEF Bodies
      <4> QED BY <3>2, <4>1 DEF SwitchCurrentBinding, ExitOK
    <3> QED BY <1>3, <3>1, <3>2 DEF CommitExitProfile, RetireProfile
  <2>5. SelectionOK'
        BY <1>3 DEF CommitExitProfile, SelectionOK, selectionVars
  <2> QED BY <1>1, <1>2, <2>2, <2>3, <2>4, <2>5
<1>4. ASSUME NEW s \in Slot, CommitStrategyEntryState(s) \/ StageSelectionMode(s)
      PROVE  IInv'
  <2>1. calls[s].step # "idle" /\ calls[s].key \in Key
        BY <1>4 DEF CommitStrategyEntryState, StageSelectionMode, Serving, CallsOK, NoCall
  <2>2. CallsOK'
        BY <1>4, CallUpdates DEF CommitStrategyEntryState, StageSelectionMode, ReplyWithoutEffect
  <2>3. EffectsAuthorized'
    <3>1. CASE UNCHANGED <<auth, effects>>
          BY <3>1 DEF EffectsAuthorized
    <3>2. CASE AddAuthorizationSucceeds(s) /\ Authorize(s)
          BY <2>1, <3>2, AuthorizeCounts
    <3> QED BY <1>4, <3>1, <3>2 DEF CommitStrategyEntryState, StageSelectionMode,
               ReplyWithoutEffect, SelectionIntentAccepted, AddAuthorizationSucceeds
  <2>4. SelectionOK'
    <3>1. CASE CommitStrategyEntryState(s)
      <4>1. UNCHANGED <<selection, period>>
            BY <3>1 DEF CommitStrategyEntryState
      <4>2. UNCHANGED strategy \/ \E enabled \in BOOLEAN : strategy' = TransitionStrategyEntryControl(enabled)
            BY <3>1 DEF CommitStrategyEntryState
      <4>3. strategy' \in [version : Nat, enabled : BOOLEAN]
            BY <4>2 DEF TransitionStrategyEntryControl, SelectionOK
      <4> QED BY <4>1, <4>3 DEF SelectionOK
    <3>2. CASE StageSelectionMode(s)
      <4>1. UNCHANGED <<strategy, period>>
            BY <3>2 DEF StageSelectionMode
      <4>2. \/ UNCHANGED selection
            \/ selection' = StagedDynamic(calls[s].key) \/ selection' = StagedStatic(calls[s].key)
            BY <3>2 DEF StageSelectionMode
      <4>3. selection \in Selections
            BY DEF SelectionOK
      <4>4. StagedDynamic(calls[s].key) \in Selections /\ StagedStatic(calls[s].key) \in Selections
            BY <2>1, <4>3, StagedSelections
      <4>5. selection' \in Selections
            BY <4>2, <4>3, <4>4
      <4> QED BY <4>1, <4>5 DEF SelectionOK
    <3> QED BY <1>4, <3>1, <3>2
  <2>5. ExitOK'
        BY <1>4 DEF CommitStrategyEntryState, StageSelectionMode, ExitOK, exitVars
  <2> QED BY <1>1, <1>2, <2>2, <2>3, <2>4, <2>5
<1>5. CASE ActivateSelectionMode \/ FailStaticGeneration \/ NextPeriod
  <2>1. SelectionOK'
    <3>1. CASE ActivateSelectionMode
      <4>1. selection' \in Selections
            BY <3>1, ActivatedSelection DEF ActivateSelectionMode, SelectionOK
      <4> QED BY <3>1, <4>1 DEF ActivateSelectionMode, SelectionOK
    <3>2. CASE FailStaticGeneration
      <4>1. selection' \in Selections
            BY <3>2 DEF FailStaticGeneration, SelectionOK, Selections
      <4> QED BY <3>2, <4>1 DEF FailStaticGeneration, SelectionOK
    <3>3. CASE NextPeriod
          BY <3>3 DEF NextPeriod, SelectionOK
    <3> QED BY <1>5, <3>1, <3>2, <3>3
  <2>2. CallsOK' /\ EffectsAuthorized' /\ ExitOK'
        BY <1>5 DEF ActivateSelectionMode, FailStaticGeneration, NextPeriod, consoleVars, exitVars,
                    CallsOK, EffectsAuthorized, ExitOK
  <2> QED BY <1>1, <1>2, <2>1, <2>2
<1> QED BY <1>3, <1>4, <1>5

-----------------------------------------------------------------------------
(* Theorems. *)

LEMMA NextInv == IInv /\ [Next]_vars => IInv'
<1> SUFFICES ASSUME IInv, [Next]_vars PROVE IInv'
    OBVIOUS
<1>1. CASE UNCHANGED vars
  <2>1. UNCHANGED <<scene, auth, effects, entryVars, binding, selectionVars>> /\ UNCHANGED calls
        BY <1>1 DEF vars, consoleVars, exitVars
  <2> QED BY <2>1, ConsoleFrame DEF IInv, CallsOK
<1> QED BY <1>1, DeliverSteps, ReadSteps, EntryCommits, FreezeStep, ConsumeStep, AdvanceStep,
           TicketSteps, IssueSteps, OtherCommits DEF Next

\* The inductive invariant of the Owner console.
THEOREM Invariance == Spec => []IInv
BY InitInv, NextInv, PTL DEF Spec

\* However many requests are served at once, delayed, sent again or cut off, the requests
\* of one idempotency key change the kernel's state at most once.
THEOREM AtMostOneEffect == Spec => []NoSecondEffect
<1>1. IInv => NoSecondEffect
  <2> SUFFICES ASSUME IInv, NEW k \in Key PROVE effects[k] <= 1
      BY DEF NoSecondEffect
  <2> QED BY DEF IInv, EffectsAuthorized
<1> QED BY <1>1, Invariance, PTL

\* A flatten that has completed under its pause leaves no Ticket exposed, whatever was
\* being issued, dispatched or closed while its targets were frozen.
THEOREM FlattenLeavesNothing == Spec => []CompletedMeansFlat
<1>1. IInv => CompletedMeansFlat
      BY DEF IInv, FencedFlatten, Exposed, CompletedMeansFlat
<1> QED BY <1>1, Invariance, PTL

=============================================================================
