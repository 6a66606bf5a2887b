-------------------------- MODULE UniverseRegistry --------------------------
(***************************************************************************)
(* The PostgreSQL side of the strategy universes: versions with their      *)
(* runtime scopes, the current pointer of each event, the warm evidence of *)
(* the scopes, the comparative projection cache, the read-only             *)
(* certification of instruments and the certification batch.  Every        *)
(* operator named as a verb is one transaction, run under the universe     *)
(* advisory lock (pg_universe_repository.py:3958) or under row locks, so   *)
(* it is atomic here too.                                                  *)
(*                                                                         *)
(* Times are counted in ticks and kept relative to now: `left' is the      *)
(* number of ticks to a deadline.  A worker passes the time its cycle      *)
(* began, `age' ticks ago, as attempted_at_ms; no cycle is older than      *)
(* MaxCycle, so a deadline that passed MaxCycle ticks ago is the same as   *)
(* none (Gone).                                                            *)
(***************************************************************************)
EXTENDS Integers, FiniteSets, FiniteSetsExt

CONSTANTS Event,        \* event lineages (event_id and side) with a universe
          Comparative,  \* the events that rank their members (MPG-LONG, MI-LONG)
          Instrument,   \* exchange instruments, numbered in identity order
          Worker,       \* reconciliation workers
          MaxVersions,  \* bound: universe versions ever installed
          MaxCycle,     \* ticks a worker cycle may last (timeout_seconds)
          CertValid,    \* certification_valid_for_ms
          CertCheck,    \* certification_eligible_check_interval_ms
          Retry,        \* certification_transient_retry_interval_ms
          Lease,        \* certification_lease_ms
          WarmValid,    \* freshness of the facts behind warm evidence
          Promotion     \* CERTIFICATION_PROMOTION_WINDOW_MS

ASSUME RegistryAssumption ==
    /\ Comparative \subseteq Event
    /\ Instrument \subseteq Nat \ {0}
    /\ {MaxVersions, MaxCycle, CertValid, CertCheck, Retry, Lease, WarmValid, Promotion} \subseteq Nat
    /\ MaxCycle < WarmValid
    /\ CertCheck < CertValid
    /\ Retry < CertValid
    /\ Promotion < CertValid

VARIABLES version,     \* strategy_universe_versions with their members and scopes
          current,     \* strategy_universe_current: the active version of an event
          warm,        \* warm readiness of every scope: ticks it stays valid
          projection,  \* comparative_projection_current
          cert,        \* instrument_certification_current
          batch,       \* the latest instrument certification batch
          reserved,    \* a generation is DRAINING_ENTRY or MATERIALIZING
          identity     \* runtime commit, schema, seed and Owner policy version

registryVars == <<version, current, warm, projection, cert, batch, reserved, identity>>

None == 0
VersionId == 1 .. MaxVersions
Gone == -MaxCycle
Status == {"eligible", "owner_action_required", "temporarily_unavailable"}

Live == {"warming", "active"}
Warming == {v \in VersionId : version[v].state = "warming"}
Free == {v \in VersionId : version[v].state = "none"}
\* The runtime scopes a worker may certify: those of a live version.
Scopes == {s \in VersionId \X Instrument :
             version[s[1]].state \in Live /\ s[2] \in version[s[1]].members}

RegistryInit ==
    /\ version = [v \in VersionId |-> [event |-> None, members |-> {}, state |-> "none"]]
    /\ current = [e \in Event |-> None]
    /\ warm = [v \in VersionId |-> [i \in Instrument |-> Gone]]
    /\ projection = [e \in Comparative |-> [state |-> "none", members |-> {}, left |-> Gone]]
    /\ cert = [i \in Instrument |->
                 [status |-> "none", valid |-> Gone, check |-> 0,
                  lease |-> 0, holder |-> None, claim |-> None]]
    /\ batch = [state |-> "none", identity |-> None, manifest |-> {}, waiting |-> {},
                promise |-> 0, valid |-> Gone]
    /\ reserved = FALSE
    /\ identity = 1

-----------------------------------------------------------------------------
(* Installing and abandoning a version *)

\* A live version of the event with exactly these members, found by its digest.
Existing(e, m) ==
    {v \in VersionId : version[v].event = e /\ version[v].members = m /\ version[v].state \in Live}

\* The next version number, in a set; versions are numbered across events here.
NextVersion == {v \in Free : \A u \in Free : v <= u}

MutSlotIsFree == ~reserved

\* No generation holds the slot and no version is warming anywhere.
SlotIsFree == ~reserved /\ Warming = {}

\* The version an install request may end with; None when it is refused.
InstallResult(e, m) ==
    IF Existing(e, m) # {} THEN Existing(e, m)
    ELSE IF SlotIsFree THEN NextVersion ELSE {None}

\* install: reuse, refuse, or a new version whose scopes have no evidence yet.
Install(e, m, v) ==
    /\ v \in InstallResult(e, m)
    /\ version' = IF v \in Free
                  THEN [version EXCEPT ![v] = [event |-> e, members |-> m, state |-> "warming"]]
                  ELSE version
    /\ UNCHANGED <<current, warm, projection, cert, batch, reserved, identity>>

MutAbandon(v) ==
    /\ version[v].state = "warming"
    /\ version' = [version EXCEPT ![v].state = "abandoned"]
    /\ warm' = [warm EXCEPT ![v] = [i \in Instrument |-> Gone]]
    /\ UNCHANGED <<current, projection, cert, batch, reserved, identity>>

\* abandon: the version and its scopes end, evidence and claims for it are void.
Abandon(v) ==
    /\ version[v].state = "warming"
    /\ version' = [version EXCEPT ![v].state = "abandoned"]
    /\ warm' = [warm EXCEPT ![v] = [i \in Instrument |-> Gone]]
    /\ cert' = [i \in Instrument |->
                  IF cert[i].claim = v
                  THEN [cert[i] EXCEPT !.lease = 0, !.holder = None, !.claim = None]
                  ELSE cert[i]]
    /\ UNCHANGED <<current, projection, batch, reserved, identity>>

-----------------------------------------------------------------------------
(* Activation *)

MutFreshAtNoEnd(left, life, age) == life - left >= age

\* Evidence obtained no later than the attempt and still valid at it.
FreshAt(left, life, age) == life - left >= age /\ left + age > 0

CertificationReady(v, age) ==
    \A i \in version[v].members :
        cert[i].status = "eligible" /\ FreshAt(cert[i].valid, CertValid, age)

WarmReady(v, age) == \A i \in version[v].members : FreshAt(warm[v][i], WarmValid, age)

\* Ranked members share one closed bar, and its projection of this member set is ready.
ComparisonReady(v, age) ==
    LET e == version[v].event IN
    e \in Comparative =>
        /\ \A i, j \in version[v].members : warm[v][i] = warm[v][j]
        /\ projection[e].state = "ready"
        /\ projection[e].members = version[v].members
        /\ \A i \in version[v].members : projection[e].left = warm[v][i]

\* The version the event points at is itself active with active scopes.
CurrentIsComplete(e) == current[e] # None => version[current[e]].state = "active"

Ready(v, age) ==
    /\ version[v].state = "warming"
    /\ CurrentIsComplete(version[v].event)
    /\ CertificationReady(v, age)
    /\ WarmReady(v, age)
    /\ ComparisonReady(v, age)

\* The previous version and its scopes retire as the target takes the pointer.
Activated(v) ==
    LET e == version[v].event IN
    [u \in VersionId |->
        IF u = v THEN [version[u] EXCEPT !.state = "active"]
        ELSE IF u = current[e] THEN [version[u] EXCEPT !.state = "retired"]
        ELSE version[u]]

\* try_activate of the AUTO operation: activate when ready, else change nothing.  An
\* active version is not activated again, so its warm evidence is forgotten here.
TryActivate(v, age) ==
    /\ IF Ready(v, age)
       THEN /\ version' = Activated(v)
            /\ current' = [current EXCEPT ![version[v].event] = v]
            /\ warm' = [warm EXCEPT ![v] = [i \in Instrument |-> Gone]]
       ELSE UNCHANGED <<version, current, warm>>
    /\ UNCHANGED <<projection, cert, batch, reserved, identity>>

-----------------------------------------------------------------------------
(* Warm evidence and the comparative projection behind it *)

\* The projection of exactly this member set and closed bar is cached ready / as failed.
Cached(v, state, age) ==
    LET p == projection[version[v].event] IN
    p.state = state /\ p.members = version[v].members /\ p.left = WarmValid - age

\* Reading the market succeeds only when the projection is not in its failure window.
MayProject(v, age) ==
    version[v].event \in Comparative => ~ Cached(v, "unavailable", age)

\* Ready projections are kept; only a missing one is written, ready or unavailable.
SaveProjection(v, state, age) ==
    IF version[v].event \notin Comparative \/ Cached(v, "ready", age)
    THEN UNCHANGED projection
    ELSE projection' = [projection EXCEPT ![version[v].event] =
                          [state |-> state, members |-> version[v].members,
                           left |-> WarmValid - age]]

\* save_warm_readiness / clear_warm_readiness: only while the scope is still warming.
SaveWarm(v, i, left, state, age) ==
    /\ version[v].state = "warming"
    /\ warm' = [warm EXCEPT ![v][i] = left]
    /\ SaveProjection(v, state, age)
    /\ UNCHANGED <<version, current, cert, batch, reserved, identity>>

-----------------------------------------------------------------------------
(* Certification: claim, save, batch *)

Pending(i) == batch.state = "pending" /\ i \in batch.waiting

LeaseFree(i) == cert[i].lease = 0

Due(i) == LeaseFree(i) /\ (Pending(i) \/ cert[i].check = 0)

MutDueScopes == {s \in Scopes : Due(s[2]) /\ version[s[1]].state = "active"}

DueScopes == {s \in Scopes : Due(s[2])}

\* Pending batch members first, then warming universes, then active ones.
Rank(s) == IF Pending(s[2]) THEN 0
           ELSE IF version[s[1]].state = "warming" THEN 1 ELSE 2

\* Members of one batch share its start as due time, so the identity decides; how long
\* another check is overdue is not kept, so any of the same rank may be the oldest.
Before(s, t) == \/ Rank(s) < Rank(t)
                \/ Rank(s) = 0 /\ Rank(t) = 0 /\ s[2] < t[2]

\* The scopes claim_due_instrument_certification may return.
Claimable == {s \in DueScopes : \A t \in DueScopes : ~ Before(t, s)}

\* The claim leases the instrument; a first claim inserts the row as unavailable.
ClaimCertification(w, s, age) ==
    /\ s \in Claimable
    /\ LET c == cert[s[2]] IN
       cert' = [cert EXCEPT ![s[2]] =
                  [c EXCEPT !.lease = Lease - age, !.holder = w, !.claim = s[1],
                            !.status = IF c.status = "none" THEN "temporarily_unavailable"
                                       ELSE c.status]]
    /\ UNCHANGED <<version, current, warm, projection, batch, reserved, identity>>

\* The lease the claim took is still there and has not expired by the database clock.
ClaimHolds(w, s) ==
    LET c == cert[s[2]] IN c.holder = w /\ c.claim = s[1] /\ c.lease > 0

CheckAfter(status) == IF status = "eligible" THEN CertCheck
                      ELSE IF status = "owner_action_required" THEN CertCheck ELSE Retry

ValidFor(status) == IF status = "temporarily_unavailable" THEN Retry ELSE CertValid

\* _record_certification_batch_result of one saved result that will be valid for `left'.
BatchAfter(i, status, left) ==
    IF status = "temporarily_unavailable" \/ ~Pending(i)
        \/ (status = "eligible" /\ left < batch.promise)
    THEN batch
    ELSE IF status = "owner_action_required"
    THEN [batch EXCEPT !.state = "blocked", !.promise = 0, !.valid = Gone]
    ELSE LET done == batch.waiting = {i}
         IN [batch EXCEPT
               !.waiting = @ \ {i},
               !.valid = IF batch.waiting = batch.manifest THEN left ELSE Min({left, @}),
               !.state = IF done THEN "completed" ELSE @,
               !.promise = IF done THEN 0 ELSE @]

\* save_instrument_certification: the result, the released lease, the batch.
SaveCertification(s, status, age) ==
    LET i == s[2]
        left == ValidFor(status) - age
        check == CheckAfter(status) - age
    IN /\ cert' = [cert EXCEPT ![i] =
                     [status |-> status, valid |-> left, check |-> IF check > 0 THEN check ELSE 0,
                      lease |-> 0, holder |-> None, claim |-> None]]
       /\ batch' = BatchAfter(i, status, left)
       /\ UNCHANGED <<version, current, warm, projection, reserved, identity>>

\* A batch of this runtime identity that is pending, or completed and valid long enough.
Reusable(id) ==
    /\ batch.identity = id
    /\ \/ batch.state = "pending"
       \/ batch.state = "completed" /\ batch.valid >= Promotion

\* start_certification_batch: refused while another batch is pending or authority changed.
BatchRefused(id) == ~Reusable(id) /\ (batch.state = "pending" \/ id # identity)

StartBatch(id, manifest) ==
    /\ ~ BatchRefused(id)
    /\ IF Reusable(id)
       THEN UNCHANGED batch
       ELSE batch' = [state |-> "pending", identity |-> id, manifest |-> manifest,
                      waiting |-> manifest,
                      promise |-> Promotion, valid |-> Gone]
    /\ UNCHANGED <<version, current, warm, projection, cert, reserved, identity>>

-----------------------------------------------------------------------------
Less(left) == IF left > Gone THEN left - 1 ELSE Gone
Down(n) == IF n > 0 THEN n - 1 ELSE 0

\* One tick of the clock on every stored deadline.
RegistryTick ==
    /\ warm' = [v \in VersionId |-> [i \in Instrument |-> Less(warm[v][i])]]
    /\ projection' = [e \in Comparative |-> [projection[e] EXCEPT !.left = Less(@)]]
    /\ cert' = [i \in Instrument |->
                  [cert[i] EXCEPT !.valid = Less(@), !.check = Down(@), !.lease = Down(@)]]
    /\ batch' = [batch EXCEPT !.promise = Down(@), !.valid = Less(@)]
    /\ UNCHANGED <<version, current, reserved, identity>>
=============================================================================
