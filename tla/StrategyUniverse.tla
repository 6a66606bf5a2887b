-------------------------- MODULE StrategyUniverse --------------------------
(***************************************************************************)
(* The processes that move strategy universes: the bootstrap command of a  *)
(* deployment, the Owner's universe change in the console, the operator's  *)
(* abandon command, the observation worker that warms scopes and the       *)
(* reconciliation workers that certify instruments.  Both workers attempt  *)
(* the activation of the version they worked for in a transaction of its   *)
(* own, with the time their cycle began.                                   *)
(***************************************************************************)
EXTENDS UniverseRegistry, Sequences

CONSTANTS EventOrder,       \* the manifest's events, in installation order
          Manifest,         \* the approved members, the same for every event
          OwnerMembers,     \* the member set an Owner change asks for
          BootWait,         \* wait_timeout_ms of the bootstrap
          MaxDisturbances   \* bound: faults and Owner or operator interventions

ASSUME ManifestAssumption ==
    /\ Manifest \subseteq Instrument
    /\ OwnerMembers \subseteq Instrument
    /\ EventOrder \in Seq(Event) /\ EventOrder # <<>>
    /\ BootWait \in Nat

VARIABLES boot,      \* the bootstrap command
          worker,    \* reconciliation workers certifying an instrument
          observer,  \* the observation worker after it warmed a scope
          disturbed  \* disturbances so far

processVars == <<boot, worker, observer, disturbed>>
vars == <<registryVars, processVars>>

Idle == [pc |-> "idle", scope |-> <<None, None>>, age |-> 0]
Off == [pc |-> "off", mode |-> "none", k |-> 1, identity |-> None, left |-> 0, target |-> None]

Init ==
    /\ RegistryInit
    /\ boot = Off
    /\ worker = [w \in Worker |-> Idle]
    /\ observer = Idle
    /\ disturbed = 0

Disturb == disturbed < MaxDisturbances /\ disturbed' = disturbed + 1

-----------------------------------------------------------------------------
(* bootstrap_strategy_universes.py *)

\* The run succeeds, or raises BootstrapBlocked for the operator to run it again.
Ends == boot' = Off

\* The active universes of the manifest are exactly its events and members.
ManifestIsActive ==
    /\ \A v \in Warming : \A k \in DOMAIN EventOrder : version[v].event # EventOrder[k]
    /\ \A k \in DOMAIN EventOrder :
         LET v == current[EventOrder[k]] IN
         v # None /\ version[v].state = "active" /\ version[v].members = Manifest

StartBootstrap(mode) ==
    /\ boot.pc = "off"
    /\ boot' = [pc |-> IF mode = "refresh" THEN "validate" ELSE "install", mode |-> mode,
                k |-> 1, identity |-> identity, left |-> BootWait, target |-> None]
    /\ UNCHANGED <<registryVars, worker, observer, disturbed>>

ValidateActiveManifest ==
    /\ boot.pc = "validate"
    /\ IF ManifestIsActive THEN boot' = [boot EXCEPT !.pc = "ensure"] ELSE Ends
    /\ UNCHANGED <<registryVars, worker, observer, disturbed>>

BootInstall ==
    /\ boot.pc = "install"
    /\ \E v \in VersionId \cup {None} :
         /\ Install(EventOrder[boot.k], Manifest, v)
         /\ IF v = None
            THEN Ends
            ELSE boot' = [boot EXCEPT !.pc = IF boot.k = 1 THEN "ensure" ELSE "wait", !.target = v]
    /\ UNCHANGED <<worker, observer, disturbed>>

EnsureBatch ==
    /\ boot.pc = "ensure"
    /\ \/ /\ BatchRefused(boot.identity)
          /\ Ends
          /\ UNCHANGED registryVars
       \/ /\ StartBatch(boot.identity, Manifest)
          /\ IF boot.mode = "bootstrap" THEN boot' = [boot EXCEPT !.pc = "wait"] ELSE Ends
    /\ UNCHANGED <<worker, observer, disturbed>>

\* What a poll of the universe status says of the target.
Polled == version[boot.target].state

\* Poll the status of the target until it is active, gone, or the deadline passes.
AwaitActive ==
    /\ boot.pc = "wait"
    /\ \/ /\ Polled = "active"
          /\ boot' = IF boot.k < Len(EventOrder)
                     THEN [boot EXCEPT !.pc = "install", !.k = @ + 1]
                     ELSE [boot EXCEPT !.pc = "batch"]
       \/ /\ Polled \notin Live
          /\ Ends
       \/ /\ boot.left = 0 /\ Polled # "active"
          /\ Ends
    /\ UNCHANGED <<registryVars, worker, observer, disturbed>>

AwaitBatch ==
    /\ boot.pc = "batch"
    /\ \/ batch.state = "completed" /\ Ends
       \/ batch.state = "blocked" /\ Ends
       \/ batch.state = "pending" /\ boot.left = 0 /\ Ends
    /\ UNCHANGED <<registryVars, worker, observer, disturbed>>

-----------------------------------------------------------------------------
(* Owner and operator *)

\* configure_strategy_universe_by_owner: the base version is compared before the lock is
\* taken, so the install may meet any later state of the registry.
OwnerInstalls(e) ==
    /\ Disturb
    /\ \E v \in VersionId \cup {None} : Install(e, OwnerMembers, v)
    /\ UNCHANGED <<boot, worker, observer>>

OperatorAbandons(v) ==
    /\ Disturb
    /\ Abandon(v)
    /\ UNCHANGED <<boot, worker, observer>>

\* A release or an Owner policy change makes a new runtime identity.
IdentityChanges ==
    /\ Disturb
    /\ identity' = identity + 1
    /\ UNCHANGED <<version, current, warm, projection, cert, batch, reserved,
                   boot, worker, observer>>

-----------------------------------------------------------------------------
(* reconciliation_worker.py, _certify_one_due_instrument *)

Claim(w) ==
    /\ worker[w].pc = "idle"
    /\ \E s \in Claimable :
         /\ ClaimCertification(w, s, 0)
         /\ worker' = [worker EXCEPT ![w] = [pc |-> "save", scope |-> s, age |-> 0]]
    /\ UNCHANGED <<boot, observer, disturbed>>

\* The venue read, outside any transaction, and its classification: an instrument that
\* is not eligible, and a read that fails, count as disturbances.
ReadFacts(status) == IF status = "eligible" THEN UNCHANGED disturbed ELSE Disturb

\* Then one transaction saves the result, unless the claim no longer holds.
Save(w) ==
    LET c == worker[w] IN
    /\ c.pc = "save"
    /\ IF ClaimHolds(w, c.scope)
       THEN \E status \in Status :
              /\ ReadFacts(status)
              /\ SaveCertification(c.scope, status, c.age)
              /\ worker' = [worker EXCEPT ![w].pc = "advance"]
       ELSE /\ worker' = [worker EXCEPT ![w] = Idle]
            /\ UNCHANGED <<registryVars, disturbed>>
    /\ UNCHANGED <<boot, observer>>

Advance(w) ==
    /\ worker[w].pc = "advance"
    /\ TryActivate(worker[w].scope[1], worker[w].age)
    /\ worker' = [worker EXCEPT ![w] = Idle]
    /\ UNCHANGED <<boot, observer, disturbed>>

Crash(w) ==
    /\ worker[w].pc # "idle"
    /\ Disturb
    /\ worker' = [worker EXCEPT ![w] = Idle]
    /\ UNCHANGED <<registryVars, boot, observer>>

-----------------------------------------------------------------------------
(* observation_worker.py on a warming scope *)

\* Every scope of the warming version is observed once per closed bar; a comparison
\* that failed for the bar is not tried again within it.
Unseen == {s \in Scopes : /\ version[s[1]].state = "warming"
                          /\ warm[s[1]][s[2]] # WarmValid
                          /\ MayProject(s[1], 0)}

\* Complete facts warm the scope; the activation attempt follows in its own transaction.
ObserveComplete ==
    /\ observer.pc = "idle"
    /\ \E s \in Unseen :
         /\ SaveWarm(s[1], s[2], WarmValid, "ready", 0)
         /\ observer' = [pc |-> "advance", scope |-> s, age |-> 0]
    /\ UNCHANGED <<boot, worker, disturbed>>

\* The market does not answer: the scope's evidence is cleared.
ObserveInvalid ==
    /\ observer.pc = "idle"
    /\ Disturb
    /\ \E s \in Unseen : SaveWarm(s[1], s[2], Gone, "unavailable", 0)
    /\ UNCHANGED <<boot, worker, observer>>

ObserverAdvance ==
    /\ observer.pc = "advance"
    /\ TryActivate(observer.scope[1], observer.age)
    /\ observer' = Idle
    /\ UNCHANGED <<boot, worker, disturbed>>

-----------------------------------------------------------------------------
(* The venue, the selection coordinator and the clock *)

\* A dynamic generation takes the slot only while nothing warms; it always lets go.
GenerationReserves ==
    /\ SlotIsFree
    /\ Disturb
    /\ reserved' = TRUE
    /\ UNCHANGED <<version, current, warm, projection, cert, batch, identity,
                   boot, worker, observer>>

GenerationReleases ==
    /\ reserved
    /\ reserved' = FALSE
    /\ UNCHANGED <<version, current, warm, projection, cert, batch, identity,
                   boot, worker, observer, disturbed>>

\* The instrument was certified since the last tick.
JustChecked(i) == cert[i].status # "none" /\ cert[i].valid = ValidFor(cert[i].status)

Resting == observer.pc = "idle" /\ \A w \in Worker : worker[w].pc = "idle"

\* A tick is long against the poll interval: every scope was observed, and whatever the
\* workers would claim next was just checked.  A cycle that lasts over a tick, up to its
\* timeout, is a disturbance.
PollsKeptUp ==
    IF Resting
    THEN Unseen = {} /\ (\A s \in Claimable : JustChecked(s[2])) /\ UNCHANGED disturbed
    ELSE Disturb /\ \A c \in {observer} \cup {worker[w] : w \in Worker} :
                       c.pc = "idle" \/ c.age < MaxCycle

Aged(c) == IF c.pc = "idle" THEN c ELSE [c EXCEPT !.age = @ + 1]

Tick ==
    /\ PollsKeptUp
    /\ RegistryTick
    /\ worker' = [w \in Worker |-> Aged(worker[w])]
    /\ observer' = Aged(observer)
    /\ boot' = [boot EXCEPT !.left = Down(@)]

Next ==
    \/ \E mode \in {"prepare", "bootstrap", "refresh"} : StartBootstrap(mode)
    \/ ValidateActiveManifest
    \/ BootInstall
    \/ EnsureBatch
    \/ AwaitActive
    \/ AwaitBatch
    \/ \E e \in Event : OwnerInstalls(e)
    \/ \E v \in VersionId : OperatorAbandons(v)
    \/ IdentityChanges
    \/ \E w \in Worker : Claim(w) \/ Save(w) \/ Advance(w) \/ Crash(w)
    \/ ObserveComplete
    \/ ObserveInvalid
    \/ ObserverAdvance
    \/ GenerationReserves
    \/ GenerationReleases
    \/ Tick

Spec == Init /\ [][Next]_vars

(***************************************************************************)
(* Fairness: the workers poll for as long as they are deployed and their   *)
(* reads end by a timeout; the clock advances; a generation lets its slot  *)
(* go (the selection module); the venue's facts eventually read eligible   *)
(* once the Owner has acted; and the operator runs a bootstrap again.      *)
(***************************************************************************)
Fairness ==
    /\ \A w \in Worker : /\ WF_vars(Claim(w))
                         /\ WF_vars(Save(w))
                         /\ WF_vars(Advance(w))
    /\ WF_vars(ObserveComplete)
    /\ WF_vars(ObserverAdvance)
    /\ WF_vars(GenerationReleases)
    /\ WF_vars(BootInstall \/ EnsureBatch \/ AwaitActive \/ AwaitBatch \/ ValidateActiveManifest)
    /\ SF_vars(StartBootstrap("bootstrap"))
    /\ WF_vars(Tick)

FairSpec == Spec /\ Fairness

-----------------------------------------------------------------------------
(* Properties *)

\* Installers, both activating workers and the operator keep one picture: at most one
\* version warms, an event points at an active version of its own, and every active
\* version is pointed at, so no retired scope keeps Entry enabled.
UniverseAgrees ==
    /\ Cardinality(Warming) <= 1
    /\ \A e \in Event : current[e] # None =>
         version[current[e]].event = e /\ version[current[e]].state = "active"
    /\ \A v \in VersionId : version[v].state = "active" => current[version[v].event] = v

\* Facts read for a version that was abandoned meanwhile are never recorded, whether
\* the abandon came before or after the venue answered.
VoidClaimNeverLands ==
    [][\A w \in Worker :
         worker[w].pc = "save" /\ worker'[w].pc = "advance"
            => version[worker[w].scope[1]].state # "abandoned"]_vars

\* Whoever activates a version, and however long its cycle took, every member is then
\* certified eligible and warm, by evidence that ended less than one cycle ago, and
\* a ranked event was compared over exactly these members.
ActivatedOnEvidence ==
    [][\A e \in Event :
         current'[e] # current[e] =>
            LET v == current'[e] IN
            /\ \A i \in version[v].members :
                 /\ cert[i].status = "eligible" /\ cert[i].valid > Gone
                 /\ warm[v][i] > Gone
            /\ e \in Comparative => projection[e].members = version[v].members]_vars

\* What precludes everybody else is let go: a warming version never holds the only
\* warming slot for ever, and a pending certification batch is decided in the end.
SlotsAreHandedOn ==
    /\ \A v \in VersionId : version[v].state = "warming" ~> version[v].state # "warming"
    /\ batch.state = "pending" ~> batch.state # "pending"
=============================================================================
