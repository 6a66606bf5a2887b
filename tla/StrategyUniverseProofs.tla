----------------------- MODULE StrategyUniverseProofs -----------------------
(***************************************************************************)
(* Theorems about StrategyUniverse, for any events, instruments, workers,   *)
(* deadlines and numbers of versions and faults: the versions, their scopes *)
(* and the current pointers agree, facts read for an abandoned version are  *)
(* never recorded, and a version is activated on evidence alone.            *)
(***************************************************************************)
EXTENDS StrategyUniverse, TLAPS, FiniteSetTheorems

Versions == [event : Event \cup {None}, members : SUBSET Instrument,
             state : {"none", "warming", "active", "retired", "abandoned"}]

Certifications == [status : Status \cup {"none"}, valid : Int, check : Int, lease : Int,
                   holder : Worker \cup {None}, claim : VersionId \cup {None}]

Cycles == [pc : {"idle", "save", "advance"},
           scope : (VersionId \cup {None}) \X (Instrument \cup {None}), age : 0 .. MaxCycle]

Boots == [pc : {"off", "validate", "install", "ensure", "wait", "batch"},
          mode : {"none", "prepare", "bootstrap", "refresh"}, k : DOMAIN EventOrder,
          identity : Nat, left : Nat, target : VersionId \cup {None}]

RegistryOK ==
    /\ version \in [VersionId -> Versions]
    /\ current \in [Event -> VersionId \cup {None}]
    /\ warm \in [VersionId -> [Instrument -> Int]]
    /\ cert \in [Instrument -> Certifications]
    /\ identity \in Nat

\* A cycle that is under way works for a scope, and has not outlived its timeout.
ProcessesOK ==
    /\ boot \in Boots
    /\ worker \in [Worker -> Cycles] /\ observer \in Cycles
    /\ \A w \in Worker : worker[w].pc # "idle" => worker[w].scope \in VersionId \X Instrument
    /\ observer.pc # "idle" => observer.scope \in VersionId \X Instrument

\* Versions that were ever installed belong to an event; one warms at a time.
VersionsOK ==
    /\ \A v \in VersionId : version[v].state # "none" => version[v].event \in Event
    /\ \A u, v \in Warming : u = v

PointersAgree ==
    /\ \A e \in Event : current[e] # None =>
         version[current[e]].event = e /\ version[current[e]].state = "active"
    /\ \A v \in VersionId : version[v].state = "active" => current[version[v].event] = v

\* A lease is never for a version that was abandoned.
ClaimsOK ==
    \A i \in Instrument : cert[i].claim # None => version[cert[i].claim].state # "abandoned"

IInv == RegistryOK /\ ProcessesOK /\ VersionsOK /\ PointersAgree /\ ClaimsOK

-----------------------------------------------------------------------------
(* Registry transactions. *)

RegistryInv == RegistryOK /\ VersionsOK /\ PointersAgree /\ ClaimsOK

LEMMA VersionIds == VersionId \subseteq Nat /\ None \notin VersionId
BY RegistryAssumption DEF VersionId, None

LEMMA InitInv == Init => IInv
<1> SUFFICES ASSUME Init PROVE IInv
    OBVIOUS
<1> USE RegistryAssumption DEF Init, RegistryInit
<1>1. RegistryOK
      BY DEF RegistryOK, Versions, Certifications, None, Gone
<1>2. ProcessesOK
  <2>1. 1 \in DOMAIN EventOrder
        BY ManifestAssumption
  <2>2. boot \in Boots
        BY <2>1 DEF Off, Boots, None
  <2>3. Idle \in Cycles /\ Idle.pc = "idle"
        BY DEF Idle, Cycles, None
  <2> QED BY <2>2, <2>3 DEF ProcessesOK
<1>3. VersionsOK /\ PointersAgree /\ ClaimsOK
      BY DEF VersionsOK, Warming, PointersAgree, ClaimsOK
<1> QED BY <1>1, <1>2, <1>3 DEF IInv

\* A new version warms alone and nothing points at it.
LEMMA InstallKeeps ==
    ASSUME RegistryInv, NEW e \in Event, NEW m \in SUBSET Instrument,
           NEW v \in VersionId \cup {None}, Install(e, m, v)
    PROVE  RegistryInv'
<1> USE DEF RegistryInv
<1>1. CASE v \notin Free
  <2>1. UNCHANGED <<version, current, warm, cert, identity>>
        BY <1>1 DEF Install
  <2> QED BY <2>1 DEF RegistryOK, VersionsOK, PointersAgree, ClaimsOK, Warming
<1>2. CASE v \in Free
  <2>1. SlotIsFree /\ v \in VersionId /\ version[v].state = "none"
        BY <1>2, VersionIds DEF Install, InstallResult, Existing, Free, Live
  <2>2. /\ version' = [version EXCEPT ![v] = [event |-> e, members |-> m, state |-> "warming"]]
        /\ UNCHANGED <<current, warm, cert, identity>>
        BY <1>2 DEF Install
  <2>3. RegistryOK'
        BY <2>1, <2>2 DEF RegistryOK, Versions
  <2>4. version'[v].state = "warming" /\ version'[v].event = e
        /\ \A u \in VersionId \ {v} : version'[u] = version[u]
        BY <2>1, <2>2 DEF RegistryOK
  <2>5. VersionsOK'
        BY <2>1, <2>4 DEF VersionsOK, SlotIsFree, Warming
  <2>6. PointersAgree'
        BY <2>1, <2>2, <2>4 DEF PointersAgree, RegistryOK
  <2>7. ClaimsOK'
        BY <2>1, <2>2, <2>4 DEF ClaimsOK, RegistryOK, Certifications
  <2> QED BY <2>3, <2>5, <2>6, <2>7
<1> QED BY <1>1, <1>2

\* abandon voids the claims it leaves behind.
LEMMA AbandonKeeps ==
    ASSUME RegistryInv, NEW v \in VersionId, Abandon(v)
    PROVE  RegistryInv'
<1> USE DEF RegistryInv
<1>1. /\ version[v].state = "warming"
      /\ version' = [version EXCEPT ![v].state = "abandoned"]
      /\ warm' = [warm EXCEPT ![v] = [i \in Instrument |-> Gone]]
      /\ cert' = [i \in Instrument |->
                    IF cert[i].claim = v
                    THEN [cert[i] EXCEPT !.lease = 0, !.holder = None, !.claim = None]
                    ELSE cert[i]]
      /\ UNCHANGED <<current, identity>>
      BY DEF Abandon
<1>2. /\ version'[v].state = "abandoned" /\ version'[v].event = version[v].event
      /\ \A u \in VersionId \ {v} : version'[u] = version[u]
      /\ version' \in [VersionId -> Versions]
      BY <1>1 DEF RegistryOK, Versions
<1>3. ASSUME NEW i \in Instrument
      PROVE  /\ cert'[i] \in Certifications
             /\ cert'[i].claim # v /\ (cert'[i].claim = cert[i].claim \/ cert'[i].claim = None)
  <2>1. CASE cert[i].claim = v
    <3> DEFINE c1 == [cert[i] EXCEPT !.lease = 0]
               c2 == [c1 EXCEPT !.holder = None]
               c3 == [c2 EXCEPT !.claim = None]
    <3>1. cert[i] \in Certifications
          BY DEF RegistryOK
    <3>2. cert'[i] = c3
          BY <1>1, <2>1, <3>1 DEF Certifications
    <3>3. c1 \in Certifications
          BY <3>1 DEF Certifications
    <3> HIDE DEF c1
    <3>4. c2 \in Certifications
          BY <3>3 DEF Certifications
    <3> HIDE DEF c2
    <3>5. c3 \in Certifications /\ c3.claim = None
          BY <3>4 DEF Certifications
    <3> QED BY <3>2, <3>5, VersionIds
  <2>2. CASE cert[i].claim # v
        BY <1>1, <2>2 DEF RegistryOK
  <2> QED BY <2>1, <2>2
<1>4. cert' \in [Instrument -> Certifications]
      BY <1>1, <1>3
<1>5. warm' \in [VersionId -> [Instrument -> Int]]
  <2>1. Gone \in Int
        BY RegistryAssumption DEF Gone
  <2> QED BY <1>1, <2>1 DEF RegistryOK
<1>6. RegistryOK'
      BY <1>1, <1>2, <1>4, <1>5 DEF RegistryOK
<1>7. VersionsOK'
  <2>1. Warming' \subseteq Warming
        BY <1>2 DEF Warming
  <2>2. \A u \in VersionId : version'[u].event = version[u].event
        /\ (version'[u].state # "none" => version[u].state # "none")
        BY <1>1, <1>2
  <2> QED BY <2>1, <2>2 DEF VersionsOK
<1>8. PointersAgree'
      BY <1>1, <1>2 DEF PointersAgree, RegistryOK
<1>9. ClaimsOK'
      BY <1>2, <1>3, <1>4 DEF ClaimsOK, RegistryOK, Certifications
<1> QED BY <1>6, <1>7, <1>8, <1>9

\* Activation retires the version the event pointed at, in the same transaction.
LEMMA ActivateKeeps ==
    ASSUME RegistryInv, NEW v \in VersionId, NEW age, TryActivate(v, age)
    PROVE  RegistryInv'
<1> USE DEF RegistryInv
<1> DEFINE e == version[v].event
           o == current[e]
<1>1. CASE ~ Ready(v, age)
  <2>1. UNCHANGED <<version, current, warm, cert, identity>>
        BY <1>1 DEF TryActivate
  <2> QED BY <2>1 DEF RegistryOK, VersionsOK, PointersAgree, ClaimsOK, Warming
<1>2. CASE Ready(v, age)
  <2>1. version[v].state = "warming" /\ e \in Event
        BY <1>2 DEF Ready, VersionsOK
  <2>2. /\ version' = [u \in VersionId |->
                         IF u = v THEN [version[u] EXCEPT !.state = "active"]
                         ELSE IF u = o THEN [version[u] EXCEPT !.state = "retired"]
                         ELSE version[u]]
        /\ current' = [current EXCEPT ![e] = v]
        /\ warm' = [warm EXCEPT ![v] = [i \in Instrument |-> Gone]]
        /\ UNCHANGED <<cert, identity>>
        BY <1>2 DEF TryActivate, Activated
  <2> HIDE DEF e, o
  <2>3. ASSUME NEW u \in VersionId
        PROVE  /\ version'[u] \in Versions
               /\ version'[u].event = version[u].event
               /\ version'[u].state = IF u = v THEN "active" ELSE IF u = o THEN "retired"
                                      ELSE version[u].state
    <3>1. version[u] \in Versions
          BY DEF RegistryOK
    <3>2. \A st \in {"active", "retired"} :
            /\ [version[u] EXCEPT !.state = st] \in Versions
            /\ [version[u] EXCEPT !.state = st].event = version[u].event
            /\ [version[u] EXCEPT !.state = st].state = st
          BY <3>1 DEF Versions
    <3> QED BY <2>2, <3>1, <3>2
  <2>4. Gone \in Int
        BY RegistryAssumption DEF Gone
  <2>5. RegistryOK'
        BY <2>1, <2>2, <2>3, <2>4 DEF RegistryOK
  <2>6. VersionsOK'
    <3>1. Warming' \subseteq Warming
          BY <2>3 DEF Warming
    <3>2. o \in VersionId => version[o].state = "active"
          BY <2>1, VersionIds DEF PointersAgree, o
    <3>3. \A u \in VersionId : version'[u].state # "none" => version[u].state # "none"
          BY <2>1, <2>3, <3>2
    <3> QED BY <2>3, <3>1, <3>3 DEF VersionsOK
  <2>7. o # v
        BY <2>1, VersionIds DEF PointersAgree, o
  <2>8. PointersAgree'
    <3>1. ASSUME NEW f \in Event, current'[f] # None
          PROVE  version'[current'[f]].event = f /\ version'[current'[f]].state = "active"
      <4>1. CASE f = e
            BY <2>1, <2>2, <2>3, <4>1 DEF RegistryOK, e
      <4>2. CASE f # e
        <5>1. current'[f] = current[f] /\ current[f] \in VersionId
              BY <2>1, <2>2, <3>1, <4>2 DEF RegistryOK
        <5>2. current[f] # o /\ current[f] # v
              BY <2>1, <3>1, <4>2, <5>1 DEF PointersAgree, o, e
        <5> QED BY <2>3, <3>1, <5>1, <5>2 DEF PointersAgree
      <4> QED BY <4>1, <4>2
    <3>2. ASSUME NEW u \in VersionId, version'[u].state = "active"
          PROVE  current'[version'[u].event] = u
      <4>1. CASE u = v
            BY <2>1, <2>2, <2>3, <4>1 DEF RegistryOK, e
      <4>2. CASE u # v
        <5>1. u # o /\ version[u].state = "active"
              BY <2>3, <3>2, <4>2
        <5>2. current[version[u].event] = u /\ version[u].event # e
              BY <5>1 DEF PointersAgree, o
        <5>3. version[u].event \in Event
              BY <5>1 DEF VersionsOK
        <5> QED BY <2>1, <2>2, <2>3, <5>2, <5>3 DEF RegistryOK
      <4> QED BY <4>1, <4>2
    <3> QED BY <3>1, <3>2 DEF PointersAgree
  <2>9. ClaimsOK'
        BY <2>2, <2>3 DEF ClaimsOK, RegistryOK, Certifications
  <2> QED BY <2>5, <2>6, <2>8, <2>9
<1> QED BY <1>1, <1>2

\* Transactions that leave the versions and the pointers alone.
LEMMA RegistryFrame ==
    ASSUME RegistryInv, UNCHANGED <<version, current>>, identity' \in Nat,
           warm' \in [VersionId -> [Instrument -> Int]],
           cert' \in [Instrument -> Certifications],
           \A i \in Instrument : \/ cert'[i].claim \in {None, cert[i].claim}
                                 \/ version[cert'[i].claim].state \in Live
    PROVE  RegistryInv'
<1> USE DEF RegistryInv
<1>1. RegistryOK' /\ VersionsOK' /\ PointersAgree'
      BY DEF RegistryOK, VersionsOK, PointersAgree, Warming
<1>2. ClaimsOK'
      BY DEF ClaimsOK, Live
<1> QED BY <1>1, <1>2

\* A claim is taken for a scope of a live version.
LEMMA ClaimKeeps ==
    ASSUME RegistryInv, NEW w \in Worker, NEW s \in Claimable, ClaimCertification(w, s, 0)
    PROVE  RegistryInv' /\ s \in VersionId \X Instrument
<1> DEFINE c0 == cert[s[2]]
           status == IF c0.status = "none" THEN "temporarily_unavailable" ELSE c0.status
           c1 == [c0 EXCEPT !.lease = Lease - 0]
           c2 == [c1 EXCEPT !.holder = w]
           c3 == [c2 EXCEPT !.claim = s[1]]
           c4 == [c3 EXCEPT !.status = status]
<1>1. s \in VersionId \X Instrument /\ s[1] \in VersionId /\ s[2] \in Instrument
      /\ version[s[1]].state \in Live
      BY DEF Claimable, DueScopes, Scopes
<1>2. c0 \in Certifications
      BY <1>1 DEF RegistryInv, RegistryOK
<1>3. cert' = [cert EXCEPT ![s[2]] = c4] /\ UNCHANGED <<version, current, warm, identity>>
  <2>1. cert' = [cert EXCEPT ![s[2]] = [c0 EXCEPT !.lease = Lease - 0, !.holder = w, !.claim = s[1],
                                                  !.status = status]]
        /\ UNCHANGED <<version, current, warm, identity>>
        BY DEF ClaimCertification
  <2>2. [c0 EXCEPT !.lease = Lease - 0, !.holder = w, !.claim = s[1],
                   !.status = status] = c4
    <3> HIDE DEF c0, status
    <3> QED BY <1>2 DEF Certifications
  <2> QED BY <2>1, <2>2
<1>4. status \in Status \cup {"none"}
      BY <1>2 DEF Certifications, Status
<1> HIDE DEF c0, status
<1>5. c1 \in Certifications
      BY <1>2, RegistryAssumption DEF Certifications
<1> HIDE DEF c1
<1>6. c2 \in Certifications
      BY <1>5 DEF Certifications
<1> HIDE DEF c2
<1>7. c3 \in Certifications /\ c3.claim = s[1]
      BY <1>1, <1>6 DEF Certifications
<1> HIDE DEF c3
<1>8. c4 \in Certifications /\ c4.claim = s[1]
      BY <1>4, <1>7 DEF Certifications
<1> HIDE DEF c4
<1>9. /\ cert' \in [Instrument -> Certifications]
      /\ \A i \in Instrument : cert'[i] = IF i = s[2] THEN c4 ELSE cert[i]
      BY <1>3, <1>8 DEF RegistryInv, RegistryOK
<1>10. warm' \in [VersionId -> [Instrument -> Int]] /\ identity' \in Nat
      BY <1>3 DEF RegistryInv, RegistryOK
<1>11. RegistryInv'
      BY <1>1, <1>3, <1>8, <1>9, <1>10, RegistryFrame
<1> QED BY <1>1, <1>11

\* A saved result releases the lease.
LEMMA SaveKeeps ==
    ASSUME RegistryInv, NEW s \in VersionId \X Instrument, NEW status \in Status,
           NEW age \in Nat, SaveCertification(s, status, age)
    PROVE  RegistryInv'
<1> DEFINE left == ValidFor(status) - age
           check == CheckAfter(status) - age
           c == [status |-> status, valid |-> left, check |-> IF check > 0 THEN check ELSE 0,
                 lease |-> 0, holder |-> None, claim |-> None]
<1>1. s[2] \in Instrument
      OBVIOUS
<1>2. left \in Int /\ check \in Int
      BY RegistryAssumption DEF ValidFor, CheckAfter
<1>3. cert' = [cert EXCEPT ![s[2]] = c] /\ UNCHANGED <<version, current, warm, identity>>
      BY DEF SaveCertification
<1> HIDE DEF left, check
<1>4. c \in Certifications /\ c.claim = None
      BY <1>2 DEF Certifications
<1> HIDE DEF c
<1>5. /\ cert' \in [Instrument -> Certifications]
      /\ \A i \in Instrument : cert'[i] = IF i = s[2] THEN c ELSE cert[i]
      BY <1>1, <1>3, <1>4 DEF RegistryInv, RegistryOK
<1>6. warm' \in [VersionId -> [Instrument -> Int]] /\ identity' \in Nat
      BY <1>3 DEF RegistryInv, RegistryOK
<1> QED BY <1>3, <1>4, <1>5, <1>6, RegistryFrame

LEMMA WarmKeeps ==
    ASSUME RegistryInv, NEW v \in VersionId, NEW i \in Instrument, NEW left \in Int, NEW state,
           SaveWarm(v, i, left, state, 0)
    PROVE  RegistryInv'
<1>1. warm' = [warm EXCEPT ![v][i] = left] /\ UNCHANGED <<version, current, cert, identity>>
      BY DEF SaveWarm
<1>2. /\ warm' \in [VersionId -> [Instrument -> Int]]
      /\ cert' \in [Instrument -> Certifications] /\ identity' \in Nat
      BY <1>1 DEF RegistryInv, RegistryOK
<1> QED BY <1>1, <1>2, RegistryFrame

LEMMA TickKeeps ==
    ASSUME RegistryInv, RegistryTick
    PROVE  RegistryInv'
<1>1. /\ warm' = [v \in VersionId |-> [i \in Instrument |-> Less(warm[v][i])]]
      /\ cert' = [i \in Instrument |->
                    [cert[i] EXCEPT !.valid = Less(@), !.check = Down(@), !.lease = Down(@)]]
      /\ UNCHANGED <<version, current, identity>>
      BY DEF RegistryTick
<1>2. \A n \in Int : Less(n) \in Int /\ Down(n) \in Int
      BY RegistryAssumption DEF Less, Down, Gone
<1>3. warm' \in [VersionId -> [Instrument -> Int]]
      BY <1>1, <1>2 DEF RegistryInv, RegistryOK
<1>4. ASSUME NEW i \in Instrument
      PROVE  cert'[i] \in Certifications /\ cert'[i].claim = cert[i].claim
  <2> DEFINE c0 == cert[i]
             c1 == [c0 EXCEPT !.valid = Less(c0.valid)]
             c2 == [c1 EXCEPT !.check = Down(c0.check)]
             c3 == [c2 EXCEPT !.lease = Down(c0.lease)]
  <2>1. c0 \in Certifications
        BY DEF RegistryInv, RegistryOK
  <2>2. cert'[i] = [c0 EXCEPT !.valid = Less(c0.valid), !.check = Down(c0.check),
                              !.lease = Down(c0.lease)]
        BY <1>1
  <2> HIDE DEF c0
  <2>3. cert'[i] = c3
        BY <2>1, <2>2 DEF Certifications
  <2>4. c1 \in Certifications /\ c1.claim = c0.claim
        BY <1>2, <2>1 DEF Certifications
  <2>5. Down(c0.check) \in Int /\ Down(c0.lease) \in Int
        BY <1>2, <2>1 DEF Certifications
  <2> HIDE DEF c1
  <2>6. c2 \in Certifications /\ c2.claim = c0.claim
        BY <2>4, <2>5 DEF Certifications
  <2> HIDE DEF c2
  <2>7. c3 \in Certifications /\ c3.claim = c0.claim
        BY <2>5, <2>6 DEF Certifications
  <2> QED BY <2>3, <2>7 DEF c0
<1>5. cert' \in [Instrument -> Certifications] /\ identity' \in Nat
      BY <1>1, <1>4 DEF RegistryInv, RegistryOK
<1> QED BY <1>1, <1>3, <1>4, <1>5, RegistryFrame

-----------------------------------------------------------------------------
(* Processes. *)

\* A cycle begins, goes on to its activation attempt, and ends.
LEMMA CycleStates ==
    /\ Idle \in Cycles /\ Idle.pc = "idle"
    /\ \A s \in VersionId \X Instrument, pc \in {"save", "advance"} :
         [pc |-> pc, scope |-> s, age |-> 0] \in Cycles
    /\ \A c \in Cycles : LET d == [c EXCEPT !.pc = "advance"]
                         IN  d \in Cycles /\ d.scope = c.scope
<1>1. Idle \in Cycles /\ Idle.pc = "idle"
      BY RegistryAssumption DEF Idle, Cycles, None
<1>2. ASSUME NEW s \in VersionId \X Instrument, NEW pc \in {"save", "advance"}
      PROVE  [pc |-> pc, scope |-> s, age |-> 0] \in Cycles
  <2>1. s \in (VersionId \cup {None}) \X (Instrument \cup {None})
        OBVIOUS
  <2> QED BY <2>1, RegistryAssumption DEF Cycles
<1>3. ASSUME NEW c \in Cycles
      PROVE  [c EXCEPT !.pc = "advance"] \in Cycles /\ [c EXCEPT !.pc = "advance"].scope = c.scope
      BY DEF Cycles
<1> QED BY <1>1, <1>2, <1>3

\* One worker's cycle moves on.
LEMMA WorkerMoves ==
    ASSUME ProcessesOK, NEW w \in Worker, NEW c \in Cycles,
           c.pc # "idle" => c.scope \in VersionId \X Instrument,
           worker' = [worker EXCEPT ![w] = c], UNCHANGED <<boot, observer>>
    PROVE  ProcessesOK'
<1>1. worker' \in [Worker -> Cycles] /\ \A u \in Worker : worker'[u] = IF u = w THEN c ELSE worker[u]
      BY DEF ProcessesOK
<1> QED BY <1>1 DEF ProcessesOK

LEMMA BootSteps ==
    ASSUME IInv,
           \/ \E mode \in {"prepare", "bootstrap", "refresh"} : StartBootstrap(mode)
           \/ ValidateActiveManifest \/ BootInstall \/ EnsureBatch \/ AwaitActive \/ AwaitBatch
    PROVE  IInv'
<1>1. UNCHANGED <<worker, observer>>
      BY DEF StartBootstrap, ValidateActiveManifest, BootInstall, EnsureBatch, AwaitActive, AwaitBatch
<1>2. boot \in Boots /\ boot.k \in DOMAIN EventOrder
      BY DEF IInv, ProcessesOK, Boots
<1>3. Off \in Boots
  <2>1. 1 \in DOMAIN EventOrder
        BY ManifestAssumption
  <2> QED BY <2>1 DEF Off, Boots, None
<1>4. boot' \in Boots
  <2>1. ASSUME NEW mode \in {"prepare", "bootstrap", "refresh"}, StartBootstrap(mode)
        PROVE  boot' \in Boots
    <3>1. 1 \in DOMAIN EventOrder /\ BootWait \in Nat
          BY ManifestAssumption
    <3> QED BY <2>1, <3>1 DEF StartBootstrap, Boots, IInv, RegistryOK
  <2>2. CASE ValidateActiveManifest
        BY <1>2, <1>3, <2>2 DEF ValidateActiveManifest, Ends, Boots
  <2>3. CASE BootInstall
    <3>1. PICK v \in VersionId \cup {None} :
            \/ boot' = Off
            \/ boot' = [boot EXCEPT !.pc = IF boot.k = 1 THEN "ensure" ELSE "wait", !.target = v]
          BY <2>3 DEF BootInstall, Ends
    <3> QED BY <1>2, <1>3, <3>1 DEF Boots
  <2>4. CASE EnsureBatch
        BY <1>2, <1>3, <2>4 DEF EnsureBatch, Ends, Boots
  <2>5. CASE AwaitActive
    <3>1. \/ boot' = Off
          \/ boot.k < Len(EventOrder) /\ boot' = [boot EXCEPT !.pc = "install", !.k = boot.k + 1]
          \/ boot' = [boot EXCEPT !.pc = "batch"]
          BY <2>5 DEF AwaitActive, Ends
    <3>2. boot.k < Len(EventOrder) => boot.k + 1 \in DOMAIN EventOrder
          BY <1>2, ManifestAssumption
    <3> QED BY <1>2, <1>3, <3>1, <3>2 DEF Boots
  <2>6. CASE AwaitBatch
        BY <1>3, <2>6 DEF AwaitBatch, Ends
  <2> QED BY <2>1, <2>2, <2>3, <2>4, <2>5, <2>6
<1>5. ProcessesOK'
      BY <1>1, <1>4 DEF IInv, ProcessesOK
<1>6. RegistryInv'
  <2>1. RegistryInv
        BY DEF IInv, RegistryInv
  <2>2. CASE BootInstall
    <3>1. EventOrder[boot.k] \in Event /\ Manifest \in SUBSET Instrument
          BY <1>2, ManifestAssumption
    <3> QED BY <2>1, <2>2, <3>1, InstallKeeps DEF BootInstall
  <2>3. CASE UNCHANGED <<version, current, warm, cert, identity>>
        BY <2>1, <2>3 DEF RegistryInv, RegistryOK, VersionsOK, PointersAgree, ClaimsOK, Warming
  <2> QED BY <2>2, <2>3 DEF StartBootstrap, ValidateActiveManifest, EnsureBatch, AwaitActive,
             AwaitBatch, StartBatch, registryVars
<1> QED BY <1>5, <1>6 DEF IInv, RegistryInv

LEMMA WorkerSteps ==
    ASSUME IInv, NEW w \in Worker, Claim(w) \/ Save(w) \/ Advance(w) \/ Crash(w)
    PROVE  IInv'
<1>0. RegistryInv /\ ProcessesOK
      BY DEF IInv, RegistryInv
<1>1. worker[w] \in Cycles /\ worker \in [Worker -> Cycles]
      /\ (worker[w].pc # "idle" => worker[w].scope \in VersionId \X Instrument)
      BY <1>0 DEF ProcessesOK
<1>2. CASE Claim(w)
  <2>1. PICK s \in Claimable :
          /\ ClaimCertification(w, s, 0)
          /\ worker' = [worker EXCEPT ![w] = [pc |-> "save", scope |-> s, age |-> 0]]
        BY <1>2 DEF Claim
  <2>2. RegistryInv' /\ s \in VersionId \X Instrument
        BY <1>0, <2>1, ClaimKeeps
  <2>3. UNCHANGED <<boot, observer>>
        BY <1>2 DEF Claim
  <2>4. ProcessesOK'
        BY <1>0, <2>1, <2>2, <2>3, CycleStates, WorkerMoves
  <2> QED BY <2>2, <2>4 DEF IInv, RegistryInv
<1>3. CASE worker' = [worker EXCEPT ![w] = Idle] /\ UNCHANGED <<registryVars, boot, observer>>
  <2>1. ProcessesOK'
        BY <1>0, <1>3, CycleStates, WorkerMoves
  <2>2. UNCHANGED <<version, current, warm, cert, identity>>
        BY <1>3 DEF registryVars
  <2> QED BY <2>1, <2>2 DEF IInv, RegistryOK, VersionsOK, PointersAgree, ClaimsOK, Warming
<1>4. CASE Save(w) /\ ClaimHolds(w, worker[w].scope)
  <2>1. PICK status \in Status :
          /\ SaveCertification(worker[w].scope, status, worker[w].age)
          /\ worker' = [worker EXCEPT ![w].pc = "advance"]
        BY <1>4 DEF Save
  <2>2. worker[w].scope \in VersionId \X Instrument /\ worker[w].age \in Nat
        BY <1>1, <1>4, RegistryAssumption DEF Save, Cycles
  <2>3. RegistryInv'
        BY <1>0, <2>1, <2>2, SaveKeeps
  <2>4. worker' = [worker EXCEPT ![w] = [worker[w] EXCEPT !.pc = "advance"]]
        BY <1>1, <2>1
  <2>5. UNCHANGED <<boot, observer>>
        BY <1>4 DEF Save
  <2>6. ProcessesOK'
        BY <1>0, <1>1, <2>2, <2>4, <2>5, CycleStates, WorkerMoves
  <2> QED BY <2>3, <2>6 DEF IInv, RegistryInv
<1>5. CASE Advance(w)
  <2>1. worker[w].scope \in VersionId \X Instrument /\ worker[w].scope[1] \in VersionId
        BY <1>1, <1>5 DEF Advance
  <2>2. RegistryInv'
        BY <1>0, <1>5, <2>1, ActivateKeeps DEF Advance
  <2>3. ProcessesOK'
        BY <1>0, <1>5, CycleStates, WorkerMoves DEF Advance
  <2> QED BY <2>2, <2>3 DEF IInv, RegistryInv
<1>6. (Save(w) /\ ~ ClaimHolds(w, worker[w].scope)) \/ Crash(w)
        => worker' = [worker EXCEPT ![w] = Idle] /\ UNCHANGED <<registryVars, boot, observer>>
      BY DEF Save, Crash
<1> QED BY <1>2, <1>3, <1>4, <1>5, <1>6

LEMMA ObserverSteps ==
    ASSUME IInv, ObserveComplete \/ ObserveInvalid \/ ObserverAdvance
    PROVE  IInv'
<1>0. RegistryInv /\ ProcessesOK
      BY DEF IInv, RegistryInv
<1>1. UNCHANGED <<boot, worker>>
      BY DEF ObserveComplete, ObserveInvalid, ObserverAdvance
<1>2. ASSUME NEW s \in Unseen
      PROVE  s \in VersionId \X Instrument /\ s[1] \in VersionId /\ s[2] \in Instrument
      BY DEF Unseen, Scopes
<1>3. CASE ObserveComplete
  <2>1. PICK s \in Unseen : /\ SaveWarm(s[1], s[2], WarmValid, "ready", 0)
                            /\ observer' = [pc |-> "advance", scope |-> s, age |-> 0]
        BY <1>3 DEF ObserveComplete
  <2>2. WarmValid \in Int
        BY RegistryAssumption
  <2>3. RegistryInv'
        BY <1>0, <1>2, <2>1, <2>2, WarmKeeps
  <2>4. ProcessesOK'
        BY <1>0, <1>1, <1>2, <2>1, CycleStates DEF ProcessesOK
  <2> QED BY <2>3, <2>4 DEF IInv, RegistryInv
<1>4. CASE ObserveInvalid
  <2>1. PICK s \in Unseen : SaveWarm(s[1], s[2], Gone, "unavailable", 0)
        BY <1>4 DEF ObserveInvalid
  <2>2. Gone \in Int /\ UNCHANGED observer
        BY <1>4, RegistryAssumption DEF Gone, ObserveInvalid
  <2>3. RegistryInv'
        BY <1>0, <1>2, <2>1, <2>2, WarmKeeps
  <2> QED BY <1>0, <1>1, <2>2, <2>3 DEF IInv, RegistryInv, ProcessesOK
<1>5. CASE ObserverAdvance
  <2>1. observer.scope[1] \in VersionId
        BY <1>0, <1>5 DEF ObserverAdvance, ProcessesOK
  <2>2. RegistryInv'
        BY <1>0, <1>5, <2>1, ActivateKeeps DEF ObserverAdvance
  <2>3. ProcessesOK'
        BY <1>0, <1>1, <1>5, CycleStates DEF ObserverAdvance, ProcessesOK
  <2> QED BY <2>2, <2>3 DEF IInv, RegistryInv
<1> QED BY <1>3, <1>4, <1>5

\* A cycle grows older only within its timeout.
LEMMA TickStep == IInv /\ Tick => IInv'
<1> SUFFICES ASSUME IInv, Tick PROVE IInv'
    OBVIOUS
<1>0. RegistryInv /\ ProcessesOK
      BY DEF IInv, RegistryInv
<1>1. RegistryInv'
      BY <1>0, TickKeeps DEF Tick
<1>2. ASSUME NEW c \in {observer} \cup {worker[w] : w \in Worker}
      PROVE  Aged(c) \in Cycles /\ Aged(c).pc = c.pc /\ Aged(c).scope = c.scope
  <2>1. c \in Cycles
        BY <1>0, <1>2 DEF ProcessesOK
  <2>2. c.pc = "idle" \/ c.age < MaxCycle
        BY <1>2 DEF Tick, PollsKeptUp, Resting
  <2> QED BY <2>1, <2>2, RegistryAssumption DEF Aged, Cycles
<1>3. /\ worker' = [w \in Worker |-> Aged(worker[w])]
      /\ observer' = Aged(observer)
      /\ boot' = [boot EXCEPT !.left = Down(boot.left)]
      BY DEF Tick
<1>4. boot' \in Boots
      BY <1>0, <1>3 DEF ProcessesOK, Boots, Down
<1>5. ProcessesOK'
      BY <1>0, <1>2, <1>3, <1>4 DEF ProcessesOK
<1> QED BY <1>1, <1>5 DEF IInv, RegistryInv

\* The Owner, the operator, a release and the selection coordinator.
LEMMA OtherSteps ==
    ASSUME IInv,
           \/ \E e \in Event : OwnerInstalls(e)
           \/ \E v \in VersionId : OperatorAbandons(v)
           \/ IdentityChanges \/ GenerationReserves \/ GenerationReleases
    PROVE  IInv'
<1>0. RegistryInv
      BY DEF IInv, RegistryInv
<1>1. UNCHANGED <<boot, worker, observer>>
      BY DEF OwnerInstalls, OperatorAbandons, IdentityChanges, GenerationReserves, GenerationReleases
<1>2. ProcessesOK'
      BY <1>1 DEF IInv, ProcessesOK
<1>3. RegistryInv'
  <2>1. ASSUME NEW e \in Event, OwnerInstalls(e) PROVE RegistryInv'
        BY <1>0, <2>1, InstallKeeps, ManifestAssumption DEF OwnerInstalls
  <2>2. ASSUME NEW v \in VersionId, OperatorAbandons(v) PROVE RegistryInv'
        BY <1>0, <2>2, AbandonKeeps DEF OperatorAbandons
  <2>3. CASE IdentityChanges \/ GenerationReserves \/ GenerationReleases
    <3>1. UNCHANGED <<version, current, warm, cert>> /\ identity' \in Nat
          BY <2>3 DEF IdentityChanges, GenerationReserves, GenerationReleases, IInv, RegistryOK
    <3> QED BY <1>0, <3>1 DEF RegistryInv, RegistryOK, VersionsOK, PointersAgree, ClaimsOK, Warming
  <2> QED BY <2>1, <2>2, <2>3
<1> QED BY <1>2, <1>3 DEF IInv, RegistryInv

-----------------------------------------------------------------------------
(* Theorems. *)

LEMMA NextInv == IInv /\ [Next]_vars => IInv'
<1> SUFFICES ASSUME IInv, [Next]_vars PROVE IInv'
    OBVIOUS
<1>1. CASE UNCHANGED vars
      BY <1>1 DEF vars, registryVars, processVars, IInv, RegistryOK, ProcessesOK, VersionsOK,
                  PointersAgree, ClaimsOK, Warming
<1> QED BY <1>1, BootSteps, WorkerSteps, ObserverSteps, TickStep, OtherSteps DEF Next

\* The inductive invariant of the strategy universes.
THEOREM Invariance == Spec => []IInv
BY InitInv, NextInv, PTL DEF Spec

\* However installs, activations by either worker and abandons interleave, at most one
\* version warms, and the pointers and the active versions agree.
THEOREM PointersAndVersionsAgree == Spec => []UniverseAgrees
<1>1. IInv => UniverseAgrees
  <2> SUFFICES ASSUME IInv PROVE Cardinality(Warming) <= 1
      BY DEF IInv, PointersAgree, UniverseAgrees
  <2>1. CASE Warming = {}
        BY <2>1, FS_EmptySet
  <2>2. CASE Warming # {}
    <3>1. PICK v : v \in Warming
          BY <2>2
    <3>2. Warming = {v}
          BY <3>1 DEF IInv, VersionsOK
    <3> QED BY <3>2, FS_Singleton
  <2> QED BY <2>1, <2>2
<1> QED BY <1>1, Invariance, PTL

\* A result lands only under a claim that holds, and an abandon voids the claims for
\* its version: facts read for an abandoned version are never recorded.
THEOREM VoidClaimsStayVoid == Spec => VoidClaimNeverLands
<1> DEFINE Lands == \A w \in Worker :
             worker[w].pc = "save" /\ worker'[w].pc = "advance"
                => version[worker[w].scope[1]].state # "abandoned"
<1>1. IInv /\ [Next]_vars => [Lands]_vars
  <2> SUFFICES ASSUME IInv, Next, NEW w \in Worker,
                      worker[w].pc = "save", worker'[w].pc = "advance"
               PROVE  version[worker[w].scope[1]].state # "abandoned"
      OBVIOUS
  <2>0. worker \in [Worker -> Cycles] /\ worker[w].scope \in VersionId \X Instrument
        BY DEF IInv, ProcessesOK
  <2>1. CASE Save(w) /\ ClaimHolds(w, worker[w].scope)
    <3>1. /\ worker[w].scope[2] \in Instrument /\ worker[w].scope[1] \in VersionId
          /\ cert[worker[w].scope[2]].claim = worker[w].scope[1]
          BY <2>0, <2>1 DEF ClaimHolds
    <3> QED BY <3>1, VersionIds DEF IInv, ClaimsOK
  <2>2. ASSUME NEW u \in Worker,
               \/ Claim(u) \/ Advance(u) \/ Crash(u)
               \/ Save(u) /\ (u = w => ~ ClaimHolds(w, worker[w].scope))
        PROVE  FALSE
    <3>1. PICK c : worker' = [worker EXCEPT ![u] = c]
          BY <2>2, <2>0 DEF Claim, Advance, Crash, Save
    <3>2. u = w
          BY <2>0, <3>1
    <3>3. worker'[w] = Idle \/ worker'[w].pc = "save"
          BY <2>0, <2>2, <3>2 DEF Claim, Advance, Crash, Save
    <3> QED BY <3>3 DEF Idle
  <2>3. CASE UNCHANGED worker
        BY <2>3
  <2>4. CASE Tick
    <3>1. worker'[w] = Aged(worker[w])
          BY <2>4 DEF Tick
    <3>2. worker[w] \in Cycles
          BY <2>0
    <3> QED BY <3>1, <3>2 DEF Aged, Cycles
  <2>5. \/ UNCHANGED worker \/ Tick \/ \E u \in Worker : Claim(u) \/ Save(u) \/ Advance(u) \/ Crash(u)
        BY DEF Next, StartBootstrap, ValidateActiveManifest, BootInstall, EnsureBatch, AwaitActive,
               AwaitBatch, OwnerInstalls, OperatorAbandons, IdentityChanges, ObserveComplete,
               ObserveInvalid, ObserverAdvance, GenerationReserves, GenerationReleases
  <2> QED BY <2>1, <2>2, <2>3, <2>4, <2>5
<1> QED BY <1>1, Invariance, PTL DEF Spec, VoidClaimNeverLands

\* Both workers attempt an activation with the time their cycle began; whichever of them
\* succeeds, the version's members are then all certified and warm.
THEOREM ActivationNeedsEvidence == Spec => ActivatedOnEvidence
<1> DEFINE Proven(e, v) ==
             /\ \A i \in version[v].members :
                  /\ cert[i].status = "eligible" /\ cert[i].valid > Gone
                  /\ warm[v][i] > Gone
             /\ e \in Comparative => projection[e].members = version[v].members
           Evident == \A e \in Event : current'[e] # current[e] => Proven(e, current'[e])
<1>1. IInv /\ [Next]_vars => [Evident]_vars
  <2> SUFFICES ASSUME IInv, Next, NEW e \in Event, current'[e] # current[e]
               PROVE  Proven(e, current'[e])
      OBVIOUS
  <2>1. ASSUME NEW v \in VersionId, NEW age \in 0 .. MaxCycle, TryActivate(v, age)
        PROVE  Proven(e, current'[e])
    <3>1. Ready(v, age) /\ current' = [current EXCEPT ![version[v].event] = v]
          BY <2>1 DEF TryActivate
    <3>2. version[v].event = e /\ current'[e] = v
          BY <3>1 DEF IInv, RegistryOK
    <3>3. ASSUME NEW i \in version[v].members
          PROVE  cert[i].status = "eligible" /\ cert[i].valid > Gone /\ warm[v][i] > Gone
      <4>1. i \in Instrument
            BY DEF IInv, RegistryOK, Versions
      <4>2. /\ cert[i].status = "eligible" /\ FreshAt(cert[i].valid, CertValid, age)
            /\ FreshAt(warm[v][i], WarmValid, age)
            BY <3>1 DEF Ready, CertificationReady, WarmReady
      <4>3. cert[i].valid \in Int /\ warm[v][i] \in Int
            BY <4>1 DEF IInv, RegistryOK, Certifications
      <4>4. \A left \in Int : left + age > 0 => left > Gone
            BY RegistryAssumption DEF Gone
      <4> QED BY <4>2, <4>3, <4>4 DEF FreshAt
    <3>4. e \in Comparative => projection[e].members = version[v].members
          BY <3>1, <3>2 DEF Ready, ComparisonReady
    <3> QED BY <3>2, <3>3, <3>4
  <2>2. ASSUME NEW w \in Worker, Advance(w) PROVE Proven(e, current'[e])
    <3>1. worker[w].scope[1] \in VersionId /\ worker[w].age \in 0 .. MaxCycle
          BY <2>2 DEF Advance, IInv, ProcessesOK, Cycles
    <3> QED BY <2>1, <2>2, <3>1 DEF Advance
  <2>3. ASSUME ObserverAdvance PROVE Proven(e, current'[e])
    <3>1. observer.scope[1] \in VersionId /\ observer.age \in 0 .. MaxCycle
          BY <2>3 DEF ObserverAdvance, IInv, ProcessesOK, Cycles
    <3> QED BY <2>1, <2>3, <3>1 DEF ObserverAdvance
  <2>4. \/ UNCHANGED current \/ ObserverAdvance \/ \E w \in Worker : Advance(w)
        BY DEF Next, StartBootstrap, ValidateActiveManifest, BootInstall, EnsureBatch, AwaitActive,
               AwaitBatch, OwnerInstalls, OperatorAbandons, IdentityChanges, ObserveComplete,
               ObserveInvalid, GenerationReserves, GenerationReleases, Claim, Save, Crash, Tick,
               RegistryTick, Install, Abandon, StartBatch, ClaimCertification, SaveCertification,
               SaveWarm, registryVars
  <2> QED BY <2>2, <2>3, <2>4
<1> QED BY <1>1, Invariance, PTL DEF Spec, ActivatedOnEvidence

=============================================================================
