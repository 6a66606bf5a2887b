----------------------- MODULE SignalObservationProofs -----------------------
(***************************************************************************)
(* Theorems about SignalObservation, for any workers, any number of bars,  *)
(* grants and faults: every Signal is armed by a NOT_TRIGGERED close of    *)
(* its own.                                                                *)
(***************************************************************************)
EXTENDS SignalObservation, TLAPS

Verdict == {Triggered, NotTriggered}
Rearms == [close : Nat, binding : Nat, recovery : Nat]
Signals == [id : Nat, binding : Nat, recovery : Nat]
Running == {"armed", "triggered"}

\* The bars a worker may be reading are closed, and the detector has a verdict on each.
BarsOK ==
  /\ close \in Nat \ {0} /\ binding \in Nat /\ market \in Seq(Verdict \cup {Invalid}) /\ Len(market) = close
  /\ worker = [w \in Workers |-> worker[w]]
  /\ \A w \in Workers : worker[w].pc \in {"claimed", "reading"} => worker[w].close \in 1..close
  /\ authority \in [id : Nat, kind : {"normal", "recovery", "vacuum"}, first : Nat, expired : BOOLEAN]

RowsOK ==
  /\ episode \in [state : EpisodeStates, id : Nat, last : Nat]
  /\ comparison \in [revision : Nat, armed : Nat, last : Nat, status : Verdict \cup {"none"}]
  /\ recovery \in [revision : Nat, first : Nat, armed : Nat, last : Nat,
                   status : Verdict \cup {"none"}]
  /\ signals \subseteq Signals /\ rearms \subseteq Rearms

\* Where the Episode stands among the Signals: without an Episode there is none; an armed one is
\* past them all, armed by a committed close; a triggered one has at most its own Signal, and a
\* re-arm lies between it and every other.
EpisodeOK ==
  /\ episode.state = "none" => episode = NoEpisode
  /\ episode.state \notin Running => signals = {}
  /\ episode.state = "armed" =>
       /\ \E r \in rearms : r.close = episode.last
       /\ \A s \in signals : s.id < episode.last
  /\ episode.state = "triggered" =>
       /\ episode.id <= episode.last
       /\ \A s \in signals : /\ s.id <= episode.id
                             /\ s.id < episode.id =>
                                  \E r \in rearms : s.id < r.close /\ r.close < episode.id

\* An armed barrier was armed by a committed close under its own revision, and the Episode in force
\* began no earlier.
Began(armed) ==
  /\ episode.state \in Running
  /\ episode.state = "armed" => armed <= episode.last
  /\ episode.state = "triggered" => armed < episode.id

BarriersOK ==
  /\ comparison.armed # 0 =>
       /\ Began(comparison.armed)
       /\ \E r \in rearms : r.binding = comparison.revision /\ r.close = comparison.armed
  /\ recovery.armed # 0 =>
       /\ Began(recovery.armed)
       /\ \E r \in rearms : r.recovery = recovery.revision /\ r.close = recovery.armed

IInv == BarsOK /\ RowsOK /\ EpisodeOK /\ BarriersOK /\ SignalsNeedRearm

-----------------------------------------------------------------------------
(* Operators *)

LEMMA HighestIsNat ==
    ASSUME NEW a \in Nat, NEW b \in Nat, NEW c \in Nat
    PROVE  Highest({a, b, c}) \in Nat /\ Highest({a, b}) \in Nat
<1>1. \E m \in {a, b} : \A n \in {a, b} : n <= m
      OBVIOUS
<1>2. \E m \in {a, b, c} : \A n \in {a, b, c} : n <= m
      OBVIOUS
<1> QED BY <1>1, <1>2 DEF Highest

\* A close that no barrier suppresses and no reducer refuses is one the Episode reducer takes.
LEMMA TakenByEpisode ==
    ASSUME NEW status, NEW at, ~ EpisodeRaises(status, at), ~ Suppressed(status, at)
    PROVE  ~ EpisodeRefuses(episode, status, at)
BY DEF EpisodeRaises, Suppressed, ComparisonRefuses

\* A NOT_TRIGGERED close arms the Episode; repeated, it leaves an armed one alone.
LEMMA NotTriggeredArms ==
    ASSUME RowsOK, NEW at \in Nat, ~ EpisodeRefuses(episode, NotTriggered, at)
    PROVE  LET next == AdvanceExposureEpisode(episode, NotTriggered, at)
           IN  /\ next \in [state : EpisodeStates, id : Nat, last : Nat]
               /\ next.state = "armed" /\ next.last = at
               /\ at >= episode.last /\ (at > episode.last \/ episode.state = "armed")
BY DEF RowsOK, EpisodeRefuses, AdvanceExposureEpisode, EpisodeStates, Triggered, NotTriggered

\* A TRIGGERED close goes on with a triggered Episode, or starts one from an armed or absent one.
LEMMA TriggeredContinues ==
    ASSUME RowsOK, NEW at \in Nat, ~ EpisodeRefuses(episode, Triggered, at)
    PROVE  LET next == AdvanceExposureEpisode(episode, Triggered, at)
           IN  /\ next \in [state : EpisodeStates, id : Nat, last : Nat]
               /\ next.state = "triggered" /\ next.last = at /\ at >= episode.last
               /\ episode.state \in {"none", "armed", "triggered"}
               /\ episode.state = "triggered" => next.id = episode.id
               /\ episode.state # "triggered" => next.id = at /\ at > episode.last
BY DEF RowsOK, EpisodeRefuses, RebaseStates, AdvanceExposureEpisode, EpisodeStates, Triggered,
       NotTriggered

-----------------------------------------------------------------------------
(* Steps that leave the rows alone *)

LEMMA InitInv == Init => IInv
<1> SUFFICES ASSUME Init PROVE IInv
    OBVIOUS
<1>1. /\ close \in Nat \ {0} /\ binding \in Nat
      /\ authority \in [id : Nat, kind : {"normal", "recovery", "vacuum"}, first : Nat, expired : BOOLEAN]
      BY DEF Init
<1>2. market \in Seq(Verdict \cup {Invalid}) /\ Len(market) = close
      BY <1>1 DEF Init, Verdict
<1>3. BarsOK
      BY <1>1, <1>2 DEF Init, BarsOK, Idle
<1>4. RowsOK
      BY DEF Init, RowsOK, NoEpisode, NoComparison, NoRecovery, EpisodeStates, Signals, Rearms
<1>5. EpisodeOK /\ BarriersOK /\ SignalsNeedRearm
      BY DEF Init, EpisodeOK, BarriersOK, SignalsNeedRearm, NoEpisode, NoComparison, NoRecovery,
             Running
<1> QED BY <1>3, <1>4, <1>5 DEF IInv

rows == <<episode, comparison, recovery, signals, rearms>>

LEMMA RowsStay ==
    ASSUME IInv, UNCHANGED rows, BarsOK'
    PROVE  IInv'
BY DEF rows, IInv, RowsOK, EpisodeOK, BarriersOK, Began, SignalsNeedRearm

LEMMA Finishes ==
    ASSUME BarsOK, NEW w \in Workers, NEW retry, NEW warmed, Finish(w, retry, warmed),
           UNCHANGED <<close, market, binding, authority>>
    PROVE  BarsOK'
<1>1. [Idle EXCEPT !.pc = "done", !.close = worker[w].close, !.retry = retry,
                   !.warmed = warmed].pc = "done"
      BY DEF Idle
<1>2. \A v \in Workers : worker'[v].pc \in {"claimed", "reading"} => worker'[v] = worker[v]
      BY <1>1 DEF Finish, BarsOK
<1>3. worker' = [v \in Workers |-> worker'[v]]
      BY DEF Finish, BarsOK
<1> QED BY <1>2, <1>3 DEF BarsOK

LEMMA Rests ==
    ASSUME BarsOK, NEW w \in Workers, NEW next, next.pc \notin {"claimed", "reading"},
           worker' = [worker EXCEPT ![w] = next], UNCHANGED <<close, market, binding, authority>>
    PROVE  BarsOK'
BY DEF BarsOK

LEMMA WorkerStepsKeepBars ==
    ASSUME BarsOK, NEW w \in Workers,
           \/ WorkerStep(w) \/ MarketUnavailable(w) \/ ObservationTimesOut(w) \/ Crash(w)
    PROVE  BarsOK'
<1>1. CASE \/ OpenSuperseded(w) \/ OpenRefused(w) \/ WarmFactsInvalid(w) \/ WarmScope(w)
           \/ CommitRefused(w) \/ CommitInvalid(w) \/ CommitRaises(w) \/ CommitObservation(w)
           \/ MarketUnavailable(w) \/ ObservationTimesOut(w)
  <2>1. UNCHANGED <<close, market, binding, authority>>
        BY <1>1 DEF OpenSuperseded, OpenRefused, WarmFactsInvalid, WarmScope, CommitRefused,
                    CommitInvalid, CommitRaises, CommitObservation, MarketUnavailable, ObservationTimesOut
  <2>2. PICK retry, warmed : Finish(w, retry, warmed)
        BY <1>1 DEF OpenSuperseded, OpenRefused, WarmFactsInvalid, WarmScope, CommitRefused,
                    CommitInvalid, CommitRaises, CommitObservation, MarketUnavailable, ObservationTimesOut
  <2> QED BY <2>1, <2>2, Finishes
<1>2. CASE ClaimScope(w)
  <2>1. LET next == [Idle EXCEPT !.pc = "claimed", !.close = close,
                                !.authority = EffectiveAuthority]
        IN  next.pc = "claimed" /\ next.close = close
        BY DEF Idle
  <2>2. close \in 1..close
        BY <1>2 DEF ClaimScope, BarsOK
  <2> QED BY <1>2, <2>1, <2>2 DEF ClaimScope, BarsOK
<1>3. CASE OpenScope(w)
  <2>1. [Idle EXCEPT !.pc = "reading", !.close = worker[w].close, !.lifecycle = scope.lifecycle,
                     !.authority = worker[w].authority, !.binding = binding].close = worker[w].close
        BY DEF Idle
  <2> QED BY <1>3, <2>1 DEF OpenScope, BarsOK
<1>4. CASE ScheduleScope(w)
  <2>1. Idle.pc = "idle" /\ [Idle EXCEPT !.pc = "advance"].pc = "advance"
        BY DEF Idle
  <2> QED BY <1>4, <2>1, Rests DEF ScheduleScope
<1>5. CASE AdvanceUniverse(w) \/ Crash(w)
  <2>1. Idle.pc = "idle"
        BY DEF Idle
  <2> QED BY <1>5, <2>1, Rests DEF AdvanceUniverse, Crash
<1> QED BY <1>1, <1>2, <1>3, <1>4, <1>5 DEF WorkerStep

LEMMA WorldStepsKeepBars ==
    ASSUME BarsOK, RowsOK, \/ CloseBar \/ LeaseLapses \/ ExpireAuthority \/ RenewAuthority
                           \/ OpenVacuum \/ GrantActivation \/ GrantRecovery
    PROVE  BarsOK'
<1>1. CASE CloseBar
  <2> DEFINE kept == [c \in 1..close |-> IF InHand(c) THEN market[c] ELSE Invalid]
  <2>1. kept \in Seq(Verdict \cup {Invalid}) /\ Len(kept) = close
        BY DEF BarsOK
  <2>2. PICK status \in Verdict \cup {Invalid} : market' = Append(kept, status)
        BY <1>1 DEF CloseBar, Verdict
  <2>3. market' \in Seq(Verdict \cup {Invalid}) /\ Len(market') = close'
    <3> HIDE DEF kept
    <3>1. Append(kept, status) \in Seq(Verdict \cup {Invalid}) /\ Len(Append(kept, status)) = Len(kept) + 1
          BY <2>1
    <3>2. close' = close + 1
          BY <1>1 DEF CloseBar
    <3> QED BY <2>1, <2>2, <3>1, <3>2
  <2> QED BY <1>1, <2>3 DEF CloseBar, BarsOK
<1>2. CASE LeaseLapses
      BY <1>2 DEF LeaseLapses, BarsOK
<1>3. CASE ExpireAuthority \/ RenewAuthority \/ OpenVacuum
  <2>1. authority' \in [id : Nat, kind : {"normal", "recovery", "vacuum"}, first : Nat, expired : BOOLEAN]
    <3>0. authority \in [id : Nat, kind : {"normal", "recovery", "vacuum"}, first : Nat,
                         expired : BOOLEAN] /\ close \in Nat
          BY DEF BarsOK
    <3>1. CASE ExpireAuthority
          BY <3>0, <3>1, Zenon DEF ExpireAuthority
    <3>2. CASE RenewAuthority
      <4>1. authority.id + 1 \in Nat
            BY <3>0
      <4> QED BY <3>0, <3>2, <4>1 DEF RenewAuthority
    <3>3. CASE OpenVacuum
          BY <3>0, <3>3 DEF OpenVacuum
    <3> QED BY <1>3, <3>1, <3>2, <3>3
  <2> QED BY <1>3, <2>1 DEF ExpireAuthority, RenewAuthority, OpenVacuum, BarsOK
<1>4. CASE GrantActivation
      BY <1>4 DEF GrantActivation, BarsOK
<1>5. CASE GrantRecovery
      BY <1>5 DEF GrantRecovery, BarsOK
<1> QED BY <1>1, <1>2, <1>3, <1>4, <1>5

-----------------------------------------------------------------------------
(* A recovery begins: its barrier is unarmed, and an absent Episode gets a placeholder. *)

LEMMA GrantRecoveryKeeps ==
    ASSUME IInv, GrantRecovery
    PROVE  IInv'
<1> USE DEF IInv
<1>1. BarsOK'
      BY WorldStepsKeepBars
<1>2. LastConsumed \in Nat /\ Highest({recovery.last, LastConsumed}) \in Nat
      BY HighestIsNat DEF LastConsumed, RowsOK
<1>3. recovery' = recovery
      \/ /\ recovery' \in [revision : Nat, first : Nat, armed : Nat, last : Nat,
                           status : Verdict \cup {"none"}]
         /\ recovery'.armed = 0
      BY <1>2 DEF GrantRecovery, BeginAuthorityRecoveryRebase, BarsOK
<1>4. episode' = episode
      \/ /\ episode = NoEpisode
         /\ episode' = [state |-> "authority_rebase_required", id |-> 0, last |-> LastConsumed]
      BY DEF GrantRecovery
<1>5. UNCHANGED <<comparison, signals, rearms>>
      BY DEF GrantRecovery
<1>6. episode = NoEpisode => episode.state = "none" /\ signals = {} /\ comparison.armed = 0
                             /\ recovery.armed = 0
      BY DEF NoEpisode, EpisodeOK, BarriersOK, Began, Running
<1>7. RowsOK'
      BY <1>2, <1>3, <1>4, <1>5 DEF RowsOK, EpisodeStates
<1>8. EpisodeOK'
      BY <1>4, <1>5, <1>6 DEF EpisodeOK, Running
<1>9. BarriersOK'
      BY <1>3, <1>4, <1>5, <1>6 DEF BarriersOK, Began
<1>10. SignalsNeedRearm'
      BY <1>5 DEF SignalsNeedRearm
<1> QED BY <1>1, <1>7, <1>8, <1>9, <1>10

-----------------------------------------------------------------------------
(* The observation's second transaction *)

\* What every commit has in hand.
LEMMA CommitFacts ==
    ASSUME IInv, NEW w \in Workers, CommitObservation(w)
    PROVE  /\ worker[w].close \in Nat /\ Status(w) \in Verdict
           /\ ~ EpisodeRaises(Status(w), worker[w].close)
           /\ episode' = SavedEpisode(Status(w), worker[w].close)
           /\ comparison' = SavedComparison(Status(w), worker[w].close)
           /\ recovery' = SavedRecovery(Status(w), worker[w].close)
           /\ BarsOK'
<1>1. worker[w].close \in 1..close
      BY DEF IInv, BarsOK, CommitObservation
<1>2. worker[w].close \in Nat /\ Status(w) \in Verdict
      BY <1>1 DEF IInv, BarsOK, Status, CommitObservation
<1>3. BarsOK'
      BY WorkerStepsKeepBars DEF IInv, WorkerStep
<1> QED BY <1>2, <1>3 DEF CommitObservation

Rearm(at) == [close |-> at, binding |-> binding,
              recovery |-> IF Recovering THEN recovery.revision ELSE 0]

\* The barriers after a close: typed, and armed as before or by this very close.
LEMMA BarrierMoves ==
    ASSUME BarsOK, RowsOK, NEW at \in Nat, NEW status \in Verdict
    PROVE  LET cp == SavedComparison(status, at)
               rc == SavedRecovery(status, at)
           IN  /\ cp \in [revision : Nat, armed : Nat, last : Nat, status : Verdict \cup {"none"}]
               /\ rc \in [revision : Nat, first : Nat, armed : Nat, last : Nat,
                          status : Verdict \cup {"none"}]
               /\ cp.armed # 0 =>
                    \/ cp.armed = comparison.armed /\ cp.revision = comparison.revision
                    \/ /\ cp.armed = at /\ cp.revision = binding /\ status = NotTriggered
                       /\ ~ Suppressed(status, at)
               /\ rc.armed # 0 =>
                    \/ rc.armed = recovery.armed /\ rc.revision = recovery.revision
                    \/ /\ rc.armed = at /\ rc.revision = recovery.revision /\ Recovering
                       /\ status = NotTriggered /\ ~ Suppressed(status, at)
<1> USE DEF RowsOK, BarsOK
<1> DEFINE cp == SavedComparison(status, at)
           rc == SavedRecovery(status, at)
           held == Recovering /\ RecoverySuppresses(recovery, status, at)
<1>1. status = NotTriggered => (Suppressed(status, at) <=> held)
      BY DEF Suppressed, ComparisonSuppresses, Triggered, NotTriggered
<1>2. /\ cp \in [revision : Nat, armed : Nat, last : Nat, status : Verdict \cup {"none"}]
      /\ cp.armed # 0 =>
           \/ cp.armed = comparison.armed /\ cp.revision = comparison.revision
           \/ /\ cp.armed = at /\ cp.revision = binding /\ status = NotTriggered
              /\ ~ Suppressed(status, at)
  <2>1. CASE binding = 0 \/ held
        BY <2>1 DEF SavedComparison
  <2>2. CASE ~ (binding = 0 \/ held)
    <3>1. cp = AdvanceComparison(comparison, status, at, binding)
          BY <2>2 DEF SavedComparison
    <3> QED BY <1>1, <2>2, <3>1 DEF AdvanceComparison
  <2> QED BY <2>1, <2>2
<1>3. /\ rc \in [revision : Nat, first : Nat, armed : Nat, last : Nat, status : Verdict \cup {"none"}]
      /\ rc.armed # 0 =>
           \/ rc.armed = recovery.armed /\ rc.revision = recovery.revision
           \/ /\ rc.armed = at /\ rc.revision = recovery.revision /\ Recovering
              /\ status = NotTriggered /\ ~ Suppressed(status, at)
  <2>1. CASE Recovering /\ at # recovery.last
    <3>1. ~ (status = NotTriggered /\ held)
          BY <2>1 DEF RecoverySuppresses, Triggered, NotTriggered
    <3> QED BY <1>1, <2>1, <3>1 DEF SavedRecovery, AdvanceAuthorityRecoveryRebase
  <2>2. CASE ~ (Recovering /\ at # recovery.last)
        BY <2>2 DEF SavedRecovery, AdvanceAuthorityRecoveryRebase
  <2> QED BY <2>1, <2>2
<1> QED BY <1>2, <1>3

\* A suppressed close leaves the Signals and a running Episode alone.
LEMMA SuppressedKeeps ==
    ASSUME IInv, NEW w \in Workers, CommitObservation(w), Suppressed(Status(w), worker[w].close)
    PROVE  IInv'
<1> DEFINE at == worker[w].close
           status == Status(w)
<1> USE DEF IInv
<1>1. at \in Nat /\ status \in Verdict /\ BarsOK'
      BY CommitFacts
<1>2. signals' = signals
      BY DEF CommitObservation
<1>3. rearms \subseteq rearms' /\ rearms' \subseteq rearms \cup {Rearm(at)}
      BY DEF CommitObservation, Rearm
<1>4. \/ episode' = episode
      \/ /\ episode.state \notin Running
         /\ episode' \in [state : RebaseStates, id : Nat, last : Nat]
      BY <1>1, CommitFacts DEF SavedEpisode, NoEpisode, Running, RebaseStates, RowsOK
<1>5. comparison' = SavedComparison(status, at) /\ recovery' = SavedRecovery(status, at)
      BY CommitFacts
<1>6. /\ comparison' \in [revision : Nat, armed : Nat, last : Nat, status : Verdict \cup {"none"}]
      /\ recovery' \in [revision : Nat, first : Nat, armed : Nat, last : Nat,
                        status : Verdict \cup {"none"}]
      /\ comparison'.armed # 0 =>
           comparison'.armed = comparison.armed /\ comparison'.revision = comparison.revision
      /\ recovery'.armed # 0 =>
           recovery'.armed = recovery.armed /\ recovery'.revision = recovery.revision
      BY <1>1, <1>5, BarrierMoves
<1>7. Rearm(at) \in Rearms
      BY <1>1 DEF Rearm, Rearms, RowsOK, BarsOK
<1>8. RowsOK'
      BY <1>2, <1>3, <1>4, <1>6, <1>7 DEF RowsOK, EpisodeStates, RebaseStates
<1>9. EpisodeOK'
      BY <1>2, <1>3, <1>4 DEF EpisodeOK, Running, RebaseStates
<1>10. BarriersOK'
      BY <1>3, <1>4, <1>6 DEF BarriersOK, Began, Running
<1>11. SignalsNeedRearm'
      BY <1>2, <1>3 DEF SignalsNeedRearm
<1> QED BY <1>1, <1>8, <1>9, <1>10, <1>11

\* A NOT_TRIGGERED close arms the Episode past every Signal, and whatever barrier it arms.
LEMMA NotTriggeredKeeps ==
    ASSUME IInv, NEW w \in Workers, CommitObservation(w), Status(w) = NotTriggered,
           ~ Suppressed(Status(w), worker[w].close)
    PROVE  IInv'
<1> DEFINE at == worker[w].close
<1> USE DEF IInv
<1>1. at \in Nat /\ NotTriggered \in Verdict /\ BarsOK'
      BY CommitFacts
<1>2. signals' = signals
      BY DEF CommitObservation
<1>3. rearms' = rearms \cup {Rearm(at)}
      BY DEF CommitObservation, Rearm
<1>4. /\ episode' \in [state : EpisodeStates, id : Nat, last : Nat]
      /\ episode'.state = "armed" /\ episode'.last = at
      /\ at >= episode.last /\ (at > episode.last \/ episode.state = "armed")
  <2>1. episode' = AdvanceExposureEpisode(episode, NotTriggered, at)
        BY CommitFacts DEF SavedEpisode
  <2>2. ~ EpisodeRefuses(episode, NotTriggered, at)
        BY CommitFacts, TakenByEpisode
  <2> QED BY <1>1, <2>1, <2>2, NotTriggeredArms
<1>5. /\ comparison' \in [revision : Nat, armed : Nat, last : Nat, status : Verdict \cup {"none"}]
      /\ recovery' \in [revision : Nat, first : Nat, armed : Nat, last : Nat,
                        status : Verdict \cup {"none"}]
      /\ comparison'.armed # 0 =>
           \/ comparison'.armed = comparison.armed /\ comparison'.revision = comparison.revision
           \/ comparison'.armed = at /\ comparison'.revision = binding
      /\ recovery'.armed # 0 =>
           \/ recovery'.armed = recovery.armed /\ recovery'.revision = recovery.revision
           \/ recovery'.armed = at /\ recovery'.revision = recovery.revision /\ Recovering
      BY <1>1, CommitFacts, BarrierMoves
<1>6. /\ Rearm(at) \in Rearms /\ Rearm(at).close = at /\ Rearm(at).binding = binding
      /\ Recovering => Rearm(at).recovery = recovery.revision
      BY <1>1 DEF Rearm, Rearms, RowsOK, BarsOK
<1>7. RowsOK'
      BY <1>2, <1>3, <1>4, <1>5, <1>6 DEF RowsOK
<1>8. \A s \in signals : s.id < at
      BY <1>1, <1>4 DEF EpisodeOK, RowsOK, Running, EpisodeStates, Signals
<1>9. EpisodeOK'
      BY <1>2, <1>3, <1>4, <1>6, <1>8 DEF EpisodeOK, Running
<1>10. \A armed \in Nat : Began(armed) => armed <= at
      BY <1>1, <1>4 DEF Began, EpisodeOK, RowsOK, Running
<1>11. BarriersOK'
  <2>1. \A armed \in Nat : armed <= at => Began(armed)'
        BY <1>4 DEF Began, Running
  <2> QED BY <1>1, <1>3, <1>5, <1>6, <1>10, <2>1 DEF BarriersOK, RowsOK
<1>12. SignalsNeedRearm'
      BY <1>2, <1>3 DEF SignalsNeedRearm
<1> QED BY <1>1, <1>7, <1>9, <1>11, <1>12

\* What a TRIGGERED close that no barrier suppresses may add.
Born == [id |-> episode'.id, binding |-> binding,
         recovery |-> IF Recovering THEN recovery.revision ELSE 0]

\* A TRIGGERED close raises at most the Signal of its Episode, behind the re-arms it needs.
LEMMA TriggeredKeeps ==
    ASSUME IInv, NEW w \in Workers, CommitObservation(w), Status(w) = Triggered,
           ~ Suppressed(Status(w), worker[w].close)
    PROVE  IInv'
<1> DEFINE at == worker[w].close
<1> USE DEF IInv
<1>1. at \in Nat /\ Triggered \in Verdict /\ BarsOK' /\ Triggered # NotTriggered
      BY CommitFacts DEF Triggered, NotTriggered
<1>2. signals' = signals \/ (signals' = signals \cup {Born} /\ \A s \in signals : s.id # episode'.id)
      BY <1>1 DEF CommitObservation, IngestObserved, Born
<1>3. rearms' = rearms
      BY <1>1 DEF CommitObservation
<1>4. /\ episode' \in [state : EpisodeStates, id : Nat, last : Nat]
      /\ episode'.state = "triggered" /\ episode'.last = at /\ at >= episode.last
      /\ episode.state \in {"none", "armed", "triggered"}
      /\ episode.state = "triggered" => episode'.id = episode.id
      /\ episode.state # "triggered" => episode'.id = at /\ at > episode.last
  <2>1. episode' = AdvanceExposureEpisode(episode, Triggered, at)
        BY CommitFacts DEF SavedEpisode
  <2>2. ~ EpisodeRefuses(episode, Triggered, at)
        BY CommitFacts, TakenByEpisode
  <2> QED BY <1>1, <2>1, <2>2, TriggeredContinues
<1>5. /\ comparison' \in [revision : Nat, armed : Nat, last : Nat, status : Verdict \cup {"none"}]
      /\ recovery' \in [revision : Nat, first : Nat, armed : Nat, last : Nat,
                        status : Verdict \cup {"none"}]
      /\ comparison'.armed # 0 =>
           comparison'.armed = comparison.armed /\ comparison'.revision = comparison.revision
      /\ recovery'.armed # 0 =>
           recovery'.armed = recovery.armed /\ recovery'.revision = recovery.revision
      BY <1>1, CommitFacts, BarrierMoves
<1>6. Born \in Signals /\ Born.id = episode'.id /\ Born.binding = binding
      BY <1>4 DEF Born, Signals, RowsOK, BarsOK
<1>7. RowsOK'
      BY <1>2, <1>3, <1>4, <1>5, <1>6 DEF RowsOK
<1>8. \A s \in signals : /\ s.id <= episode'.id
                         /\ s.id < episode'.id =>
                              \E r \in rearms : s.id < r.close /\ r.close < episode'.id
  <2>1. CASE episode.state = "triggered"
        BY <1>4, <2>1 DEF EpisodeOK
  <2>2. CASE episode.state = "armed"
    <3>1. PICK r \in rearms : r.close = episode.last
          BY <2>2 DEF EpisodeOK
    <3>2. r.close < episode'.id /\ \A s \in signals : s.id < r.close
          BY <1>4, <2>2, <3>1 DEF EpisodeOK
    <3>3. \A s \in signals : s.id \in Nat
          BY DEF RowsOK, Signals
    <3>4. r.close \in Nat /\ episode'.id \in Nat
          BY <1>4, <3>1 DEF RowsOK
    <3> QED BY <3>2, <3>3, <3>4
  <2>3. CASE episode.state = "none"
        BY <2>3 DEF EpisodeOK, Running
  <2> QED BY <1>4, <2>1, <2>2, <2>3
<1>9. episode'.id <= episode'.last
      BY <1>1, <1>4 DEF EpisodeOK, RowsOK
<1>10. EpisodeOK'
      BY <1>2, <1>3, <1>4, <1>6, <1>8, <1>9 DEF EpisodeOK, Running
<1>11. \A armed \in Nat : Began(armed) => armed < episode'.id /\ Began(armed)'
      BY <1>1, <1>4 DEF Began, EpisodeOK, RowsOK, Running
<1>12. BarriersOK'
      BY <1>3, <1>5, <1>11 DEF BarriersOK, RowsOK
<1>13. binding > 0 => \E r \in rearms : r.binding = binding /\ r.close < episode'.id
  <2>1. SUFFICES ASSUME binding > 0
                 PROVE  \E r \in rearms : r.binding = binding /\ r.close < episode'.id
        OBVIOUS
  <2>2. comparison.revision = binding /\ comparison.armed # 0
        BY <1>1, <2>1 DEF Suppressed, ComparisonSuppresses
  <2> QED BY <1>11, <2>2 DEF BarriersOK, RowsOK
<1>14. Recovering => \E r \in rearms : r.recovery = recovery.revision /\ r.close < episode'.id
  <2>1. SUFFICES ASSUME Recovering
                 PROVE  \E r \in rearms : r.recovery = recovery.revision /\ r.close < episode'.id
        OBVIOUS
  <2>2. recovery.armed # 0
        BY <1>1, <2>1 DEF Suppressed, RecoverySuppresses
  <2> QED BY <1>11, <2>2 DEF BarriersOK, RowsOK
<1>15. SignalsNeedRearm'
  <2>1. CASE signals' = signals
        BY <1>3, <2>1 DEF SignalsNeedRearm
  <2>2. CASE signals' = signals \cup {Born}
    <3>1. \A s \in signals : ~ (episode'.id < s.id)
          BY <1>4, <1>8 DEF RowsOK, Signals
    <3>2. ~ (Born.id < Born.id)
          BY <1>4, <1>6
    <3>3. Born.recovery > 0 =>
             \E r \in rearms : r.recovery = Born.recovery /\ r.close < episode'.id
          BY <1>14 DEF Born
    <3> QED BY <1>3, <1>6, <1>8, <1>13, <2>2, <3>1, <3>2, <3>3 DEF SignalsNeedRearm
  <2> QED BY <1>2, <2>1, <2>2
<1> QED BY <1>1, <1>7, <1>10, <1>12, <1>15

-----------------------------------------------------------------------------

LEMMA NextInv == IInv /\ [Next]_vars => IInv'
<1> SUFFICES ASSUME IInv, [Next]_vars PROVE IInv'
    OBVIOUS
<1>1. CASE UNCHANGED vars
  <2>1. BarsOK'
        BY <1>1 DEF IInv, BarsOK, vars
  <2> QED BY <1>1, <2>1, RowsStay DEF vars, rows
<1>2. ASSUME NEW w \in Workers, CommitObservation(w)
      PROVE  IInv'
  <2>1. Status(w) \in {Triggered, NotTriggered}
        BY <1>2, CommitFacts DEF Verdict
  <2> QED BY <1>2, <2>1, SuppressedKeeps, NotTriggeredKeeps, TriggeredKeeps
<1>3. ASSUME NEW w \in Workers,
             \/ WorkerStep(w) \/ MarketUnavailable(w) \/ ObservationTimesOut(w) \/ Crash(w),
             ~ CommitObservation(w)
      PROVE  IInv'
  <2>1. BarsOK'
        BY <1>3, WorkerStepsKeepBars DEF IInv
  <2>2. UNCHANGED rows
        BY <1>3 DEF rows, WorkerStep, ClaimScope, OpenSuperseded, OpenRefused, OpenScope,
              WarmFactsInvalid, WarmScope, CommitRefused, CommitInvalid, CommitRaises, ScheduleScope,
              AdvanceUniverse, MarketUnavailable, ObservationTimesOut, Crash
  <2> QED BY <2>1, <2>2, RowsStay
<1>4. CASE CloseBar \/ LeaseLapses \/ ExpireAuthority \/ RenewAuthority \/ OpenVacuum \/ GrantActivation
  <2>1. BarsOK'
        BY <1>4, WorldStepsKeepBars DEF IInv
  <2>2. UNCHANGED rows
        BY <1>4 DEF rows, CloseBar, LeaseLapses, ExpireAuthority, RenewAuthority, OpenVacuum,
                 GrantActivation
  <2> QED BY <2>1, <2>2, RowsStay
<1>5. CASE GrantRecovery
      BY <1>5, GrantRecoveryKeeps
<1> QED BY <1>1, <1>2, <1>3, <1>4, <1>5 DEF Next

\* The inductive invariant of observation: what an Episode, its two barriers, the committed
\* NOT_TRIGGERED closes and the Signals say of each other after any claim, crash, lapse or grant.
THEOREM Invariance == Spec => []IInv
BY InitInv, NextInv, PTL DEF Spec

\* One Signal per Episode, and each armed under the comparison binding and the recovery it was born
\* under (observe_strategy_scope.py, exposure_episode.py, authority_recovery_rebase.py): for any
\* workers, any length of the market and any number of grants and faults.
THEOREM EverySignalIsArmed == Spec => []SignalsNeedRearm
<1>1. IInv => SignalsNeedRearm
      BY DEF IInv
<1> QED BY <1>1, Invariance, PTL

=============================================================================
