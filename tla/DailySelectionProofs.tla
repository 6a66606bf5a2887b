------------------------ MODULE DailySelectionProofs ------------------------
(***************************************************************************)
(* Theorems about DailySelection, for any selections, any length and       *)
(* number of sessions and any number of pauses: the vacuum and the         *)
(* generations agree, and a grant in force is the current one.             *)
(***************************************************************************)
EXTENDS DailySelection, TLAPS

\* Only the fence of a generation is ever reconfiguring, and a vacuum that still drains for a
\* pause or an empty Selection belongs to no generation.
VacuumShape ==
  /\ vacuum.state = "RECONFIGURING" => vacuum.gen # None
  /\ vacuum.state \in {"OPEN", "DRAINING_ENTRY"}
     /\ vacuum.blocker \in {"OWNER_PAUSED", "NO_SELECTION_READY_MEMBERS"} => vacuum.gen = None

\* An audit is evaluated only for an Owner who had not paused when it was read.
ReadWhileEnabled == job.pc = "evaluating" => job.seen[2] % 2 = 1

IInv == TypeOK /\ FenceAgrees /\ VacuumShape /\ GrantIsCurrent /\ ReadWhileEnabled

States == {"none"} \cup Nonterminal \cup Ended

-----------------------------------------------------------------------------
(* Rows of generations *)

LEMMA RowTyped ==
    ASSUME NEW st \in States, NEW m \in {"none", "dynamic", "static"}, NEW x \in Selections \cup {{}},
           NEW p \in Sessions \cup {None}, NEW a \in BOOLEAN, NEW v \in Nat, NEW e \in Nat,
           NEW b \in Nat, NEW n \in 0..2
    PROVE  [state |-> st, mode |-> m, members |-> x, previous |-> p, authorized |-> a, version |-> v,
            epoch |-> e, start |-> b, staged |-> n] \in Rows
BY Zenon DEF Rows, States

LEMMA FieldsTyped ==
    ASSUME NEW g \in Rows
    PROVE  /\ g.state \in States /\ g.mode \in {"none", "dynamic", "static"}
           /\ g.members \in Selections \cup {{}} /\ g.previous \in Sessions \cup {None}
           /\ g.authorized \in BOOLEAN /\ g.version \in Nat /\ g.epoch \in Nat /\ g.start \in Nat
           /\ g.staged \in 0..2
BY Zenon DEF Rows, States

LEMMA InStateTyped ==
    ASSUME NEW g \in Rows, NEW st \in States
    PROVE  InState(g, st) \in Rows /\ InState(g, st).state = st
<1>1. InState(g, st) \in Rows
    BY FieldsTyped, RowTyped, Zenon DEF InState
<1>2. InState(g, st).state = st
    BY Zenon DEF InState
<1>3. QED
    BY <1>1, <1>2

LEMMA StagedTyped ==
    ASSUME TypeOK, NEW n \in 0..2
    PROVE  /\ Staged(n) \in Rows
           /\ Staged(n).state = IF n = 2 THEN "STAGED" ELSE gens[Session].state
<1>1. gens[Session] \in Rows
    BY DEF TypeOK
<1>2. "STAGED" \in States
    BY DEF States, Nonterminal, Fenced, Working
<1>3. (IF n = 2 THEN "STAGED" ELSE gens[Session].state) \in States
    BY <1>1, <1>2, FieldsTyped
<1>4. Staged(n) \in Rows
    BY <1>1, <1>3, FieldsTyped, RowTyped, Zenon DEF Staged
<1>5. Staged(n).state = IF n = 2 THEN "STAGED" ELSE gens[Session].state
    BY Zenon DEF Staged
<1>6. QED
    BY <1>4, <1>5

LEMMA StartedTyped ==
    ASSUME TypeOK, NEW g \in Rows, NEW st \in States
    PROVE  StartedNow(g, st) \in Rows /\ StartedNow(g, st).state = st
<1>1. now \in Nat /\ 0 \in 0..2
    BY DEF TypeOK
<1>2. StartedNow(g, st) \in Rows
    BY <1>1, FieldsTyped, RowTyped, Zenon DEF StartedNow
<1>3. StartedNow(g, st).state = st
    BY Zenon DEF StartedNow
<1>4. QED
    BY <1>2, <1>3

LEMMA NewTyped ==
    ASSUME TypeOK, NEW m \in {"dynamic", "static"}, NEW x \in Selections \cup {{}}, NEW st \in States
    PROVE  NewGeneration(m, x, st) \in Rows /\ NewGeneration(m, x, st).state = st
<1>1. now \in Nat /\ 0 \in 0..2 /\ m \in {"none", "dynamic", "static"}
    BY DEF TypeOK
<1>2. control.version \in Nat /\ control.epoch \in Nat /\ pair.source \in Sessions \cup {None}
    BY DEF TypeOK
<1>3. PreviousAuthorized \in BOOLEAN
    BY Zenon DEF PreviousAuthorized
<1>4. NewGeneration(m, x, st) \in Rows
    BY <1>1, <1>2, <1>3, RowTyped, Zenon DEF NewGeneration
<1>5. NewGeneration(m, x, st).state = st
    BY Zenon DEF NewGeneration
<1>6. QED
    BY <1>4, <1>5

LEMMA OneMoves ==
    ASSUME TypeOK, NEW x \in Sessions, NEW r \in Rows, gens' = [gens EXCEPT ![x] = r]
    PROVE  /\ gens' \in [Sessions -> Rows] /\ gens'[x] = r
           /\ \A s \in Sessions \ {x} : gens'[s] = gens[s]
BY DEF TypeOK

LEMMA StateMoves ==
    ASSUME TypeOK, NEW x \in Sessions, NEW st \in States, gens' = [gens EXCEPT ![x] = InState(gens[x], st)]
    PROVE  /\ gens' \in [Sessions -> Rows] /\ gens'[x].state = st
           /\ \A s \in Sessions \ {x} : gens'[s] = gens[s]
<1>1. gens[x] \in Rows
    BY DEF TypeOK
<1>2. QED
    BY <1>1, InStateTyped, OneMoves

\* What the steps that move a generation leave of the others, and the state they give it.
LEMMA GenerationSteps ==
    ASSUME IInv
    PROVE  /\ DrainFence =>
                /\ vacuum.gen \in Sessions
                /\ gens' \in [Sessions -> Rows] /\ gens'[vacuum.gen].state = "MATERIALIZING"
                /\ \A s \in Sessions \ {vacuum.gen} : gens'[s] = gens[s]
           /\ AbandonGeneration =>
                /\ vacuum.gen \in Sessions
                /\ gens' \in [Sessions -> Rows] /\ gens'[vacuum.gen].state = "ABANDONED"
                /\ \A s \in Sessions \ {vacuum.gen} : gens'[s] = gens[s]
           /\ AddGeneration =>
                /\ gens' \in [Sessions -> Rows] /\ gens'[Session].state = "PENDING"
                /\ \A s \in Sessions \ {Session} : gens'[s] = gens[s]
           /\ Desire =>
                /\ gens' \in [Sessions -> Rows] /\ gens'[Session].state \in {"DESIRED", "ABANDONED"}
                /\ \A s \in Sessions \ {Session} : gens'[s] = gens[s]
           /\ Fence =>
                /\ gens' \in [Sessions -> Rows] /\ gens'[Session].state = "DRAINING_ENTRY"
                /\ \A s \in Sessions \ {Session} : gens'[s] = gens[s]
           /\ StageLong \/ StageShort \/ PrepareFallback =>
                /\ gens' \in [Sessions -> Rows] /\ gens'[Session].state \in Working
                /\ \A s \in Sessions \ {Session} : gens'[s] = gens[s]
           /\ FailClosed =>
                /\ gens' \in [Sessions -> Rows] /\ gens'[Session].state = "FAILED_CLOSED"
                /\ \A s \in Sessions \ {Session} : gens'[s] = gens[s]
           /\ ActivateGeneration =>
                /\ gens' \in [Sessions -> Rows] /\ gens'[Session].state = "ACTIVE"
                /\ \A s \in Sessions \ {Session} : gens'[s] = gens[s]
           /\ FallBackPrevious =>
                /\ gens' \in [Sessions -> Rows] /\ gens'[Session].state = "FALLBACK_PREVIOUS"
                /\ \A s \in Sessions \ {Session} : gens'[s] = gens[s]
<1> USE DEF IInv
<1>1. Session \in Sessions /\ gens[Session] \in Rows
    BY DEF TypeOK
<1>2. {"MATERIALIZING", "ABANDONED", "PENDING", "DESIRED", "DRAINING_ENTRY", "FAILED_CLOSED", "ACTIVE",
       "FALLBACK_PREVIOUS", "STAGED", "SUPERSEDED"} \subseteq States
    BY DEF States, Nonterminal, Unfenced, Fenced, Working, Ended
<1>3. vacuum.gen # None => vacuum.gen \in Sessions
    BY DEF TypeOK, Vacuums
<1>4. ASSUME DrainFence
      PROVE  /\ vacuum.gen \in Sessions
             /\ gens' \in [Sessions -> Rows] /\ gens'[vacuum.gen].state = "MATERIALIZING"
             /\ \A s \in Sessions \ {vacuum.gen} : gens'[s] = gens[s]
    BY <1>2, <1>3, <1>4, StateMoves DEF DrainFence
<1>5. ASSUME AbandonGeneration
      PROVE  /\ vacuum.gen \in Sessions
             /\ gens' \in [Sessions -> Rows] /\ gens'[vacuum.gen].state = "ABANDONED"
             /\ \A s \in Sessions \ {vacuum.gen} : gens'[s] = gens[s]
    BY <1>2, <1>3, <1>5, StateMoves DEF AbandonGeneration, VacuumShape
<1>6. ASSUME AddGeneration
      PROVE  /\ gens' \in [Sessions -> Rows] /\ gens'[Session].state = "PENDING"
             /\ \A s \in Sessions \ {Session} : gens'[s] = gens[s]
  <2>1. snap[Session].members \in Selections \cup {{}}
      BY <1>1 DEF TypeOK
  <2>2. /\ NewGeneration("dynamic", snap[Session].members, "PENDING") \in Rows
        /\ NewGeneration("dynamic", snap[Session].members, "PENDING").state = "PENDING"
      BY <1>2, <2>1, NewTyped
  <2>3. QED
      BY <1>1, <1>6, <2>2, OneMoves DEF AddGeneration
<1>7. ASSUME Desire
      PROVE  /\ gens' \in [Sessions -> Rows] /\ gens'[Session].state \in {"DESIRED", "ABANDONED"}
             /\ \A s \in Sessions \ {Session} : gens'[s] = gens[s]
    BY <1>1, <1>2, <1>7, StateMoves DEF Desire
<1>8. ASSUME Fence
      PROVE  /\ gens' \in [Sessions -> Rows] /\ gens'[Session].state = "DRAINING_ENTRY"
             /\ \A s \in Sessions \ {Session} : gens'[s] = gens[s]
    BY <1>1, <1>2, <1>8, StartedTyped, OneMoves DEF Fence
<1>9. ASSUME NEW n \in 0..2, gens' = [gens EXCEPT ![Session] = Staged(n)], gens[Session].state \in Working
      PROVE  /\ gens' \in [Sessions -> Rows] /\ gens'[Session].state \in Working
             /\ \A s \in Sessions \ {Session} : gens'[s] = gens[s]
    BY <1>1, <1>9, StagedTyped, OneMoves DEF Working
<1>10. ASSUME StageLong \/ StageShort \/ PrepareFallback
       PROVE  /\ gens' \in [Sessions -> Rows] /\ gens'[Session].state \in Working
              /\ \A s \in Sessions \ {Session} : gens'[s] = gens[s]
  <2>1. gens[Session].state \in Working
      BY <1>10 DEF StageLong, StageShort, PrepareFallback, Materializes
  <2>2. gens' = gens \/ \E n \in 0..2 : gens' = [gens EXCEPT ![Session] = Staged(n)]
      BY <1>10 DEF StageLong, StageShort, PrepareFallback
  <2>3. QED
      BY <1>1, <1>9, <2>1, <2>2 DEF TypeOK
<1>11. ASSUME FailClosed
       PROVE  /\ gens' \in [Sessions -> Rows] /\ gens'[Session].state = "FAILED_CLOSED"
              /\ \A s \in Sessions \ {Session} : gens'[s] = gens[s]
    BY <1>1, <1>2, <1>11, StateMoves DEF FailClosed
<1>12. ASSUME ActivateGeneration
       PROVE  /\ gens' \in [Sessions -> Rows] /\ gens'[Session].state = "ACTIVE"
              /\ \A s \in Sessions \ {Session} : gens'[s] = gens[s]
    BY <1>1, <1>2, <1>12, StateMoves DEF ActivateGeneration
<1>13. ASSUME FallBackPrevious
       PROVE  /\ gens' \in [Sessions -> Rows] /\ gens'[Session].state = "FALLBACK_PREVIOUS"
              /\ \A s \in Sessions \ {Session} : gens'[s] = gens[s]
    BY <1>1, <1>2, <1>13, StateMoves DEF FallBackPrevious
<1>14. QED
    BY <1>4, <1>5, <1>6, <1>7, <1>8, <1>10, <1>11, <1>12, <1>13

LEMMA RetargetMoves ==
    ASSUME IInv, NEW m \in {"dynamic", "static"}, NEW x \in Selections \cup {{}}, Retargets(m, x)
    PROVE  /\ gens' \in [Sessions -> Rows] /\ gens'[Session].state = "MATERIALIZING"
           /\ \A s \in Sessions \ {Session} : gens'[s] = gens[s] \/ gens'[s].state = "SUPERSEDED"
           /\ \A s \in Sessions \ {Session} : s = vacuum.gen => gens'[s].state \notin Working
<1>1. {"MATERIALIZING", "SUPERSEDED"} \subseteq States
    BY DEF States, Nonterminal, Fenced, Working, Ended
<1>2. NewGeneration(m, x, "MATERIALIZING") \in Rows /\ NewGeneration(m, x, "MATERIALIZING").state = "MATERIALIZING"
    BY <1>1, NewTyped DEF IInv
<1>3. \A s \in Sessions : /\ gens[s] \in Rows /\ InState(gens[s], "SUPERSEDED") \in Rows
                          /\ InState(gens[s], "SUPERSEDED").state = "SUPERSEDED"
    BY <1>1, InStateTyped DEF IInv, TypeOK
<1>4. Session \in Sessions
    BY DEF IInv, TypeOK
<1>5. gens' = [s \in Sessions |->
                 IF s = Session THEN NewGeneration(m, x, "MATERIALIZING")
                 ELSE IF s = vacuum.gen /\ gens[s].state \in Working THEN InState(gens[s], "SUPERSEDED") ELSE gens[s]]
    BY DEF Retargets
<1>6. QED
    BY <1>2, <1>3, <1>4, <1>5 DEF Working

LEMMA StaticMoves ==
    ASSUME IInv, AddStatic
    PROVE  /\ gens' \in [Sessions -> Rows] /\ gens'[Session].state = "PENDING"
           /\ \A s \in Open \ {Session} : gens'[s].state = "SUPERSEDED"
           /\ \A s \in Sessions \ (Open \cup {Session}) : gens'[s] = gens[s]
<1>1. {"PENDING", "SUPERSEDED"} \subseteq States
    BY DEF States, Nonterminal, Unfenced, Ended
<1>2. NewGeneration("static", Baseline, "PENDING") \in Rows /\ NewGeneration("static", Baseline, "PENDING").state = "PENDING"
    BY <1>1, DailyAssumption, NewTyped DEF IInv
<1>3. \A s \in Sessions : /\ gens[s] \in Rows /\ InState(gens[s], "SUPERSEDED") \in Rows
                          /\ InState(gens[s], "SUPERSEDED").state = "SUPERSEDED"
    BY <1>1, InStateTyped DEF IInv, TypeOK
<1>4. Session \in Sessions /\ Open \subseteq Sessions
    BY DEF IInv, TypeOK, Open
<1>5. gens' = [s \in Sessions |-> IF s = Session THEN NewGeneration("static", Baseline, "PENDING")
                                  ELSE IF s \in Open THEN InState(gens[s], "SUPERSEDED") ELSE gens[s]]
    BY DEF AddStatic
<1>6. QED
    BY <1>2, <1>3, <1>4, <1>5

LEMMA TypeStep ==
    ASSUME IInv, [Next]_vars PROVE TypeOK'
<1> USE DEF IInv, TypeOK, Vacuums, None, NoVacuum
<1>a. Session \in Nat /\ Sessions \subseteq Nat
    BY DEF Sessions
<1>b. now' = now => Session' = Session
    BY DEF Session
<1>1. CASE Pause
    BY <1>a, <1>b, <1>1 DEF Pause
<1>2. CASE Resume
    BY <1>a, <1>b, <1>2 DEF Resume
<1>3. CASE StageDynamic
    BY <1>a, <1>b, <1>3 DEF StageDynamic
<1>4. CASE StageStatic
    BY <1>a, <1>b, <1>4 DEF StageStatic
<1>5. CASE BeginDrain
    BY <1>a, <1>b, <1>5 DEF BeginDrain, Ticks, VacuumIn
<1>6. CASE DrainPause
    BY <1>a, <1>b, <1>6 DEF DrainPause, Drained, Ticks, VacuumIn
<1>7. CASE DrainFence
    BY <1>a, <1>b, <1>7, GenerationSteps DEF DrainFence, VacuumIn
<1>8. CASE DrainEmpty
    BY <1>a, <1>b, <1>8 DEF DrainEmpty, Drained, Activated
<1>9. CASE PrepareResume
    BY <1>a, <1>b, <1>9 DEF PrepareResume, Prepare
<1>10. CASE AbandonGeneration
    BY <1>a, <1>b, <1>10, GenerationSteps DEF AbandonGeneration
<1>11. CASE OwnerPaused
    BY <1>a, <1>b, <1>11 DEF OwnerPaused, RecordPause
<1>12. CASE PrepareContinuity
    BY <1>a, <1>b, <1>12 DEF PrepareContinuity, Prepare
<1>13. CASE OpenEmptyIntent
    BY <1>a, <1>b, <1>13 DEF OpenEmptyIntent
<1>14. CASE FirstNoChange
    BY <1>a, <1>b, <1>14 DEF FirstNoChange, Activated
<1>15. CASE PrepareNoChange
    BY <1>a, <1>b, <1>15 DEF PrepareNoChange, Prepare
<1>16. CASE NoChangeSuccessor
    BY <1>a, <1>b, <1>16 DEF NoChangeSuccessor
<1>17. CASE AddGeneration
    BY <1>a, <1>b, <1>17, GenerationSteps DEF AddGeneration
<1>18. CASE AddStatic
    BY <1>a, <1>b, <1>18, StaticMoves DEF AddStatic
<1>19. CASE Desire
    BY <1>a, <1>b, <1>19, GenerationSteps DEF Desire
<1>20. CASE Fence
    BY <1>a, <1>b, <1>20, GenerationSteps DEF Fence
<1>21. CASE RetargetDynamic
    BY <1>a, <1>b, <1>21, RetargetMoves DEF RetargetDynamic, Retargets
<1>22. CASE RetargetStatic
    BY <1>a, <1>b, <1>22, DailyAssumption, RetargetMoves DEF RetargetStatic, Retargets
<1>23. CASE StageLong
    BY <1>a, <1>b, <1>23, GenerationSteps DEF StageLong
<1>24. CASE StageShort
    BY <1>a, <1>b, <1>24, GenerationSteps DEF StageShort
<1>25. CASE FailClosed
    BY <1>a, <1>b, <1>25, GenerationSteps DEF FailClosed
<1>26. CASE PrepareFallback
    BY <1>a, <1>b, <1>26, GenerationSteps DEF PrepareFallback
<1>27. CASE ReadAudit
    BY <1>a, <1>b, <1>27 DEF ReadAudit
<1>28. CASE EvaluationFails
    BY <1>a, <1>b, <1>28 DEF EvaluationFails
<1>29. CASE JobEnds
    BY <1>a, <1>b, <1>29 DEF JobEnds
<1>30. CASE CommitContinuity
    BY <1>a, <1>b, <1>30 DEF CommitContinuity, Commits
<1>31. CASE CommitResume
    BY <1>a, <1>b, <1>31 DEF CommitResume, Commits
<1>32. CASE CommitNoChange
    BY <1>a, <1>b, <1>32 DEF CommitNoChange, Commits, Activated
<1>33. CASE ActivateGeneration
    BY <1>a, <1>b, <1>33, GenerationSteps DEF ActivateGeneration, Commits, Activated, StaticCommitted
<1>34. CASE FallBackPrevious
    BY <1>a, <1>b, <1>34, GenerationSteps DEF FallBackPrevious, Commits
<1>35. CASE \E members \in Selections : Select(members)
    BY <1>a, <1>b, <1>35 DEF Select
<1>36. CASE TicketOpens
    BY <1>a, <1>b, <1>36 DEF TicketOpens
<1>37. CASE TicketProtected
    BY <1>a, <1>b, <1>37 DEF TicketProtected
<1>38. CASE HourPasses
    BY <1>38 DEF HourPasses, Session
<1>39. CASE UNCHANGED vars
    BY <1>a, <1>b, <1>39 DEF vars
<1>40. QED
    BY <1>1, <1>2, <1>3, <1>4, <1>5, <1>6, <1>7, <1>8, <1>9, <1>10, <1>11, <1>12, <1>13, <1>14, <1>15, <1>16, <1>17, <1>18, <1>19, <1>20, <1>21, <1>22, <1>23, <1>24, <1>25, <1>26, <1>27, <1>28, <1>29, <1>30, <1>31, <1>32, <1>33, <1>34, <1>35, <1>36, <1>37, <1>38, <1>39
    DEF Next, OwnerNext, DrainNext, PlanNext, GenerationNext, AuditNext

LEMMA FenceStep ==
    ASSUME IInv, [Next]_vars PROVE FenceAgrees' /\ VacuumShape'
<1> USE DEF IInv, FenceAgrees, Alive, VacuumShape
<1>a. Session \in Sessions /\ None \notin Sessions
    BY DEF TypeOK, Sessions, None
<1>b. UNCHANGED <<gens, vacuum, busy>> => FenceAgrees' /\ VacuumShape'
    OBVIOUS
<1> USE DEF NoVacuum, None, Nonterminal, Unfenced, Fenced, Working
<1>1. CASE Pause
    BY <1>1, <1>a DEF Pause
<1>2. CASE Resume
    BY <1>2, <1>b DEF Resume
<1>3. CASE StageDynamic
    BY <1>3, <1>b DEF StageDynamic
<1>4. CASE StageStatic
    BY <1>4, <1>b DEF StageStatic
<1>5. CASE BeginDrain
    BY <1>5, <1>a DEF BeginDrain, VacuumIn
<1>6. CASE DrainPause
    BY <1>6, <1>a DEF DrainPause, Drained, VacuumIn
<1>7. CASE DrainFence
    BY <1>7, <1>a, GenerationSteps DEF DrainFence, Drained, VacuumIn
<1>8. CASE DrainEmpty
    BY <1>8, <1>a DEF DrainEmpty, Drained
<1>9. CASE PrepareResume
    BY <1>9, <1>b DEF PrepareResume
<1>10. CASE AbandonGeneration
    BY <1>10, <1>a, GenerationSteps DEF AbandonGeneration
<1>11. CASE OwnerPaused
    BY <1>11, <1>b DEF OwnerPaused
<1>12. CASE PrepareContinuity
    BY <1>12, <1>b DEF PrepareContinuity
<1>13. CASE OpenEmptyIntent
    BY <1>13, <1>a DEF OpenEmptyIntent, PlansSelection, Plans
<1>14. CASE FirstNoChange
    BY <1>14, <1>b DEF FirstNoChange
<1>15. CASE PrepareNoChange
    BY <1>15, <1>b DEF PrepareNoChange
<1>16. CASE NoChangeSuccessor
    BY <1>16, <1>b DEF NoChangeSuccessor
<1>17. CASE AddGeneration
    BY <1>17, <1>a, GenerationSteps DEF AddGeneration, Open, Alive
<1>18. CASE AddStatic
    BY <1>18, <1>a, StaticMoves DEF AddStatic, Open
<1>19. CASE Desire
    BY <1>19, <1>a, GenerationSteps DEF Desire, CarriesOn
<1>20. CASE Fence
    BY <1>20, <1>a, GenerationSteps DEF Fence, CarriesOn
<1>21. CASE RetargetDynamic
  <2>1. snap[Session].members \in Selections \cup {{}}
      BY <1>a DEF TypeOK
  <2>2. Retargets("dynamic", snap[Session].members)
      BY <1>21 DEF RetargetDynamic
  <2>3. QED
      BY <1>21, <1>a, <2>1, <2>2, RetargetMoves DEF RetargetDynamic, Retargets, Open
<1>22. CASE RetargetStatic
    BY <1>22, <1>a, RetargetMoves, DailyAssumption DEF RetargetStatic, Retargets, Open
<1>23. CASE StageLong
    BY <1>23, <1>a, GenerationSteps DEF StageLong, Materializes
<1>24. CASE StageShort
    BY <1>24, <1>a, GenerationSteps DEF StageShort, Materializes
<1>25. CASE FailClosed
    BY <1>25, <1>a, GenerationSteps DEF FailClosed, Materializes
<1>26. CASE PrepareFallback
    BY <1>26, <1>a, GenerationSteps DEF PrepareFallback, Materializes
<1>27. CASE ReadAudit
    BY <1>27, <1>b DEF ReadAudit
<1>28. CASE EvaluationFails
    BY <1>28, <1>b DEF EvaluationFails
<1>29. CASE JobEnds
    BY <1>29, <1>b DEF JobEnds
<1>30. CASE CommitContinuity
    BY <1>30, <1>b DEF CommitContinuity, Commits
<1>31. CASE CommitResume
    BY <1>31, <1>a DEF CommitResume, Commits, OwnerResumeMatches
<1>32. CASE CommitNoChange
    BY <1>32, <1>b DEF CommitNoChange, Commits
<1>33. CASE ActivateGeneration
    BY <1>33, <1>a, GenerationSteps DEF ActivateGeneration, Commits, SourceUnchanged
<1>34. CASE FallBackPrevious
    BY <1>34, <1>a, GenerationSteps DEF FallBackPrevious, Commits, SourceUnchanged
<1>35. CASE \E members \in Selections : Select(members)
    BY <1>35, <1>b DEF Select
<1>36. CASE TicketOpens
    BY <1>36, <1>a DEF TicketOpens
<1>37. CASE TicketProtected
    BY <1>37, <1>a DEF TicketProtected
<1>38. CASE HourPasses
    BY <1>38, <1>b DEF HourPasses
<1>39. CASE UNCHANGED vars
    BY <1>39, <1>b DEF vars
<1>40. QED
    BY <1>1, <1>2, <1>3, <1>4, <1>5, <1>6, <1>7, <1>8, <1>9, <1>10, <1>11, <1>12, <1>13, <1>14, <1>15, <1>16, <1>17, <1>18, <1>19, <1>20, <1>21, <1>22, <1>23, <1>24, <1>25, <1>26, <1>27, <1>28, <1>29, <1>30, <1>31, <1>32, <1>33, <1>34, <1>35, <1>36, <1>37, <1>38, <1>39
    DEF Next, OwnerNext, DrainNext, PlanNext, GenerationNext, AuditNext

LEMMA GrantStep ==
    ASSUME IInv, [Next]_vars PROVE GrantIsCurrent'
<1> USE DEF IInv, GrantIsCurrent, Enabled, Grants
<1>a. UNCHANGED <<owner, control, pair, vacuum, authority>> => GrantIsCurrent'
    OBVIOUS
<1>b. (\E kind \in Kinds : Commits(kind)) => Enabled
    BY DEF Commits, Facts, ReadWhileEnabled
<1>c. control.pending \in {"none", "STATIC", "DYNAMIC"}
    BY DEF TypeOK
<1> USE DEF NoVacuum
<1>1. CASE Pause
    BY <1>1 DEF Pause
<1>2. CASE Resume
    BY <1>2 DEF Resume
<1>3. CASE StageDynamic
    BY <1>3 DEF StageDynamic
<1>4. CASE StageStatic
    BY <1>4 DEF StageStatic
<1>5. CASE BeginDrain
    BY <1>5 DEF BeginDrain, VacuumIn
<1>6. CASE DrainPause
    BY <1>6 DEF DrainPause, Drained, VacuumIn
<1>7. CASE DrainFence
    BY <1>7 DEF DrainFence, Drained, VacuumIn
<1>8. CASE DrainEmpty
    BY <1>8 DEF DrainEmpty, Drained, Lineage
<1>9. CASE PrepareResume
    BY <1>9, <1>a DEF PrepareResume
<1>10. CASE AbandonGeneration
    BY <1>10 DEF AbandonGeneration
<1>11. CASE OwnerPaused
    BY <1>11 DEF OwnerPaused
<1>12. CASE PrepareContinuity
    BY <1>12, <1>a DEF PrepareContinuity
<1>13. CASE OpenEmptyIntent
    BY <1>13 DEF OpenEmptyIntent
<1>14. CASE FirstNoChange
    BY <1>14 DEF FirstNoChange, PlansSelection, Plans, Lineage, Activated
<1>15. CASE PrepareNoChange
    BY <1>15, <1>a DEF PrepareNoChange
<1>16. CASE NoChangeSuccessor
    BY <1>16 DEF NoChangeSuccessor, PlansSelection, Plans, SameMembers, ContinuityExists, Dormant
<1>17. CASE AddGeneration
    BY <1>17, <1>a DEF AddGeneration
<1>18. CASE AddStatic
    BY <1>18, <1>a DEF AddStatic
<1>19. CASE Desire
    BY <1>19, <1>a DEF Desire
<1>20. CASE Fence
    BY <1>20 DEF Fence
<1>21. CASE RetargetDynamic
    BY <1>21 DEF RetargetDynamic, Retargets
<1>22. CASE RetargetStatic
    BY <1>22 DEF RetargetStatic, Retargets
<1>23. CASE StageLong
    BY <1>23, <1>a DEF StageLong
<1>24. CASE StageShort
    BY <1>24, <1>a DEF StageShort
<1>25. CASE FailClosed
    BY <1>25 DEF FailClosed, Materializes
<1>26. CASE PrepareFallback
    BY <1>26 DEF PrepareFallback, Materializes
<1>27. CASE ReadAudit
    BY <1>27, <1>a DEF ReadAudit
<1>28. CASE EvaluationFails
    BY <1>28, <1>a DEF EvaluationFails
<1>29. CASE JobEnds
    BY <1>29, <1>a DEF JobEnds
<1>30. CASE CommitContinuity
    BY <1>30, <1>b, <1>c DEF CommitContinuity, Commits, Lineage, Kinds
<1>31. CASE CommitResume
    BY <1>31, <1>b, <1>c DEF CommitResume, Commits, Lineage, Kinds
<1>32. CASE CommitNoChange
    BY <1>32, <1>b, <1>c DEF CommitNoChange, Commits, Lineage, Activated, Kinds
<1>33. CASE ActivateGeneration
    BY <1>33, <1>b, <1>c DEF ActivateGeneration, Commits, Lineage, Activated, StaticCommitted, Kinds
<1>34. CASE FallBackPrevious
    BY <1>34, <1>b, <1>c DEF FallBackPrevious, Commits, Lineage, Kinds
<1>35. CASE \E members \in Selections : Select(members)
    BY <1>35, <1>a DEF Select
<1>36. CASE TicketOpens
    BY <1>36, <1>a DEF TicketOpens
<1>37. CASE TicketProtected
    BY <1>37, <1>a DEF TicketProtected
<1>38. CASE HourPasses
    BY <1>38, <1>a DEF HourPasses
<1>39. CASE UNCHANGED vars
    BY <1>39, <1>a DEF vars
<1>40. QED
    BY <1>1, <1>2, <1>3, <1>4, <1>5, <1>6, <1>7, <1>8, <1>9, <1>10, <1>11, <1>12, <1>13, <1>14, <1>15, <1>16, <1>17, <1>18, <1>19, <1>20, <1>21, <1>22, <1>23, <1>24, <1>25, <1>26, <1>27, <1>28, <1>29, <1>30, <1>31, <1>32, <1>33, <1>34, <1>35, <1>36, <1>37, <1>38, <1>39
    DEF Next, OwnerNext, DrainNext, PlanNext, GenerationNext, AuditNext

LEMMA ReadStep ==
    ASSUME IInv, [Next]_vars PROVE ReadWhileEnabled'
<1> USE DEF IInv, ReadWhileEnabled
<1>1. CASE ReadAudit
    BY <1>1 DEF ReadAudit, Facts, Enabled
<1>2. CASE EvaluationFails \/ JobEnds
    BY <1>2 DEF EvaluationFails, JobEnds, Idle
<1>3. CASE \E kind \in Kinds : Prepare(kind)
    BY <1>3 DEF Prepare
<1>4. CASE \E kind \in Kinds : Commits(kind)
    BY <1>4 DEF Commits, Idle
<1>5. CASE job' = job
    BY <1>5
<1>6. QED
  <2>1. OwnerNext \/ DrainNext \/ (\E members \in Selections : Select(members)) \/ TicketOpens
          \/ TicketProtected \/ HourPasses => job' = job
      BY DEF OwnerNext, Pause, Resume, StageDynamic, StageStatic, DrainNext, BeginDrain, DrainPause,
             DrainFence, DrainEmpty, Select, TicketOpens, TicketProtected, HourPasses
  <2>2. PlanNext => job' = job \/ \E kind \in Kinds : Prepare(kind)
      BY DEF PlanNext, PrepareResume, AbandonGeneration, OwnerPaused, PrepareContinuity, OpenEmptyIntent,
             FirstNoChange, PrepareNoChange, NoChangeSuccessor, Kinds
  <2>3. GenerationNext => job' = job \/ \E kind \in Kinds : Prepare(kind)
      BY DEF GenerationNext, AddGeneration, AddStatic, Desire, Fence, RetargetDynamic, RetargetStatic,
             Retargets, StageLong, StageShort, FailClosed, PrepareFallback, Kinds
  <2>4. AuditNext => ReadAudit \/ EvaluationFails \/ JobEnds \/ \E kind \in Kinds : Commits(kind)
      BY DEF AuditNext, CommitContinuity, CommitResume, CommitNoChange, ActivateGeneration,
             FallBackPrevious, Kinds
  <2>5. QED
      BY <1>1, <1>2, <1>3, <1>4, <1>5, <2>1, <2>2, <2>3, <2>4 DEF Next, vars

LEMMA InitHolds == Init => IInv
<1> SUFFICES ASSUME Init PROVE IInv
    OBVIOUS
<1>1. Session \in Sessions
    BY DailyAssumption DEF Init, Session, Sessions
<1>2. NoGeneration \in Rows /\ NoGeneration.state = "none"
  <2>1. "none" \in States /\ {} \in Selections \cup {{}} /\ None \in Sessions \cup {None} /\ FALSE \in BOOLEAN
        /\ None \in Nat /\ 0 \in Nat /\ 0 \in 0..2 /\ "none" \in {"none", "dynamic", "static"}
      BY DEF States, None
  <2>2. NoGeneration \in Rows
      BY <2>1, RowTyped, Zenon DEF NoGeneration
  <2>3. NoGeneration.state = "none"
      BY Zenon DEF NoGeneration
  <2>4. QED
      BY <2>2, <2>3
<1>3. gens \in [Sessions -> Rows] /\ \A s \in Sessions : gens[s].state = "none"
    BY <1>2 DEF Init
<1>4. snap \in [Sessions -> [ready : BOOLEAN, members : Selections \cup {{}}, epoch : Nat, version : Nat]]
    BY DEF Init, NoSnapshot, None
<1>5. vacuum \in Vacuums /\ control \in [mode : {"STATIC", "DYNAMIC"}, pending : {"none", "STATIC", "DYNAMIC"},
                                           from : Nat, version : Nat, epoch : Nat]
    BY DEF Init, NoVacuum, Vacuums, None
<1>6. TypeOK
  <2>1. now \in Nat /\ owner \in Nat
      BY DailyAssumption DEF Init
  <2>2. pair.source \in Sessions \cup {None} /\ busy \in BOOLEAN
      BY DEF Init
  <2>3. QED
      BY <1>1, <1>3, <1>4, <1>5, <2>1, <2>2 DEF TypeOK
<1>7. FenceAgrees /\ VacuumShape
    BY <1>3 DEF Init, FenceAgrees, Alive, VacuumShape, NoVacuum, Nonterminal, Unfenced, Fenced, Working
<1>8. GrantIsCurrent /\ ReadWhileEnabled
    BY DEF Init, GrantIsCurrent, ReadWhileEnabled, NoAuthority, Grants, Idle
<1>9. QED
    BY <1>6, <1>7, <1>8 DEF IInv

-----------------------------------------------------------------------------
(* Theorems *)

\* The inductive invariant holds in every reachable state.
THEOREM Invariance == Spec => []IInv
<1>1. Init => IInv
    BY InitHolds
<1>2. IInv /\ [Next]_vars => IInv'
    BY TypeStep, FenceStep, GrantStep, ReadStep DEF IInv
<1>3. QED
    BY <1>1, <1>2, PTL DEF Spec

\* A group has at most one unfinished generation, the one that has fenced ENTRY is the source of
\* the vacuum, in the state the vacuum says, and behind a drained vacuum no ENTRY is under way:
\* through drains, handovers to a newer session, pauses, rollbacks and failures
\* (pg_instrument_selection_repository.py, the generation and vacuum transitions).
THEOREM FenceAgreement == Spec => []FenceAgrees
<1>1. IInv => FenceAgrees
    BY DEF IInv
<1>2. QED
    BY <1>1, Invariance, PTL

\* A grant in force names the pair in force and was given under the Owner's latest version, which
\* permits ENTRY, and under the control in force, however a pause, a switch of mode or an
\* evaluation outside any transaction crosses its commit
\* (_complete_pending_authority_gap_audit, _daily_control_lineage).
THEOREM GrantsAreCurrent == Spec => []GrantIsCurrent
<1>1. IInv => GrantIsCurrent
    BY DEF IInv
<1>2. QED
    BY <1>1, Invariance, PTL

=============================================================================
