----------------------- MODULE ExecutorSchedulerProofs -----------------------
(***************************************************************************)
(* TLAPS proofs about ExecutorScheduler, for every finite set of runs and  *)
(* callers and every bound.                                                *)
(***************************************************************************)
EXTENDS ExecutorScheduler, Integers, FiniteSetTheorems, TLAPS

\* TypeOK, by the groups of variables an action touches, without the claim that
\* busy never goes below zero: that follows from BusyCountsWork, not from types.
DbType ==
  rowBinding \in [Runs -> Nat] /\ rowStarted \in [Runs -> BOOLEAN] /\ ran \in [Runs -> Nat]
SessionType ==
  /\ sess \in Nat /\ stage \in {"none", "new", "restoring", "serving", "stopped"}
  /\ lease \in {"unarmed", "pending", "ready", "lost"} /\ stopping \in BOOLEAN
OwnerType ==
  /\ phase \in [Runs -> Phases] /\ binding \in [Runs -> Nat]
  /\ cause \in [Runs -> Causes] /\ ctx \in [Runs -> Causes \cup {"session"}]
  /\ attempt \in [Runs -> Attempts] /\ cleanupErr \in [Runs -> BOOLEAN]
CoreType ==
  /\ tq \subseteq Runs /\ busy \in Int /\ closed \in BOOLEAN /\ draining \in BOOLEAN
  /\ shut \in {"no", "join", "clean", "dirty"}
  /\ toSignal \subseteq Runs /\ toEmit \subseteq Runs
CallType ==
  /\ pc \in [Callers -> {"idle", "signal", "wait", "inspect"}]
  /\ target \in [Callers -> Runs \cup {"none"}] /\ bound \in [Callers -> Nat]
  /\ answer \in [Callers -> Answers]
LoopType ==
  /\ loop \in {"off", "starting", "drain", "check", "arm", "sleep", "ended"}
  /\ timer \in Nat /\ hint \in BOOLEAN /\ notifiers \in Nat /\ now \in Nat
WeakTypeOK ==
  DbType /\ SessionType /\ OwnerType /\ CoreType /\ job \in [Runs -> Jobs]
  /\ CallType /\ LoopType

\* Every step keeps the types: one case per action of the core.
LEMMA WeakTypeStep ==
  ASSUME WeakTypeOK, [Next]_vars
  PROVE  WeakTypeOK'
  <1> USE SchedulerAssumption DEF db, session, core, routine, owner, call,
          WeakTypeOK, DbType, SessionType, OwnerType, CoreType, CallType, LoopType
  <1>1. CASE NewSession
    <2>1. stopping' \in BOOLEAN
      BY <1>1 DEF NewSession
    <2> QED
      BY <1>1, <2>1 DEF NewSession
  <1>2. CASE RestoreBegin
    BY <1>2 DEF RestoreBegin
  <1>3. CASE RestoreEnd
    <2>1. SessionType'
      BY <1>3 DEF RestoreEnd
    <2> QED
      BY <1>3, <2>1 DEF RestoreEnd
  <1>4. CASE LeaseArm
    BY <1>4 DEF LeaseArm
  <1>5. CASE LeaseReady
    BY <1>5 DEF LeaseReady
  <1>6. CASE LeaseLost
    BY <1>6 DEF LeaseLost
  <1>7. CASE Stop
    BY <1>7 DEF Stop
  <1>8. CASE Release
    <2>1. stopping' \in BOOLEAN /\ hint' \in BOOLEAN
      BY <1>8 DEF Release, DropCore
    <2>3. closed' \in BOOLEAN /\ draining' \in BOOLEAN
      BY <1>8 DEF Release, DropCore
    <2>4. timer' \in Nat /\ notifiers' \in Nat /\ now' \in Nat /\ sess' \in Nat
      BY <1>8 DEF Release, DropCore, NoTimer
    <2>2. OwnerType' /\ CallType'
      BY <1>8 DEF Release, DropCore, Phases, Causes, Attempts, Answers
    <2> QED
      BY <1>8, <2>1, <2>2, <2>3, <2>4 DEF Release, DropCore, Jobs
  <1>9. CASE Crash
    <2>1. stopping' \in BOOLEAN /\ hint' \in BOOLEAN
      BY <1>9 DEF Crash, DropCore
    <2>3. closed' \in BOOLEAN /\ draining' \in BOOLEAN
      BY <1>9 DEF Crash, DropCore
    <2>4. timer' \in Nat /\ notifiers' \in Nat /\ now' \in Nat /\ sess' \in Nat
      BY <1>9 DEF Crash, DropCore, NoTimer
    <2>2. OwnerType' /\ CallType'
      BY <1>9 DEF Crash, DropCore, Phases, Causes, Attempts, Answers
    <2> QED
      BY <1>9, <2>1, <2>2, <2>3, <2>4 DEF Crash, DropCore, Jobs
  <1>10. CASE BeginDrain
    BY <1>10 DEF BeginDrain
  <1>11. CASE TryDrain
    BY <1>11 DEF TryDrain
  <1>12. CASE LoopReady
    BY <1>12 DEF LoopReady
  <1>13. CASE StartLoop
    BY <1>13 DEF StartLoop
  <1>14. CASE LoopDrain
    <2>1. timer' \in Nat
      BY <1>14 DEF LoopDrain, NoTimer
    <2>2. hint' \in BOOLEAN
      BY <1>14 DEF LoopDrain
    <2> QED
      BY <1>14, <2>1, <2>2 DEF LoopDrain
  <1>15. CASE LoopStopped
    BY <1>15 DEF LoopStopped
  <1>16. CASE LoopSleep
    BY <1>16 DEF LoopSleep, NoTimer
  <1>17. CASE LoopWake
    <2>1. hint' \in BOOLEAN
      BY <1>17 DEF LoopWake
    <2> QED
      BY <1>17, <2>1 DEF LoopWake
  <1>18. CASE ShutdownBegin
    BY <1>18 DEF ShutdownBegin, ShutdownCause, Causes
  <1>19. CASE ShutdownReturn
    BY <1>19 DEF ShutdownReturn
  <1>20. CASE Notify
    BY <1>20 DEF Notify
  <1>21. CASE Tick
    BY <1>21 DEF Tick
  <1>22. CASE Finished
    BY <1>22 DEF Finished, vars
  <1>23. ASSUME NEW r \in Runs, RestoreEmit(r) PROVE WeakTypeOK'
    BY <1>23 DEF RestoreEmit, newOwner, Phases
  <1>24. ASSUME NEW r \in Runs, Insert(r) PROVE WeakTypeOK'
    BY <1>24 DEF Insert, newOwner, Binding, Phases, Jobs
  <1>25. ASSUME NEW r \in Runs, LoopPromote(r) PROVE WeakTypeOK'
    BY <1>25 DEF LoopPromote, Jobs, Phases, Causes, Attempts
  <1>26. ASSUME NEW r \in Runs, LoopRefused(r) PROVE WeakTypeOK'
    BY <1>26 DEF LoopRefused
  <1>27. ASSUME NEW r \in Runs, ShutdownSignal(r) PROVE WeakTypeOK'
    BY <1>27 DEF ShutdownSignal, Causes, CancelContext, naturalCause
  <1>28. ASSUME NEW r \in Runs, Persist(r) PROVE WeakTypeOK'
    <2>1. rowStarted' \in [Runs -> BOOLEAN]
      BY <1>28 DEF Persist
    <2>2. rowBinding' \in [Runs -> Nat] /\ ran' \in [Runs -> Nat]
      BY <1>28 DEF Persist
    <2>3. job' \in [Runs -> Jobs]
      BY <1>28 DEF Persist, Jobs
    <2> QED
      BY <1>28, <2>1, <2>2, <2>3 DEF Persist
  <1>29. ASSUME NEW r \in Runs, PersistRefused(r) PROVE WeakTypeOK'
    BY <1>29 DEF PersistRefused, Retire, Publish, Jobs, Answers, Phases, Causes, Attempts
  <1>30. ASSUME NEW r \in Runs, PersistInstalled(r) PROVE WeakTypeOK'
    BY <1>30 DEF PersistInstalled, Jobs, Phases, deleteQueuedEntry
  <1>31. ASSUME NEW r \in Runs, FailedReturn(r) PROVE WeakTypeOK'
    BY <1>31 DEF FailedReturn, Jobs, Phases
  <1>32. ASSUME NEW r \in Runs, DeleteRow(r) PROVE WeakTypeOK'
    <2>1. rowStarted' \in [Runs -> BOOLEAN]
      BY <1>32 DEF DeleteRow
    <2>2. rowBinding' \in [Runs -> Nat] /\ ran' \in [Runs -> Nat]
      BY <1>32 DEF DeleteRow
    <2>3. job' \in [Runs -> Jobs]
      BY <1>32 DEF DeleteRow, Jobs
    <2> QED
      BY <1>32, <2>1, <2>2, <2>3 DEF DeleteRow
  <1>33. ASSUME NEW r \in Runs, DeleteQueuedReturn(r) PROVE WeakTypeOK'
    <2>1. phase' \in [Runs -> Phases] /\ attempt' \in [Runs -> Attempts]
      BY <1>33 DEF DeleteQueuedReturn, Retire, Phases, Attempts
    <2>2. cause' \in [Runs -> Causes] /\ ctx' \in [Runs -> Causes \cup {"session"}]
      BY <1>33 DEF DeleteQueuedReturn, Retire, Causes
    <2>3. binding' \in [Runs -> Nat]
      BY <1>33 DEF DeleteQueuedReturn, Retire
    <2>4. cleanupErr' \in [Runs -> BOOLEAN]
      BY <1>33 DEF DeleteQueuedReturn, Retire
    <2>5. CallType' /\ job' \in [Runs -> Jobs]
      BY <1>33 DEF DeleteQueuedReturn, Publish, Answers, Jobs
    <2> QED
      BY <1>33, <2>1, <2>2, <2>3, <2>4, <2>5 DEF DeleteQueuedReturn
  <1>34. ASSUME NEW r \in Runs, FinalizeReturn(r) PROVE WeakTypeOK'
    <2>1. phase' \in [Runs -> Phases] /\ attempt' \in [Runs -> Attempts]
      BY <1>34 DEF FinalizeReturn, Retire, Phases, Attempts
    <2>2. cause' \in [Runs -> Causes] /\ ctx' \in [Runs -> Causes \cup {"session"}]
      BY <1>34 DEF FinalizeReturn, Retire, Causes
    <2>3. binding' \in [Runs -> Nat]
      BY <1>34 DEF FinalizeReturn, Retire
    <2>4. cleanupErr' \in [Runs -> BOOLEAN]
      BY <1>34 DEF FinalizeReturn, Retire
    <2>5. CallType' /\ job' \in [Runs -> Jobs]
      BY <1>34 DEF FinalizeReturn, Publish, Answers, Jobs
    <2> QED
      BY <1>34, <2>1, <2>2, <2>3, <2>4, <2>5 DEF FinalizeReturn
  <1>35. ASSUME NEW r \in Runs, ReadMarker(r) PROVE WeakTypeOK'
    BY <1>35 DEF ReadMarker, Jobs
  <1>36. ASSUME NEW r \in Runs, WriteMarker(r) PROVE WeakTypeOK'
    <2>1. rowStarted' \in [Runs -> BOOLEAN]
      BY <1>36 DEF WriteMarker
    <2>2. rowBinding' \in [Runs -> Nat] /\ ran' \in [Runs -> Nat]
      BY <1>36 DEF WriteMarker
    <2>3. job' \in [Runs -> Jobs]
      BY <1>36 DEF WriteMarker, Jobs
    <2> QED
      BY <1>36, <2>1, <2>2, <2>3 DEF WriteMarker
  <1>37. ASSUME NEW r \in Runs, CheckCause(r) PROVE WeakTypeOK'
    BY <1>37 DEF CheckCause, Jobs
  <1>38. ASSUME NEW r \in Runs, CallbackReturn(r) PROVE WeakTypeOK'
    <2>1. cleanupErr' \in [Runs -> BOOLEAN]
      BY <1>38 DEF CallbackReturn, CleanupErrs
    <2>2. phase' \in [Runs -> Phases] /\ job' \in [Runs -> Jobs]
      BY <1>38 DEF CallbackReturn, Phases, Jobs
    <2> QED
      BY <1>38, <2>1, <2>2 DEF CallbackReturn
  <1>39. ASSUME NEW r \in Runs, ContextReleased(r) PROVE WeakTypeOK'
    BY <1>39 DEF ContextReleased, Causes, CancelContext, naturalCause, Jobs
  <1>40. ASSUME NEW c \in Callers, Inspect(c) PROVE WeakTypeOK'
    BY <1>40 DEF Inspect, Proceed, Answers
  <1>41. ASSUME NEW c \in Callers, InspectReturn(c) PROVE WeakTypeOK'
    <2>1. CallType'
      BY <1>41 DEF InspectReturn, Answer, Answers, inspectAbsent
    <2> QED
      BY <1>41, <2>1 DEF InspectReturn
  <1>42. ASSUME NEW c \in Callers, Signal(c) PROVE WeakTypeOK'
    BY <1>42 DEF Signal, Answer, CancelContext, signalCause, Causes
  <1>43. ASSUME NEW c \in Callers, CallerTimeout(c) PROVE WeakTypeOK'
    BY <1>43 DEF CallerTimeout, Answer, Answers
  <1>44. ASSUME NEW c \in Callers, NEW r \in Runs, NEW b \in 0..sess, CancelAbsent(c, r, b)
         PROVE  WeakTypeOK'
    BY <1>44 DEF CancelAbsent, Proceed, Answers
  <1>45. ASSUME NEW c \in Callers, NEW r \in Runs, NEW b \in 0..sess, NEW queueOnly \in BOOLEAN,
               CancelRefused(c, r, b, queueOnly)
        PROVE  WeakTypeOK'
    BY <1>45 DEF CancelRefused, Answer, Refusal, StoredResult, Answers
  <1>46. ASSUME NEW c \in Callers, NEW r \in Runs, NEW b \in 0..sess, NEW queueOnly \in BOOLEAN,
               CancelPersisting(c, r, b, queueOnly)
        PROVE  WeakTypeOK'
    BY <1>46 DEF CancelPersisting, Proceed, Answers, Attempts, Causes
  <1>47. ASSUME NEW c \in Callers, NEW r \in Runs, NEW b \in 0..sess, NEW queueOnly \in BOOLEAN,
               CancelQueued(c, r, b, queueOnly)
        PROVE  WeakTypeOK'
    BY <1>47 DEF CancelQueued, Proceed, Answers, Causes, Attempts, Phases, Jobs,
       deleteQueuedEntry
  <1>48. ASSUME NEW c \in Callers, NEW r \in Runs, NEW b \in 0..sess, NEW queueOnly \in BOOLEAN,
               CancelActive(c, r, b, queueOnly)
        PROVE  WeakTypeOK'
    BY <1>48 DEF CancelActive, Proceed, Answers, Causes, commitCause
  <1>49. ASSUME NEW c \in Callers, NEW r \in Runs, NEW b \in 0..sess, NEW queueOnly \in BOOLEAN,
               CancelJoin(c, r, b, queueOnly)
        PROVE  WeakTypeOK'
    BY <1>49 DEF CancelJoin, Proceed, Answers
  <1>50. ASSUME NEW c \in Callers, NEW r \in Runs, NEW b \in 0..sess, NEW queueOnly \in BOOLEAN,
               CancelCompleted(c, r, b, queueOnly)
        PROVE  WeakTypeOK'
    <2>1. /\ phase' \in [Runs -> Phases] /\ attempt' \in [Runs -> Attempts]
          /\ job' \in [Runs -> Jobs] /\ busy' \in Int
      BY <1>50 DEF CancelCompleted, Phases, Attempts, Jobs
    <2>2. CallType'
      BY <1>50 DEF CancelCompleted, Proceed, Answer, StoredResult, Answers
    <2> QED
      BY <1>50, <2>1, <2>2 DEF CancelCompleted
  <1>52. CASE LoopArm
    BY <1>52 DEF LoopArm
  <1>51. CASE UNCHANGED vars
    BY <1>51 DEF vars
  <1> HIDE DEF WeakTypeOK, DbType, SessionType, OwnerType, CoreType, CallType, LoopType
  <1> QED
    BY <1>1, <1>2, <1>3, <1>4, <1>5, <1>6, <1>7, <1>8, <1>9, <1>10, <1>11, <1>12, <1>13,
       <1>14, <1>15, <1>16, <1>17, <1>18, <1>19, <1>20, <1>21, <1>22, <1>23, <1>24, <1>25,
       <1>26, <1>27, <1>28, <1>29, <1>30, <1>31, <1>32, <1>33, <1>34, <1>35, <1>36, <1>37,
       <1>38, <1>39, <1>40, <1>41, <1>42, <1>43, <1>44, <1>45, <1>46, <1>47, <1>48, <1>49,
       <1>50, <1>51, <1>52
    DEF Next, SessionStep, LoopStep, ShutdownStep, WorkerStep, CallerStep, CancelStep

\* The empty core is well typed.
LEMMA WeakTypeInit == Init => WeakTypeOK
  <1>1. ASSUME Init PROVE WeakTypeOK
    <2>1. DbType /\ SessionType
      BY <1>1 DEF Init, DbType, SessionType
    <2>2. OwnerType /\ job \in [Runs -> Jobs]
      BY <1>1 DEF Init, OwnerType, Phases, Causes, Attempts, Jobs
    <2>3. CallType
      BY <1>1 DEF Init, CallType, Answers
    <2>4. hint \in BOOLEAN /\ closed \in BOOLEAN /\ draining \in BOOLEAN
      BY <1>1 DEF Init
    <2>6. CoreType
      BY <1>1, <2>4 DEF Init, CoreType
    <2>5. LoopType
      BY <1>1, <2>4, SchedulerAssumption DEF Init, LoopType, NoTimer
    <2> QED
      BY <2>1, <2>2, <2>3, <2>5, <2>6 DEF WeakTypeOK
  <1> QED
    BY <1>1

-----------------------------------------------------------------------------
(* Owners, queue and goroutines.                                            *)

\* The steps that touch owners' phases and attempts, the queue or the goroutines.
LEMMA OwnerFrame ==
  ASSUME [Next]_vars
  PROVE  \/ UNCHANGED <<phase, attempt, tq, job>>
         \/ Release \/ Crash
         \/ \E r \in Runs : RestoreEmit(r) \/ Insert(r) \/ LoopPromote(r) \/ WorkerStep(r)
         \/ \E c \in Callers, r \in Runs, b \in 0..sess, queueOnly \in BOOLEAN :
              \/ CancelPersisting(c, r, b, queueOnly) \/ CancelQueued(c, r, b, queueOnly)
              \/ CancelCompleted(c, r, b, queueOnly)
  <1> USE DEF core, routine, owner
  <1>1. ASSUME SessionStep, ~Release, ~Crash, ~\E r \in Runs : RestoreEmit(r) \/ Insert(r)
        PROVE  UNCHANGED <<phase, attempt, tq, job>>
    BY <1>1 DEF SessionStep, NewSession, RestoreBegin, RestoreEnd, LeaseArm, LeaseReady,
         LeaseLost, Stop, BeginDrain, TryDrain, LoopReady
  <1>2. ASSUME LoopStep, ~\E r \in Runs : LoopPromote(r)
        PROVE  UNCHANGED <<phase, attempt, tq, job>>
    BY <1>2 DEF LoopStep, StartLoop, LoopDrain, LoopStopped, LoopSleep, LoopArm, LoopWake,
       LoopRefused
  <1>3. ASSUME ShutdownStep PROVE UNCHANGED <<phase, attempt, tq, job>>
    BY <1>3 DEF ShutdownStep, ShutdownBegin, ShutdownCause, ShutdownReturn, ShutdownSignal
  <1>4. ASSUME Notify \/ Tick \/ Finished \/ UNCHANGED vars
        PROVE  UNCHANGED <<phase, attempt, tq, job>>
    BY <1>4 DEF Notify, Tick, Finished, vars
  <1>5. ASSUME NEW c \in Callers, Inspect(c) \/ InspectReturn(c) \/ Signal(c) \/ CallerTimeout(c)
        PROVE  UNCHANGED <<phase, attempt, tq, job>>
    BY <1>5 DEF Inspect, InspectReturn, Signal, CallerTimeout
  <1>6. ASSUME NEW c \in Callers, NEW r \in Runs, NEW b \in 0..sess, NEW queueOnly \in BOOLEAN,
               CancelRefused(c, r, b, queueOnly) \/ CancelAbsent(c, r, b)
               \/ CancelActive(c, r, b, queueOnly) \/ CancelJoin(c, r, b, queueOnly)
        PROVE  UNCHANGED <<phase, attempt, tq, job>>
    BY <1>6 DEF CancelRefused, CancelAbsent, CancelActive, CancelJoin
  <1> QED
    BY <1>1, <1>2, <1>3, <1>4, <1>5, <1>6 DEF Next, LoopStep, SessionStep, CallerStep,
       CancelStep

\* OwnersHaveWorkers with what it needs to be inductive: an absent owner has no
\* attempt, and a reservation's attempt is never a closed one.
WorkersInv ==
  /\ OwnersHaveWorkers
  /\ \A r \in Runs : /\ phase[r] = "none" => attempt[r] = "none"
                     /\ phase[r] = "persisting" => attempt[r] \in {"none", "open"}

\* QuietAfterShutdown, with the closed flag that keeps it quiet.
QuietInv == QuietAfterShutdown /\ (shut # "no" => closed)

\* Every step that touches an owner leaves each phase with its goroutine and attempt.
LEMMA WorkersStep ==
  ASSUME WeakTypeOK, WorkersInv, QuietInv, [Next]_vars
  PROVE  WorkersInv'
  <1> USE DEF WorkersInv, OwnersHaveWorkers, Workers, WeakTypeOK, OwnerType, CoreType
  <1>1. CASE UNCHANGED <<phase, attempt, tq, job>>
    BY <1>1
  <1>2. CASE Release \/ Crash
    BY <1>2 DEF Release, Crash, DropCore, QuietInv, QuietAfterShutdown
  <1>3. ASSUME NEW r \in Runs, RestoreEmit(r) PROVE WorkersInv'
    BY <1>3 DEF RestoreEmit, newOwner
  <1>4. ASSUME NEW r \in Runs, Insert(r) PROVE WorkersInv'
    BY <1>4 DEF Insert, newOwner
  <1>5. ASSUME NEW r \in Runs, LoopPromote(r) PROVE WorkersInv'
    BY <1>5 DEF LoopPromote, IsHead
  <1>6. ASSUME NEW r \in Runs, Persist(r) PROVE WorkersInv'
    BY <1>6 DEF Persist, core, owner
  <1>7. ASSUME NEW r \in Runs, PersistRefused(r) PROVE WorkersInv'
    BY <1>7 DEF PersistRefused, Retire
  <1>8. ASSUME NEW r \in Runs, PersistInstalled(r) PROVE WorkersInv'
    BY <1>8 DEF PersistInstalled, deleteQueuedEntry
  <1>9. ASSUME NEW r \in Runs, FailedReturn(r) PROVE WorkersInv'
    BY <1>9 DEF FailedReturn
  <1>10. ASSUME NEW r \in Runs, DeleteRow(r) PROVE WorkersInv'
    BY <1>10 DEF DeleteRow, core, owner
  <1>11. ASSUME NEW r \in Runs, DeleteQueuedReturn(r) PROVE WorkersInv'
    BY <1>11 DEF DeleteQueuedReturn, Retire
  <1>12. ASSUME NEW r \in Runs, FinalizeReturn(r) PROVE WorkersInv'
    BY <1>12 DEF FinalizeReturn, Retire
  <1>13. ASSUME NEW r \in Runs, ReadMarker(r) PROVE WorkersInv'
    BY <1>13 DEF ReadMarker, core, owner
  <1>14. ASSUME NEW r \in Runs, WriteMarker(r) PROVE WorkersInv'
    BY <1>14 DEF WriteMarker, core, owner
  <1>15. ASSUME NEW r \in Runs, CheckCause(r) PROVE WorkersInv'
    BY <1>15 DEF CheckCause, core, owner
  <1>16. ASSUME NEW r \in Runs, CallbackReturn(r) PROVE WorkersInv'
    BY <1>16 DEF CallbackReturn
  <1>17. ASSUME NEW r \in Runs, ContextReleased(r) PROVE WorkersInv'
    BY <1>17 DEF ContextReleased
  <1>18. ASSUME NEW c \in Callers, NEW r \in Runs, NEW b \in 0..sess, NEW queueOnly \in BOOLEAN,
               CancelPersisting(c, r, b, queueOnly)
        PROVE  WorkersInv'
    BY <1>18 DEF CancelPersisting
  <1>19. ASSUME NEW c \in Callers, NEW r \in Runs, NEW b \in 0..sess, NEW queueOnly \in BOOLEAN,
               CancelQueued(c, r, b, queueOnly)
        PROVE  WorkersInv'
    BY <1>19 DEF CancelQueued, deleteQueuedEntry
  <1>20. ASSUME NEW c \in Callers, NEW r \in Runs, NEW b \in 0..sess, NEW queueOnly \in BOOLEAN,
               CancelCompleted(c, r, b, queueOnly)
        PROVE  WorkersInv'
    BY <1>20 DEF CancelCompleted
  <1> HIDE DEF WorkersInv, WeakTypeOK
  <1> QED
    BY <1>1, <1>2, <1>3, <1>4, <1>5, <1>6, <1>7, <1>8, <1>9, <1>10, <1>11, <1>12, <1>13,
       <1>14, <1>15, <1>16, <1>17, <1>18, <1>19, <1>20, OwnerFrame DEF WorkerStep

-----------------------------------------------------------------------------
(* The busy counter.                                                        *)

\* The owners with a goroutine, the handlers reading, and the restore in progress.
Busying == {r \in Runs : job[r] # "none"}
Reading == {c \in Callers : pc[c] = "inspect"}
Restoring == IF stage = "restoring" THEN 1 ELSE 0

\* Cardinalities of the finite sets BusyCountsWork counts, as elements come and go.
LEMMA CountStep ==
  ASSUME NEW S, IsFiniteSet(S), NEW T, NEW x
  PROVE  /\ Cardinality(S) \in Nat
         /\ x \notin S /\ T = S \cup {x} => Cardinality(T) = Cardinality(S) + 1
         /\ x \in S /\ T = S \ {x} => Cardinality(T) = Cardinality(S) - 1
  BY FS_CardinalityType, FS_AddElement, FS_RemoveElement

\* What the counter counts is finite.
LEMMA CountedSetsFinite == IsFiniteSet(Busying) /\ IsFiniteSet(Reading)
  <1>1. Busying \subseteq Runs /\ Reading \subseteq Callers
    BY DEF Busying, Reading
  <1> QED
    BY <1>1, FS_Subset, SchedulerAssumption

\* The steps that start or end counted work; every other one leaves the counter and
\* what it counts alone.
LEMMA BusyFrame ==
  ASSUME WeakTypeOK, WorkersInv, [Next]_vars
  PROVE  \/ UNCHANGED <<busy, Busying, Reading, Restoring>>
         \/ Release \/ Crash \/ RestoreBegin \/ RestoreEnd
         \/ \E r \in Runs :
              \/ Insert(r) \/ LoopPromote(r) \/ PersistRefused(r) \/ PersistInstalled(r)
              \/ DeleteQueuedReturn(r) \/ FinalizeReturn(r)
         \/ \E c \in Callers : Inspect(c) \/ InspectReturn(c)
         \/ \E c \in Callers, r \in Runs, b \in 0..sess, queueOnly \in BOOLEAN :
              \/ CancelAbsent(c, r, b) \/ CancelQueued(c, r, b, queueOnly)
              \/ CancelCompleted(c, r, b, queueOnly)
  <1> DEFINE Same == UNCHANGED <<busy, Busying, Reading, Restoring>>
  <1> USE DEF core, routine, call, session, Busying, Reading, Restoring
  <1>1. ASSUME SessionStep, ~Release, ~Crash, ~RestoreBegin, ~RestoreEnd,
               ~\E r \in Runs : Insert(r)
        PROVE  Same
    BY <1>1 DEF SessionStep, NewSession, LeaseArm, LeaseReady, LeaseLost, Stop, BeginDrain,
         TryDrain, LoopReady, RestoreEmit
  <1>2. ASSUME LoopStep, ~\E r \in Runs : LoopPromote(r)
        PROVE  Same
    BY <1>2 DEF LoopStep, StartLoop, LoopDrain, LoopStopped, LoopSleep, LoopArm, LoopWake,
       LoopRefused
  <1>3. ASSUME ShutdownStep PROVE Same
    BY <1>3 DEF ShutdownStep, ShutdownBegin, ShutdownCause, ShutdownReturn, ShutdownSignal
  <1>4. ASSUME Notify \/ Tick \/ Finished \/ UNCHANGED vars PROVE Same
    BY <1>4 DEF Notify, Tick, Finished, vars
  <1>5. ASSUME NEW c \in Callers, Signal(c) \/ CallerTimeout(c) PROVE Same
    BY <1>5 DEF Signal, CallerTimeout, Answer, WeakTypeOK, CallType
  <1>6. ASSUME NEW c \in Callers, NEW r \in Runs, NEW b \in 0..sess, NEW queueOnly \in BOOLEAN,
               CancelRefused(c, r, b, queueOnly) \/ CancelPersisting(c, r, b, queueOnly)
               \/ CancelActive(c, r, b, queueOnly) \/ CancelJoin(c, r, b, queueOnly)
        PROVE  Same
    BY <1>6 DEF CancelRefused, CancelPersisting, CancelActive, CancelJoin, MayJoin, Asks,
         Answer, Proceed, WeakTypeOK, CallType
  <1>7. ASSUME NEW r \in Runs,
               Persist(r) \/ FailedReturn(r) \/ DeleteRow(r) \/ ReadMarker(r) \/ WriteMarker(r)
               \/ CheckCause(r) \/ CallbackReturn(r) \/ ContextReleased(r)
        PROVE  Same
    BY <1>7 DEF Persist, FailedReturn, DeleteRow, ReadMarker, WriteMarker, CheckCause,
         CallbackReturn, ContextReleased, WeakTypeOK
  <1> HIDE DEF Same
  <1> QED
    BY <1>1, <1>2, <1>3, <1>4, <1>5, <1>6, <1>7
       DEF Next, LoopStep, SessionStep, WorkerStep, CallerStep, CancelStep, Same

\* Every busy++ and busy-- matches work that starts or ends in the same step.
LEMMA BusyStep ==
  ASSUME WeakTypeOK, WorkersInv, BusyCountsWork, [Next]_vars
  PROVE  BusyCountsWork'
  <1> DEFINE Tally == busy = Cardinality(Busying) + Cardinality(Reading) + Restoring
  <1>0. (BusyCountsWork <=> Tally) /\ (BusyCountsWork' <=> Tally')
    BY DEF BusyCountsWork, Busying, Reading, Restoring
  <1>01. Cardinality(Busying) \in Nat /\ Cardinality(Reading) \in Nat /\ Restoring \in {0, 1}
    BY CountedSetsFinite, CountStep DEF Restoring
  <1>02. ASSUME NEW r \in Runs, r \notin Busying, Busying' = Busying \cup {r}, busy' = busy + 1,
                UNCHANGED <<Reading, Restoring>>
         PROVE  Tally'
    <2>1. Cardinality(Busying') = Cardinality(Busying) + 1
      BY <1>02, CountedSetsFinite, CountStep
    <2> QED
      BY <1>0, <1>01, <1>02, <2>1 DEF WeakTypeOK, CoreType
  <1>03. ASSUME NEW r \in Runs, r \in Busying, Busying' = Busying \ {r}, busy' = busy - 1,
                UNCHANGED <<Reading, Restoring>>
         PROVE  Tally'
    <2>1. Cardinality(Busying') = Cardinality(Busying) - 1
      BY <1>03, CountedSetsFinite, CountStep
    <2> QED
      BY <1>0, <1>01, <1>03, <2>1 DEF WeakTypeOK, CoreType
  <1>04. ASSUME NEW c \in Callers, c \notin Reading, Reading' = Reading \cup {c},
                busy' = busy + 1, UNCHANGED <<Busying, Restoring>>
         PROVE  Tally'
    <2>1. Cardinality(Reading') = Cardinality(Reading) + 1
      BY <1>04, CountedSetsFinite, CountStep
    <2> QED
      BY <1>0, <1>01, <1>04, <2>1 DEF WeakTypeOK, CoreType
  <1> HIDE DEF Tally
  <1>1. CASE UNCHANGED <<busy, Busying, Reading, Restoring>>
    BY <1>1, <1>0 DEF Tally
  <1>2. CASE Release
    <2>1. Reading = {} /\ Reading' = {} /\ Busying' = Busying /\ Restoring = 0 /\ Restoring' = 0
      BY <1>2 DEF Release, DropCore, Reading, Busying, Restoring
    <2> QED
      BY <1>2, <1>0, <2>1 DEF Release, Tally
  <1>3. CASE Crash
    <2>1. Reading' = {} /\ Busying' = {} /\ Restoring' = 0
      BY <1>3 DEF Crash, DropCore, Reading, Busying, Restoring
    <2> QED
      BY <1>3, <1>0, <2>1, FS_EmptySet DEF Crash, Tally
  <1>4. CASE RestoreBegin
    <2>1. Reading' = Reading /\ Busying' = Busying /\ Restoring = 0 /\ Restoring' = 1
      BY <1>4 DEF RestoreBegin, routine, call, Reading, Busying, Restoring
    <2> QED
      BY <1>4, <1>0, <1>01, <2>1 DEF RestoreBegin, Tally
  <1>5. CASE RestoreEnd
    <2>1. Reading' = Reading /\ Busying' = Busying /\ Restoring = 1 /\ Restoring' = 0
      BY <1>5 DEF RestoreEnd, routine, call, Reading, Busying, Restoring
    <2> QED
      BY <1>5, <1>0, <1>01, <2>1 DEF RestoreEnd, Tally
  <1>6. ASSUME NEW r \in Runs, Insert(r) PROVE BusyCountsWork'
    <2>1. /\ r \notin Busying /\ Busying' = Busying \cup {r}
          /\ UNCHANGED <<Reading, Restoring>> /\ busy' = busy + 1
      BY <1>6 DEF Insert, IsHead, session, call, WorkersInv, OwnersHaveWorkers, Workers,
         WeakTypeOK, Busying, Reading, Restoring
    <2> QED
      BY <1>0, <1>02, <2>1
  <1>7. ASSUME NEW r \in Runs, LoopPromote(r) PROVE BusyCountsWork'
    <2>1. /\ r \notin Busying /\ Busying' = Busying \cup {r}
          /\ UNCHANGED <<Reading, Restoring>> /\ busy' = busy + 1
      BY <1>7 DEF LoopPromote, IsHead, session, call, WorkersInv, OwnersHaveWorkers, Workers,
         WeakTypeOK, Busying, Reading, Restoring
    <2> QED
      BY <1>0, <1>02, <2>1
  <1>8. ASSUME NEW r \in Runs, PersistRefused(r) PROVE BusyCountsWork'
    <2>1. /\ r \in Busying /\ Busying' = Busying \ {r}
          /\ UNCHANGED <<Reading, Restoring>> /\ busy' = busy - 1
      BY <1>8 DEF PersistRefused, Publish, Joined, CallType, session, WorkersInv,
         OwnersHaveWorkers, Workers, WeakTypeOK, Busying, Reading, Restoring
    <2> QED
      BY <1>0, <1>03, <2>1
  <1>9. ASSUME NEW r \in Runs, DeleteQueuedReturn(r) PROVE BusyCountsWork'
    <2>1. /\ r \in Busying /\ Busying' = Busying \ {r}
          /\ UNCHANGED <<Reading, Restoring>> /\ busy' = busy - 1
      BY <1>9 DEF DeleteQueuedReturn, Publish, Joined, CallType, session, WorkersInv,
         OwnersHaveWorkers, Workers, WeakTypeOK, Busying, Reading, Restoring
    <2> QED
      BY <1>0, <1>03, <2>1
  <1>10. ASSUME NEW r \in Runs, FinalizeReturn(r) PROVE BusyCountsWork'
    <2>1. /\ r \in Busying /\ Busying' = Busying \ {r}
          /\ UNCHANGED <<Reading, Restoring>> /\ busy' = busy - 1
      BY <1>10 DEF FinalizeReturn, Publish, Joined, CallType, session, WorkersInv,
         OwnersHaveWorkers, Workers, WeakTypeOK, Busying, Reading, Restoring
    <2> QED
      BY <1>0, <1>03, <2>1
  <1>11. ASSUME NEW r \in Runs, PersistInstalled(r) PROVE BusyCountsWork'
    <2>1. UNCHANGED <<Reading, Restoring>>
      BY <1>11 DEF PersistInstalled, session, call, Reading, Restoring
    <2>2. CASE attempt[r] = "none"
      <3>1. r \in Busying /\ Busying' = Busying \ {r} /\ busy' = busy - 1
        BY <1>11, <2>2 DEF PersistInstalled, Busying, WeakTypeOK
      <3> QED
        BY <1>0, <1>03, <2>1, <3>1
    <2>3. CASE attempt[r] # "none"
      <3>1. Busying' = Busying /\ busy' = busy
        BY <1>11, <2>3 DEF PersistInstalled, deleteQueuedEntry, Busying, WeakTypeOK
      <3> QED
        BY <1>1, <2>1, <3>1
    <2> QED
      BY <2>2, <2>3
  <1>12. ASSUME NEW c \in Callers,
                Inspect(c) \/ \E r \in Runs, b \in 0..sess : CancelAbsent(c, r, b)
         PROVE  BusyCountsWork'
    <2>1. /\ c \notin Reading /\ Reading' = Reading \cup {c} /\ busy' = busy + 1
          /\ UNCHANGED <<Busying, Restoring>>
      BY <1>12 DEF Inspect, CancelAbsent, Asks, Proceed, CallType, session, WeakTypeOK,
                   Busying, Reading, Restoring
    <2> QED
      BY <1>0, <1>04, <2>1
  <1>13. ASSUME NEW c \in Callers, InspectReturn(c) PROVE BusyCountsWork'
    <2>1. /\ c \in Reading /\ Reading' = Reading \ {c} /\ busy' = busy - 1
          /\ UNCHANGED <<Busying, Restoring>>
      BY <1>13 DEF InspectReturn, Answer, CallType, session, WorkersInv, OwnersHaveWorkers,
         Workers, WeakTypeOK, Busying, Reading, Restoring
    <2>2. Cardinality(Reading') = Cardinality(Reading) - 1
      BY <2>1, CountedSetsFinite, CountStep
    <2> QED
      BY <1>0, <1>01, <2>1, <2>2 DEF Tally, WeakTypeOK, CoreType
  <1>14. ASSUME NEW c \in Callers, NEW r \in Runs, NEW b \in 0..sess, NEW queueOnly \in BOOLEAN,
               CancelQueued(c, r, b, queueOnly)
        PROVE  BusyCountsWork'
    <2>1. /\ r \notin Busying /\ Busying' = Busying \cup {r}
          /\ UNCHANGED <<Reading, Restoring>> /\ busy' = busy + 1
      BY <1>14 DEF CancelQueued, deleteQueuedEntry, MayJoin, Asks, Proceed, CallType, session,
         WorkersInv, OwnersHaveWorkers, Workers, WeakTypeOK, Busying, Reading, Restoring
    <2> QED
      BY <1>0, <1>02, <2>1
  <1>15. ASSUME NEW c \in Callers, NEW r \in Runs, NEW b \in 0..sess, NEW queueOnly \in BOOLEAN,
               CancelCompleted(c, r, b, queueOnly)
        PROVE  BusyCountsWork'
    <2>1. UNCHANGED <<Reading, Restoring>> /\ r \notin Busying
      BY <1>15 DEF CancelCompleted, MayJoin, Asks, Proceed, Answer, CallType, session,
         WorkersInv, OwnersHaveWorkers, Workers, WeakTypeOK, Busying, Reading, Restoring
    <2>2. CASE attempt[r] = "finalErr"
      <3>1. Busying' = Busying \cup {r} /\ busy' = busy + 1
        BY <1>15, <2>2 DEF CancelCompleted, Busying, WeakTypeOK
      <3> QED
        BY <1>0, <1>02, <2>1, <3>1
    <2>3. CASE attempt[r] # "finalErr"
      <3>1. Busying' = Busying /\ busy' = busy
        BY <1>15, <2>3 DEF CancelCompleted, Busying
      <3> QED
        BY <1>1, <2>1, <3>1
    <2> QED
      BY <2>2, <2>3
  <1> QED
    BY BusyFrame, <1>1, <1>2, <1>3, <1>4, <1>5, <1>6, <1>7, <1>8, <1>9, <1>10, <1>11, <1>12,
       <1>13, <1>14, <1>15

-----------------------------------------------------------------------------
(* Shutdown.                                                                *)

\* Only Shutdown and the end of the core touch its closed flag and its result.
LEMMA ShutFrame ==
  ASSUME [Next]_vars
  PROVE  UNCHANGED <<closed, shut>> \/ Release \/ Crash \/ ShutdownBegin \/ ShutdownReturn
  <1> USE DEF core
  <1>1. ASSUME SessionStep, ~Release, ~Crash PROVE UNCHANGED <<closed, shut>>
    BY <1>1 DEF SessionStep, NewSession, RestoreBegin, RestoreEnd, LeaseArm, LeaseReady,
         LeaseLost, Stop, BeginDrain, TryDrain, LoopReady, RestoreEmit, Insert
  <1>2. ASSUME LoopStep PROVE UNCHANGED <<closed, shut>>
    BY <1>2 DEF LoopStep, StartLoop, LoopDrain, LoopStopped, LoopSleep, LoopArm, LoopWake,
       LoopRefused,
         LoopPromote
  <1>3. ASSUME NEW r \in Runs, ShutdownSignal(r) \/ WorkerStep(r) PROVE UNCHANGED <<closed, shut>>
    BY <1>3 DEF ShutdownSignal, WorkerStep, Persist, PersistRefused, PersistInstalled,
         FailedReturn, DeleteRow, DeleteQueuedReturn, FinalizeReturn, ReadMarker, WriteMarker,
         CheckCause, CallbackReturn, ContextReleased
  <1>4. ASSUME Notify \/ Tick \/ Finished \/ UNCHANGED vars PROVE UNCHANGED <<closed, shut>>
    BY <1>4 DEF Notify, Tick, Finished, vars
  <1>5. ASSUME NEW c \in Callers, CallerStep(c) PROVE UNCHANGED <<closed, shut>>
    BY <1>5 DEF CallerStep, Inspect, InspectReturn, Signal, CallerTimeout, CancelStep,
         CancelRefused, CancelAbsent, CancelPersisting, CancelQueued, CancelActive, CancelJoin,
         CancelCompleted
  <1> QED
    BY <1>1, <1>2, <1>3, <1>4, <1>5 DEF Next, ShutdownStep

\* Shutdown returns only when all is quiet, and a closed core admits nothing afterwards.
LEMMA QuietStep ==
  ASSUME WeakTypeOK, WorkersInv, BusyCountsWork, QuietInv, [Next]_vars
  PROVE  QuietInv'
  <1> DEFINE Quiet == (\A r \in Runs : job[r] = "none") /\ Reading = {} /\ Restoring = 0
  <1>0. Quiet /\ WorkersInv => /\ \A r \in Runs : phase[r] \in {"none", "queued", "completed"}
                               /\ \A c \in Callers : pc[c] # "inspect"
                               /\ stage # "restoring"
    BY DEF WorkersInv, OwnersHaveWorkers, Workers, Reading, Restoring, WeakTypeOK, OwnerType,
       Phases
  <1>1. CASE Release \/ Crash
    BY <1>1 DEF Release, Crash, DropCore, QuietInv, QuietAfterShutdown
  <1>2. CASE ShutdownBegin
    BY <1>2 DEF ShutdownBegin, ShutdownCause, QuietInv, QuietAfterShutdown
  <1>3. CASE ShutdownReturn
    <2>1. Cardinality(Busying) = 0 /\ Cardinality(Reading) = 0 /\ Restoring = 0
      <3>1. Cardinality(Busying) \in Nat /\ Cardinality(Reading) \in Nat /\ Restoring \in {0, 1}
        BY CountedSetsFinite, CountStep DEF Restoring
      <3>2. 0 = Cardinality(Busying) + Cardinality(Reading) + Restoring
        BY <1>3 DEF ShutdownReturn, BusyCountsWork, Busying, Reading, Restoring
      <3> QED
        BY <3>1, <3>2
    <2>2. Quiet
      BY <2>1, CountedSetsFinite, FS_EmptySet DEF Busying
    <2> QED
      BY <1>0, <1>3, <2>2
         DEF ShutdownReturn, QuietInv, QuietAfterShutdown, owner, routine, call, session
  <1>4. CASE UNCHANGED <<closed, shut>>
    <2>1. CASE shut \notin {"clean", "dirty"}
      BY <1>4, <2>1 DEF QuietInv, QuietAfterShutdown
    <2>2. CASE shut \in {"clean", "dirty"}
      <3>1. closed /\ Quiet
        BY <2>2 DEF QuietInv, QuietAfterShutdown, Reading, Restoring
      <3>2. ASSUME NEW r \in Runs
            PROVE  ~RestoreEmit(r) /\ ~Insert(r) /\ ~LoopPromote(r) /\ ~WorkerStep(r)
        BY <3>1
           DEF RestoreEmit, Insert, LoopPromote, WorkerStep, Persist, PersistRefused,
               PersistInstalled, FailedReturn, DeleteRow, DeleteQueuedReturn, FinalizeReturn,
               ReadMarker, WriteMarker, CheckCause, CallbackReturn, ContextReleased
      <3>3. ASSUME NEW c \in Callers, NEW r \in Runs, NEW b \in 0..sess, NEW queueOnly \in BOOLEAN
            PROVE  /\ ~CancelPersisting(c, r, b, queueOnly) /\ ~CancelQueued(c, r, b, queueOnly)
                   /\ ~CancelCompleted(c, r, b, queueOnly) /\ ~CancelAbsent(c, r, b)
        BY <3>1, <1>0 DEF CancelPersisting, CancelQueued, CancelCompleted, CancelAbsent,
           MayJoin,
           JoinableWhenClosed
      <3>4. ASSUME NEW c \in Callers
            PROVE  ~Inspect(c) /\ ~InspectReturn(c)
        BY <3>1, <1>0 DEF Inspect, InspectReturn
      <3>5. ~RestoreBegin /\ ~RestoreEnd
        BY <3>1, <1>0 DEF RestoreBegin, RestoreEnd
      <3>6. CASE ~Release /\ ~Crash
        <4>1. UNCHANGED <<phase, job>>
          BY <3>2, <3>3, <3>6, OwnerFrame
        <4>2. UNCHANGED <<Reading, Restoring>>
          BY <3>2, <3>3, <3>4, <3>5, <3>6, BusyFrame DEF WorkerStep
        <4> QED
          BY <1>0, <1>4, <3>1, <4>1, <4>2 DEF QuietInv, QuietAfterShutdown, Reading, Restoring
      <3> QED
        BY <1>1, <3>6
    <2> QED
      BY <2>1, <2>2
  <1> QED
    BY <1>1, <1>2, <1>3, <1>4, ShutFrame

-----------------------------------------------------------------------------
(* The theorems about the core.                                             *)

\* The four conjuncts are inductive only together: releasing the core needs it
\* quiet, quiet needs the counter exact, and the counter needs every phase to have
\* its goroutine.
CoreInv == WeakTypeOK /\ WorkersInv /\ BusyCountsWork /\ QuietInv

\* The empty core satisfies the invariant.
LEMMA CoreInvInit == Init => CoreInv
  <1> SUFFICES ASSUME Init PROVE CoreInv
    OBVIOUS
  <1>1. WeakTypeOK
    BY WeakTypeInit
  <1>2. WorkersInv
    BY DEF Init, WorkersInv, OwnersHaveWorkers, Workers
  <1>3. Busying = {} /\ Reading = {} /\ Restoring = 0
    BY DEF Init, Busying, Reading, Restoring
  <1>4. BusyCountsWork
    BY SMTT(30), <1>3, FS_EmptySet DEF Init, BusyCountsWork, Busying, Reading, Restoring
  <1>5. QuietInv
    BY DEF Init, QuietInv, QuietAfterShutdown
  <1> QED
    BY <1>1, <1>2, <1>4, <1>5 DEF CoreInv

\* The core's invariant holds in every reachable state.
LEMMA CoreInvariant == Spec => []CoreInv
  <1>1. ASSUME CoreInv, [Next]_vars PROVE CoreInv'
    BY <1>1, WeakTypeStep, WorkersStep, BusyStep, QuietStep DEF CoreInv
  <1> QED
    BY CoreInvInit, <1>1, PTL DEF Spec

\* Every variable keeps its type; in particular busy never goes below zero, on any
\* path through insert, requestCancel, deleteQueued, finalizeOwner and Restore.
THEOREM TypeCorrect == Spec => []TypeOK
  <1>1. ASSUME CoreInv PROVE TypeOK
    <2>1. busy = Cardinality(Busying) + Cardinality(Reading) + Restoring
      BY <1>1 DEF CoreInv, BusyCountsWork, Busying, Reading, Restoring
    <2>2. Cardinality(Busying) \in Nat /\ Cardinality(Reading) \in Nat /\ Restoring \in Nat
      BY CountedSetsFinite, CountStep DEF Restoring
    <2>3. busy \in Nat
      BY <2>1, <2>2
    <2> QED
      BY <1>1, <2>3 DEF CoreInv, TypeOK, WeakTypeOK, DbType, SessionType, OwnerType, CoreType,
         CallType, LoopType
  <1> QED
    BY CoreInvariant, <1>1, PTL

\* The counter Shutdown waits for is exact.
THEOREM BusyIsExact == Spec => []BusyCountsWork
  BY CoreInvariant, PTL DEF CoreInv

\* Every joinable phase has its goroutine and its open attempt.
THEOREM OwnersAreServed == Spec => []OwnersHaveWorkers
  BY CoreInvariant, PTL DEF CoreInv, WorkersInv

\* After Shutdown returned, nothing of the core runs or starts again.
THEOREM ShutdownIsQuiet == Spec => []QuietAfterShutdown
  BY CoreInvariant, PTL DEF CoreInv, QuietInv

-----------------------------------------------------------------------------
(* Stored runs.                                                             *)

\* The steps that touch the rows or the goroutine between the marker and the body.
LEMMA RowFrame ==
  ASSUME CoreInv, [Next]_vars
  PROVE  \/ /\ UNCHANGED db
            /\ \A r \in Runs : /\ job'[r] = "checkCause" <=> job[r] = "checkCause"
                               /\ job'[r] = "writeMarker" => job[r] = "writeMarker"
         \/ Crash
         \/ \E r \in Runs : \/ Persist(r) \/ DeleteRow(r) \/ ReadMarker(r) \/ WriteMarker(r)
                            \/ CheckCause(r)
  <1> DEFINE Same == /\ UNCHANGED db
                     /\ \A r \in Runs : /\ job'[r] = "checkCause" <=> job[r] = "checkCause"
                                        /\ job'[r] = "writeMarker" => job[r] = "writeMarker"
  <1> USE DEF routine, CoreInv, WeakTypeOK
  <1>1. ASSUME SessionStep, ~Crash PROVE Same
    BY <1>1 DEF SessionStep, NewSession, RestoreBegin, RestoreEnd, LeaseArm, LeaseReady,
         LeaseLost, Stop, BeginDrain, TryDrain, LoopReady, RestoreEmit, Insert, Release,
         WorkersInv, OwnersHaveWorkers, Workers
  <1>2. ASSUME LoopStep PROVE Same
    BY <1>2 DEF LoopStep, StartLoop, LoopDrain, LoopStopped, LoopSleep, LoopArm, LoopWake,
       LoopRefused,
         LoopPromote, IsHead, WorkersInv, OwnersHaveWorkers, Workers
  <1>3. ASSUME ShutdownStep \/ Notify \/ Tick \/ Finished \/ UNCHANGED vars PROVE Same
    BY <1>3 DEF ShutdownStep, ShutdownBegin, ShutdownCause, ShutdownReturn, ShutdownSignal, Notify, Tick,
         Finished, vars
  <1>4. ASSUME NEW r \in Runs,
               \/ PersistRefused(r) \/ PersistInstalled(r) \/ FailedReturn(r)
               \/ DeleteQueuedReturn(r) \/ FinalizeReturn(r) \/ CallbackReturn(r)
               \/ ContextReleased(r)
        PROVE  Same
    BY <1>4 DEF PersistRefused, PersistInstalled, FailedReturn, DeleteQueuedReturn,
         FinalizeReturn, CallbackReturn, ContextReleased, deleteQueuedEntry
  <1>5. ASSUME NEW c \in Callers, CallerStep(c) PROVE Same
    BY <1>5 DEF CallerStep, Inspect, InspectReturn, Signal, CallerTimeout, CancelStep,
         CancelRefused, CancelAbsent, CancelPersisting, CancelQueued, CancelActive, CancelJoin,
         CancelCompleted, deleteQueuedEntry, WorkersInv, OwnersHaveWorkers, Workers
  <1> HIDE DEF Same, CoreInv, WeakTypeOK
  <1>6. CASE Same
    BY <1>6 DEF Same
  <1> QED
    BY <1>1, <1>2, <1>3, <1>4, <1>5, <1>6 DEF Next, SessionStep, WorkerStep

\* StoredWorkRunsOnce with the history each row carries: without a row or a marker
\* nothing ran, and between the marker and the body nothing has run yet.
OnceInv ==
  \A r \in Runs :
    /\ rowBinding[r] = 0 => ~rowStarted[r]
    /\ ~rowStarted[r] => ran[r] = 0
    /\ job[r] = "writeMarker" => ~rowStarted[r]
    /\ job[r] = "checkCause" => rowBinding[r] # 0 /\ rowStarted[r] /\ ran[r] = 0
    /\ ran[r] <= 1

\* Every step of the rows and of the start callback keeps a row's history.
LEMMA OnceStep ==
  ASSUME CoreInv, OnceInv, [Next]_vars
  PROVE  OnceInv'
  <1> USE DEF OnceInv, CoreInv, WeakTypeOK, DbType
  <1>1. CASE /\ UNCHANGED db
             /\ \A r \in Runs : /\ job'[r] = "checkCause" <=> job[r] = "checkCause"
                                /\ job'[r] = "writeMarker" => job[r] = "writeMarker"
    BY <1>1 DEF db
  <1>2. CASE Crash
    BY <1>2 DEF Crash, db
  <1>3. ASSUME NEW r \in Runs, Persist(r) PROVE OnceInv'
    BY <1>3 DEF Persist, db
  <1>4. ASSUME NEW r \in Runs, DeleteRow(r) PROVE OnceInv'
    BY <1>4 DEF DeleteRow, db
  <1>5. ASSUME NEW r \in Runs, ReadMarker(r) PROVE OnceInv'
    BY <1>5 DEF ReadMarker, db
  <1>6. ASSUME NEW r \in Runs, WriteMarker(r) PROVE OnceInv'
    BY <1>6 DEF WriteMarker, db
  <1>7. ASSUME NEW r \in Runs, CheckCause(r) PROVE OnceInv'
    BY <1>7 DEF CheckCause
  <1> HIDE DEF OnceInv, CoreInv
  <1> QED
    BY <1>1, <1>2, <1>3, <1>4, <1>5, <1>6, <1>7, RowFrame

\* A row's history holds in every reachable state.
LEMMA OnceInvariant == Spec => []OnceInv
  <1>1. Init => OnceInv
    BY DEF Init, OnceInv
  <1>2. CoreInv /\ OnceInv /\ [Next]_vars => OnceInv'
    BY OnceStep
  <1> QED
    BY <1>1, <1>2, CoreInvariant, PTL DEF Spec

\* A stored run's body starts at most once and never before its marker, over any
\* number of sessions, crashes and restores, with or without resumed bindings.
THEOREM StoredWorkStartsOnce == Spec => []StoredWorkRunsOnce
  <1>1. ASSUME CoreInv, OnceInv PROVE StoredWorkRunsOnce
    BY <1>1 DEF CoreInv, OnceInv, StoredWorkRunsOnce, WeakTypeOK, DbType
  <1> QED
    BY <1>1, CoreInvariant, OnceInvariant, PTL

\* Every step is a step of RunCustody on the mapped state, or leaves it alone.
LEMMA CustodyStep ==
  ASSUME CoreInv, OnceInv, [Next]_vars
  PROVE  Custody!CustodyNext \/ UNCHANGED <<custodyOf, ran>>
  <1> USE DEF CoreInv, WeakTypeOK, DbType, OnceInv
  <1>1. CASE /\ UNCHANGED db
             /\ \A r \in Runs : /\ job'[r] = "checkCause" <=> job[r] = "checkCause"
                                /\ job'[r] = "writeMarker" => job[r] = "writeMarker"
    BY <1>1 DEF db, custodyOf
  <1>2. CASE Crash
    <2>1. Custody!LapseAll
      BY <1>2 DEF Crash, db, custodyOf, Custody!LapseAll
    <2> QED
      BY <2>1 DEF Custody!CustodyNext
  <1>3. ASSUME NEW r \in Runs, Persist(r)
        PROVE  Custody!CustodyNext \/ UNCHANGED <<custodyOf, ran>>
    <2>1. CASE UNCHANGED db /\ job' = [job EXCEPT ![r] = "refused"]
      BY <1>3, <2>1 DEF Persist, db, custodyOf
    <2>2. CASE /\ rowBinding[r] = 0 /\ rowBinding' = [rowBinding EXCEPT ![r] = binding[r]]
               /\ rowStarted' = [rowStarted EXCEPT ![r] = FALSE]
               /\ ran' = [ran EXCEPT ![r] = 0] /\ job' = [job EXCEPT ![r] = "persisted"]
      <3>1. ran' = ran
        BY <2>2
      <3>2. CASE binding[r] = 0
        BY <1>3, <2>2, <3>1, <3>2 DEF Persist, custodyOf
      <3>3. CASE binding[r] # 0
        <4>1. custodyOf[r] = "absent" /\ custodyOf' = [custodyOf EXCEPT ![r] = "accepted"]
          BY <1>3, <2>2, <3>3 DEF Persist, custodyOf
        <4>2. Custody!Accept(r)
          BY <2>2, <4>1 DEF Custody!Accept
        <4> QED
          BY <4>2 DEF Custody!CustodyNext
      <3> QED
        BY <3>2, <3>3
    <2> QED
      BY <1>3, <2>1, <2>2 DEF Persist
  <1>4. ASSUME NEW r \in Runs, DeleteRow(r)
        PROVE  Custody!CustodyNext \/ UNCHANGED <<custodyOf, ran>>
    <2>1. CASE UNCHANGED db
      BY <1>4, <2>1 DEF DeleteRow, db, custodyOf
    <2>2. CASE ~UNCHANGED db
      <3>1. ran' = [ran EXCEPT ![r] = 0] /\ custodyOf' = [custodyOf EXCEPT ![r] = "absent"]
        BY <1>4, <2>2 DEF DeleteRow, custodyOf
      <3>2. CASE custodyOf[r] = "absent"
        <4>1. ran[r] = 0
          BY <3>2 DEF custodyOf
        <4> QED
          BY <3>1, <3>2, <4>1 DEF custodyOf
      <3>3. CASE custodyOf[r] # "absent"
        <4>1. custodyOf[r] \in {"accepted", "spent"}
          BY <1>4, <3>3 DEF DeleteRow, custodyOf
        <4>2. Custody!Remove(r)
          BY <3>1, <4>1 DEF Custody!Remove
        <4> QED
          BY <4>2 DEF Custody!CustodyNext
      <3> QED
        BY <3>2, <3>3
    <2> QED
      BY <2>1, <2>2
  <1>5. ASSUME NEW r \in Runs, ReadMarker(r)
        PROVE  Custody!CustodyNext \/ UNCHANGED <<custodyOf, ran>>
    BY <1>5 DEF ReadMarker, db, custodyOf
  <1>6. ASSUME NEW r \in Runs, WriteMarker(r)
        PROVE  Custody!CustodyNext \/ UNCHANGED <<custodyOf, ran>>
    <2>1. CASE UNCHANGED db /\ job' = [job EXCEPT ![r] = "failing"]
      BY <1>6, <2>1 DEF WriteMarker, db, custodyOf
    <2>2. CASE /\ rowBinding[r] # 0 /\ rowStarted' = [rowStarted EXCEPT ![r] = TRUE]
               /\ job' = [job EXCEPT ![r] = "checkCause"] /\ UNCHANGED <<rowBinding, ran>>
      <3>1. custodyOf[r] = "accepted" /\ custodyOf' = [custodyOf EXCEPT ![r] = "marked"]
        BY <1>6, <2>2 DEF WriteMarker, custodyOf
      <3>2. Custody!Mark(r)
        BY <2>2, <3>1 DEF Custody!Mark
      <3> QED
        BY <3>2 DEF Custody!CustodyNext
    <2> QED
      BY <1>6, <2>1, <2>2 DEF WriteMarker
  <1>7. ASSUME NEW r \in Runs, CheckCause(r)
        PROVE  Custody!CustodyNext \/ UNCHANGED <<custodyOf, ran>>
    <2>1. custodyOf[r] = "marked" /\ custodyOf' = [custodyOf EXCEPT ![r] = "spent"]
      BY <1>7 DEF CheckCause, custodyOf
    <2>2. Custody!Start(r) \/ Custody!Lapse(r)
      BY <1>7, <2>1 DEF CheckCause, Custody!Start, Custody!Lapse
    <2> QED
      BY <2>2 DEF Custody!CustodyNext
  <1> HIDE DEF OnceInv, CoreInv
  <1> QED
    BY <1>1, <1>2, <1>3, <1>4, <1>5, <1>6, <1>7, RowFrame

\* The scheduler, its rows and its crashes implement RunCustody.
THEOREM SchedulerImplementsCustody == Spec => ImplementsCustody
  <1>1. Init => Custody!CustodyInit
    BY DEF Init, Custody!CustodyInit, custodyOf
  <1>2. CoreInv /\ OnceInv /\ [Next]_vars => [Custody!CustodyNext]_(Custody!custodyVars)
    BY CustodyStep DEF Custody!custodyVars
  <1> QED
    BY <1>1, <1>2, CoreInvariant, OnceInvariant, PTL
       DEF Spec, ImplementsCustody, Custody!CustodySpec

-----------------------------------------------------------------------------
(* Handlers that joined an attempt.                                         *)

\* Whoever closes an attempt answers every handler joined to it in the same step.
LEMMA StrandedStep ==
  ASSUME CoreInv, NoStrandedCaller, [Next]_vars
  PROVE  NoStrandedCaller'
  <1> USE DEF NoStrandedCaller, Joined, CoreInv, WeakTypeOK, OwnerType, CallType
  <1>1. CASE UNCHANGED <<attempt, job, call>>
    BY <1>1 DEF call
  <1>2. CASE Release \/ Crash
    BY <1>2 DEF Release, Crash, DropCore
  <1>3. ASSUME NEW r \in Runs, RestoreEmit(r) \/ Insert(r) \/ LoopPromote(r)
        PROVE  NoStrandedCaller'
    BY <1>3 DEF RestoreEmit, Insert, LoopPromote, IsHead, newOwner, call, WorkersInv,
       OwnersHaveWorkers, Workers
  <1>4. ASSUME NEW r \in Runs,
               \/ Persist(r) \/ FailedReturn(r) \/ DeleteRow(r) \/ ReadMarker(r)
               \/ WriteMarker(r) \/ CheckCause(r) \/ CallbackReturn(r) \/ ContextReleased(r)
        PROVE  NoStrandedCaller'
    BY <1>4 DEF Persist, FailedReturn, DeleteRow, ReadMarker, WriteMarker, CheckCause,
       CallbackReturn, ContextReleased, core, owner, call
  <1>5. ASSUME NEW r \in Runs, PersistInstalled(r) PROVE NoStrandedCaller'
    BY <1>5 DEF PersistInstalled, deleteQueuedEntry, call
  <1>6. ASSUME NEW r \in Runs, PersistRefused(r) PROVE NoStrandedCaller'
    BY <1>6 DEF PersistRefused, Retire, Publish, Answers
  <1>7. ASSUME NEW r \in Runs, DeleteQueuedReturn(r) PROVE NoStrandedCaller'
    BY <1>7 DEF DeleteQueuedReturn, Retire, Publish, Answers
  <1>8. ASSUME NEW r \in Runs, FinalizeReturn(r) PROVE NoStrandedCaller'
    BY <1>8 DEF FinalizeReturn, Retire, Publish, Answers
  <1>9. ASSUME NEW c \in Callers, Inspect(c) \/ InspectReturn(c) \/ CallerTimeout(c)
        PROVE  NoStrandedCaller'
    BY <1>9 DEF Inspect, InspectReturn, CallerTimeout, Proceed, Answer, core, owner
  <1>10. ASSUME NEW c \in Callers, Signal(c) PROVE NoStrandedCaller'
    BY <1>10 DEF Signal, Answer
  <1>11. ASSUME NEW c \in Callers, NEW r \in Runs, NEW b \in 0..sess, NEW queueOnly \in BOOLEAN,
                CancelRefused(c, r, b, queueOnly) \/ CancelAbsent(c, r, b)
         PROVE  NoStrandedCaller'
    BY <1>11 DEF CancelRefused, CancelAbsent, Proceed, Answer, core, owner
  <1>12. ASSUME NEW c \in Callers, NEW r \in Runs, NEW b \in 0..sess, NEW queueOnly \in BOOLEAN,
                CancelActive(c, r, b, queueOnly) \/ CancelJoin(c, r, b, queueOnly)
         PROVE  NoStrandedCaller'
    BY <1>12 DEF CancelActive, CancelJoin, Proceed, core, owner, WorkersInv, OwnersHaveWorkers,
       Workers
  <1>13. ASSUME NEW c \in Callers, NEW r \in Runs, NEW b \in 0..sess, NEW queueOnly \in BOOLEAN,
                CancelPersisting(c, r, b, queueOnly)
         PROVE  NoStrandedCaller'
    BY <1>13 DEF CancelPersisting, Proceed, WorkersInv, OwnersHaveWorkers, Workers
  <1>14. ASSUME NEW c \in Callers, NEW r \in Runs, NEW b \in 0..sess, NEW queueOnly \in BOOLEAN,
                CancelQueued(c, r, b, queueOnly)
         PROVE  NoStrandedCaller'
    BY <1>14 DEF CancelQueued, deleteQueuedEntry, Proceed
  <1>15. ASSUME NEW c \in Callers, NEW r \in Runs, NEW b \in 0..sess, NEW queueOnly \in BOOLEAN,
                CancelCompleted(c, r, b, queueOnly)
         PROVE  NoStrandedCaller'
    BY <1>15 DEF CancelCompleted, Proceed, Answer
  <1>16. ASSUME SessionStep, ~Release, ~Crash, ~\E r \in Runs : RestoreEmit(r) \/ Insert(r)
         PROVE  UNCHANGED <<attempt, job, call>>
    BY <1>16 DEF SessionStep, NewSession, RestoreBegin, RestoreEnd, LeaseArm, LeaseReady,
       LeaseLost, Stop, BeginDrain, TryDrain, LoopReady, core, owner, routine
  <1>17. ASSUME LoopStep, ~\E r \in Runs : LoopPromote(r)
         PROVE  UNCHANGED <<attempt, job, call>>
    BY <1>17 DEF LoopStep, StartLoop, LoopDrain, LoopStopped, LoopSleep, LoopArm, LoopWake,
       LoopRefused,
       core, owner
  <1>18. ASSUME ShutdownStep \/ Notify \/ Tick \/ Finished \/ UNCHANGED vars
         PROVE  UNCHANGED <<attempt, job, call>>
    BY <1>18 DEF ShutdownStep, ShutdownBegin, ShutdownCause, ShutdownReturn, ShutdownSignal, Notify, Tick,
       Finished, vars, core, owner, routine
  <1> HIDE DEF NoStrandedCaller, CoreInv
  <1> QED
    BY <1>1, <1>2, <1>3, <1>4, <1>5, <1>6, <1>7, <1>8, <1>9, <1>10, <1>11, <1>12, <1>13, <1>14,
       <1>15, <1>16, <1>17, <1>18
       DEF Next, SessionStep, LoopStep, WorkerStep, CallerStep, CancelStep

\* No cancellation handler ever waits on an attempt nobody will close.
THEOREM NobodyIsStranded == Spec => []NoStrandedCaller
  <1>1. Init => NoStrandedCaller
    BY DEF Init, NoStrandedCaller, Joined
  <1>2. CoreInv /\ NoStrandedCaller /\ [Next]_vars => NoStrandedCaller'
    BY StrandedStep
  <1> QED
    BY <1>1, <1>2, CoreInvariant, PTL DEF Spec


-----------------------------------------------------------------------------
(* Wakeups of the dispatch loop.                                            *)

\* A run enters the queue with a hint, or with a notifier on its way; the loop
\* forgets a hint only before it looks at the queue.
LEMMA WakeupStep ==
  ASSUME CoreInv, NoLostWakeup, [Next]_vars
  PROVE  NoLostWakeup'
  <1> USE SchedulerAssumption DEF NoLostWakeup, CoreInv, WeakTypeOK, CoreType, LoopType
  <1>1. CASE UNCHANGED <<tq, loop, timer, hint, notifiers, closed>>
    BY <1>1
  <1>2. CASE Release \/ Crash
    BY <1>2 DEF Release, Crash, DropCore
  <1>3. ASSUME NEW r \in Runs, RestoreEmit(r) \/ DeleteQueuedReturn(r)
        PROVE  NoLostWakeup'
    BY <1>3 DEF RestoreEmit, DeleteQueuedReturn
  <1>4. ASSUME NEW r \in Runs, PersistInstalled(r) \/ PersistRefused(r)
        PROVE  NoLostWakeup'
    BY <1>4 DEF PersistInstalled, PersistRefused
  <1>5. CASE Notify
    BY <1>5 DEF Notify
  <1>6. ASSUME NEW c \in Callers, NEW r \in Runs, NEW b \in 0..sess, NEW queueOnly \in BOOLEAN,
               CancelQueued(c, r, b, queueOnly)
        PROVE  NoLostWakeup'
    BY <1>6 DEF CancelQueued
  <1>7. CASE LoopSleep
    <2>1. PICK t \in Nat : timer' = t /\ \A q \in tq : t <= StartTime[q]
      BY <1>7 DEF LoopSleep, IsHead, NoTimer
    <2> QED
      BY <1>7, <2>1 DEF LoopSleep, core
  <1>8. CASE LoopArm
    BY <1>8 DEF LoopArm, core
  <1>9. ASSUME LoopStep, ~LoopSleep, ~LoopArm
        PROVE  loop' \notin {"arm", "sleep"}
    BY <1>9 DEF LoopStep, StartLoop, LoopDrain, LoopStopped, LoopWake, LoopPromote, LoopRefused
  <1>10. CASE ShutdownBegin
    BY <1>10 DEF ShutdownBegin
  <1>11. ASSUME SessionStep, ~Release, ~Crash, ~\E r \in Runs : RestoreEmit(r), ~LoopReady
         PROVE  UNCHANGED <<tq, loop, timer, hint, notifiers, closed>>
    BY <1>11 DEF SessionStep, NewSession, RestoreBegin, RestoreEnd, LeaseArm, LeaseReady,
       LeaseLost, Stop, BeginDrain, TryDrain, Insert, core, routine
  <1>12. CASE LoopReady
    BY <1>12 DEF LoopReady
  <1>13. ASSUME NEW r \in Runs,
                \/ Persist(r) \/ FailedReturn(r) \/ DeleteRow(r) \/ ReadMarker(r)
                \/ WriteMarker(r) \/ CheckCause(r) \/ CallbackReturn(r) \/ ContextReleased(r)
                \/ FinalizeReturn(r)
         PROVE  UNCHANGED <<tq, loop, timer, hint, notifiers, closed>>
    BY <1>13 DEF Persist, FailedReturn, DeleteRow, ReadMarker, WriteMarker, CheckCause,
       CallbackReturn, ContextReleased, FinalizeReturn, core
  <1>14. ASSUME NEW c \in Callers,
                Inspect(c) \/ InspectReturn(c) \/ CallerTimeout(c) \/ Signal(c)
         PROVE  UNCHANGED <<tq, loop, timer, hint, notifiers, closed>>
    BY <1>14 DEF Inspect, InspectReturn, CallerTimeout, Signal, core
  <1>15. ASSUME NEW c \in Callers, NEW r \in Runs, NEW b \in 0..sess, NEW queueOnly \in BOOLEAN,
                \/ CancelRefused(c, r, b, queueOnly) \/ CancelAbsent(c, r, b)
                \/ CancelPersisting(c, r, b, queueOnly) \/ CancelActive(c, r, b, queueOnly)
                \/ CancelJoin(c, r, b, queueOnly) \/ CancelCompleted(c, r, b, queueOnly)
         PROVE  UNCHANGED <<tq, loop, timer, hint, notifiers, closed>>
    BY <1>15 DEF CancelRefused, CancelAbsent, CancelPersisting, CancelActive, CancelJoin,
       CancelCompleted, core
  <1>16. ASSUME \/ ShutdownReturn \/ (\E r \in Runs : ShutdownSignal(r))
                \/ Tick \/ Finished \/ UNCHANGED vars
         PROVE  UNCHANGED <<tq, loop, timer, hint, notifiers, closed>>
    BY <1>16 DEF ShutdownReturn, ShutdownSignal, Tick, Finished, vars, core, routine
  <1>17. loop' \notin {"arm", "sleep"} => NoLostWakeup'
    OBVIOUS
  <1> HIDE DEF NoLostWakeup, CoreInv
  <1> QED
    BY <1>1, <1>2, <1>3, <1>4, <1>5, <1>6, <1>7, <1>8, <1>9, <1>10, <1>11, <1>12, <1>13, <1>14,
       <1>15, <1>16, <1>17
       DEF Next, SessionStep, ShutdownStep, WorkerStep, CallerStep, CancelStep

\* The dispatch loop never sleeps past a queued start time: no interleaving of
\* uploads, failed deletions and notifications loses a wakeup.
THEOREM NoWakeupIsLost == Spec => []NoLostWakeup
  <1>1. Init => NoLostWakeup
    BY DEF Init, NoLostWakeup
  <1>2. CoreInv /\ NoLostWakeup /\ [Next]_vars => NoLostWakeup'
    BY WakeupStep
  <1> QED
    BY <1>1, <1>2, CoreInvariant, PTL DEF Spec

-----------------------------------------------------------------------------
(* Accepted work and its row.                                               *)

\* AcceptedWorkIsStored, with the stages between the callback's return and the
\* row's removal, and with an owner whose removal failed and may be retried.
StoredInv ==
  \A r \in Runs :
    \/ phase[r] \in {"queued", "active"}
    \/ job[r] \in {"persisted", "failed", "delete", "kept", "returned", "finalize",
                   "unfinalized"}
    \/ phase[r] = "completed" /\ attempt[r] = "finalErr"
    => rowBinding[r] = binding[r]

\* An owner keeps its row until its own finalizer removes it.
LEMMA StoredStep ==
  ASSUME CoreInv, StoredInv, [Next]_vars
  PROVE  StoredInv'
  <1> USE DEF StoredInv, CoreInv, WeakTypeOK, OwnerType, DbType, WorkersInv,
          OwnersHaveWorkers, Workers
  <1>1. CASE UNCHANGED <<phase, binding, attempt, job, rowBinding>>
    BY <1>1
  <1>2. CASE Release \/ Crash
    BY <1>2 DEF Release, Crash, DropCore, QuietInv, QuietAfterShutdown
  <1>3. ASSUME NEW r \in Runs, RestoreEmit(r) \/ Insert(r) PROVE StoredInv'
    BY <1>3 DEF RestoreEmit, Insert, newOwner, db
  <1>4. ASSUME NEW r \in Runs, LoopPromote(r) PROVE StoredInv'
    BY <1>4 DEF LoopPromote, IsHead, db
  <1>5. ASSUME NEW r \in Runs, Persist(r) PROVE StoredInv'
    BY <1>5 DEF Persist, core, owner, db
  <1>6. ASSUME NEW r \in Runs, PersistInstalled(r) PROVE StoredInv'
    BY <1>6 DEF PersistInstalled, deleteQueuedEntry, db
  <1>7. ASSUME NEW r \in Runs, PersistRefused(r) PROVE StoredInv'
    BY <1>7 DEF PersistRefused, Retire, db
  <1>8. ASSUME NEW r \in Runs, DeleteRow(r) PROVE StoredInv'
    BY <1>8 DEF DeleteRow, core, owner, db
  <1>9. ASSUME NEW r \in Runs, DeleteQueuedReturn(r) PROVE StoredInv'
    BY <1>9 DEF DeleteQueuedReturn, Retire, db
  <1>10. ASSUME NEW r \in Runs, FinalizeReturn(r) PROVE StoredInv'
    BY <1>10 DEF FinalizeReturn, Retire, attemptErr, db
  <1>11. ASSUME NEW r \in Runs,
                \/ FailedReturn(r) \/ ReadMarker(r) \/ WriteMarker(r) \/ CheckCause(r)
                \/ CallbackReturn(r) \/ ContextReleased(r)
         PROVE  StoredInv'
    BY <1>11 DEF FailedReturn, ReadMarker, WriteMarker, CheckCause, CallbackReturn,
       ContextReleased, core, owner, db
  <1>12. ASSUME NEW c \in Callers, NEW r \in Runs, NEW b \in 0..sess, NEW queueOnly \in BOOLEAN,
                \/ CancelPersisting(c, r, b, queueOnly) \/ CancelQueued(c, r, b, queueOnly)
                \/ CancelCompleted(c, r, b, queueOnly)
         PROVE  StoredInv'
    BY <1>12 DEF CancelPersisting, CancelQueued, CancelCompleted, deleteQueuedEntry, db
  <1>13. ASSUME NEW c \in Callers, NEW r \in Runs, NEW b \in 0..sess, NEW queueOnly \in BOOLEAN,
                \/ CancelRefused(c, r, b, queueOnly) \/ CancelAbsent(c, r, b)
                \/ CancelActive(c, r, b, queueOnly) \/ CancelJoin(c, r, b, queueOnly)
         PROVE  UNCHANGED <<phase, binding, attempt, job, rowBinding>>
    BY <1>13 DEF CancelRefused, CancelAbsent, CancelActive, CancelJoin, core, owner, db
  <1>14. ASSUME NEW c \in Callers,
                Inspect(c) \/ InspectReturn(c) \/ CallerTimeout(c) \/ Signal(c)
         PROVE  UNCHANGED <<phase, binding, attempt, job, rowBinding>>
    BY <1>14 DEF Inspect, InspectReturn, CallerTimeout, Signal, core, owner, db
  <1>15. ASSUME SessionStep, ~Release, ~Crash, ~\E r \in Runs : RestoreEmit(r) \/ Insert(r)
         PROVE  UNCHANGED <<phase, binding, attempt, job, rowBinding>>
    BY <1>15 DEF SessionStep, NewSession, RestoreBegin, RestoreEnd, LeaseArm, LeaseReady,
       LeaseLost, Stop, BeginDrain, TryDrain, LoopReady, core, owner, routine, db
  <1>16. ASSUME LoopStep, ~\E r \in Runs : LoopPromote(r)
         PROVE  UNCHANGED <<phase, binding, attempt, job, rowBinding>>
    BY <1>16 DEF LoopStep, StartLoop, LoopDrain, LoopStopped, LoopSleep, LoopArm, LoopWake,
       LoopRefused, core, owner, db
  <1>17. ASSUME ShutdownStep \/ Notify \/ Tick \/ Finished \/ UNCHANGED vars
         PROVE  UNCHANGED <<phase, binding, attempt, job, rowBinding>>
    BY <1>17 DEF ShutdownStep, ShutdownBegin, ShutdownReturn, ShutdownSignal, Notify, Tick,
       Finished, vars, core, owner, routine, db
  <1> HIDE DEF StoredInv, CoreInv
  <1> QED
    BY <1>1, <1>2, <1>3, <1>4, <1>5, <1>6, <1>7, <1>8, <1>9, <1>10, <1>11, <1>12, <1>13, <1>14,
       <1>15, <1>16, <1>17
       DEF Next, SessionStep, LoopStep, WorkerStep, CallerStep, CancelStep

\* Queued and running work has its canonical row under the owner's binding, over
\* every interleaving of uploads, cancellations, failed removals and crashes.
THEOREM AcceptedWorkHasItsRow == Spec => []AcceptedWorkIsStored
  <1>1. Init => StoredInv
    BY DEF Init, StoredInv
  <1>2. CoreInv /\ StoredInv /\ [Next]_vars => StoredInv'
    BY StoredStep
  <1>3. StoredInv => AcceptedWorkIsStored
    BY DEF StoredInv, AcceptedWorkIsStored
  <1> QED
    BY <1>1, <1>2, <1>3, CoreInvariant, PTL DEF Spec

-----------------------------------------------------------------------------
(* Causes and signals.                                                      *)

\* SignalCarriesCause, with what Cancel, Shutdown and the callback may rely on: an
\* owner that is not cancelled has no cause, one that has not started no signalled
\* context, and whoever is about to signal finds a started owner with its cause.
CauseInv ==
  /\ \A r \in Runs :
       /\ phase[r] \in {"none", "queued"} => cause[r] = "none"
       /\ phase[r] = "persisting" /\ attempt[r] = "none" => cause[r] = "none"
       /\ phase[r] \in {"none", "persisting", "queued", "cancelPending"} => ctx[r] = "none"
       /\ r \in toSignal =>
            \/ phase[r] = "none"
            \/ phase[r] \in {"active", "finalizing", "completed"} /\ cause[r] # "none"
  /\ toSignal # {} => shut = "join" /\ closed
  /\ \A c \in Callers : pc[c] = "signal" /\ answer[c] = "none" =>
       target[c] \in Runs /\ phase[target[c]] \in {"active", "finalizing"}
  /\ SignalCarriesCause

\* What CauseInv reads.
causeState == <<phase, attempt, cause, ctx, toSignal, shut, closed, pc, answer, target>>

\* However Cancel, Shutdown and the callback's return interleave, the first
\* committed cause is the one that is signalled.
LEMMA CauseStep ==
  ASSUME CoreInv, NoStrandedCaller, CauseInv, [Next]_vars
  PROVE  CauseInv'
  <1> USE SchedulerAssumption
          DEF CauseInv, SignalCarriesCause, CoreInv, WeakTypeOK, OwnerType, CoreType, CallType,
          WorkersInv, OwnersHaveWorkers, Workers, Phases, Causes, Attempts
  <1>1. CASE UNCHANGED causeState
    BY <1>1 DEF causeState
  <1>2. CASE Release \/ Crash
    BY <1>2 DEF Release, Crash, DropCore
  <1>3. ASSUME NEW r \in Runs, RestoreEmit(r) \/ Insert(r) PROVE CauseInv'
    BY <1>3 DEF RestoreEmit, Insert, newOwner, call
  <1>4. ASSUME NEW r \in Runs, LoopPromote(r) PROVE CauseInv'
    BY <1>4 DEF LoopPromote, IsHead, call
  <1>5. ASSUME NEW r \in Runs, PersistInstalled(r) PROVE CauseInv'
    BY <1>5 DEF PersistInstalled, call
  <1>6. ASSUME NEW r \in Runs, PersistRefused(r) PROVE CauseInv'
    BY <1>6 DEF PersistRefused, Retire, Publish, Joined, Answers
  <1>7. ASSUME NEW r \in Runs, DeleteQueuedReturn(r) PROVE CauseInv'
    BY <1>7 DEF DeleteQueuedReturn, Retire, Publish, Joined, Answers
  <1>8. ASSUME NEW r \in Runs, FinalizeReturn(r) PROVE CauseInv'
    BY SMTT(30), <1>8 DEF FinalizeReturn, Retire, Publish, Joined, Answers
  <1>9. ASSUME NEW r \in Runs, FailedReturn(r) \/ CallbackReturn(r) PROVE CauseInv'
    BY <1>9 DEF FailedReturn, CallbackReturn, call
  <1>10. ASSUME NEW r \in Runs, ContextReleased(r) PROVE CauseInv'
    BY <1>10 DEF ContextReleased, CancelContext, naturalCause, call
  <1>11. CASE ShutdownBegin
    BY <1>11 DEF ShutdownBegin, ShutdownCause, routine, call
  <1>12. ASSUME NEW r \in Runs, ShutdownSignal(r) PROVE CauseInv'
    BY <1>12 DEF ShutdownSignal, CancelContext, naturalCause, routine, call
  <1>13. CASE ShutdownReturn
    BY <1>13 DEF ShutdownReturn, owner, routine, call
  <1>14. ASSUME NEW c \in Callers, Signal(c) PROVE CauseInv'
    BY <1>14 DEF Signal, CancelContext, signalCause, Answer
  <1>15. ASSUME NEW c \in Callers, Inspect(c) \/ InspectReturn(c) \/ CallerTimeout(c)
         PROVE  CauseInv'
    BY <1>15 DEF Inspect, InspectReturn, CallerTimeout, Proceed, Answer, core, owner
  <1>16. ASSUME NEW c \in Callers, NEW r \in Runs, NEW b \in 0..sess, NEW queueOnly \in BOOLEAN,
                CancelRefused(c, r, b, queueOnly) \/ CancelAbsent(c, r, b)
                  \/ CancelJoin(c, r, b, queueOnly)
         PROVE  CauseInv'
    BY <1>16 DEF CancelRefused, CancelAbsent, CancelJoin, Proceed, Answer, core, owner
  <1>17. ASSUME NEW c \in Callers, NEW r \in Runs, NEW b \in 0..sess, NEW queueOnly \in BOOLEAN,
                CancelPersisting(c, r, b, queueOnly)
         PROVE  CauseInv'
    BY <1>17 DEF CancelPersisting, Proceed
  <1>18. ASSUME NEW c \in Callers, NEW r \in Runs, NEW b \in 0..sess, NEW queueOnly \in BOOLEAN,
                CancelQueued(c, r, b, queueOnly)
         PROVE  CauseInv'
    BY <1>18 DEF CancelQueued, Proceed
  <1>19. ASSUME NEW c \in Callers, NEW r \in Runs, NEW b \in 0..sess, NEW queueOnly \in BOOLEAN,
                CancelActive(c, r, b, queueOnly)
         PROVE  CauseInv'
    BY <1>19 DEF CancelActive, commitCause, Proceed
  <1>20. ASSUME NEW c \in Callers, NEW r \in Runs, NEW b \in 0..sess, NEW queueOnly \in BOOLEAN,
                CancelCompleted(c, r, b, queueOnly)
         PROVE  CauseInv'
    BY <1>20 DEF CancelCompleted, MayJoin, JoinableWhenClosed, Proceed, Answer
  <1>21. ASSUME SessionStep, ~Release, ~Crash, ~\E r \in Runs : RestoreEmit(r) \/ Insert(r)
         PROVE  UNCHANGED causeState
    BY <1>21 DEF SessionStep, NewSession, RestoreBegin, RestoreEnd, LeaseArm, LeaseReady,
       LeaseLost, Stop, BeginDrain, TryDrain, LoopReady, core, owner, routine, call, causeState
  <1>22. ASSUME LoopStep, ~\E r \in Runs : LoopPromote(r)
         PROVE  UNCHANGED causeState
    BY <1>22 DEF LoopStep, StartLoop, LoopDrain, LoopStopped, LoopSleep, LoopArm, LoopWake,
       LoopRefused, core, owner, call, causeState
  <1>23. ASSUME NEW r \in Runs,
                \/ Persist(r) \/ DeleteRow(r) \/ ReadMarker(r) \/ WriteMarker(r) \/ CheckCause(r)
         PROVE  UNCHANGED causeState
    BY <1>23 DEF Persist, DeleteRow, ReadMarker, WriteMarker, CheckCause, core, owner, call,
       causeState
  <1>24. ASSUME Notify \/ Tick \/ Finished \/ UNCHANGED vars
         PROVE  UNCHANGED causeState
    BY <1>24 DEF Notify, Tick, Finished, vars, core, owner, routine, call, causeState
  <1> HIDE DEF CauseInv, CoreInv
  <1> QED
    BY <1>1, <1>2, <1>3, <1>4, <1>5, <1>6, <1>7, <1>8, <1>9, <1>10, <1>11, <1>12, <1>13, <1>14,
       <1>15, <1>16, <1>17, <1>18, <1>19, <1>20, <1>21, <1>22, <1>23, <1>24
       DEF Next, SessionStep, LoopStep, ShutdownStep, WorkerStep, CallerStep, CancelStep

\* What is committed and what may be signalled, in every reachable state.
LEMMA CauseInvariant == Spec => []CauseInv
  <1>1. Init => CauseInv
    BY DEF Init, CauseInv, SignalCarriesCause
  <1>2. CoreInv /\ NoStrandedCaller /\ CauseInv /\ [Next]_vars => CauseInv'
    BY CauseStep
  <1> QED
    BY <1>1, <1>2, CoreInvariant, NobodyIsStranded, PTL DEF Spec

\* A started run's context ends with the session or with its committed cause; only
\* a run nobody cancelled is released with context.Canceled.
THEOREM SignalsCarryTheCause == Spec => []SignalCarriesCause
  <1>1. CauseInv => SignalCarriesCause
    BY DEF CauseInv
  <1> QED
    BY <1>1, CauseInvariant, PTL

\* Committing a cause finds none; every other write keeps it or clears it.
LEMMA FirstCauseStep ==
  ASSUME CoreInv, CauseInv, [Next]_vars, NEW q \in Runs, cause[q] # "none", cause'[q] # "none"
  PROVE  cause'[q] = cause[q]
  <1> USE DEF CauseInv, CoreInv, WeakTypeOK, OwnerType, WorkersInv, OwnersHaveWorkers
  <1>1. CASE UNCHANGED cause
    BY <1>1
  <1>2. CASE Release \/ Crash
    BY <1>2 DEF Release, Crash, DropCore
  <1>3. ASSUME NEW r \in Runs, PersistRefused(r) \/ DeleteQueuedReturn(r) \/ FinalizeReturn(r)
        PROVE  cause'[q] = cause[q]
    BY <1>3 DEF PersistRefused, DeleteQueuedReturn, FinalizeReturn, Retire
  <1>4. CASE ShutdownBegin
    BY <1>4 DEF ShutdownBegin, ShutdownCause
  <1>5. ASSUME NEW c \in Callers, NEW r \in Runs, NEW b \in 0..sess, NEW queueOnly \in BOOLEAN,
               \/ CancelPersisting(c, r, b, queueOnly) \/ CancelQueued(c, r, b, queueOnly)
               \/ CancelActive(c, r, b, queueOnly)
        PROVE  cause'[q] = cause[q]
    BY <1>5 DEF CancelPersisting, CancelQueued, CancelActive, commitCause
  <1>6. ASSUME NEW c \in Callers, NEW r \in Runs, NEW b \in 0..sess, NEW queueOnly \in BOOLEAN,
               \/ CancelRefused(c, r, b, queueOnly) \/ CancelAbsent(c, r, b)
               \/ CancelJoin(c, r, b, queueOnly) \/ CancelCompleted(c, r, b, queueOnly)
        PROVE  UNCHANGED cause
    BY <1>6 DEF CancelRefused, CancelAbsent, CancelJoin, CancelCompleted, core, owner
  <1>7. ASSUME NEW c \in Callers,
               Inspect(c) \/ InspectReturn(c) \/ CallerTimeout(c) \/ Signal(c)
        PROVE  UNCHANGED cause
    BY <1>7 DEF Inspect, InspectReturn, CallerTimeout, Signal, core, owner
  <1>8. ASSUME SessionStep, ~Release, ~Crash
        PROVE  UNCHANGED cause
    BY <1>8 DEF SessionStep, NewSession, RestoreBegin, RestoreEnd, LeaseArm, LeaseReady,
       LeaseLost, Stop, BeginDrain, TryDrain, LoopReady, RestoreEmit, Insert, newOwner, core, owner
  <1>9. ASSUME LoopStep
        PROVE  UNCHANGED cause
    BY <1>9 DEF LoopStep, StartLoop, LoopDrain, LoopStopped, LoopSleep, LoopArm, LoopWake,
       LoopPromote, LoopRefused, core, owner
  <1>10. ASSUME NEW r \in Runs,
                \/ Persist(r) \/ PersistInstalled(r) \/ FailedReturn(r) \/ DeleteRow(r)
                \/ ReadMarker(r) \/ WriteMarker(r) \/ CheckCause(r) \/ CallbackReturn(r)
                \/ ContextReleased(r)
         PROVE  UNCHANGED cause
    BY <1>10 DEF Persist, PersistInstalled, FailedReturn, DeleteRow, ReadMarker, WriteMarker,
       CheckCause, CallbackReturn, ContextReleased, core, owner
  <1>11. ASSUME \/ ShutdownReturn \/ (\E r \in Runs : ShutdownSignal(r))
                \/ Notify \/ Tick \/ Finished \/ UNCHANGED vars
         PROVE  UNCHANGED cause
    BY <1>11 DEF ShutdownReturn, ShutdownSignal, Notify, Tick, Finished, vars, core, owner
  <1> HIDE DEF CauseInv, CoreInv
  <1> QED
    BY <1>1, <1>2, <1>3, <1>4, <1>5, <1>6, <1>7, <1>8, <1>9, <1>10, <1>11
       DEF Next, ShutdownStep, WorkerStep, CallerStep, CancelStep

\* No later cancellation and no Shutdown replaces the cause an owner committed to.
THEOREM FirstCauseIsKept == Spec => FirstCauseWins
  <1>1. CoreInv /\ CauseInv /\ [Next]_vars =>
          [\A r \in Runs : cause[r] # "none" /\ cause'[r] # "none" => cause'[r] = cause[r]]_vars
    BY FirstCauseStep
  <1> QED
    BY <1>1, CoreInvariant, CauseInvariant, PTL DEF Spec, FirstCauseWins

-----------------------------------------------------------------------------
(* What a joined cancellation is told.                                      *)

\* A worker past a successful removal has no row.
GoneInv == \A r \in Runs : job[r] \in {"deleted", "finalized"} => rowBinding[r] = 0

\* Only Persist stores a row, and its worker is not past a removal.
LEMMA GoneStep ==
  ASSUME CoreInv, GoneInv, [Next]_vars
  PROVE  GoneInv'
  <1> USE DEF GoneInv, CoreInv, WeakTypeOK, DbType
  <1>1. CASE UNCHANGED db /\ \A r \in Runs : job'[r] \in {"deleted", "finalized"} => job'[r] = job[r]
    BY <1>1 DEF db
  <1>2. ASSUME NEW r \in Runs, Persist(r) \/ DeleteRow(r) PROVE GoneInv'
    BY <1>2 DEF Persist, DeleteRow, db
  <1>3. ASSUME NEW r \in Runs, WriteMarker(r) \/ CheckCause(r) PROVE GoneInv'
    BY <1>3 DEF WriteMarker, CheckCause, db
  <1>4. ASSUME NEW r \in Runs,
               \/ PersistRefused(r) \/ PersistInstalled(r) \/ FailedReturn(r)
               \/ DeleteQueuedReturn(r) \/ FinalizeReturn(r) \/ ReadMarker(r)
               \/ CallbackReturn(r) \/ ContextReleased(r)
        PROVE  GoneInv'
    BY <1>4 DEF PersistRefused, PersistInstalled, deleteQueuedEntry, FailedReturn,
       DeleteQueuedReturn, FinalizeReturn, ReadMarker, CallbackReturn, ContextReleased, db
  <1>5. ASSUME SessionStep \/ LoopStep \/ ShutdownStep \/ Notify \/ Tick \/ Finished
               \/ UNCHANGED vars
        PROVE  UNCHANGED db /\ \A r \in Runs : job'[r] \in {"deleted", "finalized"} => job'[r] = job[r]
    BY <1>5 DEF SessionStep, NewSession, RestoreBegin, RestoreEmit, RestoreEnd, LeaseArm,
       LeaseReady, LeaseLost, Stop, Release, Crash, BeginDrain, TryDrain, LoopReady, Insert,
       LoopStep, StartLoop, LoopDrain, LoopStopped, LoopSleep, LoopArm, LoopWake, LoopPromote,
       LoopRefused, ShutdownStep, ShutdownBegin, ShutdownReturn, ShutdownSignal, Notify, Tick,
       Finished, vars, routine
  <1>6. ASSUME NEW c \in Callers, CallerStep(c)
        PROVE  UNCHANGED db /\ \A r \in Runs : job'[r] \in {"deleted", "finalized"} => job'[r] = job[r]
    BY <1>6 DEF CallerStep, CancelStep, CancelRefused, CancelAbsent, CancelPersisting,
       CancelQueued, CancelActive, CancelJoin, CancelCompleted, deleteQueuedEntry, Inspect,
       InspectReturn, Signal, CallerTimeout
  <1> HIDE DEF GoneInv, CoreInv
  <1> QED
    BY <1>1, <1>2, <1>3, <1>4, <1>5, <1>6 DEF Next, WorkerStep

\* Whoever tells a joined handler (true, nil) has removed the row and retires the
\* owner in the same step.
LEMMA JoinedStep ==
  ASSUME CoreInv, GoneInv, [Next]_vars,
         NEW c \in Callers, NEW q \in Runs, Joined(c, q), answer'[c] = "ok"
  PROVE  rowBinding'[q] = 0 /\ phase'[q] = "none"
  <1> USE DEF Joined, CoreInv, WeakTypeOK, CallType, OwnerType
  <1>1. ~UNCHANGED answer
    OBVIOUS
  <1>2. ASSUME NEW d \in Callers, CallerStep(d) PROVE answer'[c] # "ok"
    BY <1>2 DEF CallerStep, CancelStep, CancelRefused, CancelAbsent, CancelPersisting,
       CancelQueued, CancelActive, CancelJoin, CancelCompleted, MayJoin, Asks, Inspect,
       InspectReturn, inspectAbsent, Signal, CallerTimeout, Proceed, Answer
  <1>3. ASSUME NEW r \in Runs, PersistRefused(r) PROVE answer'[c] # "ok"
    BY <1>3 DEF PersistRefused, Publish
  <1>4. ASSUME NEW r \in Runs, DeleteQueuedReturn(r)
        PROVE  rowBinding'[q] = 0 /\ phase'[q] = "none"
    BY <1>4 DEF DeleteQueuedReturn, Publish, Retire, GoneInv, db
  <1>5. ASSUME NEW r \in Runs, FinalizeReturn(r)
        PROVE  rowBinding'[q] = 0 /\ phase'[q] = "none"
    BY <1>5 DEF FinalizeReturn, attemptErr, Publish, Retire, GoneInv, db
  <1>6. ASSUME Release \/ Crash PROVE answer'[c] # "ok"
    BY <1>6 DEF Release, Crash, DropCore
  <1>7. ASSUME SessionStep \/ LoopStep \/ ShutdownStep \/ Notify \/ Tick \/ Finished
               \/ UNCHANGED vars, ~Release, ~Crash
        PROVE  UNCHANGED answer
    BY <1>7 DEF SessionStep, NewSession, RestoreBegin, RestoreEmit, RestoreEnd, LeaseArm,
       LeaseReady, LeaseLost, Stop, BeginDrain, TryDrain, LoopReady, Insert,
       LoopStep, StartLoop, LoopDrain, LoopStopped, LoopSleep, LoopArm, LoopWake, LoopPromote,
       LoopRefused, ShutdownStep, ShutdownBegin, ShutdownReturn, ShutdownSignal, Notify, Tick,
       Finished, vars, routine, call
  <1>8. ASSUME NEW r \in Runs, WorkerStep(r), ~PersistRefused(r), ~DeleteQueuedReturn(r),
               ~FinalizeReturn(r)
        PROVE  UNCHANGED answer
    BY <1>8 DEF WorkerStep, Persist, PersistInstalled, FailedReturn, DeleteRow, ReadMarker,
       WriteMarker, CheckCause, CallbackReturn, ContextReleased, call
  <1> HIDE DEF Joined, CoreInv
  <1> QED
    BY <1>1, <1>2, <1>3, <1>4, <1>5, <1>6, <1>7, <1>8 DEF Next

\* A handler that joined and is told (true, nil) finds the run gone.
THEOREM JoinedCancelIsHonest == Spec => JoinedCancelMeansGone
  <1>1. Init => GoneInv
    BY DEF Init, GoneInv
  <1>2. CoreInv /\ GoneInv /\ [Next]_vars => GoneInv'
    BY GoneStep
  <1>3. CoreInv /\ GoneInv /\ [Next]_vars =>
          [\A c \in Callers, r \in Runs :
             Joined(c, r) /\ answer'[c] = "ok" => rowBinding'[r] = 0 /\ phase'[r] = "none"]_vars
    BY JoinedStep
  <1> QED
    BY <1>1, <1>2, <1>3, CoreInvariant, PTL DEF Spec, JoinedCancelMeansGone

-----------------------------------------------------------------------------
(* What a clean Shutdown leaves in the database.                            *)

\* Somebody still answers for r's started row: its callback, its finalizer, or an
\* owner whose removal failed and may be retried.
AnswersFor(r) ==
  \/ phase[r] = "active"
  \/ job[r] \in {"returned", "finalize", "unfinalized"}
  \/ phase[r] = "completed" /\ attempt[r] = "finalErr"

\* Rows name past sessions or this one, and a row this session started is answered
\* for until it is removed; a clean Shutdown found no removal that failed.
StartedInv ==
  /\ \A r \in Runs : rowBinding[r] = 0 => ~rowStarted[r]
  /\ shut # "no" => stage # "none"
  /\ ~ResumeBinding =>
       \A r \in Runs : rowBinding[r] <= sess /\ binding[r] <= sess
  /\ ~ResumeBinding /\ stage # "none" =>
       \A r \in Runs : rowBinding[r] = sess /\ rowStarted[r] => AnswersFor(r)
  /\ shut = "clean" => \A r \in Runs : ~(phase[r] = "completed" /\ attempt[r] = "finalErr")

\* An owner keeps answering until its row is gone.
LEMMA StartedStep ==
  ASSUME CoreInv, GoneInv, StartedInv, [Next]_vars
  PROVE  StartedInv'
  <1> USE SchedulerAssumption DEF StartedInv, AnswersFor, CoreInv, WeakTypeOK, OwnerType, DbType,
          SessionType, WorkersInv, OwnersHaveWorkers, Workers, QuietInv, QuietAfterShutdown
  <1>1. CASE UNCHANGED <<phase, binding, attempt, job, rowBinding, rowStarted, sess, stage, shut>>
    BY <1>1
  <1>2. CASE Release \/ Crash
    BY <1>2 DEF Release, Crash, DropCore, db
  <1>3. CASE NewSession
    BY <1>3 DEF NewSession, db, core, owner, routine
  <1>4. CASE RestoreBegin \/ RestoreEnd
    BY <1>4 DEF RestoreBegin, RestoreEnd, db, owner, routine
  <1>5. ASSUME NEW r \in Runs, RestoreEmit(r) PROVE StartedInv'
    BY <1>5 DEF RestoreEmit, newOwner, db, session
  <1>6. ASSUME NEW r \in Runs, Insert(r) PROVE StartedInv'
    BY <1>6 DEF Insert, newOwner, Binding, db, session
  <1>7. ASSUME NEW r \in Runs, LoopPromote(r) PROVE StartedInv'
    BY <1>7 DEF LoopPromote, IsHead, db, session
  <1>8. ASSUME NEW r \in Runs, Persist(r) PROVE StartedInv'
    BY <1>8 DEF Persist, core, owner, db, session
  <1>9. ASSUME NEW r \in Runs, PersistInstalled(r) PROVE StartedInv'
    BY <1>9 DEF PersistInstalled, deleteQueuedEntry, db, session
  <1>10. ASSUME NEW r \in Runs, PersistRefused(r) PROVE StartedInv'
    BY <1>10 DEF PersistRefused, Retire, db, session
  <1>11. ASSUME NEW r \in Runs, DeleteRow(r) PROVE StartedInv'
    BY <1>11 DEF DeleteRow, core, owner, db, session
  <1>12. ASSUME NEW r \in Runs, DeleteQueuedReturn(r) PROVE StartedInv'
    BY <1>12 DEF DeleteQueuedReturn, Retire, db, session
  <1>13. ASSUME NEW r \in Runs, FinalizeReturn(r) PROVE StartedInv'
    BY <1>13 DEF FinalizeReturn, Retire, attemptErr, GoneInv, db, session
  <1>14. ASSUME NEW r \in Runs, WriteMarker(r) PROVE StartedInv'
    BY <1>14 DEF WriteMarker, core, owner, db, session
  <1>15. ASSUME NEW r \in Runs,
                \/ FailedReturn(r) \/ ReadMarker(r) \/ CheckCause(r)
                \/ CallbackReturn(r) \/ ContextReleased(r)
         PROVE  StartedInv'
    BY <1>15 DEF FailedReturn, ReadMarker, CheckCause, CallbackReturn,
       ContextReleased, core, owner, db, session
  <1>16. ASSUME NEW c \in Callers, NEW r \in Runs, NEW b \in 0..sess, NEW queueOnly \in BOOLEAN,
                \/ CancelPersisting(c, r, b, queueOnly) \/ CancelQueued(c, r, b, queueOnly)
                \/ CancelCompleted(c, r, b, queueOnly)
         PROVE  StartedInv'
    BY <1>16 DEF CancelPersisting, CancelQueued, CancelCompleted, deleteQueuedEntry, db, session
  <1>17. CASE ShutdownBegin
    BY <1>17 DEF ShutdownBegin, db, session, routine
  <1>18. CASE ShutdownReturn
    BY <1>18 DEF ShutdownReturn, db, session, owner, routine
  <1>19. ASSUME NEW c \in Callers, NEW r \in Runs, NEW b \in 0..sess, NEW queueOnly \in BOOLEAN,
                \/ CancelRefused(c, r, b, queueOnly) \/ CancelAbsent(c, r, b)
                \/ CancelActive(c, r, b, queueOnly) \/ CancelJoin(c, r, b, queueOnly)
         PROVE  UNCHANGED <<phase, binding, attempt, job, rowBinding, rowStarted, sess, stage, shut>>
    BY <1>19 DEF CancelRefused, CancelAbsent, CancelActive, CancelJoin, core, owner, db, session
  <1>20. ASSUME NEW c \in Callers,
                Inspect(c) \/ InspectReturn(c) \/ CallerTimeout(c) \/ Signal(c)
         PROVE  UNCHANGED <<phase, binding, attempt, job, rowBinding, rowStarted, sess, stage, shut>>
    BY <1>20 DEF Inspect, InspectReturn, CallerTimeout, Signal, core, owner, db, session
  <1>21. ASSUME SessionStep, ~Release, ~Crash, ~NewSession, ~RestoreBegin, ~RestoreEnd,
                ~\E r \in Runs : RestoreEmit(r) \/ Insert(r)
         PROVE  UNCHANGED <<phase, binding, attempt, job, rowBinding, rowStarted, sess, stage, shut>>
    BY <1>21 DEF SessionStep, LeaseArm, LeaseReady, LeaseLost, Stop, BeginDrain, TryDrain,
       LoopReady, core, owner, routine, db, session
  <1>22. ASSUME LoopStep, ~\E r \in Runs : LoopPromote(r)
         PROVE  UNCHANGED <<phase, binding, attempt, job, rowBinding, rowStarted, sess, stage, shut>>
    BY <1>22 DEF LoopStep, StartLoop, LoopDrain, LoopStopped, LoopSleep, LoopArm, LoopWake,
       LoopRefused, core, owner, db, session
  <1>23. ASSUME (\E r \in Runs : ShutdownSignal(r)) \/ Notify \/ Tick \/ Finished \/ UNCHANGED vars
         PROVE  UNCHANGED <<phase, binding, attempt, job, rowBinding, rowStarted, sess, stage, shut>>
    BY <1>23 DEF ShutdownSignal, Notify, Tick, Finished, vars, core, owner, routine, db, session
  <1> HIDE DEF StartedInv, CoreInv
  <1> QED
    BY <1>1, <1>2, <1>3, <1>4, <1>5, <1>6, <1>7, <1>8, <1>9, <1>10, <1>11, <1>12, <1>13, <1>14,
       <1>15, <1>16, <1>17, <1>18, <1>19, <1>20, <1>21, <1>22, <1>23
       DEF Next, SessionStep, LoopStep, ShutdownStep, WorkerStep, CallerStep, CancelStep

\* A clean Shutdown leaves no row that this session started, whichever removals
\* failed and were retried before it.
THEOREM CleanShutdownIsClean == Spec => []CleanShutdownLeavesNoStartedRun
  <1>1. Init => GoneInv /\ StartedInv
    BY DEF Init, GoneInv, StartedInv
  <1>2. CoreInv /\ GoneInv /\ [Next]_vars => GoneInv'
    BY GoneStep
  <1>3. CoreInv /\ GoneInv /\ StartedInv /\ [Next]_vars => StartedInv'
    BY StartedStep
  <1>4. CoreInv /\ StartedInv => CleanShutdownLeavesNoStartedRun
    BY DEF CoreInv, QuietInv, QuietAfterShutdown, StartedInv, AnswersFor, Binding,
           CleanShutdownLeavesNoStartedRun
  <1> QED
    BY <1>1, <1>2, <1>3, <1>4, CoreInvariant, PTL DEF Spec

-----------------------------------------------------------------------------
(* The properties the runs check.                                           *)

\* Work an executor took is kept and started at most once.
THEOREM AcceptedWorkIsKept == Spec => []WorkIsKept
  BY TypeCorrect, AcceptedWorkHasItsRow, StoredWorkStartsOnce, PTL DEF WorkIsKept

\* Whoever waits, waits for somebody, and is told why.
THEOREM EveryCallerIsServed == Spec => []CallersAreServed
  BY OwnersAreServed, NobodyIsStranded, SignalsCarryTheCause, PTL DEF CallersAreServed

\* Shutdown leaves nothing running, and a clean one nothing started.
THEOREM NothingIsLeft == Spec => []ShutdownLeavesNothing
  BY ShutdownIsQuiet, CleanShutdownIsClean, PTL DEF ShutdownLeavesNothing

\* busy is exact and no hint is lost.
THEOREM LoopAndCountAreSound == Spec => []LoopIsSound
  BY BusyIsExact, NoWakeupIsLost, PTL DEF LoopIsSound
=============================================================================
