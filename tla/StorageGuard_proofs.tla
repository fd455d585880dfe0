------------------------- MODULE StorageGuard_proofs -------------------------
(***************************************************************************)
(* Proofs about the storage guard.  IInv (StorageGuard.tla) holds at first *)
(* and every step keeps it; the two invariants and the two action          *)
(* properties that StorageGuard_all.cfg checks follow from it.             *)
(***************************************************************************)
EXTENDS StorageGuard, StorageLevels, TLAPS

-----------------------------------------------------------------------------
(* The markers the guard writes, field by field. *)

\* Every field of a marker is a Boolean.
LEMMA FieldTypes ==
    \A m \in Marker : /\ m.valid \in BOOLEAN /\ m.paused \in BOOLEAN
                      /\ m.resume \in BOOLEAN /\ m.retry \in BOOLEAN
  BY DEF Marker

\* The marker that owns nothing, and the one that cannot be read.
LEMMA MarkerShapes ==
    /\ Unowned \in Marker /\ Corrupt \in Marker
    /\ Unowned.valid /\ ~Unowned.paused /\ ~Unowned.resume /\ ~Unowned.retry
    /\ ~Corrupt.valid /\ ~Corrupt.paused /\ ~Corrupt.resume
  BY DEF Unowned, Corrupt, Marker

\* What a cycle starts from, whatever it carries over from the marker.
LEMMA LoadShape ==
    ASSUME NEW p \in BOOLEAN, NEW r \in BOOLEAN, NEW n,
           n = [Unowned EXCEPT !.paused = p, !.retry = r]
    PROVE  n \in Marker /\ n.valid /\ n.paused = p /\ ~n.resume /\ n.retry = r
  BY DEF Unowned, Marker

\* A resume intent owns the receiver, and keeps its backoff.
LEMMA IntentShape ==
    ASSUME NEW m \in Marker
    PROVE  LET n == [m EXCEPT !.paused = FALSE, !.resume = TRUE]
           IN  n \in Marker /\ n.resume /\ n.valid = m.valid /\ n.retry = m.retry
  BY DEF Marker

\* So does the marker of a failed start.
LEMMA BackoffShape ==
    LET n == [Unowned EXCEPT !.paused = TRUE, !.retry = TRUE]
    IN  n \in Marker /\ n.valid /\ n.paused /\ n.retry
  BY DEF Unowned, Marker

-----------------------------------------------------------------------------
(* The steps that decide who owns the receiver, conjunct by conjunct. *)

\* A cycle starts with what the marker said, and owns what it is about to stop.
LEMMA LoadKeepsIInv == ASSUME IInv, Load PROVE IInv'
<1>1. /\ result' \in Marker /\ result'.valid /\ ~result'.resume
      /\ result'.paused = (Owned(marker) \/ (MustPause(Owned(marker)) /\ running))
      /\ result'.retry = marker.retry
  <2>1. (Owned(marker) \/ (MustPause(Owned(marker)) /\ running)) \in BOOLEAN
    OBVIOUS
  <2>2. marker.retry \in BOOLEAN
    BY FieldTypes DEF IInv, TypeOK
  <2>3. result' = [Unowned EXCEPT
                     !.paused = Owned(marker) \/ (MustPause(Owned(marker)) /\ running),
                     !.retry = marker.retry]
    BY DEF Load
  <2> QED
    BY ONLY <2>1, <2>2, <2>3, LoadShape
<1> USE DEF Load, IInv, world
<1>2. TypeOK'
  BY <1>1 DEF TypeOK, PC
<1>3. StopsAreAccountedFor' /\ RunningIsFree'
  BY DEF StopsAreAccountedFor, RunningIsFree, Owned
<1>4. LocalCopy' /\ RecordBeforeStop'
  BY <1>1 DEF LocalCopy, RecordBeforeStop
<1>5. NothingToForget'
  BY <1>1 DEF NothingToForget, StopsAreAccountedFor
<1>6. RetryOnRecord'
  BY <1>1 DEF RetryOnRecord
<1>7. AdminKeepsOwnership'
  BY <1>1 DEF AdminKeepsOwnership
<1> QED
  BY <1>2, <1>3, <1>4, <1>5, <1>6, <1>7

\* The pause on record accounts for the stop that follows.
LEMMA WritePauseKeepsIInv == ASSUME IInv, WritePause PROVE IInv'
<1> USE DEF WritePause, IInv, world, locals
<1>1. TypeOK'
  BY DEF TypeOK, PC
<1>2. StopsAreAccountedFor'
  BY DEF StopsAreAccountedFor, NothingToForget, LocalCopy, RecordBeforeStop, Owned
<1>3. RunningIsFree' /\ NothingToForget'
  BY DEF RunningIsFree, NothingToForget
<1>4. LocalCopy' /\ RecordBeforeStop'
  BY DEF LocalCopy, RecordBeforeStop
<1>5. RetryOnRecord'
  BY DEF RetryOnRecord
<1>6. AdminKeepsOwnership'
  BY DEF AdminKeepsOwnership, LocalCopy, Owned
<1> QED
  BY <1>1, <1>2, <1>3, <1>4, <1>5, <1>6

\* The last record of a cycle drops no ownership that is still needed.
LEMMA WriteFinalKeepsIInv == ASSUME IInv, WriteFinal PROVE IInv'
<1> USE DEF WriteFinal, IInv, world, locals, EndCycle
<1>1. TypeOK'
  BY MarkerShapes DEF TypeOK, PC
<1>2. StopsAreAccountedFor'
  BY DEF StopsAreAccountedFor, NothingToForget, LocalCopy, RecordBeforeStop, Owned
<1>3. RunningIsFree' /\ NothingToForget'
  BY DEF RunningIsFree, NothingToForget
<1>4. LocalCopy' /\ RecordBeforeStop'
  BY MarkerShapes DEF LocalCopy, RecordBeforeStop
<1>5. RetryOnRecord'
  BY DEF RetryOnRecord
<1>6. AdminKeepsOwnership'
  BY MarkerShapes DEF AdminKeepsOwnership, LocalCopy, Owned
<1> QED
  BY <1>1, <1>2, <1>3, <1>4, <1>5, <1>6

-----------------------------------------------------------------------------
(* IInv is inductive. *)

LEMMA InitIInv == Init => IInv
  BY MarkerShapes
     DEF Init, IInv, TypeOK, StopsAreAccountedFor, RunningIsFree, LocalCopy,
         RecordBeforeStop, NothingToForget, RetryOnRecord,
         AdminKeepsOwnership, Owned, Receiver, Level, PC

LEMMA NextIInv == IInv /\ [Next]_vars => IInv'
<1> SUFFICES ASSUME IInv, [Next]_vars PROVE IInv'
  OBVIOUS
<1> USE DEF IInv, TypeOK, StopsAreAccountedFor, RunningIsFree, LocalCopy,
            RecordBeforeStop, NothingToForget, RetryOnRecord,
            AdminKeepsOwnership, Owned,
            world, locals, guard
<1>1. CASE Observe
  BY <1>1 DEF Observe, PC
<1>2. CASE LoadRefused
  BY <1>2 DEF LoadRefused, PC
<1>3. CASE Load
  BY ONLY IInv, <1>3, LoadKeepsIInv
<1>4. CASE WriteFault
  BY <1>4, MarkerShapes DEF WriteFault, EndCycle, PC
<1>5. CASE WritePause
  BY ONLY IInv, <1>5, WritePauseKeepsIInv
<1>6. CASE Stop
  BY <1>6 DEF Stop, StopBy, PC, Receiver
<1>7. CASE StopForFault
  BY <1>7, MarkerShapes DEF StopForFault, StopBy, EndCycle, PC, Receiver
<1>8. CASE RotateAndPrune
  BY <1>8 DEF RotateAndPrune, PC
<1>9. CASE Decide
  BY <1>9 DEF Decide, PC
<1>10. CASE WriteIntent
  BY <1>10, IntentShape DEF WriteIntent, PC
<1>11. CASE RequestStart
  BY <1>11, MarkerShapes DEF RequestStart, PC, Receiver
<1>12. CASE AwaitStart
  BY <1>12, MarkerShapes DEF AwaitStart, PC
<1>13. CASE WriteBackoff
  BY <1>13, MarkerShapes, BackoffShape DEF WriteBackoff, EndCycle, PC
<1>14. CASE WriteFinal
  BY ONLY IInv, <1>14, WriteFinalKeepsIInv
<1>15. CASE ScanFails
  BY <1>15 DEF ScanFails, PC
<1>16. CASE WriteFails
  BY <1>16, MarkerShapes DEF WriteFails, EndCycle, PC
<1>17. CASE Dies
  BY <1>17, MarkerShapes DEF Dies, EndCycle, PC
<1>18. CASE StartTimesOut
  BY <1>18 DEF StartTimesOut, PC
<1>19. CASE ReceiverCrashes
  BY <1>19 DEF ReceiverCrashes, Receiver
<1>20. CASE StartFails
  BY <1>20 DEF StartFails, Receiver
<1>21. CASE StartCompletes
  BY <1>21 DEF StartCompletes, Receiver
<1>22. CASE AutoRestart
  BY <1>22 DEF AutoRestart, Starts, Receiver
<1>23. CASE Reboot
  BY <1>23, MarkerShapes DEF Reboot, EndCycle, Starts, Receiver, PC
<1>24. CASE AdminStart
  BY <1>24 DEF AdminStart, Starts, Receiver
<1>25. CASE AdminStop
  BY <1>25 DEF AdminStop, StopBy, Receiver
<1>26. CASE ClearError
  BY <1>26 DEF ClearError
<1>27. CASE MarkerDamaged
  BY <1>27, MarkerShapes DEF MarkerDamaged
<1>28. CASE RepairMarker
  BY <1>28, MarkerShapes DEF RepairMarker
<1>29. CASE UpgradeMoves
  BY <1>29 DEF UpgradeMoves
<1>30. CASE LevelMoves
  BY <1>30 DEF LevelMoves
<1>31. CASE BackoffElapses
  BY <1>31 DEF BackoffElapses
<1>32. CASE RestartRefused
  BY <1>32 DEF RestartRefused, Receiver
<1>33. CASE BootRefused
  BY <1>33, MarkerShapes DEF BootRefused, EndCycle, Receiver, PC
<1>34. CASE RequestRefused
  BY <1>34, MarkerShapes DEF RequestRefused, Receiver, PC
<1>35. CASE UNCHANGED vars
  BY <1>35 DEF vars
<1> QED
  BY <1>1, <1>2, <1>3, <1>4, <1>5, <1>6, <1>7, <1>8, <1>9, <1>10, <1>11,
     <1>12, <1>13, <1>14, <1>15, <1>16, <1>17, <1>18, <1>19, <1>20, <1>21,
     <1>22, <1>23, <1>24, <1>25, <1>26, <1>27, <1>28, <1>29, <1>30, <1>31,
     <1>32, <1>33, <1>34, <1>35
     DEF Next, CalmStep, CycleStep, Disturbance

\* IInv holds in every reachable state, whatever the administrator may do.
THEOREM Invariant == Spec => []IInv
  BY InitIInv, NextIInv, PTL DEF Spec

-----------------------------------------------------------------------------
(* What follows. *)

\* Every reachable state of the guard, the marker and the receiver is well formed.
THEOREM TypeCorrect == Spec => []TypeOK
  BY Invariant, PTL DEF IInv

\* A receiver the guard stopped leaves its reason on disk, through every kill
\* and reboot between two steps of cycle().
THEOREM StopsRecorded == Spec => []StopsAreAccountedFor
  BY Invariant, PTL DEF IInv

\* The guard never starts what an administrator stopped between two cycles while
\* the guard did not own it.
THEOREM AdminObeyed == Spec => AdminStopRespected
<1>1. IInv /\ [Next]_vars => [Attempt /\ receiver # "active" => stopped # "admin"]_vars
  BY DEF IInv, AdminKeepsOwnership, Attempt
<1> QED
  BY <1>1, Invariant, PTL DEF Spec, AdminStopRespected

\* No start is tried while the backoff of a recorded failure is running.
THEOREM RetriesWait == Spec => RetryWaits
<1>1. IInv /\ [Next]_vars => [Attempt => ~waiting]_vars
  BY DEF IInv, RetryOnRecord, Attempt
<1> QED
  BY <1>1, Invariant, PTL DEF Spec, RetryWaits
-----------------------------------------------------------------------------
(* The four levels are all that the numbers are needed for. *)

\* validate() keeps the thresholds apart: what has recovered is in no pressure.
LEMMA RecoveredIsCalm ==
    ASSUME NEW r, Valid(r), NEW usage \in Nat, NEW free \in Nat,
           Recovered(r, usage, free)
    PROVE  ~Warning(r, usage, free) /\ ~Critical(r, usage, free)
<1> r.minFree \in Nat /\ r.stopFree \in Nat /\ r.budget \in Nat
    /\ r.budget > 0 /\ r.stopFree < r.minFree
  BY DEF Valid, Retention
<1> QED
  BY DEF Recovered, Warning, Critical, ResumeMargin

\* For every accepted configuration and every reading, pressure_decision() and the
\* ExecCondition decide as StorageGuard does from the level alone, and no reading
\* is both a reason to pause and a reason to resume (syslog_storage.py:179-186).
THEOREM DecidedByLevel ==
    ASSUME NEW r, Valid(r), NEW usage \in Nat, NEW free \in Nat, NEW paused \in BOOLEAN,
           level = LevelOf(r, usage, free)
    PROVE  LET d == PressureDecision(r, usage, free, paused)
           IN  /\ level \in Level
               /\ d.pressure <=> Pressure(paused)
               /\ d.action = "pause" <=> level = "critical" /\ ~paused
               /\ d.action = "resume" <=> paused /\ level = "recovered"
               /\ HasCapacity(r, usage, free) <=> level # "critical"
<1> DEFINE w == Warning(r, usage, free)
           c == Critical(r, usage, free)
           h == Recovered(r, usage, free)
           d == PressureDecision(r, usage, free, paused)
<1>1. h => ~w /\ ~c
  BY RecoveredIsCalm
<1>2. level = IF c THEN "critical" ELSE IF w THEN "warning"
              ELSE IF h THEN "recovered" ELSE "band"
  BY DEF LevelOf
<1>3. d.pressure <=> w \/ c \/ (paused /\ ~h)
  BY DEF PressureDecision
<1>4. d.action = IF c /\ ~paused THEN "pause" ELSE IF paused /\ h THEN "resume" ELSE "none"
  BY DEF PressureDecision
<1>5. HasCapacity(r, usage, free) <=> ~c
  BY DEF HasCapacity
<1> HIDE DEF w, c, h, d
<1>6. level \in Level /\ (level = "critical" <=> c) /\ (level = "recovered" <=> h)
      /\ (level \in {"warning", "critical"} <=> w \/ c)
  BY <1>1, <1>2 DEF Level
<1>7. d.pressure <=> Pressure(paused)
  BY <1>3, <1>6 DEF Pressure
<1>8. /\ d.action = "pause" <=> c /\ ~paused
      /\ d.action = "resume" <=> paused /\ h
  BY <1>1, <1>4
<1> QED
  BY <1>5, <1>6, <1>7, <1>8 DEF d
=============================================================================
