--------------------------- MODULE AgentLoop_proofs ---------------------------
(***************************************************************************)
(* The rate limit of the heartbeat, for every interval and every length of *)
(* a round, and its place in the main loop.                                *)
(***************************************************************************)
EXTENDS AgentLoop, TLAPS

\* A request that is about to be handed over is late enough, and the committed
\* timestamp is never older than the last request by more than one round.
Spaced ==
    /\ TypeOK
    /\ age <= since + MaxRound
    /\ at = "submit" => since >= Interval - MaxRound /\ age <= lag

LEMMA NoFutureIsFuture == NoFuture \in Future /\ Running \in Future
BY DEF Future

LEMMA InitSpaced == Init => Spaced
<1> USE HeartbeatAssumption
<1>1. Init => known \in BOOLEAN  BY ZenonT(10) DEF Init
<1> QED  BY <1>1, NoFutureIsFuture DEF Init, Spaced, TypeOK, Oldest

LEMMA TickSpaced == Spaced /\ Tick => Spaced'
<1> USE HeartbeatAssumption
<1> SUFFICES ASSUME Spaced, Tick PROVE Spaced'  OBVIOUS
<1>1. TypeOK'  BY DEF Spaced, TypeOK, Tick, Older, Oldest
<1>2. (age <= since + MaxRound)'
  BY DEF Spaced, TypeOK, Tick, Older, Oldest
<1>3. (at = "submit" => since >= Interval - MaxRound /\ age <= lag)'
  BY DEF Spaced, TypeOK, Tick, Older, Oldest
<1> QED  BY <1>1, <1>2, <1>3 DEF Spaced

LEMMA RoundSpaced ==
    Spaced /\ (BeginRound \/ HostPart \/ ProbePart \/ RecordAnswer \/ EndRound) => Spaced'
<1> USE HeartbeatAssumption, NoFutureIsFuture DEF Spaced, TypeOK
<1>1. Spaced /\ BeginRound => Spaced'  BY DEF BeginRound
<1>2. Spaced /\ HostPart => Spaced'  BY DEF HostPart
<1>3. Spaced /\ ProbePart => Spaced'  BY DEF ProbePart
<1>4. Spaced /\ RecordAnswer => Spaced'  BY DEF RecordAnswer
<1>5. Spaced /\ EndRound => Spaced'  BY DEF EndRound
<1> QED  BY <1>1, <1>2, <1>3, <1>4, <1>5

LEMMA SendSpaced == Spaced /\ (CommitAttempt \/ Submit) => Spaced'
<1> USE HeartbeatAssumption, NoFutureIsFuture DEF Spaced, TypeOK
<1>1. Spaced /\ CommitAttempt => Spaced'  BY DEF CommitAttempt, Due, Oldest
<1>2. Spaced /\ Submit => Spaced'  BY DEF Submit
<1> QED  BY <1>1, <1>2

LEMMA FailureSpaced ==
    Spaced /\ (CollectionFails \/ AnswerFails \/ AttemptFails \/ AgentRestarts) => Spaced'
<1> USE HeartbeatAssumption, NoFutureIsFuture DEF Spaced, TypeOK
<1>1. Spaced /\ Abandoned => Spaced'  BY DEF Abandoned
<1>2. AgentRestarts => known' \in BOOLEAN  BY ZenonT(10) DEF AgentRestarts
<1>3. Spaced /\ AgentRestarts => Spaced'  BY <1>2 DEF AgentRestarts
<1> QED  BY <1>1, <1>3 DEF CollectionFails, AnswerFails, AttemptFails

LEMMA NextSpaced == Spaced /\ [Next]_vars => Spaced'
<1>1. Spaced /\ HeartbeatEnds => Spaced'
  BY DEF Spaced, TypeOK, HeartbeatEnds, Future
<1>2. Spaced /\ UNCHANGED vars => Spaced'
  BY DEF Spaced, TypeOK, vars
<1> QED
  BY <1>1, <1>2, TickSpaced, RoundSpaced, SendSpaced, FailureSpaced DEF Next

\* A request is handed over by Submit alone.
LEMMA OnlySubmitSends ==
    ASSUME Spaced, Next, future.at # "running", future'.at = "running"
    PROVE  Submit
<1>1. Running.at = "running" /\ NoFuture.at = "none"  BY DEF Running, NoFuture
<1> QED
  BY <1>1 DEF Next, Tick, HeartbeatEnds, BeginRound, HostPart, ProbePart, RecordAnswer,
     CommitAttempt, EndRound, CollectionFails, AnswerFails, AttemptFails, Abandoned,
     AgentRestarts

\* However long the interval and a round are: two requests are handed over at
\* least Interval apart, less the time of one round (netblackbox.py:586-590).
THEOREM HeartbeatsSpaced == Spec => RateLimit
<1>1. Spec => []Spaced
  BY InitSpaced, NextSpaced, PTL DEF Spec
<1>2. Spaced /\ [Next]_vars
        => [future.at # "running" /\ future'.at = "running"
              => since >= Interval - MaxRound]_vars
  BY OnlySubmitSends DEF Spaced, Submit
<1> QED  BY <1>1, <1>2, PTL DEF Spec, RateLimit

\* The steps of the main loop are steps of the heartbeat or leave it alone.
LEMMA LoopStepIsHeartbeat == LoopNext => [Next]_vars
<1>1. LoopStep => [Next]_vars
  BY DEF LoopStep, RoundWithResult, RoundWithoutResult, HostDue, HostNotDue,
     MaintenanceDue, MaintenanceNotDue, HeartbeatPart, Next
<1>2. AnswerArrives \/ ReportArrives \/ TimePasses \/ StorageMoves => [Next]_vars
  BY DEF AnswerArrives, ReportArrives, TimePasses, StorageMoves, Next
<1>3. Disturbance => [Next]_vars
  BY DEF Disturbance, ResultLost, RoundFails, MaintenanceFails, BothRestart, Next
<1> QED  BY <1>1, <1>2, <1>3 DEF LoopNext

\* The main loop with all its parts implements the heartbeat by itself: neither
\* the order of a round nor a maintenance that fails before it disturbs the limit.
THEOREM LoopImplementsHeartbeat == LoopSpec => Spec
<1>1. LoopInit => Init  BY DEF LoopInit
<1>2. [LoopNext]_loop => [Next]_vars  BY LoopStepIsHeartbeat DEF loop
<1> QED  BY <1>1, <1>2, PTL DEF LoopSpec, Spec

\* Hence the rate limit of the whole agent (netblackbox.py:586-590).
THEOREM LoopSpaced == LoopSpec => RateLimit
BY LoopImplementsHeartbeat, HeartbeatsSpaced
\* And it implements the storage events: no round does to their flags, or to
\* their future, what their own specification does not (netblackbox.py:494-516).
THEOREM LoopImplementsEvents == LoopSpec => P!Spec
<1>1. LoopInit => P!Init  BY DEF LoopInit
<1>2. LoopStep => [P!Next]_(P!vars)
  BY DEF LoopStep, RoundWithResult, RoundWithoutResult, HostDue, HostNotDue,
     MaintenanceDue, MaintenanceNotDue, HeartbeatPart, storage, P!vars, P!Next, P!CalmStep
<1>3. AnswerArrives \/ ReportArrives \/ TimePasses \/ StorageMoves => [P!Next]_(P!vars)
  BY DEF AnswerArrives, ReportArrives, TimePasses, StorageMoves, storage, P!vars, P!Next,
     P!CalmStep
<1>4. Disturbance => [P!Next]_(P!vars)
  BY DEF Disturbance, ResultLost, RoundFails, MaintenanceFails, BothRestart, storage,
     P!vars, P!Next, P!Disturbance
<1>5. [LoopNext]_loop => [P!Next]_(P!vars)
  BY <1>2, <1>3, <1>4 DEF LoopNext, loop, storage, P!vars
<1> QED  BY <1>1, <1>5, PTL DEF LoopSpec, P!Spec
=============================================================================
