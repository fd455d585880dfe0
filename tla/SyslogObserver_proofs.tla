------------------------- MODULE SyslogObserver_proofs ------------------------
(***************************************************************************)
(* What TLAPS proves of SyslogObserver, for every number of processes and  *)
(* of write errors, and whatever lapses: a process whose write error was   *)
(* seen is not called healthy before it has resumed.                       *)
(***************************************************************************)
EXTENDS SyslogObserver, TLAPS

-----------------------------------------------------------------------------
(* Types. *)

\* The counters a process starts from, and those a sample works with, are counters.
LEMMA ZeroType == Zero \in Counters
  BY BoundsAssumption DEF Zero, Counters

LEMMA ActionType == stats \in [fresh : BOOLEAN, values : Counters] => Action \in Counters
  BY ZeroType DEF Action

\* Marking evidence as blind keeps the rest of it.
LEMMA BlindedEvidence ==
  ASSUME NEW e \in [epoch : Process \cup {NoProcess}, resumed : 0..MaxErrors, blind : BOOLEAN],
         NEW b \in BOOLEAN
  PROVE  /\ Blinded(e, b) \in [epoch : Process \cup {NoProcess}, resumed : 0..MaxErrors,
                               blind : BOOLEAN]
         /\ Blinded(e, b).epoch = e.epoch
         /\ Blinded(e, b).resumed = e.resumed
         /\ e.epoch # NoProcess /\ ~Blinded(e, b).blind => ~e.blind /\ ~b
<1> DEFINE blind == e.epoch # NoProcess /\ (e.blind \/ b)
<1>1. Blinded(e, b) = [e EXCEPT !.blind = blind]
  BY DEF Blinded
<1>2. blind \in BOOLEAN
  OBVIOUS
<1> HIDE DEF blind
<1>3. /\ Blinded(e, b) \in [epoch : Process \cup {NoProcess}, resumed : 0..MaxErrors,
                            blind : BOOLEAN]
      /\ Blinded(e, b).epoch = e.epoch
      /\ Blinded(e, b).resumed = e.resumed
      /\ Blinded(e, b).blind = blind
  BY <1>1, <1>2
<1> QED
  BY <1>3 DEF blind

LEMMA InitType == Init => TypeOK
  BY ZeroType, BoundsAssumption
  DEF Init, TypeOK, NothingSeen, FirstState, Observed, Process, NoProcess

\* The latch is a truth value of its inputs.
LEMMA LatchType == TypeOK => Latch \in BOOLEAN /\ WriteErrorSeen \in BOOLEAN
<1> SUFFICES ASSUME TypeOK PROVE Latch \in BOOLEAN /\ WriteErrorSeen \in BOOLEAN
  OBVIOUS
<1>1. seen.messages \in BOOLEAN /\ state.error \in BOOLEAN
  BY DEF TypeOK, Observed
<1>2. WriteErrorSeen \in BOOLEAN
  BY <1>1 DEF WriteErrorSeen, Increments
<1> QED
  BY <1>1, <1>2 DEF Latch, Resumed

-----------------------------------------------------------------------------
(* The receiver's steps. *)

\* A failed write: the counters of resumes stay as they are.
LEMMA WriteErrorStep == IInv /\ WriteError => IInv'
<1> SUFFICES ASSUME IInv, WriteError PROVE IInv'
  OBVIOUS
<1> USE DEF IInv, WriteError, observer
<1>1. counters' \in Counters /\ counters'.resumed = counters.resumed
  BY BoundsAssumption DEF TypeOK, Counters
<1>2. TypeOK'
  BY <1>1 DEF TypeOK
<1>3. Current' /\ Compared'
  BY <1>1 DEF Current, Compared, Epochs
<1>4. Latched' /\ ResumedBeforeHealthy'
  BY <1>1 DEF Latched, Suspect, ResumedBeforeHealthy
<1> QED
  BY <1>2, <1>3, <1>4

\* The output resumes: the counter grows.
LEMMA ResumeStep == IInv /\ Resume => IInv'
<1> SUFFICES ASSUME IInv, Resume PROVE IInv'
  OBVIOUS
<1> USE DEF IInv, Resume, observer
<1>1. /\ counters' \in Counters /\ counters'.resumed > counters.resumed
      /\ counters.resumed \in Nat /\ counters'.resumed \in Nat
      /\ stats.values.resumed \in Nat /\ evidence.resumed \in Nat
  BY BoundsAssumption DEF TypeOK, Counters
<1>2. TypeOK'
  BY <1>1 DEF TypeOK
<1>3. Current' /\ Compared'
  BY <1>1 DEF Current, Compared, Epochs
<1>4. Latched' /\ ResumedBeforeHealthy'
  BY <1>1 DEF Latched, Suspect, ResumedBeforeHealthy
<1> QED
  BY <1>2, <1>3, <1>4

\* The journal and the age of the statistics.
LEMMA TimeStep == IInv /\ (WindowPasses \/ StatsLapse) => IInv'
<1> SUFFICES ASSUME IInv, WindowPasses \/ StatsLapse PROVE IInv'
  OBVIOUS
<1> USE DEF IInv, observer
<1>1. /\ stats' \in [fresh : BOOLEAN, values : Counters]
      /\ stats'.values = stats.values /\ (stats'.fresh => stats.fresh)
  BY DEF WindowPasses, StatsLapse, TypeOK
<1>2. UNCHANGED <<process, counters, broken, state, saved, pc, seen, published, evidence>>
  BY DEF WindowPasses, StatsLapse
<1>3. journal' \in {"none", "before", "after"}
  BY DEF WindowPasses, StatsLapse, TypeOK
<1>4. TypeOK'
  BY <1>1, <1>2, <1>3 DEF TypeOK
<1>5. Current' /\ Compared'
  BY <1>1, <1>2 DEF Current, Compared, Epochs
<1>6. Latched' /\ ResumedBeforeHealthy'
  BY <1>2 DEF Latched, Suspect, ResumedBeforeHealthy
<1> QED
  BY <1>4, <1>5, <1>6

\* The statistics catch up with the counters.
LEMMA WriteStatsStep == IInv /\ WriteStats => IInv'
<1> SUFFICES ASSUME IInv, WriteStats PROVE IInv'
  OBVIOUS
<1> USE DEF IInv, WriteStats, observer
<1>1. /\ stats' \in [fresh : BOOLEAN, values : Counters]
      /\ stats'.values = counters /\ journal' \in {"none", "before", "after"}
  BY DEF TypeOK
<1>2. TypeOK'
  BY <1>1 DEF TypeOK
<1>3. Current'
  BY <1>1 DEF Current, Epochs, TypeOK, Counters
<1>4. Compared'
  <2> SUFFICES ASSUME NEW old \in {state, saved}, old.epoch = process.id
               PROVE  old.action.resumed <= counters.resumed
    BY <1>1 DEF Compared
  <2>1. old.action.resumed <= stats.values.resumed /\ stats.values.resumed <= counters.resumed
    BY DEF Compared, Current
  <2> QED
    BY <2>1 DEF TypeOK, Observed, Counters
<1>5. Latched' /\ ResumedBeforeHealthy'
  BY DEF Latched, Suspect, ResumedBeforeHealthy
<1> QED
  BY <1>2, <1>3, <1>4, <1>5

\* A process that stopped is not under suspicion, and writes no statistics.
LEMMA StopStep == IInv /\ ReceiverStops => IInv'
<1> SUFFICES ASSUME IInv, ReceiverStops PROVE IInv'
  OBVIOUS
<1> USE DEF IInv, ReceiverStops, observer
<1>1. /\ process' \in [id : Process, up : BOOLEAN] /\ process'.id = process.id /\ ~process'.up
      /\ stats' \in [fresh : BOOLEAN, values : Counters]
      /\ stats'.values = stats.values /\ ~stats'.fresh
  BY DEF TypeOK
<1>2. TypeOK'
  BY <1>1 DEF TypeOK
<1>3. Current' /\ Compared'
  BY <1>1 DEF Current, Compared, Epochs
<1>4. Latched' /\ ResumedBeforeHealthy'
  BY <1>1 DEF Latched, Suspect, ResumedBeforeHealthy
<1> QED
  BY <1>2, <1>3, <1>4

\* Of a new process nothing is known: every identity on record is an older one.
LEMMA StartStep == IInv /\ ReceiverStarts => IInv'
<1> SUFFICES ASSUME IInv, ReceiverStarts PROVE IInv'
  OBVIOUS
<1> USE DEF IInv, ReceiverStarts, observer
<1>1. /\ process' \in [id : Process, up : BOOLEAN] /\ process'.id = process.id + 1
      /\ process.id \in Nat
  BY BoundsAssumption DEF TypeOK, Process
<1>2. TypeOK'
  BY <1>1, ZeroType DEF TypeOK
<1>3. \A epoch \in Epochs : epoch <= process.id /\ epoch \in Nat
  BY BoundsAssumption DEF Current, Epochs, TypeOK, Observed, Process, NoProcess
<1>4. \A epoch \in Epochs : epoch <= process'.id /\ epoch # process'.id
  BY <1>1, <1>3
<1>5. Epochs' = Epochs
  BY DEF Epochs
<1>6. Current'
  BY <1>4, <1>5 DEF Current, Zero
<1>7. Compared'
  BY <1>4 DEF Compared, Epochs
<1>8. Latched' /\ ResumedBeforeHealthy'
  BY <1>4 DEF Latched, Suspect, ResumedBeforeHealthy, Epochs
<1> QED
  BY <1>2, <1>6, <1>7, <1>8

-----------------------------------------------------------------------------
(* The observer's steps. *)

\* system_state() asks about the process that runs now.
LEMMA QueryStep == IInv /\ SystemState => IInv'
<1> SUFFICES ASSUME IInv, SystemState PROVE IInv'
  OBVIOUS
<1> USE DEF IInv, SystemState, receiver
<1>1. /\ seen' \in [epoch : Process \cup {NoProcess}, active : {"yes", "no", "unknown"},
                    messages : BOOLEAN]
      /\ seen'.epoch = (IF process.up THEN process.id ELSE NoProcess)
  BY DEF TypeOK
<1>2. TypeOK'
  BY <1>1 DEF TypeOK
<1>3. seen'.epoch <= process.id
  BY <1>1, BoundsAssumption DEF TypeOK, Process, NoProcess
<1>4. Current' /\ Compared'
  BY <1>3 DEF Current, Compared, Epochs
<1>5. Latched' /\ ResumedBeforeHealthy'
  BY <1>1 DEF Latched, Suspect, ResumedBeforeHealthy
<1> QED
  BY <1>2, <1>4, <1>5

\* A query without an answer leaves the observer blind.
LEMMA BlindStep == IInv /\ QueryFails => IInv'
<1> SUFFICES ASSUME IInv, QueryFails PROVE IInv'
  OBVIOUS
<1> USE DEF IInv, QueryFails, receiver
<1>1. /\ evidence' \in [epoch : Process \cup {NoProcess}, resumed : 0..MaxErrors,
                        blind : BOOLEAN]
      /\ evidence'.epoch = evidence.epoch
      /\ evidence'.epoch # NoProcess => evidence'.blind
  <2>1. evidence \in [epoch : Process \cup {NoProcess}, resumed : 0..MaxErrors, blind : BOOLEAN]
    BY DEF TypeOK
  <2> QED
    BY <2>1, BlindedEvidence
<1>2. seen' = NothingSeen /\ NothingSeen.epoch = NoProcess
      /\ seen' \in [epoch : Process \cup {NoProcess}, active : {"yes", "no", "unknown"},
                    messages : BOOLEAN]
  BY DEF NothingSeen
<1>3. TypeOK'
  BY <1>1, <1>2 DEF TypeOK
<1>4. process.id \in Process /\ process.id # NoProcess /\ NoProcess <= process.id
  BY BoundsAssumption DEF TypeOK, Process, NoProcess
<1>5. Current' /\ Compared'
  BY <1>1, <1>2, <1>4 DEF Current, Compared, Epochs
<1>6. Latched' /\ ResumedBeforeHealthy'
  BY <1>1, <1>4 DEF Latched, Suspect, ResumedBeforeHealthy
<1> QED
  BY <1>3, <1>5, <1>6

\* A restart goes back to the file; where that loses anything the observer is blind.
LEMMA RestartStep == IInv /\ AgentRestarts => IInv'
<1> SUFFICES ASSUME IInv, AgentRestarts PROVE IInv'
  OBVIOUS
<1> USE DEF IInv, AgentRestarts, receiver
<1> DEFINE lost == state # saved
<1>1. lost \in BOOLEAN /\ evidence' = Blinded(evidence, lost)
  OBVIOUS
<1>2. evidence \in [epoch : Process \cup {NoProcess}, resumed : 0..MaxErrors, blind : BOOLEAN]
  BY DEF TypeOK
<1>3. /\ evidence' \in [epoch : Process \cup {NoProcess}, resumed : 0..MaxErrors,
                        blind : BOOLEAN]
      /\ evidence'.epoch = evidence.epoch /\ evidence'.resumed = evidence.resumed
      /\ evidence.epoch # NoProcess /\ ~evidence'.blind => ~evidence.blind /\ ~lost
  <2> HIDE DEF lost
  <2> QED
    BY <1>1, <1>2, BlindedEvidence
<1>4. seen' = NothingSeen /\ NothingSeen.epoch = NoProcess
      /\ seen' \in [epoch : Process \cup {NoProcess}, active : {"yes", "no", "unknown"},
                    messages : BOOLEAN]
  BY DEF NothingSeen
<1>5. TypeOK'
  BY <1>3, <1>4 DEF TypeOK
<1>6. process.id \in Process /\ process.id # NoProcess /\ NoProcess <= process.id
  BY BoundsAssumption DEF TypeOK, Process, NoProcess
<1>7. Current' /\ Compared'
  BY <1>3, <1>4, <1>6 DEF Current, Compared, Epochs
<1>8. Suspect' => Suspect /\ state' = state
  BY <1>3, <1>6 DEF Suspect
<1>9. Latched' /\ ResumedBeforeHealthy'
  BY <1>3, <1>8 DEF Latched, Suspect, ResumedBeforeHealthy
<1> QED
  BY <1>5, <1>7, <1>9

\* Whoever was under suspicion and has not resumed is latched by the next sample.
LEMMA SuspectLatched ==
  ASSUME IInv, pc = "sample", Suspect, counters.resumed <= evidence.resumed
  PROVE  /\ Latch
         /\ seen.epoch = process.id
         /\ Action = stats.values => evidence.resumed <= Action.resumed
<1>1. /\ seen.epoch = process.id /\ state.epoch = process.id /\ state.error
      /\ evidence.resumed <= state.action.resumed
  BY DEF IInv, Latched, TypeOK, Counters
<1>2. /\ state.action.resumed <= stats.values.resumed
      /\ stats.values.resumed <= counters.resumed
  BY <1>1 DEF IInv, Compared, Current
<1>3. /\ evidence.resumed \in Nat /\ state.action.resumed \in Nat
      /\ stats.values.resumed \in Nat /\ counters.resumed \in Nat
  BY DEF IInv, TypeOK, Observed, Counters
<1>4. Action.resumed <= stats.values.resumed
  BY <1>3 DEF Action, Zero
<1>5. OldAction = state.action
  BY <1>1 DEF OldAction
<1>6. ~Resumed
  BY <1>1, <1>2, <1>3, <1>4, <1>5, ActionType DEF Resumed, IInv, TypeOK, Counters
<1> QED
  BY <1>1, <1>2, <1>3, <1>6 DEF Latch

\* What sample() concludes, for every way its caller goes on: the types hold, what
\* it remembers was reported, and a suspect is either latched or has resumed.
LEMMA ObserveFacts ==
  ASSUME IInv, Observe
  PROVE  /\ state' \in Observed /\ state'.epoch = seen.epoch
         /\ state'.epoch = process.id => state'.action.resumed <= stats.values.resumed
         /\ evidence' \in [epoch : Process \cup {NoProcess}, resumed : 0..MaxErrors,
                           blind : BOOLEAN]
         /\ evidence'.epoch \in {evidence.epoch, seen.epoch}
         /\ process.up /\ evidence'.epoch = process.id /\ ~evidence'.blind =>
              \/ counters.resumed > evidence'.resumed
              \/ /\ Latch
                 /\ state'.epoch = process.id /\ state'.error
                 /\ evidence'.resumed <= state'.action.resumed
<1> DEFINE told == WriteErrorSeen /\ broken # "no" /\ seen.epoch # NoProcess
           new  == [epoch |-> seen.epoch, resumed |-> stats.values.resumed, blind |-> FALSE]
           e    == IF told THEN new ELSE evidence
           gap  == Action # stats.values
<1>1. /\ seen.epoch \in Process \cup {NoProcess} /\ process.id \in Process
      /\ process.id # NoProcess /\ stats.values \in Counters /\ Action \in Counters
      /\ evidence \in [epoch : Process \cup {NoProcess}, resumed : 0..MaxErrors, blind : BOOLEAN]
  BY BoundsAssumption, ActionType DEF IInv, TypeOK, Process, NoProcess
<1>2. state' = [epoch |-> seen.epoch, action |-> Action, error |-> Latch]
  BY DEF Observe
<1>3. state' \in Observed
  BY <1>1, <1>2, LatchType DEF Observed, IInv
<1>4. Action.resumed <= stats.values.resumed
  BY <1>1 DEF Action, Zero, Counters
<1>5. e \in [epoch : Process \cup {NoProcess}, resumed : 0..MaxErrors, blind : BOOLEAN]
  BY <1>1 DEF Counters
<1>6. evidence' = Blinded(e, gap) /\ gap \in BOOLEAN
  BY DEF Observe
<1>7. e.epoch \in {evidence.epoch, seen.epoch}
  BY <1>1
<1>8. /\ evidence' \in [epoch : Process \cup {NoProcess}, resumed : 0..MaxErrors,
                        blind : BOOLEAN]
      /\ evidence'.epoch = e.epoch /\ evidence'.resumed = e.resumed
      /\ e.epoch # NoProcess /\ ~evidence'.blind => ~e.blind /\ ~gap
  <2> HIDE DEF e, gap
  <2> QED
    BY <1>5, <1>6, BlindedEvidence
<1>9. ASSUME process.up, evidence'.epoch = process.id, ~evidence'.blind
      PROVE  \/ counters.resumed > evidence'.resumed
             \/ /\ Latch
                /\ state'.epoch = process.id /\ state'.error
                /\ evidence'.resumed <= state'.action.resumed
  <2>1. ~e.blind /\ Action = stats.values /\ e.epoch = process.id
    <3> HIDE DEF e
    <3> QED
      BY <1>1, <1>8, <1>9
  <2>2. CASE told
    <3>1. e = new
      BY <2>2
    <3>2. Latch
      BY <2>2 DEF Latch
    <3>3. seen.epoch = process.id /\ evidence'.resumed = stats.values.resumed
      BY <1>8, <2>1, <3>1
    <3> QED
      BY <1>1, <1>2, <2>1, <3>2, <3>3 DEF Counters
  <2>3. CASE ~told
    <3>1. e = evidence
      BY <2>3
    <3>2. Suspect /\ evidence'.resumed = evidence.resumed
      BY <1>8, <1>9, <2>1, <3>1 DEF Suspect
    <3>3. CASE counters.resumed <= evidence.resumed
      BY <1>2, <2>1, <3>2, <3>3, SuspectLatched DEF Observe
    <3>4. CASE ~(counters.resumed <= evidence.resumed)
      BY <3>2, <3>4 DEF IInv, TypeOK, Counters
    <3> QED
      BY <3>3, <3>4
  <2> QED
    BY <2>2, <2>3
<1> QED
  BY <1>2, <1>3, <1>4, <1>7, <1>8, <1>9

\* A sample, saved or not: only what it publishes as healthy is left to show.
LEMMA SampleStep == IInv /\ (Sample \/ SampleUnsaved) => IInv'
<1> SUFFICES ASSUME IInv, Sample \/ SampleUnsaved PROVE IInv'
  OBVIOUS
<1>1. Observe /\ saved' \in {saved, state'} /\ published' \in {"UNKNOWN", ReceiverState}
  BY DEF Sample, SampleUnsaved
<1> HIDE DEF Observe
<1>2. UNCHANGED receiver /\ pc' = "idle" /\ seen' = NothingSeen
  BY <1>1 DEF Observe
<1>3. /\ state' \in Observed /\ state'.epoch = seen.epoch
      /\ state'.epoch = process.id => state'.action.resumed <= stats.values.resumed
      /\ evidence' \in [epoch : Process \cup {NoProcess}, resumed : 0..MaxErrors,
                        blind : BOOLEAN]
      /\ evidence'.epoch \in {evidence.epoch, seen.epoch}
  BY <1>1, ObserveFacts
<1>4. process.up /\ evidence'.epoch = process.id /\ ~evidence'.blind =>
        \/ counters.resumed > evidence'.resumed
        \/ /\ Latch
           /\ state'.epoch = process.id /\ state'.error
           /\ evidence'.resumed <= state'.action.resumed
  BY <1>1, ObserveFacts
<1>5. NothingSeen.epoch = NoProcess
      /\ NothingSeen \in [epoch : Process \cup {NoProcess}, active : {"yes", "no", "unknown"},
                          messages : BOOLEAN]
  BY DEF NothingSeen
<1>6. ReceiverState \in {"HEALTHY", "RECEIVER_ERROR", "UNKNOWN"}
  BY DEF ReceiverState
<1>7. TypeOK'
  BY <1>1, <1>2, <1>3, <1>5, <1>6 DEF IInv, TypeOK, receiver
<1>8. NoProcess <= process.id
  BY BoundsAssumption DEF IInv, TypeOK, Process, NoProcess
<1>9. Current'
  BY <1>1, <1>2, <1>3, <1>5, <1>8 DEF IInv, Current, Epochs, receiver
<1>10. Compared'
  BY <1>1, <1>2, <1>3 DEF IInv, Compared, receiver
<1>11. Latched'
  BY <1>2, <1>4 DEF Latched, Suspect, receiver
<1>12. ResumedBeforeHealthy'
  <2> SUFFICES ASSUME published' = "HEALTHY", evidence'.epoch = process.id, ~evidence'.blind
               PROVE  counters.resumed > evidence'.resumed
    BY <1>2 DEF ResumedBeforeHealthy, receiver
  <2>1. ~Latch /\ stats.fresh
    BY <1>1 DEF ReceiverState
  <2>2. process.up
    BY <2>1 DEF IInv, Current
  <2> QED
    BY <1>4, <2>1, <2>2
<1> QED
  BY <1>7, <1>9, <1>10, <1>11, <1>12 DEF IInv

-----------------------------------------------------------------------------
(* The theorems. *)

LEMMA Inductive == Spec => []IInv
<1>1. Init => IInv
  <2> SUFFICES ASSUME Init PROVE IInv
    OBVIOUS
  <2>1. TypeOK
    BY InitType
  <2>2. Current
    BY DEF Init, Current, Epochs, FirstState, NothingSeen, NoProcess, Zero
  <2>3. Compared
    BY DEF Init, Compared, FirstState, NoProcess
  <2>4. Latched /\ ResumedBeforeHealthy
    BY DEF Init, Latched, Suspect, ResumedBeforeHealthy, NoProcess
  <2> QED
    BY <2>1, <2>2, <2>3, <2>4 DEF IInv
<1>2. IInv /\ [Next]_vars => IInv'
  <2> SUFFICES ASSUME IInv, [Next]_vars PROVE IInv'
    OBVIOUS
  <2>1. CASE CalmStep
    BY <2>1, QueryStep, SampleStep, WriteStatsStep, TimeStep, ResumeStep
    DEF CalmStep, ObserverStep
  <2>2. CASE Disturbance
    BY <2>2, WriteErrorStep, StopStep, StartStep, RestartStep, TimeStep, BlindStep, SampleStep
    DEF Disturbance
  <2>3. CASE UNCHANGED vars
    BY <2>3 DEF vars, IInv, TypeOK, Current, Epochs, Compared, Latched, Suspect,
                ResumedBeforeHealthy
  <2> QED
    BY <2>1, <2>2, <2>3 DEF Next
<1> QED
  BY <1>1, <1>2, PTL DEF Spec

\* Every variable keeps its type, however many processes start and whatever lapses.
THEOREM TypeCorrect == Spec => []TypeOK
<1>1. IInv => TypeOK
  BY DEF IInv
<1> QED
  BY <1>1, Inductive, PTL

\* sample() never calls a receiver healthy between a lasting write error it saw and
\* the resume of that process, unless it was blind in between: neither the end of
\* the journal window, nor new statistics, nor a restart of the agent opens the latch.
THEOREM LatchHolds == Spec => []ResumedBeforeHealthy
<1>1. IInv => ResumedBeforeHealthy
  BY DEF IInv
<1> QED
  BY <1>1, Inductive, PTL
===============================================================================
