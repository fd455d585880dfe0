--------------------------- MODULE Incidents_proofs ---------------------------
(***************************************************************************)
(* What TLAPS proves of Incidents, for every number of fields, incidents   *)
(* and rounds and for all thresholds.                                      *)
(***************************************************************************)
EXTENDS Incidents, TLAPS

-----------------------------------------------------------------------------
(* The helpers of the debounce return values of their types. *)

\* Counters stay within the cap.
LEMMA BumpType == \A n \in 0..CountCap : Bump(n) \in 0..CountCap
  BY CapAssumption, ThresholdAssumption DEF Bump

\* A debounce round turns an engine state into an engine state.
LEMMA DebouncedType ==
  ASSUME s \in EngineState, NEW p \in Probe
  PROVE  Debounced(p) \in EngineState
<1>1. \A f \in Fields : /\ s.stable[f] \in Verdict /\ s.counts[f].value \in Value
                        /\ s.counts[f].n \in 0..CountCap /\ p[f] \in Value
  BY DEF EngineState, Probe
<1>2. [f \in Fields |-> NextStable(f, p[f])] \in [Fields -> Verdict]
  BY <1>1 DEF NextStable, Verdict
<1>3. 1 \in 0..CountCap
  BY CapAssumption, ThresholdAssumption
<1>4. [f \in Fields |-> NextCount(s.counts[f], p[f])] \in [Fields -> [value : Value, n : 0..CountCap]]
  BY <1>1, <1>3, BumpType DEF NextCount
<1>5. 0 \in 0..CountCap
  BY CapAssumption
<1>6. Bump(s.bad) \in 0..CountCap /\ Bump(s.good) \in 0..CountCap
  BY BumpType DEF EngineState
<1> QED
  BY <1>2, <1>4, <1>5, <1>6 DEF Debounced, EngineState

\* The end of the metrics table stays a sequence of rounds.
LEMMA RecordType ==
  ASSUME NEW t \in Seq(Round), NEW r \in Round
  PROVE  Record(t, r) \in Seq(Round)
<1>1. Append(t, r) \in Seq(Round) /\ Len(Append(t, r)) = Len(t) + 1
  OBVIOUS
<1>2. Len(t) \in Nat
  OBVIOUS
<1>3. Append(t, r) # << >>
  BY <1>1, <1>2
<1>4. Tail(Append(t, r)) \in Seq(Round)
  BY <1>1, <1>3
<1> QED
  BY <1>1, <1>4 DEF Record

\* An event changes a counter by an integer.
LEMMA FieldEventType == \A f \in Fields, v \in Value : FieldEvent(f, v) \in Int
  BY DEF FieldEvent

-----------------------------------------------------------------------------
(* Type correctness. *)

LEMMA TypeInit == Init => TypeOK
<1>1. 0 \in 0..CountCap /\ 0 \in 0..2 /\ 0 \in Int
  BY CapAssumption
<1>2. EmptyEngine \in EngineState
  BY <1>1 DEF EmptyEngine, EngineState, Verdict, Value, Active
<1>3. << >> \in Seq(Round)
  OBVIOUS
<1>4. EmptyDatabase \in Database
  BY <1>1, <1>2, <1>3 DEF EmptyDatabase, Database, Phase
<1>5. NoDirectory \in Directory
  BY <1>1 DEF NoDirectory, Directory, Phase
<1> QED
  BY <1>2, <1>4, <1>5 DEF Init, TypeOK, PC, Active, Locals, NoLocals, NoRows, Phase

\* save() builds a database out of the open transaction and the engine state.
LEMMA SavedType ==
  ASSUME TypeOK, NEW e \in EngineState
  PROVE  Saved(e) \in Database
  BY DEF Saved, TypeOK, Database

\* Opening and closing an incident replace these three tables.
LEMMA TablesType ==
  ASSUME NEW d \in Database, NEW n \in Int,
         NEW a \in [Incident -> Phase],
         NEW b \in [Incident -> SUBSET Labels]
  PROVE  [d EXCEPT !.incidents = a, !.jobs = b, !.incNet = n] \in Database
  BY DEF Database

-----------------------------------------------------------------------------
(* Type correctness needs to know where process() stands: Located. *)

TInv == TypeOK /\ Located

LEMMA StartRoundType ==
  ASSUME TInv, NEW p \in Probe, StartRound(p)
  PROVE  TInv'
<1> USE DEF TInv
<1>1. s' \in EngineState /\ s'.active = s.active
  <2>1. s' \in EngineState
    BY DebouncedType DEF StartRound, TypeOK
  <2>2. Debounced(p).active = s.active
    BY DEF Debounced, TypeOK, EngineState
  <2> QED
    BY <2>1, <2>2 DEF StartRound
<1>2. [probe |-> p, bad |-> Bad(p)] \in Round
  BY DEF Round, Bad, TypeOK, EngineState
<1>3. Record(work.tail, [probe |-> p, bad |-> Bad(p)]) \in Seq(Round)
  BY <1>2, RecordType DEF TypeOK, Database
<1>4. ASSUME NEW f \in Fields PROVE work.net[f] + FieldEvent(f, p[f]) \in Int
  <2>1. p[f] \in Value /\ work.net[f] \in Int
    BY DEF Probe, TypeOK, Database
  <2>2. FieldEvent(f, p[f]) \in Int
    BY <2>1, FieldEventType
  <2> QED
    BY <2>1, <2>2
<1>5. [f \in Fields |-> work.net[f] + FieldEvent(f, p[f])] \in [Fields -> Int]
  BY <1>4
<1>6. work' \in Database
  BY <1>3, <1>5 DEF StartRound, TypeOK, Database
<1>7. cur' \in Locals
  BY DEF StartRound, TypeOK, EngineState, Active, Locals, NoLocals, NoRows, Phase
<1>8. pc' \in PC
  BY DEF StartRound, PC, InProcess
<1>9. TypeOK'
  BY <1>1, <1>6, <1>7, <1>8 DEF StartRound, TypeOK
<1>10. Located'
  BY <1>1 DEF StartRound, Located, TypeOK, EngineState, Active
<1> QED
  BY <1>9, <1>10

LEMMA ProcessStepType ==
  ASSUME TInv, ProcessStep
  PROVE  TInv'
<1> USE DEF TInv, TypeOK, PC, InProcess, InStartUp, Phase, Located
<1>1. CASE MakeDirectory
  <2>1. PICK i \in Fresh : /\ files' = [files EXCEPT ![i].dir = TRUE]
                           /\ cur' = [cur EXCEPT !.ident = i]
    BY <1>1 DEF MakeDirectory
  <2>2. i \in Incident /\ disk.incidents[i] = "none" /\ files[i].exports = 0
    BY DEF Fresh
  <2>3. files' \in [Incident -> Directory] /\ files'[i].dir /\ files'[i].exports = 0
    <3> DEFINE d == [files[i] EXCEPT !.dir = TRUE]
    <3>1. files[i] \in Directory
      BY <2>2
    <3>2. d \in Directory /\ d.dir /\ d.exports = 0
      BY <2>2, <3>1 DEF Directory
    <3>3. files' = [files EXCEPT ![i] = d]
      BY <2>1
    <3> QED
      BY <2>2, <3>2, <3>3
  <2>4. cur' \in Locals /\ cur'.ident = i
    BY <2>1, <2>2 DEF Active, Locals
  <2>5. \A j \in Incident : ~files'[j].dir => files'[j].exports = 0
    BY <2>1, <2>2 DEF Directory
  <2> QED
    BY <1>1, <2>2, <2>3, <2>4, <2>5 DEF MakeDirectory
<1>2. CASE ReadNetwork
  BY <1>2 DEF ReadNetwork
<1>3. CASE InsertIncident
  <2> DEFINE a == [work.incidents EXCEPT ![cur.ident] = "open"]
             b == [work.jobs EXCEPT ![cur.ident] = Offsets]
  <2>1. /\ a \in [Incident -> Phase]
        /\ b \in [Incident -> SUBSET Labels]
        /\ work.incNet + 1 \in Int
    <3>1. /\ work.incidents \in [Incident -> Phase]
          /\ work.jobs \in [Incident -> SUBSET Labels]
          /\ work.incNet \in Int
      BY DEF Database
    <3>2. a \in [Incident -> Phase]
      BY <3>1
    <3>3. b \in [Incident -> SUBSET Labels]
      BY <3>1 DEF Labels
    <3> QED
      BY <3>1, <3>2, <3>3
  <2>2. work' \in Database
    <3>1. work' = [work EXCEPT !.incidents = a, !.jobs = b, !.incNet = work.incNet + 1]
      BY <1>3 DEF InsertIncident
    <3> QED
      BY <2>1, <3>1, TablesType
  <2>3. s' \in EngineState
    BY <1>3 DEF InsertIncident, EngineState, Active
  <2> QED
    BY <1>3, <2>2, <2>3 DEF InsertIncident
<1>4. CASE ExportPreFault
  <2>1. files' \in [Incident -> Directory]
    BY <1>4 DEF ExportPreFault, Directory
  <2>2. pc' \in {"commit", "export"}
    BY <1>4 DEF ExportPreFault
  <2>3. pc' = "export" => files'[cur.ident].dir /\ files'[cur.ident].exports \in {0, 1}
    BY <1>4 DEF ExportPreFault, Directory
  <2>4. \A i \in Incident : ~files'[i].dir => files'[i].exports = 0
    BY <1>4 DEF ExportPreFault, Directory
  <2> QED
    BY <1>4, <2>1, <2>2, <2>3, <2>4 DEF ExportPreFault
<1>5. CASE CloseIncident
  <2> DEFINE a == [work.incidents EXCEPT ![s.active] = "recovered"]
             b == [work.jobs EXCEPT ![s.active] = @ \cup {"recovery"}]
  <2>1. /\ a \in [Incident -> Phase]
        /\ b \in [Incident -> SUBSET Labels]
        /\ work.incNet - 1 \in Int
    <3>1. /\ work.incidents \in [Incident -> Phase]
          /\ work.jobs \in [Incident -> SUBSET Labels]
          /\ work.incNet \in Int
      BY DEF Database
    <3>2. a \in [Incident -> Phase]
      BY <3>1
    <3>3. b \in [Incident -> SUBSET Labels]
      BY <3>1 DEF Labels
    <3> QED
      BY <3>1, <3>2, <3>3
  <2>2. work' \in Database
    <3>1. work' = [work EXCEPT !.incidents = a, !.jobs = b, !.incNet = work.incNet - 1]
      BY <1>5 DEF CloseIncident, ClosedTables
    <3> QED
      BY <2>1, <3>1, TablesType
  <2>3. s' \in EngineState
    BY <1>5 DEF CloseIncident, ClosedEngine, EngineState, Active
  <2> QED
    BY <1>5, <2>2, <2>3 DEF CloseIncident
<1>6. CASE Commit
  <2>1. Saved(s) \in Database
    BY SavedType
  <2>2. pc' = "summary" => SummaryOf' \in Incident
    BY <1>6 DEF Commit, SummaryOf, Active, EngineState, Locals
  <2> QED
    BY <1>6, <2>1, <2>2 DEF Commit
<1>7. CASE WriteSummary
  <2>1. work.incidents[SummaryOf] \in Phase
    BY <1>7 DEF WriteSummary, Database
  <2>2. /\ files' \in [Incident -> Directory]
        /\ \A i \in Incident : files'[i].dir = files[i].dir /\ files'[i].exports = files[i].exports
    BY <1>7, <2>1 DEF WriteSummary, Directory
  <2> QED
    BY <1>7, <2>2 DEF WriteSummary
<1>8. CASE PublishStatus
  BY <1>8 DEF PublishStatus, Active, EngineState, Locals, NoLocals, NoRows
<1> QED
  BY <1>1, <1>2, <1>3, <1>4, <1>5, <1>6, <1>7, <1>8 DEF ProcessStep

\* Steps of the other writers: host collection, time, retention, start-up.
LEMMA OthersType ==
  ASSUME TInv, \/ \E delta \in BOOLEAN : CollectHost(delta)
               \/ NicHoldExpires \/ Maintenance \/ Restart
  PROVE  TInv'
<1> USE DEF TInv, TypeOK, PC, InProcess, InStartUp, Phase, Located
<1>1. ASSUME NEW delta \in BOOLEAN, CollectHost(delta) PROVE TInv'
  <2>1. s' \in EngineState
    BY <1>1 DEF CollectHost, EngineState
  <2> DEFINE d == [work EXCEPT !.engine = s']
             n == IF s'.nicActive = s.nicActive THEN d.nicNet
                  ELSE IF s'.nicActive THEN d.nicNet + 1 ELSE d.nicNet - 1
  <2>2. d \in Database /\ n \in Int
    <3>1. d \in Database
      BY <2>1 DEF Database
    <3>2. d.nicNet \in Int
      BY <3>1 DEF Database
    <3> QED
      BY <3>1, <3>2
  <2>3. work' \in Database
    <3>1. work' = [d EXCEPT !.nicNet = n]
      BY <1>1 DEF CollectHost, Saved
    <3> QED
      BY <2>2, <3>1 DEF Database
  <2> QED
    BY <1>1, <2>1, <2>3 DEF CollectHost
<1>2. CASE NicHoldExpires
  <2>1. s' \in EngineState
    BY <1>2 DEF NicHoldExpires, EngineState
  <2>2. disk' \in Database /\ work' \in Database
    BY <1>2 DEF NicHoldExpires, Database, EngineState
  <2> QED
    BY <1>2, <2>1, <2>2 DEF NicHoldExpires
<1>3. ASSUME NEW i \in Incident, RemoveEvidence(i) PROVE TInv'
  <2>1. PICK d \in {EmptyDirectory, NoDirectory} : files' = [files EXCEPT ![i] = d]
    BY <1>3 DEF RemoveEvidence
  <2>2. d \in Directory /\ d.exports = 0
    <3>1. CASE d = EmptyDirectory
      BY <3>1 DEF EmptyDirectory, Directory
    <3>2. CASE d = NoDirectory
      BY <3>2 DEF NoDirectory, Directory
    <3> QED
      BY <2>1, <3>1, <3>2
  <2>3. pc \in {"network", "insert", "export"} => cur.ident # i
    BY <1>3 DEF RemoveEvidence, Aged
  <2>4. files' \in [Incident -> Directory]
    BY <2>1, <2>2
  <2>5. \A j \in Incident : files'[j] = IF j = i THEN d ELSE files[j]
    BY <2>1
  <2> QED
    BY <1>3, <2>2, <2>4, <2>5, <2>3 DEF RemoveEvidence, SummaryOf
<1>4. ASSUME NEW i \in Incident, ForgetIncident(i) PROVE TInv'
  <2>1. ASSUME NEW d \in Database
        PROVE  [d EXCEPT !.incidents[i] = "none", !.jobs[i] = {}] \in Database
    <3> DEFINE a == [d.incidents EXCEPT ![i] = "none"]
               b == [d.jobs EXCEPT ![i] = {}]
    <3>1. a \in [Incident -> Phase] /\ b \in [Incident -> SUBSET Labels]
      BY DEF Database
    <3>2. [d EXCEPT !.incidents = a, !.jobs = b] \in Database
      BY <3>1 DEF Database
    <3> QED
      BY <3>2
  <2>2. disk' \in Database /\ work' \in Database
    BY <1>4, <2>1 DEF ForgetIncident
  <2> QED
    BY <1>4, <2>2 DEF ForgetIncident, SummaryOf
<1>5. CASE Start
  <2>1. Booted(disk.engine) \in EngineState
    <3>1. 0 \in 0..CountCap /\ disk.engine \in EngineState
      BY CapAssumption DEF Database
    <3>2. EmptyEngine.counts \in [Fields -> [value : Value, n : 0..CountCap]]
      BY <3>1 DEF EmptyEngine, Value
    <3> QED
      BY <3>1, <3>2 DEF Booted, EngineState
  <2>2. << >> \in Seq(Round)
    OBVIOUS
  <2>3. disk' \in Database
    BY <1>5, <2>1, <2>2 DEF Start, Database
  <2>4. cur' \in Locals
    BY <1>5 DEF Start, Fetched, Database, NoLocals, Locals, Active
  <2> QED
    BY <1>5, <2>1, <2>3, <2>4 DEF Start
<1>6. CASE TakeRow
  BY <1>6 DEF TakeRow, Locals, Active, Phase
<1>7. CASE RewriteSummary
  <2> DEFINE d == [files[cur.ident] EXCEPT !.dir = TRUE, !.summary = cur.rows[cur.ident]]
  <2>1. cur.ident \in Incident /\ cur.rows[cur.ident] \in Phase /\ cur.rows \in [Incident -> Phase]
    BY <1>7 DEF RewriteSummary, Locals
  <2>2. d \in Directory /\ d.dir
    <3>1. files[cur.ident] \in Directory
      BY <2>1
    <3> QED
      BY <2>1, <3>1 DEF Directory
  <2>3. files' = [files EXCEPT ![cur.ident] = d]
    BY <1>7 DEF RewriteSummary
  <2>4. files' \in [Incident -> Directory] /\ \A i \in Incident : ~files'[i].dir => files'[i].exports = 0
    BY <2>1, <2>2, <2>3
  <2>5. cur' \in Locals
    BY <1>7, <2>1 DEF RewriteSummary, Locals, Active, Phase
  <2> QED
    BY <1>7, <2>4, <2>5 DEF RewriteSummary
<1>8. CASE EnterLoop
  BY <1>8 DEF EnterLoop
<1> QED
  BY <1>1, <1>2, <1>3, <1>4, <1>5, <1>6, <1>7, <1>8 DEF Maintenance, Restart

LEMMA FailureType ==
  ASSUME TInv, Failure
  PROVE  TInv'
<1> USE DEF TInv, TypeOK, PC, InProcess, InStartUp, Phase, Located
<1>1. NoLocals \in Locals
  BY DEF Active, NoLocals, Locals, NoRows, Phase
<1>2. CASE WriteFails
  BY <1>1, <1>2 DEF WriteFails, Database
<1>3. ASSUME LeaveRun PROVE TInv'
  BY <1>1, <1>3, SavedType DEF LeaveRun
<1>4. ASSUME NEW power \in BOOLEAN, Crash(power) PROVE TInv'
  BY <1>1, <1>4 DEF Crash, Database
<1> QED
  BY <1>2, <1>3, <1>4 DEF Failure, FatalError, StopService

\* Every state of the engine, the database and the incident directories is
\* well-typed, whatever fails: in particular no counter ever exceeds the cap and
\* no export is written twice.
THEOREM TypeCorrect == Spec => []TypeOK
<1>1. Init => TInv
  BY TypeInit DEF TInv, Init, Located, NoDirectory
<1>2. TInv /\ [Next]_vars => TInv'
  <2> SUFFICES ASSUME TInv, [Next]_vars PROVE TInv'
    OBVIOUS
  <2>1. ASSUME NEW p \in Probe, StartRound(p) PROVE TInv'
    BY <2>1, StartRoundType
  <2>2. CASE ProcessStep
    BY <2>2, ProcessStepType
  <2>3. CASE \/ \E delta \in BOOLEAN : CollectHost(delta)
             \/ NicHoldExpires \/ Maintenance \/ Restart
    BY <2>3, OthersType
  <2>4. CASE Failure
    BY <2>4, FailureType
  <2>5. CASE UNCHANGED vars
    BY <2>5 DEF vars, TInv, TypeOK, Located, SummaryOf
  <2> QED
    BY <2>1, <2>2, <2>3, <2>4, <2>5 DEF Next, CalmStep
<1>3. TInv => TypeOK
  BY DEF TInv
<1> QED
  BY <1>1, <1>2, <1>3, PTL DEF Spec

-----------------------------------------------------------------------------
(* The committed tables never disagree with the committed engine state, and   *)
(* evidence precedes the incident.  Both hold because the transaction that    *)
(* process() has open can only open or close one incident: Transaction.       *)

LInv == Transaction /\ OneOpenIncident /\ EvidenceBeforeIncident

\* What LInv needs to know of the types.
LEMMA LedgerTypes ==
  ASSUME TypeOK
  PROVE  /\ s.active \in Active /\ disk.engine.active \in Active /\ NoIncident \notin Incident
         /\ disk.incidents \in [Incident -> Phase]
         /\ work.incidents \in [Incident -> Phase]
         /\ files \in [Incident -> Directory]
  BY IncidentAssumption DEF TypeOK, Database, EngineState

\* A step that leaves incidents, active incident and exports alone keeps LInv.
LEMMA FrameLedger ==
  ASSUME LInv,
         disk'.incidents = disk.incidents, disk'.engine.active = disk.engine.active,
         Untouched', pc' \notin {"export"},
         \A i \in Incident : /\ files'[i].dir = files[i].dir
                             /\ files'[i].exports = files[i].exports
  PROVE  LInv'
  BY DEF LInv, Transaction, OneOpenIncident, EvidenceBeforeIncident, Untouched

\* save() moves active incident and incident table together.
LEMMA SavedTables ==
  ASSUME TypeOK
  PROVE  /\ Saved(s).incidents = work.incidents
         /\ Saved(s).engine = s
  BY DEF Saved, TypeOK, Database

LEMMA StartRoundLedger ==
  ASSUME TInv, LInv, NEW p \in Probe, StartRound(p)
  PROVE  LInv'
<1>1. Untouched
  BY DEF StartRound, LInv, Transaction
<1>2. s'.active = s.active /\ work'.incidents = work.incidents
  BY DEF StartRound, Debounced, TInv, TypeOK, EngineState, Database
<1> QED
  BY <1>1, <1>2, FrameLedger DEF StartRound, Untouched

LEMMA CommitLedger ==
  ASSUME TInv, LInv, Commit
  PROVE  LInv'
<1> USE LedgerTypes DEF TInv
<1>1. /\ disk'.incidents = work.incidents /\ disk'.engine.active = s.active
      /\ work'.incidents = work.incidents /\ s' = s
  BY SavedTables DEF Commit
<1>2. Untouched' /\ Transaction'
  BY <1>1 DEF Commit, Transaction, Untouched
<1>3. CASE Untouched
  BY <1>1, <1>2, <1>3, FrameLedger DEF Commit, Untouched
<1>4. CASE Opening /\ files[cur.ident].dir /\ files[cur.ident].exports = 2
  <2>1. \A i \in Incident : disk.incidents[i] # "open"
    BY <1>4 DEF LInv, OneOpenIncident, Opening
  <2>2. OneOpenIncident'
    BY <1>1, <1>4, <2>1 DEF OneOpenIncident, Opening
  <2>3. EvidenceBeforeIncident'
    BY <1>1, <1>4 DEF Commit, LInv, EvidenceBeforeIncident, Opening
  <2> QED
    BY <1>2, <2>2, <2>3 DEF LInv
<1>5. CASE Closing
  <2>1. PICK a \in Incident : a = disk.engine.active
    BY <1>5 DEF Closing, Active
  <2>2. disk.incidents[a] = "open" /\ \A i \in Incident \ {a} : disk.incidents[i] # "open"
    BY <2>1 DEF LInv, OneOpenIncident
  <2>3. OneOpenIncident'
    BY <1>1, <1>5, <2>1, <2>2 DEF OneOpenIncident, Closing
  <2>4. EvidenceBeforeIncident'
    BY <1>1, <1>5, <2>1, <2>2 DEF Commit, LInv, EvidenceBeforeIncident, Closing
  <2> QED
    BY <1>2, <2>3, <2>4 DEF LInv
<1> QED
  BY <1>3, <1>4, <1>5 DEF Commit, LInv, Transaction

LEMMA ProcessStepLedger ==
  ASSUME TInv, LInv, ProcessStep
  PROVE  LInv'
<1> USE LedgerTypes DEF TInv
<1>1. CASE MakeDirectory
  <2>1. PICK i \in Fresh : files' = [files EXCEPT ![i].dir = TRUE]
    BY <1>1 DEF MakeDirectory
  <2>2. i \in Incident /\ disk.incidents[i] = "none"
    BY DEF Fresh
  <2>3. \A j \in Incident \ {i} : files'[j] = files[j]
    BY <2>1, <2>2
  <2>4. EvidenceBeforeIncident'
    BY <1>1, <2>2, <2>3 DEF MakeDirectory, LInv, EvidenceBeforeIncident
  <2> QED
    BY <1>1, <2>4 DEF MakeDirectory, LInv, Transaction, Untouched, OneOpenIncident
<1>2. CASE ReadNetwork
  BY <1>2, FrameLedger DEF ReadNetwork, LInv, Transaction, Untouched
<1>3. CASE InsertIncident
  <2>1. Untouched /\ s.active = NoIncident /\ cur.ident \in Incident
        /\ disk.incidents[cur.ident] = "none"
    BY <1>3 DEF InsertIncident, LInv, Transaction, Located
  <2>2. s'.active = cur.ident
    BY <1>3 DEF InsertIncident, TypeOK, EngineState
  <2>3. work'.incidents = [work.incidents EXCEPT ![cur.ident] = "open"]
    BY <1>3 DEF InsertIncident, TypeOK, Database
  <2>4. Transaction'
    BY <1>3, <2>1, <2>2, <2>3 DEF InsertIncident, Transaction, Untouched, Opening
  <2> QED
    BY <1>3, <2>4 DEF InsertIncident, LInv, OneOpenIncident, EvidenceBeforeIncident
<1>4. CASE ExportPreFault
  <2>1. Opening
    BY <1>4 DEF ExportPreFault, LInv, Transaction
  <2>2. files'[cur.ident].dir
    BY <1>4, <2>1 DEF ExportPreFault, Located, Opening, Directory
  <2>3. \A i \in Incident \ {cur.ident} : files'[i] = files[i]
    BY <1>4 DEF ExportPreFault
  <2>4. EvidenceBeforeIncident'
    BY <1>4, <2>1, <2>3 DEF ExportPreFault, LInv, EvidenceBeforeIncident, Opening
  <2>5. Transaction'
    BY <1>4, <2>1, <2>2 DEF ExportPreFault, Transaction, Opening
  <2> QED
    BY <1>4, <2>4, <2>5 DEF ExportPreFault, LInv, OneOpenIncident
<1>5. CASE CloseIncident
  <2>1. Untouched /\ s.active \in Incident
    BY <1>5 DEF CloseIncident, LInv, Transaction, Located
  <2>2. s'.active = NoIncident
    BY <1>5 DEF CloseIncident, ClosedEngine, TypeOK, EngineState
  <2>3. work'.incidents = [work.incidents EXCEPT ![s.active] = "recovered"]
    BY <1>5 DEF CloseIncident, ClosedTables, TypeOK, Database
  <2>4. Closing'
    BY <1>5, <2>1, <2>2, <2>3 DEF CloseIncident, Untouched, Closing
  <2> QED
    BY <1>5, <2>4 DEF CloseIncident, LInv, Transaction, OneOpenIncident, EvidenceBeforeIncident
<1>6. CASE Commit
  BY <1>6, CommitLedger
<1>7. CASE WriteSummary
  <2>1. \A i \in Incident : files'[i].dir = files[i].dir /\ files'[i].exports = files[i].exports
    BY <1>7 DEF WriteSummary, Directory
  <2> QED
    BY <1>7, <2>1, FrameLedger DEF WriteSummary, LInv, Transaction, Untouched
<1>8. CASE PublishStatus
  BY <1>8, FrameLedger DEF PublishStatus, LInv, Transaction, Untouched
<1> QED
  BY <1>1, <1>2, <1>3, <1>4, <1>5, <1>6, <1>7, <1>8 DEF ProcessStep

LEMMA OthersLedger ==
  ASSUME TInv, LInv, \/ \E delta \in BOOLEAN : CollectHost(delta)
                     \/ NicHoldExpires \/ Maintenance \/ Restart
  PROVE  LInv'
<1> USE LedgerTypes DEF TInv
<1>1. ASSUME NEW delta \in BOOLEAN, CollectHost(delta) PROVE LInv'
  <2>1. Untouched
    BY <1>1 DEF CollectHost, LInv, Transaction
  <2>2. s'.active = s.active
    BY <1>1 DEF CollectHost, TypeOK, EngineState
  <2>3. work'.incidents = work.incidents /\ work'.engine = s'
    BY <1>1 DEF CollectHost, Saved, TypeOK, Database
  <2> QED
    BY <1>1, <2>1, <2>2, <2>3, FrameLedger DEF CollectHost, Untouched
<1>2. CASE NicHoldExpires
  <2>1. Untouched
    BY <1>2 DEF NicHoldExpires, LInv, Transaction
  <2>2. s'.active = s.active
    BY <1>2 DEF NicHoldExpires, TypeOK, EngineState
  <2>3. /\ disk'.incidents = disk.incidents /\ work'.incidents = work.incidents
        /\ disk'.engine.active = disk.engine.active
    BY <1>2 DEF NicHoldExpires, TypeOK, Database, EngineState
  <2> QED
    BY <1>2, <2>1, <2>2, <2>3, FrameLedger DEF NicHoldExpires, Untouched
<1>3. ASSUME NEW i \in Incident, RemoveEvidence(i) PROVE LInv'
  <2>1. disk.incidents[i] = "recovered"
    BY <1>3 DEF RemoveEvidence, Aged
  <2>2. \A j \in Incident : j # i => files'[j] = files[j]
    BY <1>3 DEF RemoveEvidence
  <2>3. EvidenceBeforeIncident'
    BY <1>3, <2>1, <2>2 DEF RemoveEvidence, LInv, EvidenceBeforeIncident
  <2>4. Opening /\ files[cur.ident].dir /\ files[cur.ident].exports = 2
          => Opening' /\ files'[cur.ident].dir /\ files'[cur.ident].exports = 2
    BY <1>3, <2>1, <2>2 DEF RemoveEvidence, Opening
  <2>5. Transaction'
    BY <1>3, <2>4 DEF RemoveEvidence, LInv, Transaction, Untouched, Opening, Closing
  <2> QED
    BY <1>3, <2>3, <2>5 DEF RemoveEvidence, LInv, OneOpenIncident
<1>4. ASSUME NEW i \in Incident, ForgetIncident(i) PROVE LInv'
  <2>1. Untouched /\ disk.incidents[i] = "recovered"
        /\ pc \in InStartUp \cup {"idle", "summary", "publish", "down"}
    BY <1>4 DEF ForgetIncident, Aged, LInv, Transaction, InStartUp
  <2>2. /\ disk'.incidents = [disk.incidents EXCEPT ![i] = "none"]
        /\ work'.incidents = [work.incidents EXCEPT ![i] = "none"]
        /\ disk'.engine = disk.engine
    BY <1>4 DEF ForgetIncident, TypeOK, Database
  <2>3. Untouched'
    BY <1>4, <2>1, <2>2 DEF ForgetIncident, Untouched
  <2>4. OneOpenIncident'
    BY <2>1, <2>2 DEF LInv, OneOpenIncident
  <2>5. EvidenceBeforeIncident'
    BY <1>4, <2>2 DEF ForgetIncident, LInv, EvidenceBeforeIncident
  <2> QED
    BY <1>4, <2>1, <2>3, <2>4, <2>5 DEF ForgetIncident, LInv, Transaction, InStartUp
<1>5. CASE Start
  <2>1. s'.active = disk.engine.active
    BY <1>5 DEF Start, Booted, TypeOK, Database, EngineState
  <2>2. disk'.incidents = disk.incidents /\ disk'.engine = s' /\ work' = disk'
    BY <1>5 DEF Start, TypeOK, Database
  <2> QED
    BY <1>5, <2>1, <2>2, FrameLedger DEF Start, Untouched
<1>6. CASE TakeRow
  BY <1>6, FrameLedger DEF TakeRow, LInv, Transaction, Untouched
<1>7. CASE RewriteSummary
  <2>1. \A i \in Incident : files[i].dir => files'[i].dir /\ files'[i].exports = files[i].exports
    BY <1>7 DEF RewriteSummary, Directory
  <2>2. EvidenceBeforeIncident'
    BY <1>7, <2>1 DEF RewriteSummary, LInv, EvidenceBeforeIncident
  <2> QED
    BY <1>7, <2>2 DEF RewriteSummary, LInv, Transaction, Untouched, OneOpenIncident
<1>8. CASE EnterLoop
  BY <1>8, FrameLedger DEF EnterLoop, LInv, Transaction, Untouched
<1> QED
  BY <1>1, <1>2, <1>3, <1>4, <1>5, <1>6, <1>7, <1>8 DEF Maintenance, Restart

\* Every way of failing but one: a rollback whose reload fails as well would
\* leave s.active naming an incident that is in no table.
LEMMA FailureLedger ==
  ASSUME ReloadMayFail = FALSE, TInv, LInv, Failure
  PROVE  LInv'
<1> USE LedgerTypes DEF TInv
<1>1. CASE WriteFails
  <2>1. s' = disk.engine /\ work' = disk
    BY <1>1 DEF WriteFails
  <2> QED
    BY <1>1, <2>1, FrameLedger DEF WriteFails, Untouched
<1>2. ASSUME LeaveRun, Untouched PROVE LInv'
  <2>1. /\ disk'.incidents = work.incidents /\ disk'.engine = s /\ work' = disk' /\ s' = s
    BY <1>2, SavedTables DEF LeaveRun
  <2> QED
    BY <1>2, <2>1, FrameLedger DEF LeaveRun, Untouched
<1>3. CASE FatalError \/ StopService
  <2>1. LeaveRun /\ Untouched
    BY <1>3 DEF FatalError, StopService, LInv, Transaction
  <2> QED
    BY <1>2, <2>1
<1>4. ASSUME NEW power \in BOOLEAN, Crash(power) PROVE LInv'
  BY <1>4, FrameLedger DEF Crash, Untouched
<1> QED
  BY <1>1, <1>3, <1>4 DEF Failure

LEMMA IInvInit == Init => IInv
<1>1. Init => TypeOK
  BY TypeInit
<1>2. Init => Located /\ Transaction
  BY DEF Init, Located, Transaction, Untouched, NoDirectory, EmptyDatabase
<1>3. Init => OneOpenIncident /\ EvidenceBeforeIncident
  BY IncidentAssumption
     DEF Init, OneOpenIncident, EvidenceBeforeIncident, EmptyDatabase, EmptyEngine, NoDirectory
<1> QED
  BY <1>1, <1>2, <1>3 DEF IInv

LEMMA IInvStep ==
  ASSUME ReloadMayFail = FALSE, IInv, [Next]_vars
  PROVE  IInv'
<1>1. TInv /\ LInv
  BY DEF IInv, TInv, LInv
<1> SUFFICES TInv' /\ LInv'
  BY DEF IInv, TInv, LInv
<1>2. ASSUME NEW p \in Probe, StartRound(p) PROVE TInv' /\ LInv'
  BY <1>1, <1>2, StartRoundType, StartRoundLedger
<1>3. CASE ProcessStep
  BY <1>1, <1>3, ProcessStepType, ProcessStepLedger
<1>4. CASE \/ \E delta \in BOOLEAN : CollectHost(delta)
           \/ NicHoldExpires \/ Maintenance \/ Restart
  BY <1>1, <1>4, OthersType, OthersLedger
<1>5. CASE Failure
  BY <1>1, <1>5, FailureType, FailureLedger
<1>6. CASE UNCHANGED vars
  BY <1>1, <1>6
     DEF vars, TInv, LInv, TypeOK, Located, SummaryOf, Transaction, Untouched, Opening, Closing,
         OneOpenIncident, EvidenceBeforeIncident
<1> QED
  BY <1>2, <1>3, <1>4, <1>5, <1>6 DEF Next, CalmStep

\* The invariant of the transaction, for the proofs that build on it.
LEMMA Inductive ==
  ASSUME ReloadMayFail = FALSE
  PROVE  Spec => []IInv
<1>1. IInv /\ [Next]_vars => IInv'
  BY IInvStep
<1> QED
  BY <1>1, IInvInit, PTL DEF Spec

\* As long as a rollback is followed by a successful reload, the committed engine
\* state names exactly the open incident of the committed table, whatever write
\* fails and whenever the process or the machine dies.
THEOREM IncidentNamed ==
  ASSUME ReloadMayFail = FALSE
  PROVE  Spec => []OneOpenIncident
<1>1. IInv /\ [Next]_vars => IInv'
  BY IInvStep
<1>2. IInv => OneOpenIncident
  BY DEF IInv
<1> QED
  BY <1>1, <1>2, IInvInit, PTL DEF Spec

\* Under the same assumption, the evidence of the quarter of an hour before a
\* fault is on disk before the fault's incident is committed.
THEOREM EvidenceKept ==
  ASSUME ReloadMayFail = FALSE
  PROVE  Spec => []EvidenceBeforeIncident
<1>1. IInv /\ [Next]_vars => IInv'
  BY IInvStep
<1>2. IInv => EvidenceBeforeIncident
  BY DEF IInv
<1> QED
  BY <1>1, <1>2, IInvInit, PTL DEF Spec

-----------------------------------------------------------------------------
(* The incident life cycle. *)

\* A commit opens an incident, closes the open one, or leaves the ledger alone.
LEMMA CommitRefines ==
  ASSUME IInv, Commit
  PROVE  [Ledger!Next]_(Ledger!ledgerVars)
<1> USE DEF Ledger!Next, Ledger!ledgerVars
<1>1. TypeOK /\ Transaction
  BY DEF IInv
<1>2. disk'.incidents = work.incidents /\ disk'.engine.active = s.active
  BY <1>1, SavedTables DEF Commit
<1>3. CASE Untouched
  BY <1>2, <1>3 DEF Untouched
<1>4. CASE Opening
  BY <1>2, <1>4 DEF Opening, Ledger!Open
<1>5. CASE Closing
  BY <1>2, <1>5 DEF Closing, Ledger!Close
<1> QED
  BY <1>1, <1>3, <1>4, <1>5 DEF Commit, Transaction

\* Every other step but the DELETE of maintenance() leaves the ledger alone.
LEMMA StepRefines ==
  ASSUME ReloadMayFail = FALSE, IInv, [Next]_vars
  PROVE  [Ledger!Next]_(Ledger!ledgerVars)
<1> DEFINE Same == disk'.incidents = disk.incidents /\ disk'.engine.active = disk.engine.active
<1>1. TypeOK /\ Transaction /\ OneOpenIncident
  BY DEF IInv
<1>2. Same => [Ledger!Next]_(Ledger!ledgerVars)
  BY DEF Ledger!ledgerVars
<1>3. ASSUME disk' = disk PROVE Same
  BY <1>3
<1>4. ASSUME NEW p \in Probe, StartRound(p) PROVE Same
  BY <1>3, <1>4 DEF StartRound
<1>5. CASE ProcessStep /\ ~Commit
  BY <1>2, <1>3, <1>5
     DEF ProcessStep, MakeDirectory, ReadNetwork, InsertIncident, ExportPreFault,
         CloseIncident, WriteSummary, PublishStatus
<1>6. ASSUME NEW delta \in BOOLEAN, CollectHost(delta) PROVE Same
  <2>1. Untouched /\ s'.active = s.active
    BY <1>1, <1>6 DEF CollectHost, Transaction, TypeOK, EngineState
  <2>2. disk'.incidents = work.incidents /\ disk'.engine = s'
    BY <1>1, <1>6 DEF CollectHost, Saved, TypeOK, Database
  <2> QED
    BY <2>1, <2>2 DEF Untouched
<1>7. CASE NicHoldExpires
  <2>1. Same
    BY <1>1, <1>7 DEF NicHoldExpires, TypeOK, Database, EngineState
  <2> QED
    BY <1>2, <2>1
<1>8. ASSUME NEW i \in Incident, ForgetIncident(i) PROVE Ledger!Next
  <2>1. /\ disk.incidents[i] = "recovered"
        /\ disk'.incidents = [disk.incidents EXCEPT ![i] = "none"]
        /\ disk'.engine = disk.engine
    BY <1>1, <1>8 DEF ForgetIncident, Aged, TypeOK, Database
  <2>2. Ledger!Forget(i)
    BY <2>1 DEF Ledger!Forget
  <2> QED
    BY <2>2 DEF Ledger!Next
<1>9. ASSUME NEW i \in Incident, RemoveEvidence(i) PROVE Same
  BY <1>3, <1>9 DEF RemoveEvidence
<1>10. CASE Restart
  <2>1. ASSUME Start PROVE Same
    BY <1>1, <2>1 DEF Start, Booted, TypeOK, Database, EngineState
  <2> QED
    BY <1>2, <1>3, <1>10, <2>1 DEF Restart, TakeRow, RewriteSummary, EnterLoop
<1>11. CASE Failure
  <2>1. ASSUME LeaveRun, Untouched PROVE Same
    BY <1>1, <2>1, SavedTables DEF LeaveRun, Untouched
  <2>2. FatalError \/ StopService => LeaveRun /\ Untouched
    BY <1>1 DEF FatalError, StopService, Transaction
  <2> QED
    BY <1>2, <1>3, <1>11, <2>1, <2>2 DEF Failure, WriteFails, Crash
<1>12. CASE UNCHANGED vars
  BY <1>2, <1>3, <1>12 DEF vars
<1> QED
  BY <1>2, <1>4, <1>5, <1>6, <1>7, <1>8, <1>9, <1>10, <1>11, <1>12, CommitRefines
     DEF Next, CalmStep, Maintenance, ProcessStep

\* The committed tables go through the incident life cycle and nothing else: one
\* incident at a time is opened, closed once, and forgotten only afterwards.
THEOREM LedgerImplemented ==
  ASSUME ReloadMayFail = FALSE
  PROVE  Spec => ImplementsLedger
<1>1. Init => Ledger!Init
  BY DEF Init, EmptyDatabase, EmptyEngine, Ledger!Init
<1>2. IInv /\ [Next]_vars => IInv'
  BY IInvStep
<1>3. IInv /\ [Next]_vars => [Ledger!Next]_(Ledger!ledgerVars)
  BY StepRefines
<1> QED
  BY <1>1, <1>2, <1>3, IInvInit, PTL DEF Spec, ImplementsLedger, Ledger!Spec
===============================================================================
