------------------------ MODULE IncidentRecords_proofs ------------------------
(***************************************************************************)
(* What TLAPS proves of the records Incidents keeps of each incident: its  *)
(* jobs, its events, its summary.json, the served status, and the rounds   *)
(* of the metrics table that justify it.  Everything here builds on the    *)
(* invariant of the open transaction, IInv, proved in Incidents_proofs.    *)
(***************************************************************************)
EXTENDS Incidents_proofs

-----------------------------------------------------------------------------
(* Jobs. *)

\* Scheduled looks at two tables only.
LEMMA ScheduledFrame ==
  ASSUME NEW d, NEW e, Scheduled(d), e.jobs = d.jobs, e.incidents = d.incidents
  PROVE  Scheduled(e)
  BY DEF Scheduled

\* What a commit of the engine state e leaves of the open transaction.
LEMMA SavedFrame ==
  ASSUME TypeOK, NEW e
  PROVE  /\ Saved(e).jobs = work.jobs /\ Saved(e).incidents = work.incidents
         /\ Saved(e).net = work.net /\ Saved(e).nicNet = work.nicNet
         /\ Saved(e).incNet = work.incNet /\ Saved(e).tail = work.tail
         /\ Saved(e).engine = e
  BY DEF Saved, TypeOK, Database

LEMMA JobsStep ==
  ASSUME ReloadMayFail = FALSE, IInv, Scheduled(disk), Scheduled(work), [Next]_vars
  PROVE  Scheduled(disk)' /\ Scheduled(work)'
<1>1. TypeOK /\ Located /\ Transaction /\ OneOpenIncident
  BY DEF IInv
<1>2. ASSUME disk' = disk, work' = work PROVE Scheduled(disk)' /\ Scheduled(work)'
  BY <1>2
<1>3. ASSUME NEW p \in Probe, StartRound(p) PROVE Scheduled(disk)' /\ Scheduled(work)'
  <2>1. work'.jobs = work.jobs /\ work'.incidents = work.incidents
    BY <1>1, <1>3 DEF StartRound, TypeOK, Database
  <2>2. Scheduled(work')
    BY <2>1, ScheduledFrame
  <2> QED
    BY <1>3, <2>2 DEF StartRound
<1>4. CASE InsertIncident
  <2>1. /\ work'.jobs = [work.jobs EXCEPT ![cur.ident] = Offsets]
        /\ work'.incidents = [work.incidents EXCEPT ![cur.ident] = "open"]
    BY <1>1, <1>4 DEF InsertIncident, TypeOK, Database
  <2>2. /\ work.jobs \in [Incident -> SUBSET Labels]
        /\ work.incidents \in [Incident -> Phase]
    BY <1>1 DEF TypeOK, Database
  <2>3. Scheduled(work')
    BY <2>1, <2>2 DEF Scheduled
  <2> QED
    BY <1>4, <2>3 DEF InsertIncident
<1>5. CASE CloseIncident
  <2>1. /\ work'.jobs = [work.jobs EXCEPT ![s.active] = @ \cup {"recovery"}]
        /\ work'.incidents = [work.incidents EXCEPT ![s.active] = "recovered"]
    BY <1>1, <1>5 DEF CloseIncident, ClosedTables, TypeOK, Database
  <2>2. /\ work.jobs \in [Incident -> SUBSET Labels]
        /\ work.incidents \in [Incident -> Phase]
    BY <1>1 DEF TypeOK, Database
  <2>3. s.active \in Incident /\ work.incidents[s.active] = "open"
    BY <1>1, <1>5 DEF CloseIncident, Located, Transaction, Untouched, OneOpenIncident
  <2>4. work.jobs[s.active] \cup {"recovery"} = Labels
    BY <2>3 DEF Scheduled, Labels
  <2>5. Scheduled(work')
    BY <2>1, <2>2, <2>3, <2>4 DEF Scheduled
  <2> QED
    BY <1>5, <2>5 DEF CloseIncident
<1>6. ASSUME NEW e, disk' = Saved(e), work' = Saved(e) PROVE Scheduled(disk)' /\ Scheduled(work)'
  <2>1. Scheduled(Saved(e))
    BY <1>1, SavedFrame, ScheduledFrame
  <2> QED
    BY <1>6, <2>1
<1>7. ASSUME NEW delta \in BOOLEAN, CollectHost(delta) PROVE Scheduled(disk)' /\ Scheduled(work)'
  <2>1. work'.jobs = work.jobs /\ work'.incidents = work.incidents /\ disk' = work'
    BY <1>1, <1>7 DEF CollectHost, Saved, TypeOK, Database
  <2> QED
    BY <2>1, ScheduledFrame
<1>8. CASE NicHoldExpires
  <2>1. /\ work'.jobs = work.jobs /\ work'.incidents = work.incidents
        /\ disk'.jobs = disk.jobs /\ disk'.incidents = disk.incidents
    BY <1>1, <1>8 DEF NicHoldExpires, TypeOK, Database
  <2> QED
    BY <2>1, ScheduledFrame
<1>9. ASSUME NEW i \in Incident, ForgetIncident(i) PROVE Scheduled(disk)' /\ Scheduled(work)'
  <2>1. ASSUME NEW d \in Database, Scheduled(d)
        PROVE  Scheduled([d EXCEPT !.incidents[i] = "none", !.jobs[i] = {}])
    BY <2>1 DEF Database, Scheduled
  <2> QED
    BY <1>1, <1>9, <2>1 DEF ForgetIncident, TypeOK
<1>10. CASE Start
  <2>1. disk'.jobs = disk.jobs /\ disk'.incidents = disk.incidents /\ work' = disk'
    BY <1>1, <1>10 DEF Start, TypeOK, Database
  <2> QED
    BY <2>1, ScheduledFrame
<1>11. CASE Failure
  <2>1. CASE WriteFails \/ \E power \in BOOLEAN : Crash(power)
    BY <2>1 DEF WriteFails, Crash
  <2>2. CASE FatalError \/ StopService
    BY <1>6, <2>2 DEF FatalError, StopService, LeaveRun
  <2> QED
    BY <1>11, <2>1, <2>2 DEF Failure
<1>12. CASE Commit
  BY <1>6, <1>12 DEF Commit
<1>13. CASE \/ MakeDirectory \/ ReadNetwork \/ ExportPreFault \/ WriteSummary \/ PublishStatus
            \/ TakeRow \/ RewriteSummary \/ EnterLoop \/ \E i \in Incident : RemoveEvidence(i)
  BY <1>2, <1>13
     DEF MakeDirectory, ReadNetwork, ExportPreFault, WriteSummary, PublishStatus,
         TakeRow, RewriteSummary, EnterLoop, RemoveEvidence
<1>14. CASE UNCHANGED vars
  BY <1>2, <1>14 DEF vars
<1> QED
  BY <1>3, <1>4, <1>5, <1>7, <1>8, <1>9, <1>10, <1>11, <1>12, <1>13, <1>14
     DEF Next, CalmStep, ProcessStep, Maintenance, Restart

-----------------------------------------------------------------------------
(* Events. *)

\* Told looks at three entries of an engine state and at three counters.
LEMMA ToldFrame ==
  ASSUME NEW e, NEW d, NEW g, NEW b, Told(e, d),
         g.stable = e.stable, g.nicActive = e.nicActive, g.active = e.active,
         b.net = d.net, b.nicNet = d.nicNet, b.incNet = d.incNet
  PROVE  Told(g, b)
  BY DEF Told

\* An event is written exactly when the confirmed state of its field enters or
\* leaves "down".
LEMMA FieldEventTold ==
  ASSUME TypeOK, NEW f \in Fields, NEW v \in Value, NEW n \in Int,
         n = IF s.stable[f] = "down" THEN 1 ELSE 0
  PROVE  n + FieldEvent(f, v) = IF NextStable(f, v) = "down" THEN 1 ELSE 0
<1>1. s.stable[f] \in {"up", "down", "unknown"}
  BY DEF TypeOK, EngineState, Verdict, Value
<1>2. v = "up" \/ v = "down"
  BY DEF Value
<1>3. NextStable(f, v) = v \/ NextStable(f, v) = s.stable[f]
  BY DEF NextStable
<1>4. s.stable[f] = "unknown" /\ v = "up" => NextStable(f, v) = "up"
  BY DEF NextStable
<1> QED
  BY <1>1, <1>2, <1>3, <1>4 DEF FieldEvent

LEMMA EventsStep ==
  ASSUME ReloadMayFail = FALSE, IInv, Told(disk.engine, disk), Told(s, work), [Next]_vars
  PROVE  Told(disk.engine, disk)' /\ Told(s, work)'
<1> DEFINE Goal == Told(disk.engine, disk)' /\ Told(s, work)'
<1>1. TypeOK /\ Located /\ Transaction
  BY DEF IInv
<1>2. ASSUME disk' = disk, work' = work, s' = s PROVE Goal
  BY <1>2
<1>3. ASSUME NEW p \in Probe, StartRound(p) PROVE Goal
  <2>1. /\ s'.stable = [f \in Fields |-> NextStable(f, p[f])]
        /\ s'.nicActive = s.nicActive /\ s'.active = s.active
    BY <1>1, <1>3 DEF StartRound, Debounced, TypeOK, EngineState
  <2>2. /\ work'.net = [f \in Fields |-> work.net[f] + FieldEvent(f, p[f])]
        /\ work'.nicNet = work.nicNet /\ work'.incNet = work.incNet
    BY <1>1, <1>3 DEF StartRound, TypeOK, Database
  <2>3. ASSUME NEW f \in Fields
        PROVE  work'.net[f] = IF s'.stable[f] = "down" THEN 1 ELSE 0
    <3>1. p[f] \in Value /\ work.net[f] \in Int
      BY <1>1 DEF Probe, TypeOK, Database
    <3>2. work.net[f] = IF s.stable[f] = "down" THEN 1 ELSE 0
      BY DEF Told
    <3>3. work.net[f] + FieldEvent(f, p[f]) = IF NextStable(f, p[f]) = "down" THEN 1 ELSE 0
      BY <1>1, <3>1, <3>2, FieldEventTold
    <3> QED
      BY <2>1, <2>2, <3>3
  <2>4. Told(s', work')
    BY <2>1, <2>2, <2>3 DEF Told
  <2> QED
    BY <1>3, <2>4 DEF StartRound
<1>4. CASE InsertIncident
  <2>1. /\ s'.stable = s.stable /\ s'.nicActive = s.nicActive /\ s'.active = cur.ident
        /\ work'.net = work.net /\ work'.nicNet = work.nicNet /\ work'.incNet = work.incNet + 1
    BY <1>1, <1>4 DEF InsertIncident, TypeOK, Database, EngineState
  <2>2. s.active = NoIncident /\ cur.ident # NoIncident
    BY <1>1, <1>4, IncidentAssumption DEF InsertIncident, Located
  <2>3. Told(s', work')
    BY <2>1, <2>2 DEF Told
  <2> QED
    BY <1>4, <2>3 DEF InsertIncident
<1>5. CASE CloseIncident
  <2>1. /\ s'.stable = s.stable /\ s'.nicActive = s.nicActive /\ s'.active = NoIncident
        /\ work'.net = work.net /\ work'.nicNet = work.nicNet /\ work'.incNet = work.incNet - 1
    BY <1>1, <1>5 DEF CloseIncident, ClosedTables, ClosedEngine, TypeOK, Database, EngineState
  <2>2. s.active # NoIncident
    BY <1>1, <1>5, IncidentAssumption DEF CloseIncident, Located
  <2>3. Told(s', work')
    BY <2>1, <2>2 DEF Told
  <2> QED
    BY <1>5, <2>3 DEF CloseIncident
<1>6. ASSUME disk' = Saved(s), work' = Saved(s), s' = s PROVE Goal
  <2>1. Told(s, Saved(s)) /\ Saved(s).engine = s
    BY <1>1, SavedFrame, ToldFrame
  <2> QED
    BY <1>6, <2>1
<1>7. ASSUME NEW delta \in BOOLEAN, CollectHost(delta) PROVE Goal
  <2>1. s'.stable = s.stable /\ s'.active = s.active /\ s'.nicActive \in BOOLEAN
    BY <1>1, <1>7 DEF CollectHost, TypeOK, EngineState
  <2>2. /\ work'.net = work.net /\ work'.incNet = work.incNet /\ disk' = work'
        /\ disk'.engine = s'
        /\ work'.nicNet = IF s'.nicActive = s.nicActive THEN work.nicNet
                          ELSE IF s'.nicActive THEN work.nicNet + 1 ELSE work.nicNet - 1
    BY <1>1, <1>7 DEF CollectHost, Saved, TypeOK, Database
  <2>3. s.nicActive \in BOOLEAN
    BY <1>1 DEF TypeOK, EngineState
  <2>4. Told(s', work')
    BY <2>1, <2>2, <2>3 DEF Told
  <2> QED
    BY <2>2, <2>4
<1>8. CASE NicHoldExpires
  <2>1. /\ s'.stable = s.stable /\ s'.nicActive = s.nicActive /\ s'.active = s.active
        /\ work'.net = work.net /\ work'.nicNet = work.nicNet /\ work'.incNet = work.incNet
    BY <1>1, <1>8 DEF NicHoldExpires, TypeOK, Database, EngineState
  <2>2. /\ disk'.engine.stable = disk.engine.stable
        /\ disk'.engine.nicActive = disk.engine.nicActive
        /\ disk'.engine.active = disk.engine.active
        /\ disk'.net = disk.net /\ disk'.nicNet = disk.nicNet /\ disk'.incNet = disk.incNet
    BY <1>1, <1>8 DEF NicHoldExpires, TypeOK, Database, EngineState
  <2> QED
    BY <2>1, <2>2, ToldFrame
<1>9. ASSUME NEW i \in Incident, ForgetIncident(i) PROVE Goal
  <2>1. /\ s' = s /\ disk'.engine = disk.engine
        /\ work'.net = work.net /\ work'.nicNet = work.nicNet /\ work'.incNet = work.incNet
        /\ disk'.net = disk.net /\ disk'.nicNet = disk.nicNet /\ disk'.incNet = disk.incNet
    BY <1>1, <1>9 DEF ForgetIncident, TypeOK, Database
  <2> QED
    BY <2>1, ToldFrame
<1>10. CASE Start
  <2>1. /\ s'.stable = disk.engine.stable /\ s'.nicActive = disk.engine.nicActive
        /\ s'.active = disk.engine.active
    BY <1>1, <1>10 DEF Start, Booted, TypeOK, Database, EngineState
  <2>2. /\ disk'.engine = s' /\ work' = disk'
        /\ disk'.net = disk.net /\ disk'.nicNet = disk.nicNet /\ disk'.incNet = disk.incNet
    BY <1>1, <1>10 DEF Start, TypeOK, Database
  <2> QED
    BY <2>1, <2>2, ToldFrame
<1>11. CASE Failure
  <2>1. CASE WriteFails \/ \E power \in BOOLEAN : Crash(power)
    <3>1. s' = disk.engine /\ work' = disk /\ disk' = disk
      BY <2>1 DEF WriteFails, Crash
    <3> QED
      BY <3>1
  <2>2. CASE FatalError \/ StopService
    BY <1>6, <2>2 DEF FatalError, StopService, LeaveRun
  <2> QED
    BY <1>11, <2>1, <2>2 DEF Failure
<1>12. CASE Commit
  BY <1>6, <1>12 DEF Commit
<1>13. CASE \/ MakeDirectory \/ ReadNetwork \/ ExportPreFault \/ WriteSummary \/ PublishStatus
            \/ TakeRow \/ RewriteSummary \/ EnterLoop \/ \E i \in Incident : RemoveEvidence(i)
  BY <1>2, <1>13
     DEF MakeDirectory, ReadNetwork, ExportPreFault, WriteSummary, PublishStatus,
         TakeRow, RewriteSummary, EnterLoop, RemoveEvidence
<1>14. CASE UNCHANGED vars
  BY <1>2, <1>14 DEF vars
<1> QED
  BY <1>3, <1>4, <1>5, <1>7, <1>8, <1>9, <1>10, <1>11, <1>12, <1>13, <1>14
     DEF Next, CalmStep, ProcessStep, Maintenance, Restart

-----------------------------------------------------------------------------
(* summary.json and the served status. *)

SInv == Remembered /\ SummariesPlaced /\ SummaryNeverAhead

\* A step that leaves directories, summaries and the incident table alone, and
\* does not get to write a summary, keeps SInv.
LEMMA SummaryFrame ==
  ASSUME SInv, disk'.incidents = disk.incidents, Remembered', pc' # "summary",
         \A i \in Incident : /\ files'[i].dir = files[i].dir
                             /\ files'[i].summary = files[i].summary,
         \/ pc' \notin Uncommitted
         \/ cur'.ident \notin Incident
         \/ pc \in Uncommitted /\ cur'.ident = cur.ident
  PROVE  SInv'
  BY DEF SInv, SummariesPlaced, SummaryNeverAhead

\* An open incident has the directory its summary will be written to.
LEMMA CommitSummary ==
  ASSUME IInv, IInv', SInv, Commit
  PROVE  SInv'
<1>1. TypeOK /\ Transaction /\ OneOpenIncident /\ EvidenceBeforeIncident /\ OneOpenIncident'
      /\ EvidenceBeforeIncident' /\ Located'
  BY DEF IInv
<1>2. /\ disk'.incidents = work.incidents /\ disk'.engine.active = s.active /\ s' = s
      /\ files' = files /\ cur' = cur /\ status' = status /\ pc' \in {"summary", "publish"}
  BY <1>1, SavedTables DEF Commit
<1>3. \A i \in Incident : disk.incidents[i] # "none" => disk'.incidents[i] # "none"
  BY <1>1, <1>2, LedgerTypes DEF Commit, Transaction, Untouched, Opening, Closing
<1>4. ASSUME NEW i \in Incident, files[i].summary = "recovered"
      PROVE  disk'.incidents[i] # "open"
  <2>1. disk.incidents[i] # "open"
    BY <1>4 DEF SInv, SummaryNeverAhead
  <2>2. cur.ident \in Incident => i # cur.ident
    BY <1>4 DEF SInv, SummariesPlaced, Commit, Uncommitted
  <2> QED
    BY <1>1, <1>2, <2>1, <2>2, LedgerTypes
       DEF Commit, Transaction, Untouched, Opening, Closing
<1>5. SummaryNeverAhead'
  BY <1>2, <1>3, <1>4 DEF SInv, SummaryNeverAhead
<1>6. pc' = "summary" => files'[SummaryOf'].dir
  <2> SUFFICES ASSUME pc' = "summary" PROVE files'[SummaryOf'].dir
    OBVIOUS
  <2>1. SummaryOf' \in Incident /\ SummaryOf' = IF s.active # NoIncident THEN s.active ELSE cur.was
    BY <1>1, <1>2 DEF Located, SummaryOf
  <2>2. CASE s.active # NoIncident
    BY <1>1, <1>2, <2>1, <2>2 DEF OneOpenIncident, EvidenceBeforeIncident
  <2>3. CASE s.active = NoIncident
    <3>1. cur.was \in Incident /\ cur.was = disk.engine.active
      BY <2>1, <2>3 DEF SInv, Remembered, Uncommitted, Commit
    <3>2. disk.incidents[cur.was] = "open"
      BY <1>1, <3>1 DEF OneOpenIncident
    <3>3. files[cur.was].dir
      BY <1>1, <3>1, <3>2 DEF EvidenceBeforeIncident
    <3> QED
      BY <1>2, <2>1, <2>3, <3>3
  <2> QED
    BY <2>2, <2>3
<1> QED
  BY <1>2, <1>5, <1>6 DEF SInv, Remembered, Uncommitted, SummariesPlaced

LEMMA SummariesStep ==
  ASSUME ReloadMayFail = FALSE, IInv, IInv', SInv, Reconciling, [Next]_vars
  PROVE  SInv'
<1>1. TypeOK /\ Located /\ Transaction /\ OneOpenIncident /\ EvidenceBeforeIncident
  BY DEF IInv
<1> USE DEF Uncommitted
<1>2. ASSUME NEW p \in Probe, StartRound(p) PROVE SInv'
  <2>1. cur'.was = disk.engine.active /\ pc' # "summary" /\ disk' = disk
    BY <1>1, <1>2 DEF StartRound, Transaction, Untouched, NoLocals
  <2>2. cur'.ident \notin Incident
    BY <1>2, IncidentAssumption DEF StartRound, NoLocals
  <2> QED
    BY <1>2, <2>1, <2>2, SummaryFrame DEF StartRound, Remembered
<1>3. CASE MakeDirectory
  <2>1. PICK i \in Fresh : files' = [files EXCEPT ![i].dir = TRUE] /\ cur' = [cur EXCEPT !.ident = i]
    BY <1>3 DEF MakeDirectory
  <2>2. \A j \in Incident : /\ files'[j].summary = files[j].summary
                            /\ files[j].dir => files'[j].dir
    BY <1>1, <2>1 DEF TypeOK, Directory, Fresh
  <2>3. cur'.was = cur.was /\ cur'.ident = i
    BY <1>1, <2>1 DEF TypeOK, Locals
  <2>4. files[i].summary = "none"
    BY DEF Fresh, SInv, SummariesPlaced
  <2> QED
    BY <1>3, <2>2, <2>3, <2>4
       DEF MakeDirectory, Fresh, SInv, Remembered, SummariesPlaced, SummaryNeverAhead
<1>4. CASE ReadNetwork \/ InsertIncident \/ CloseIncident
  <2>1. disk' = disk /\ files' = files /\ cur' = cur /\ status' = status /\ pc' # "summary"
        /\ pc \in Uncommitted
    BY <1>4 DEF ReadNetwork, InsertIncident, CloseIncident
  <2> QED
    BY <2>1, SummaryFrame DEF SInv, Remembered
<1>5. CASE ExportPreFault
  <2>1. /\ disk' = disk /\ cur' = cur /\ status' = status /\ pc' # "summary"
        /\ pc \in Uncommitted
    BY <1>5 DEF ExportPreFault
  <2>2. \A i \in Incident : files'[i].dir = files[i].dir /\ files'[i].summary = files[i].summary
    BY <1>1, <1>5 DEF ExportPreFault, TypeOK, Directory
  <2> QED
    BY <2>1, <2>2, SummaryFrame DEF SInv, Remembered
<1>6. CASE Commit
  BY <1>6, CommitSummary
<1>7. CASE WriteSummary
  <2>1. SummaryOf \in Incident /\ work.incidents = disk.incidents
    BY <1>1, <1>7 DEF WriteSummary, Located, Transaction, Untouched
  <2>2. files' = [files EXCEPT ![SummaryOf].summary = disk.incidents[SummaryOf]]
    BY <1>7, <2>1 DEF WriteSummary
  <2>3. /\ files'[SummaryOf].summary = disk.incidents[SummaryOf]
        /\ files'[SummaryOf].dir = files[SummaryOf].dir
        /\ \A i \in Incident \ {SummaryOf} : files'[i] = files[i]
    BY <1>1, <2>1, <2>2 DEF TypeOK, Directory
  <2>4. files[SummaryOf].dir
    BY <1>7 DEF WriteSummary, SInv, SummariesPlaced
  <2>5. SummariesPlaced' /\ SummaryNeverAhead'
    BY <1>7, <2>1, <2>3, <2>4 DEF WriteSummary, SInv, SummariesPlaced, SummaryNeverAhead
  <2> QED
    BY <1>7, <2>5 DEF WriteSummary, SInv, Remembered
<1>8. CASE PublishStatus
  BY <1>8, SummaryFrame DEF PublishStatus, Remembered
<1>9. ASSUME NEW delta \in BOOLEAN, CollectHost(delta) PROVE SInv'
  <2>1. disk'.incidents = disk.incidents
    BY <1>1, <1>9 DEF CollectHost, Saved, Transaction, Untouched, TypeOK, Database
  <2> QED
    BY <1>9, <2>1, SummaryFrame DEF CollectHost, Remembered
<1>10. CASE NicHoldExpires
  <2>1. disk'.incidents = disk.incidents
    BY <1>1, <1>10 DEF NicHoldExpires, TypeOK, Database
  <2> QED
    BY <1>10, <2>1, SummaryFrame DEF NicHoldExpires, Remembered
<1>11. ASSUME NEW i \in Incident, RemoveEvidence(i) PROVE SInv'
  <2>1. PICK d \in {EmptyDirectory, NoDirectory} : files' = [files EXCEPT ![i] = d]
    BY <1>11 DEF RemoveEvidence
  <2>2. files'[i].summary = "none" /\ \A j \in Incident \ {i} : files'[j] = files[j]
    BY <1>1, <2>1 DEF EmptyDirectory, NoDirectory, TypeOK
  <2>3. pc = "summary" => SummaryOf # i
    BY <1>1, <1>11
       DEF RemoveEvidence, Aged, SummaryOf, Transaction, Untouched, OneOpenIncident
  <2>4. SummaryOf' = SummaryOf /\ (pc = "summary" => SummaryOf \in Incident)
    BY <1>1, <1>11 DEF RemoveEvidence, SummaryOf, Located
  <2> QED
    BY <1>11, <2>2, <2>3, <2>4
       DEF RemoveEvidence, SInv, Remembered, SummariesPlaced, SummaryNeverAhead
<1>12. ASSUME NEW i \in Incident, ForgetIncident(i) PROVE SInv'
  <2>1. /\ disk'.incidents = [disk.incidents EXCEPT ![i] = "none"]
        /\ disk'.engine = disk.engine
    BY <1>1, <1>12 DEF ForgetIncident, TypeOK, Database
  <2>2. files[i].summary = "none"
    BY <1>12 DEF ForgetIncident, SInv, SummariesPlaced
  <2>3. SummaryNeverAhead'
    BY <1>1, <1>12, <2>1, <2>2, LedgerTypes DEF ForgetIncident, SInv, SummaryNeverAhead
  <2> QED
    BY <1>12, <2>1, <2>3 DEF ForgetIncident, SInv, Remembered, SummariesPlaced, SummaryOf
<1>13. CASE Start
  <2>1. disk'.incidents = disk.incidents
    BY <1>1, <1>13 DEF Start, TypeOK, Database
  <2> QED
    BY <1>13, <2>1, SummaryFrame DEF Start, Remembered
<1>14. CASE TakeRow
  BY <1>14, SummaryFrame DEF TakeRow, Remembered
<1>15. CASE RewriteSummary
  <2> DEFINE i == cur.ident
  <2>1. i \in Incident
    BY <1>1, <1>15 DEF RewriteSummary, Located
  <2>2. /\ files'[i].summary = cur.rows[i] /\ files'[i].dir
        /\ \A j \in Incident \ {i} : files'[j] = files[j]
    BY <1>1, <1>15, <2>1 DEF RewriteSummary, TypeOK, Directory
  <2>3. /\ cur.rows[i] # "none" /\ disk.incidents[i] \in {cur.rows[i], "none"}
        /\ cur.rows[i] = "open" => disk.incidents[i] = "open"
    BY <1>15, <2>1 DEF RewriteSummary, Reconciling, InStartUp
  <2> QED
    BY <1>15, <2>1, <2>2, <2>3
       DEF RewriteSummary, SInv, Remembered, SummariesPlaced, SummaryNeverAhead
<1>16. CASE EnterLoop
  BY <1>16, SummaryFrame DEF EnterLoop, Remembered
<1>17. CASE WriteFails \/ \E power \in BOOLEAN : Crash(power)
  BY <1>17, SummaryFrame DEF WriteFails, Crash, Remembered
<1>18. CASE FatalError \/ StopService
  <2>1. LeaveRun /\ Untouched
    BY <1>1, <1>18 DEF FatalError, StopService, Transaction
  <2>2. disk'.incidents = disk.incidents
    BY <1>1, <2>1, SavedTables DEF LeaveRun, Untouched
  <2> QED
    BY <2>1, <2>2, SummaryFrame DEF LeaveRun, Remembered
<1>19. CASE UNCHANGED vars
  BY <1>19
     DEF vars, SInv, Remembered, SummariesPlaced, SummaryNeverAhead, SummaryOf
<1> QED
  BY <1>2, <1>3, <1>4, <1>5, <1>6, <1>7, <1>8, <1>9, <1>10, <1>11, <1>12, <1>13, <1>14, <1>15,
     <1>16, <1>17, <1>18, <1>19
     DEF Next, CalmStep, ProcessStep, Maintenance, Restart, Failure

\* Start-up deals with every fetched row, and maintenance() beside it can only
\* take incidents away.
LEMMA ReconcilingStep ==
  ASSUME IInv, SInv, Reconciling, [Next]_vars
  PROVE  Reconciling'
<1> SUFFICES ASSUME pc' \in InStartUp PROVE Reconciling'
  BY DEF Reconciling
<1> USE DEF InStartUp
<1>1. TypeOK /\ Located /\ EvidenceBeforeIncident
  BY DEF IInv
<1>2. CASE Start
  BY <1>1, <1>2, LedgerTypes
     DEF Start, Fetched, NoLocals, NoRows, Reconciling, Healed, Phase, TypeOK, Database
<1>3. CASE TakeRow
  <2>1. PICK i \in Incident : /\ cur.rows[i] # "none"
                              /\ \/ /\ files[i].dir /\ pc' = "rewrite"
                                    /\ cur' = [cur EXCEPT !.ident = i]
                                 \/ /\ ~files[i].dir /\ pc' = "reconcile"
                                    /\ cur' = [cur EXCEPT !.rows[i] = "none"]
    BY <1>3 DEF TakeRow
  <2>2. CASE pc' = "rewrite"
    <3>1. cur'.rows = cur.rows /\ cur'.ident = i
      BY <1>1, <2>1, <2>2 DEF TypeOK, Locals
    <3> QED
      BY <1>3, <2>1, <2>2, <3>1 DEF TakeRow, Reconciling, Healed
  <2>3. CASE pc' = "reconcile"
    <3>1. cur'.rows = [cur.rows EXCEPT ![i] = "none"] /\ cur.rows \in [Incident -> Phase]
      BY <1>1, <2>1, <2>3 DEF TypeOK, Locals
    <3>2. Healed(i)
      BY <1>1, <2>1, <2>3 DEF EvidenceBeforeIncident, SInv, SummariesPlaced, Healed
    <3> QED
      BY <1>3, <2>3, <3>1, <3>2 DEF TakeRow, Reconciling, Healed
  <2> QED
    BY <2>1, <2>2, <2>3
<1>4. CASE RewriteSummary
  <2>1. PICK i \in Incident : i = cur.ident /\ cur.rows \in [Incident -> Phase]
    BY <1>1, <1>4 DEF RewriteSummary, Located, TypeOK, Locals
  <2>2. /\ files'[i].summary = cur.rows[i]
        /\ \A j \in Incident \ {i} : files'[j] = files[j]
    BY <1>1, <1>4, <2>1 DEF RewriteSummary, TypeOK, Directory
  <2>3. cur'.rows = [cur.rows EXCEPT ![i] = "none"]
    BY <1>1, <1>4, <2>1 DEF RewriteSummary, TypeOK, Locals
  <2>4. /\ cur.rows[i] # "none" /\ disk.incidents[i] \in {cur.rows[i], "none"}
        /\ cur.rows[i] = "open" => disk.incidents[i] = "open"
    BY <1>4, <2>1 DEF RewriteSummary, Reconciling
  <2>5. disk' = disk /\ pc' = "reconcile" /\ pc \in InStartUp
    BY <1>4 DEF RewriteSummary
  <2>6. Healed(i)'
    BY <2>2, <2>4, <2>5 DEF Healed
  <2> QED
    BY <2>1, <2>2, <2>3, <2>5, <2>6 DEF Reconciling, Healed
<1>5. ASSUME NEW i \in Incident, RemoveEvidence(i) PROVE Reconciling'
  <2>1. PICK d \in {EmptyDirectory, NoDirectory} : files' = [files EXCEPT ![i] = d]
    BY <1>5 DEF RemoveEvidence
  <2>2. files'[i].summary = "none" /\ \A j \in Incident \ {i} : files'[j] = files[j]
    BY <1>1, <2>1 DEF EmptyDirectory, NoDirectory, TypeOK
  <2>3. /\ disk' = disk /\ pc' = pc /\ cur' = cur /\ disk.incidents[i] = "recovered"
    BY <1>5 DEF RemoveEvidence, Aged
  <2> QED
    BY <2>2, <2>3 DEF Reconciling, Healed
<1>6. ASSUME NEW i \in Incident, ForgetIncident(i) PROVE Reconciling'
  <2>1. /\ disk'.incidents = [disk.incidents EXCEPT ![i] = "none"]
        /\ disk.incidents \in [Incident -> Phase]
    BY <1>1, <1>6 DEF ForgetIncident, TypeOK, Database
  <2>2. files' = files /\ pc' = pc /\ cur' = cur /\ disk.incidents[i] = "recovered"
    BY <1>6 DEF ForgetIncident, Aged
  <2> QED
    BY <2>1, <2>2 DEF Reconciling, Healed
<1>7. CASE UNCHANGED vars
  BY <1>7 DEF vars, Reconciling, Healed
<1>8. \A p \in Probe : ~StartRound(p)
  BY DEF StartRound
<1>9. ~ProcessStep
  BY DEF ProcessStep, MakeDirectory, ReadNetwork, InsertIncident, ExportPreFault,
         CloseIncident, Commit, WriteSummary, PublishStatus
<1>10. ~(\E delta \in BOOLEAN : CollectHost(delta)) /\ ~NicHoldExpires /\ ~EnterLoop /\ ~Failure
  BY DEF CollectHost, NicHoldExpires, EnterLoop,
         Failure, WriteFails, FatalError, StopService, LeaveRun, Crash
<1> QED
  BY <1>2, <1>3, <1>4, <1>5, <1>6, <1>7, <1>8, <1>9, <1>10
     DEF Next, CalmStep, Maintenance, Restart

-----------------------------------------------------------------------------
(* The debounce: counters and the metrics table. *)

\* Fewer rounds are behind whatever more rounds are behind.
LEMMA TrailingMonotone ==
  ASSUME NEW t \in Seq(Round), NEW S, NEW n \in Nat, NEW m \in Nat, m <= n, Trailing(t, n, S)
  PROVE  Trailing(t, m, S)
<1>1. Len(t) \in Nat
  OBVIOUS
<1> QED
  BY <1>1 DEF Trailing

\* No round at all is behind nothing.
LEMMA TrailingNone ==
  ASSUME NEW t \in Seq(Round), NEW S
  PROVE  Trailing(t, 0, S)
<1>1. Len(t) \in Nat
  OBVIOUS
<1> QED
  BY <1>1 DEF Trailing

\* A round recorded in the table lengthens the run it continues, up to what the
\* table is kept for.
LEMMA RecordTrailing ==
  ASSUME NEW t \in Seq(Round), NEW S, NEW r \in Round, r \in S,
         NEW m \in 1..TailLength, Trailing(t, m - 1, S)
  PROVE  Trailing(Record(t, r), m, S)
<1> DEFINE u == Append(t, r)
<1>1. /\ u \in Seq(Round) /\ Len(t) \in Nat /\ Len(u) = Len(t) + 1
      /\ u[Len(u)] = r /\ \A k \in 1..Len(t) : u[k] = t[k]
  OBVIOUS
<1>2. TailLength \in Nat
  BY ThresholdAssumption DEF TailLength
<1>3. Trailing(u, m, S)
  BY <1>1, <1>2 DEF Trailing
<1>4. CASE Len(u) <= TailLength
  BY <1>1, <1>2, <1>3, <1>4 DEF Record
<1>5. CASE Len(u) > TailLength
  <2>1. u # << >>
    BY <1>1
  <2>2. /\ Len(Tail(u)) = Len(u) - 1
        /\ \A k \in 1..Len(u) - 1 : Tail(u)[k] = u[k + 1]
    BY <1>1, <2>1
  <2>3. Len(Tail(u)) >= m
    BY <1>1, <1>2, <1>5, <2>2
  <2>4. ASSUME NEW k \in (Len(Tail(u)) - m + 1)..Len(Tail(u)) PROVE Tail(u)[k] \in S
    <3>1. k \in 1..Len(u) - 1 /\ k + 1 \in (Len(u) - m + 1)..Len(u)
      BY <1>1, <2>2, <2>3
    <3> QED
      BY <1>3, <2>2, <3>1 DEF Trailing
  <2>5. Record(t, r) = Tail(u)
    BY <1>1, <1>2, <1>5 DEF Record
  <2> QED
    BY <2>3, <2>4, <2>5 DEF Trailing
<1> QED
  BY <1>1, <1>2, <1>4, <1>5

\* A counter that a round advances, or restarts at one, still counts rounds.
LEMMA CountedUp ==
  ASSUME NEW t \in Seq(Round), NEW S, NEW r \in Round, r \in S,
         NEW n \in Nat, NEW q \in Nat, q <= n + 1, Counted(n, t, S)
  PROVE  Counted(q, Record(t, r), S)
<1>1. TailLength \in Nat
  BY ThresholdAssumption DEF TailLength
<1> SUFFICES ASSUME NEW m \in 0..TailLength, m <= q PROVE Trailing(Record(t, r), m, S)
  BY DEF Counted
<1>2. CASE m = 0
  BY <1>2, RecordType, TrailingNone
<1>3. CASE m # 0
  <2>1. m - 1 \in 0..TailLength /\ m - 1 <= n /\ m \in 1..TailLength
    BY <1>1, <1>3
  <2>2. Trailing(t, m - 1, S)
    BY <2>1 DEF Counted
  <2> QED
    BY <2>1, <2>2, RecordTrailing
<1> QED
  BY <1>2, <1>3

\* A counter at zero counts nothing, a counter at one the round just recorded.
LEMMA CountedZero ==
  ASSUME NEW t \in Seq(Round), NEW S
  PROVE  Counted(0, t, S)
<1>1. TailLength \in Nat
  BY ThresholdAssumption DEF TailLength
<1> QED
  BY <1>1, TrailingNone DEF Counted

LEMMA CountedOne ==
  ASSUME NEW t \in Seq(Round), NEW S, NEW r \in Round, r \in S
  PROVE  Counted(1, Record(t, r), S)
  BY CountedZero, CountedUp

\* A counter that has reached a threshold has that many rounds behind it.
LEMMA CountedReaches ==
  ASSUME NEW t \in Seq(Round), NEW S, NEW n \in Nat, NEW m \in 0..TailLength, m <= n,
         Counted(n, t, S)
  PROVE  Trailing(t, m, S)
  BY DEF Counted

\* Bump never advances a counter by more than one.
LEMMA BumpAtMostOne == \A n \in 0..CountCap : Bump(n) \in 0..CountCap /\ Bump(n) <= n + 1
  BY CapAssumption, BumpType DEF Bump

\* The thresholds are within what the metrics table is kept for.
LEMMA Thresholds ==
  /\ FailureThreshold \in 0..TailLength /\ RecoveryThreshold \in 0..TailLength
  /\ \A v \in Value : Threshold(v) \in 0..TailLength
  BY ThresholdAssumption DEF TailLength, Threshold, Value

\* One debounce round advances the counters and the metrics table together.
LEMMA StartRoundCounters ==
  ASSUME TypeOK, NEW p \in Probe, StartRound(p), Counters(s, work.tail)
  PROVE  Counters(s', work'.tail)
<1> DEFINE r == [probe |-> p, bad |-> Bad(p)]
<1>1. r \in Round /\ r.probe = p /\ r.bad = Bad(p) /\ Bad(p) \in BOOLEAN
  BY DEF Round, Bad, TypeOK, EngineState
<1>2. work.tail \in Seq(Round) /\ work'.tail = Record(work.tail, r)
  BY DEF StartRound, TypeOK, Database
<1>3. /\ s'.bad = IF Bad(p) THEN Bump(s.bad) ELSE 0
      /\ s'.good = IF Bad(p) THEN 0 ELSE Bump(s.good)
      /\ \A f \in Fields : s'.counts[f] = NextCount(s.counts[f], p[f])
  BY DEF StartRound, Debounced, TypeOK, EngineState
<1>4. /\ s.bad \in 0..CountCap /\ s.good \in 0..CountCap
      /\ \A f \in Fields : s.counts[f].n \in 0..CountCap /\ s.counts[f].value \in Value
  BY DEF TypeOK, EngineState
<1>5. \A n \in 0..CountCap : n \in Nat
  BY CapAssumption
<1>6. Counted(s'.bad, work'.tail, BadRounds)
  <2>1. CASE Bad(p)
    <3>1. r \in BadRounds
      BY <1>1, <2>1 DEF BadRounds
    <3>2. Bump(s.bad) \in Nat /\ Bump(s.bad) <= s.bad + 1 /\ s.bad \in Nat
      BY <1>4, <1>5, BumpAtMostOne
    <3>3. Counted(s.bad, work.tail, BadRounds)
      BY DEF Counters
    <3> QED
      BY <1>1, <1>2, <1>3, <2>1, <3>1, <3>2, <3>3, CountedUp
  <2>2. CASE ~Bad(p)
    BY <1>1, <1>2, <1>3, <2>2, CountedZero, RecordType
  <2> QED
    BY <2>1, <2>2
<1>7. Counted(s'.good, work'.tail, GoodRounds)
  <2>1. CASE ~Bad(p)
    <3>1. r \in GoodRounds
      BY <1>1, <2>1 DEF GoodRounds
    <3>2. Bump(s.good) \in Nat /\ Bump(s.good) <= s.good + 1 /\ s.good \in Nat
      BY <1>4, <1>5, BumpAtMostOne
    <3>3. Counted(s.good, work.tail, GoodRounds)
      BY DEF Counters
    <3> QED
      BY <1>1, <1>2, <1>3, <2>1, <3>1, <3>2, <3>3, CountedUp
  <2>2. CASE Bad(p)
    BY <1>1, <1>2, <1>3, <2>2, CountedZero, RecordType
  <2> QED
    BY <2>1, <2>2
<1>8. ASSUME NEW f \in Fields
      PROVE  Counted(s'.counts[f].n, work'.tail, RoundsWith(f, s'.counts[f].value))
  <2>1. r \in RoundsWith(f, p[f])
    BY <1>1 DEF RoundsWith
  <2>2. /\ s'.counts[f].value = p[f]
        /\ s'.counts[f].n = IF s.counts[f].value = p[f] THEN Bump(s.counts[f].n) ELSE 1
    <3>1. s'.counts[f] = NextCount(s.counts[f], p[f])
      BY <1>3
    <3> QED
      BY <3>1 DEF NextCount
  <2>3. CASE s.counts[f].value = p[f]
    <3>1. s'.counts[f].n = Bump(s.counts[f].n)
      BY <2>2, <2>3
    <3>2. Bump(s.counts[f].n) \in Nat /\ Bump(s.counts[f].n) <= s.counts[f].n + 1
          /\ s.counts[f].n \in Nat
      BY <1>4, <1>5, BumpAtMostOne
    <3>3. Counted(s.counts[f].n, work.tail, RoundsWith(f, p[f]))
      BY <2>3 DEF Counters
    <3> QED
      BY <1>1, <1>2, <2>1, <2>2, <3>1, <3>2, <3>3, CountedUp
  <2>4. CASE s.counts[f].value # p[f]
    <3>1. s'.counts[f].n = 1
      BY <2>2, <2>4
    <3> QED
      BY <1>1, <1>2, <2>1, <2>2, <3>1, CountedOne
  <2> QED
    BY <2>3, <2>4
<1> QED
  BY <1>6, <1>7, <1>8 DEF Counters

LEMMA StartRoundDebounce ==
  ASSUME IInv, IInv', DInv, NEW p \in Probe, StartRound(p)
  PROVE  DInv'
<1>1. TypeOK /\ Transaction /\ TypeOK'
  BY DEF IInv
<1>2. Counters(s', work'.tail)
  BY <1>1, StartRoundCounters DEF DInv
<1>3. /\ disk' = disk /\ s.stable = disk.engine.stable /\ work'.tail \in Seq(Round)
      /\ pc' \in {"mkdir", "close", "commit"}
  BY <1>1 DEF StartRound, DInv, Uncommitted, TypeOK, Database
<1>4. ASSUME NEW f \in Fields, Confirmed(disk'.engine, s', f)
      PROVE  Trailing(work'.tail, Threshold(s'.stable[f]), RoundsWith(f, s'.stable[f]))
  <2>1. /\ s'.stable[f] = NextStable(f, p[f])
        /\ s'.counts[f] = NextCount(s.counts[f], p[f])
    BY <1>1 DEF StartRound, Debounced, TypeOK, EngineState
  <2>2. s'.stable[f] = p[f] /\ s'.counts[f].n >= Threshold(p[f]) /\ s'.counts[f].value = p[f]
    BY <1>3, <1>4, <2>1 DEF Confirmed, NextStable, NextCount
  <2>3. s'.counts[f].n \in Nat
    BY <1>1, CapAssumption DEF TypeOK, EngineState
  <2>4. Counted(s'.counts[f].n, work'.tail, RoundsWith(f, p[f]))
    BY <1>2, <2>2 DEF Counters
  <2>5. Threshold(p[f]) \in 0..TailLength
    BY Thresholds DEF Probe
  <2> QED
    BY <1>3, <2>2, <2>3, <2>4, <2>5, CountedReaches
<1>5. pc' = "mkdir" => Trailing(work'.tail, FailureThreshold, BadRounds)
  <2> SUFFICES ASSUME pc' = "mkdir" PROVE Trailing(work'.tail, FailureThreshold, BadRounds)
    OBVIOUS
  <2>1. s'.bad >= FailureThreshold /\ s'.bad \in Nat
    BY <1>1, CapAssumption DEF StartRound, TypeOK, EngineState
  <2>2. Counted(s'.bad, work'.tail, BadRounds)
    BY <1>2 DEF Counters
  <2> QED
    BY <1>3, <2>1, <2>2, Thresholds, CountedReaches
<1>6. pc' = "close" => Trailing(work'.tail, RecoveryThreshold, GoodRounds)
  <2> SUFFICES ASSUME pc' = "close" PROVE Trailing(work'.tail, RecoveryThreshold, GoodRounds)
    OBVIOUS
  <2>1. s'.good >= RecoveryThreshold /\ s'.good \in Nat
    BY <1>1, CapAssumption DEF StartRound, TypeOK, EngineState
  <2>2. Counted(s'.good, work'.tail, GoodRounds)
    BY <1>2 DEF Counters
  <2> QED
    BY <1>3, <2>1, <2>2, Thresholds, CountedReaches
<1>7. ~Opening' /\ ~Closing'
  <2>1. s'.active = disk'.engine.active /\ cur'.ident = NoIncident
    BY <1>1, <1>3 DEF StartRound, Debounced, Transaction, Untouched, TypeOK, EngineState, NoLocals
  <2> QED
    BY <2>1, IncidentAssumption DEF Opening, Closing
<1> QED
  BY <1>2, <1>3, <1>4, <1>5, <1>6, <1>7 DEF DInv, Uncommitted

\* A step after which memory, connection and disk agree owes no rounds but those
\* of the counters.
LEMMA SettledDebounce ==
  ASSUME TypeOK', s' = disk'.engine, work' = disk', pc' \notin Uncommitted,
         Counters(disk'.engine, disk'.tail)
  PROVE  DInv'
<1>1. pc' \notin {"mkdir", "network", "insert", "export", "close", "commit"}
  BY DEF Uncommitted
<1> QED
  BY <1>1 DEF DInv, Confirmed

\* Counters looks at the four counters only.
LEMMA CountersFrame ==
  ASSUME NEW e, NEW g, NEW t, Counters(e, t),
         g.bad = e.bad, g.good = e.good, g.counts = e.counts
  PROVE  Counters(g, t)
  BY DEF Counters

\* A step that moves no round, no counter and no confirmed state.
LEMMA DebounceFrame ==
  ASSUME DInv, disk'.tail = disk.tail, work'.tail = work.tail,
         s'.stable = s.stable, s'.counts = s.counts, s'.bad = s.bad, s'.good = s.good,
         disk'.engine.stable = disk.engine.stable, disk'.engine.counts = disk.engine.counts,
         disk'.engine.bad = disk.engine.bad, disk'.engine.good = disk.engine.good,
         pc' \notin Uncommitted => s.stable = disk.engine.stable,
         pc' \in {"mkdir", "network", "insert", "export"} \/ (pc' = "commit" /\ Opening')
            => pc \in {"mkdir", "network", "insert", "export"} \/ (pc = "commit" /\ Opening),
         pc' = "close" \/ (pc' = "commit" /\ Closing')
            => pc = "close" \/ (pc = "commit" /\ Closing)
  PROVE  DInv'
<1>1. Counters(disk'.engine, disk'.tail) /\ Counters(s', work'.tail)
  BY CountersFrame DEF DInv
<1>2. \A f \in Fields : Confirmed(disk'.engine, s', f) = Confirmed(disk.engine, s, f)
  BY DEF Confirmed
<1> QED
  BY <1>1, <1>2 DEF DInv

LEMMA ProcessStepDebounce ==
  ASSUME IInv, IInv', DInv, ProcessStep
  PROVE  DInv'
<1>1. TypeOK /\ Located /\ Transaction /\ TypeOK'
  BY DEF IInv
<1> USE DEF Uncommitted
<1>2. CASE MakeDirectory \/ ReadNetwork
  BY <1>2, DebounceFrame DEF MakeDirectory, ReadNetwork
<1>3. CASE InsertIncident
  <2>1. /\ s'.stable = s.stable /\ s'.counts = s.counts /\ s'.bad = s.bad /\ s'.good = s.good
        /\ work'.tail = work.tail
    BY <1>1, <1>3 DEF InsertIncident, TypeOK, Database, EngineState
  <2> QED
    BY <1>3, <2>1, DebounceFrame DEF InsertIncident
<1>4. CASE ExportPreFault
  <2>1. disk' = disk /\ work' = work /\ s' = s /\ pc = "export" /\ pc' \in {"export", "commit"}
    BY <1>4 DEF ExportPreFault
  <2>2. ~Closing'
    BY <1>1, <1>4, <2>1, IncidentAssumption
       DEF ExportPreFault, Transaction, Opening, Closing
  <2> QED
    BY <2>1, <2>2, DebounceFrame
<1>5. CASE CloseIncident
  <2>1. /\ s'.stable = s.stable /\ s'.counts = s.counts /\ s'.bad = s.bad /\ s'.good = s.good
        /\ s'.active = NoIncident /\ work'.tail = work.tail
    BY <1>1, <1>5 DEF CloseIncident, ClosedTables, ClosedEngine, TypeOK, Database, EngineState
  <2>2. ~Opening'
    BY <2>1, IncidentAssumption DEF Opening
  <2> QED
    BY <1>5, <2>1, <2>2, DebounceFrame DEF CloseIncident
<1>6. CASE Commit
  <2>1. disk'.engine = s /\ disk'.tail = work.tail /\ work' = disk' /\ s' = s
    BY <1>1, <1>6, SavedFrame DEF Commit
  <2>2. pc' \notin Uncommitted
    BY <1>6 DEF Commit
  <2> QED
    BY <1>1, <2>1, <2>2, SettledDebounce DEF DInv
<1>7. CASE WriteSummary \/ PublishStatus
  BY <1>7, DebounceFrame DEF WriteSummary, PublishStatus, DInv
<1> QED
  BY <1>2, <1>3, <1>4, <1>5, <1>6, <1>7 DEF ProcessStep

LEMMA DebounceStep ==
  ASSUME ReloadMayFail = FALSE, IInv, IInv', DInv, [Next]_vars
  PROVE  DInv'
<1>1. TypeOK /\ Located /\ Transaction /\ TypeOK'
  BY DEF IInv
<1> USE DEF Uncommitted
<1>2. ASSUME NEW delta \in BOOLEAN, CollectHost(delta) PROVE DInv'
  <2>1. s'.counts = s.counts /\ s'.bad = s.bad /\ s'.good = s.good
    BY <1>1, <1>2 DEF CollectHost, TypeOK, EngineState
  <2>2. disk'.engine = s' /\ disk'.tail = work.tail /\ work' = disk' /\ pc' \notin Uncommitted
    BY <1>1, <1>2 DEF CollectHost, Saved, TypeOK, Database
  <2>3. Counters(disk'.engine, disk'.tail)
    BY <2>1, <2>2, CountersFrame DEF DInv
  <2> QED
    BY <1>1, <2>2, <2>3, SettledDebounce
<1>3. CASE NicHoldExpires
  <2>1. /\ s'.stable = s.stable /\ s'.counts = s.counts /\ s'.bad = s.bad /\ s'.good = s.good
        /\ work'.tail = work.tail /\ disk'.tail = disk.tail
    BY <1>1, <1>3 DEF NicHoldExpires, TypeOK, Database, EngineState
  <2>2. /\ disk'.engine.stable = disk.engine.stable /\ disk'.engine.counts = disk.engine.counts
        /\ disk'.engine.bad = disk.engine.bad /\ disk'.engine.good = disk.engine.good
    BY <1>1, <1>3 DEF NicHoldExpires, TypeOK, Database, EngineState
  <2> QED
    BY <1>3, <2>1, <2>2, DebounceFrame DEF NicHoldExpires, DInv
<1>4. ASSUME NEW i \in Incident, RemoveEvidence(i) PROVE DInv'
  <2>1. disk' = disk /\ work' = work /\ s' = s /\ cur' = cur /\ pc' = pc
    BY <1>4 DEF RemoveEvidence
  <2>2. Opening' = Opening /\ Closing' = Closing
    BY <2>1 DEF Opening, Closing
  <2>3. pc \notin Uncommitted => s.stable = disk.engine.stable
    BY DEF DInv
  <2> QED
    BY <2>1, <2>2, <2>3, DebounceFrame
<1>5. ASSUME NEW i \in Incident, ForgetIncident(i) PROVE DInv'
  <2>1. disk'.tail = disk.tail /\ work'.tail = work.tail /\ disk'.engine = disk.engine
    BY <1>1, <1>5 DEF ForgetIncident, TypeOK, Database
  <2> QED
    BY <1>5, <2>1, DebounceFrame DEF ForgetIncident, InStartUp, DInv
<1>6. CASE Start
  <2>1. disk'.engine = s' /\ work' = disk' /\ pc' \notin Uncommitted
    BY <1>1, <1>6 DEF Start, TypeOK, Database
  <2>2. CASE ~rebooted
    <3>1. disk'.engine = disk.engine /\ disk'.tail = disk.tail
      BY <1>1, <1>6, <2>2 DEF Start, Booted, TypeOK, Database
    <3> QED
      BY <1>1, <2>1, <3>1, SettledDebounce DEF DInv
  <2>3. CASE rebooted
    <3>1. /\ disk'.tail = << >> /\ disk'.engine.bad = 0 /\ disk'.engine.good = 0
          /\ disk'.engine.counts = EmptyEngine.counts
      BY <1>1, <1>6, <2>3 DEF Start, Booted, TypeOK, Database, EngineState
    <3>2. \A f \in Fields : disk'.engine.counts[f].n = 0
      BY <3>1 DEF EmptyEngine
    <3>3. << >> \in Seq(Round)
      OBVIOUS
    <3>4. Counters(disk'.engine, disk'.tail)
      BY <3>1, <3>2, <3>3, CountedZero DEF Counters
    <3> QED
      BY <1>1, <2>1, <3>4, SettledDebounce
  <2> QED
    BY <2>2, <2>3
<1>7. CASE TakeRow \/ RewriteSummary \/ EnterLoop
  BY <1>7, DebounceFrame DEF TakeRow, RewriteSummary, EnterLoop, DInv
<1>8. CASE WriteFails \/ \E power \in BOOLEAN : Crash(power)
  <2>1. s' = disk.engine /\ work' = disk /\ disk' = disk /\ pc' \in {"idle", "down"}
    BY <1>8 DEF WriteFails, Crash
  <2>2. pc' \notin Uncommitted
    BY <2>1
  <2>3. Counters(disk'.engine, disk'.tail)
    BY <2>1 DEF DInv
  <2> QED
    BY <1>1, <2>1, <2>2, <2>3, SettledDebounce
<1>9. CASE FatalError \/ StopService
  <2>1. disk'.engine = s /\ disk'.tail = work.tail /\ work' = disk' /\ s' = s
        /\ pc' \notin Uncommitted
    BY <1>1, <1>9, SavedFrame DEF FatalError, StopService, LeaveRun
  <2> QED
    BY <1>1, <2>1, SettledDebounce DEF DInv
<1>10. CASE UNCHANGED vars
  BY <1>10 DEF vars, DInv, Opening, Closing
<1> QED
  BY <1>2, <1>3, <1>4, <1>5, <1>6, <1>7, <1>8, <1>9, <1>10, StartRoundDebounce, ProcessStepDebounce
     DEF Next, CalmStep, Maintenance, Restart, Failure

-----------------------------------------------------------------------------
(* The two invariants hold from the start. *)

LEMMA RecordsInit == Init => RInv /\ DInv
<1> SUFFICES ASSUME Init PROVE RInv /\ DInv
  OBVIOUS
<1> USE DEF Init, EmptyDatabase, EmptyEngine
<1>1. Scheduled(disk) /\ Scheduled(work)
  BY DEF Scheduled
<1>2. Told(disk.engine, disk) /\ Told(s, work)
  BY DEF Told
<1>3. Remembered /\ SummariesPlaced /\ Reconciling /\ SummaryNeverAhead
  BY DEF Remembered, Uncommitted, SummariesPlaced, Reconciling, InStartUp, SummaryNeverAhead,
         NoDirectory
<1>4. << >> \in Seq(Round)
  OBVIOUS
<1>5. Counters(disk.engine, disk.tail) /\ Counters(s, work.tail)
  BY <1>4, CountedZero DEF Counters
<1> QED
  BY <1>1, <1>2, <1>3, <1>5 DEF RInv, DInv, Uncommitted, Confirmed

LEMMA RecordsStep ==
  ASSUME ReloadMayFail = FALSE, IInv, IInv', RInv, [Next]_vars
  PROVE  RInv'
  BY JobsStep, EventsStep, SummariesStep, ReconcilingStep DEF RInv, SInv

\* The records of an incident follow its life in every reachable state.
LEMMA RecordsInvariant ==
  ASSUME ReloadMayFail = FALSE
  PROVE  Spec => []RInv
<1>1. IInv /\ IInv' /\ RInv /\ [Next]_vars => RInv'
  BY RecordsStep
<1>2. Init => RInv
  BY RecordsInit
<1>3. Spec => []IInv
  BY Inductive
<1> QED
  BY <1>1, <1>2, <1>3, PTL DEF Spec

-----------------------------------------------------------------------------
(* Theorems. *)

\* As long as a rollback is followed by a successful reload, every committed
\* incident has exactly the snapshots its state calls for: the INSERTs of the
\* jobs and of the incident are never separated by a crash or a failed write.
THEOREM JobsFollowIncidents ==
  ASSUME ReloadMayFail = FALSE
  PROVE  Spec => []SnapshotsScheduled
<1>1. RInv => SnapshotsScheduled
  BY DEF RInv, SnapshotsScheduled
<1> QED
  BY <1>1, RecordsInvariant, PTL

\* Under the same assumption, committed events alternate: a field, the NIC or an
\* incident is never reported down twice without a recovery in between.
THEOREM EventsFollowState ==
  ASSUME ReloadMayFail = FALSE
  PROVE  Spec => []EventsAlternate
<1>1. RInv => EventsAlternate
  BY DEF RInv, EventsAlternate
<1> QED
  BY <1>1, RecordsInvariant, PTL

\* Under the same assumption, summary.json never tells of a transition that a
\* power loss could still undo.
THEOREM SummaryBehindDatabase ==
  ASSUME ReloadMayFail = FALSE
  PROVE  Spec => []SummaryNeverAhead
<1>1. RInv => SummaryNeverAhead
  BY DEF RInv
<1> QED
  BY <1>1, RecordsInvariant, PTL

\* Under the same assumption, /status begins to name an incident only when its row
\* is committed and open.
THEOREM StatusBehindDatabase ==
  ASSUME ReloadMayFail = FALSE
  PROVE  Spec => StatusOnRecord
<1>1. IInv /\ [Next]_vars
        => [status' \in Incident /\ status' # status => disk'.incidents[status'] = "open"]_vars
  <2> SUFFICES ASSUME IInv, [Next]_vars, status' \in Incident, status' # status
               PROVE  disk'.incidents[status'] = "open"
    OBVIOUS
  <2>1. PublishStatus
    BY IncidentAssumption
       DEF Next, CalmStep, StartRound, ProcessStep, MakeDirectory, ReadNetwork, InsertIncident,
           ExportPreFault, CloseIncident, Commit, WriteSummary, CollectHost, NicHoldExpires,
           Maintenance, RemoveEvidence, ForgetIncident, Restart, Start, TakeRow, RewriteSummary,
           EnterLoop, Failure, WriteFails, FatalError, StopService, LeaveRun, Crash, vars
  <2>2. status' = s.active /\ disk' = disk /\ Untouched /\ OneOpenIncident
    BY <2>1 DEF PublishStatus, IInv, Transaction
  <2> QED
    BY <2>2 DEF Untouched, OneOpenIncident
<1>2. Spec => []IInv
  BY Inductive
<1> QED
  BY <1>1, <1>2, PTL DEF Spec, StatusOnRecord

\* Under the same assumption, whatever was lost between a commit and the write of
\* a summary, the main loop is entered only over healed summaries: the rows are
\* fetched once, and the maintenance that runs beside start-up only takes away.
THEOREM SummariesHealed ==
  ASSUME ReloadMayFail = FALSE
  PROVE  Spec => RestartHealsSummaries
<1>1. RInv /\ [Next]_vars
        => [pc = "reconcile" /\ pc' = "idle" => \A i \in Incident : Healed(i)]_vars
  <2> SUFFICES ASSUME RInv, [Next]_vars, pc = "reconcile", pc' = "idle"
               PROVE  \A i \in Incident : Healed(i)
    OBVIOUS
  <2>1. \A p \in Probe : ~StartRound(p)
    BY DEF StartRound
  <2>2. ~ProcessStep
    BY DEF ProcessStep, MakeDirectory, ReadNetwork, InsertIncident, ExportPreFault,
           CloseIncident, Commit, WriteSummary, PublishStatus
  <2>3. ~(\E delta \in BOOLEAN : CollectHost(delta)) /\ ~NicHoldExpires /\ ~Maintenance
    BY DEF CollectHost, NicHoldExpires, Maintenance, RemoveEvidence, ForgetIncident
  <2>4. ~Failure
    BY DEF Failure, WriteFails, FatalError, StopService, LeaveRun, Crash, InProcess
  <2>5. EnterLoop
    BY <2>1, <2>2, <2>3, <2>4
       DEF Next, CalmStep, Restart, Start, TakeRow, RewriteSummary, vars
  <2> QED
    BY <2>5 DEF EnterLoop, NoRows, RInv, Reconciling, InStartUp
<1>2. Spec => []RInv
  BY RecordsInvariant
<1> QED
  BY <1>1, <1>2, PTL DEF Spec, RestartHealsSummaries

Justified ==
    /\ \A i \in Incident :
          /\ disk.incidents[i] = "none" /\ disk'.incidents[i] = "open"
                => Trailing(disk'.tail, FailureThreshold, BadRounds)
          /\ disk.incidents[i] = "open" /\ disk'.incidents[i] = "recovered"
                => Trailing(disk'.tail, RecoveryThreshold, GoodRounds)
    /\ \A f \in Fields :
          Confirmed(disk.engine, disk'.engine, f)
             => Trailing(disk'.tail, Threshold(disk'.engine.stable[f]),
                         RoundsWith(f, disk'.engine.stable[f]))

\* A step that opens or closes nothing, and confirms nothing on disk.
LEMMA QuietStep ==
  ASSUME \A i \in Incident : disk'.incidents[i] \in {disk.incidents[i], "none"},
         disk'.engine.stable = disk.engine.stable
  PROVE  Justified
  BY DEF Justified, Confirmed

\* Committing the engine state while the transaction touches no incident.
LEMMA SavingStep ==
  ASSUME DInv, Untouched, disk'.incidents = work.incidents, disk'.engine.stable = s.stable,
         disk'.tail = work.tail
  PROVE  Justified
<1>1. \A f \in Fields : Confirmed(disk.engine, disk'.engine, f) = Confirmed(disk.engine, s, f)
  BY DEF Confirmed
<1> QED
  BY <1>1 DEF DInv, Justified, Untouched

\* A commit opens an incident only on bad rounds and closes one only on good ones.
LEMMA CommitJustified ==
  ASSUME IInv, DInv, Commit
  PROVE  Justified
<1>1. TypeOK /\ Transaction /\ OneOpenIncident
  BY DEF IInv
<1>2. disk'.incidents = work.incidents /\ disk'.engine = s /\ disk'.tail = work.tail
  BY <1>1, SavedFrame DEF Commit
<1>3. \A f \in Fields : Confirmed(disk.engine, disk'.engine, f)
        => Trailing(disk'.tail, Threshold(disk'.engine.stable[f]),
                    RoundsWith(f, disk'.engine.stable[f]))
  BY <1>2 DEF DInv
<1>4. CASE Untouched
  BY <1>2, <1>4, SavingStep
<1>5. CASE Opening
  <2>1. Trailing(disk'.tail, FailureThreshold, BadRounds)
    BY <1>2, <1>5 DEF DInv, Commit
  <2>2. \A i \in Incident : disk.incidents[i] = "open" => disk'.incidents[i] = "open"
    BY <1>1, <1>2, <1>5, LedgerTypes DEF Opening
  <2> QED
    BY <1>3, <2>1, <2>2 DEF Justified
<1>6. CASE Closing
  <2>1. Trailing(disk'.tail, RecoveryThreshold, GoodRounds)
    BY <1>2, <1>6 DEF DInv, Commit
  <2>2. \A i \in Incident : disk.incidents[i] = "none" => disk'.incidents[i] # "open"
    BY <1>1, <1>2, <1>6, LedgerTypes DEF Closing
  <2> QED
    BY <1>3, <2>1, <2>2 DEF Justified
<1> QED
  BY <1>1, <1>4, <1>5, <1>6 DEF Commit, Transaction

LEMMA NextJustified ==
  ASSUME IInv, DInv, [Next]_vars
  PROVE  Justified
<1>1. TypeOK /\ Transaction
  BY DEF IInv
<1>2. ASSUME disk' = disk PROVE Justified
  BY <1>2, QuietStep
<1>3. ASSUME NEW p \in Probe, StartRound(p) PROVE Justified
  BY <1>2, <1>3 DEF StartRound
<1>4. CASE ProcessStep
  BY <1>2, <1>4, CommitJustified
     DEF ProcessStep, MakeDirectory, ReadNetwork, InsertIncident, ExportPreFault,
         CloseIncident, WriteSummary, PublishStatus
<1>5. ASSUME NEW delta \in BOOLEAN, CollectHost(delta) PROVE Justified
  <2>1. Untouched /\ s'.stable = s.stable
    BY <1>1, <1>5 DEF CollectHost, Transaction, TypeOK, EngineState
  <2>2. disk'.incidents = work.incidents /\ disk'.engine = s' /\ disk'.tail = work.tail
    BY <1>1, <1>5 DEF CollectHost, Saved, TypeOK, Database
  <2> QED
    BY <2>1, <2>2, SavingStep
<1>6. CASE NicHoldExpires
  <2>1. disk'.incidents = disk.incidents /\ disk'.engine.stable = disk.engine.stable
    BY <1>1, <1>6 DEF NicHoldExpires, TypeOK, Database, EngineState
  <2> QED
    BY <2>1, QuietStep
<1>7. ASSUME NEW i \in Incident, ForgetIncident(i) PROVE Justified
  <2>1. /\ disk'.incidents = [disk.incidents EXCEPT ![i] = "none"]
        /\ disk'.engine = disk.engine
    BY <1>1, <1>7 DEF ForgetIncident, TypeOK, Database
  <2> QED
    BY <1>1, <2>1, LedgerTypes, QuietStep
<1>8. ASSUME NEW i \in Incident, RemoveEvidence(i) PROVE Justified
  BY <1>2, <1>8 DEF RemoveEvidence
<1>9. CASE Restart
  <2>1. ASSUME Start PROVE Justified
    <3>1. disk'.incidents = disk.incidents /\ disk'.engine.stable = disk.engine.stable
      BY <1>1, <2>1 DEF Start, Booted, TypeOK, Database, EngineState
    <3> QED
      BY <3>1, QuietStep
  <2> QED
    BY <1>2, <1>9, <2>1 DEF Restart, TakeRow, RewriteSummary, EnterLoop
<1>10. CASE WriteFails \/ \E power \in BOOLEAN : Crash(power)
  BY <1>2, <1>10 DEF WriteFails, Crash
<1>11. CASE FatalError \/ StopService
  <2>1. LeaveRun /\ Untouched
    BY <1>1, <1>11 DEF FatalError, StopService, Transaction
  <2>2. disk'.incidents = work.incidents /\ disk'.engine = s /\ disk'.tail = work.tail
    BY <1>1, <2>1, SavedFrame DEF LeaveRun
  <2> QED
    BY <2>1, <2>2, SavingStep
<1>12. CASE UNCHANGED vars
  BY <1>2, <1>12 DEF vars
<1> QED
  BY <1>3, <1>4, <1>5, <1>6, <1>7, <1>8, <1>9, <1>10, <1>11, <1>12
     DEF Next, CalmStep, Maintenance, Failure

\* As long as a rollback is followed by a successful reload, no incident is
\* committed open, none closed, and no field changes its confirmed state without
\* as many consecutive rounds of this boot in the metrics table as the threshold
\* asks for: no restart, rollback or reboot makes one lost packet count twice.
THEOREM DebounceHolds ==
  ASSUME ReloadMayFail = FALSE
  PROVE  Spec => DebounceJustified
<1>1. Init => DInv
  BY RecordsInit
<1>2. IInv /\ IInv' /\ DInv /\ [Next]_vars => DInv'
  BY DebounceStep
<1>3. IInv /\ DInv /\ [Next]_vars => [Justified]_vars
  BY NextJustified
<1>4. Spec => []IInv
  BY Inductive
<1>5. DebounceJustified <=> [][Justified]_vars
  BY PTL DEF DebounceJustified, Justified
<1> QED
  BY <1>1, <1>2, <1>3, <1>4, <1>5, PTL DEF Spec
===============================================================================
