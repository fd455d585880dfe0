------------------------------ MODULE Incidents ------------------------------
(***************************************************************************)
(* The incident engine of the agent: Engine.process() of                   *)
(* app/netblackbox.py with everything that may interrupt it.               *)
(*                                                                         *)
(* One probe round debounces each field, counts consecutive bad and good   *)
(* rounds, opens or closes an incident, exports the evidence that precedes *)
(* a fault, and commits all of it in one SQLite transaction; only then are *)
(* summary.json and the status served over HTTP brought up to date.  The   *)
(* process may be killed, lose power, or see any write fail between two of *)
(* these steps.                                                            *)
(*                                                                         *)
(* The database is modelled twice: `disk' is what is committed, `work' is  *)
(* what the agent's connection sees, i.e. disk plus its open transaction.  *)
(***************************************************************************)
EXTENDS Integers, Sequences

CONSTANTS
    Fields,             \* the probed fields (FIELDS)
    Incident,           \* incident identifiers
    NoIncident,         \* None
    FailureThreshold,   \* incident.failure_threshold
    RecoveryThreshold,  \* incident.recovery_threshold
    CountCap,           \* the cap of every counter, 1000 in the code
    ReloadMayFail       \* may the SELECT that follows a rollback fail as well?

\* "empty" is the status before the first round, not an identifier.
ASSUME IncidentAssumption == NoIncident \notin Incident /\ "empty" \notin Incident
ASSUME ThresholdAssumption ==
    /\ FailureThreshold \in Nat /\ FailureThreshold >= 2
    /\ RecoveryThreshold \in Nat /\ RecoveryThreshold >= 2
ASSUME CapAssumption ==
    /\ CountCap \in Nat
    /\ CountCap >= FailureThreshold /\ CountCap >= RecoveryThreshold
ASSUME ReloadAssumption == ReloadMayFail \in BOOLEAN

VARIABLES
    s,         \* Engine.s, the engine state in memory
    disk,      \* the committed database
    work,      \* the database as the agent's connection sees it
    files,     \* incident directories: existence, exports written, summary.json
    pc,        \* where the agent is
    cur,       \* locals of process() and of reconcile_summaries(), see Locals
    status,    \* active_incident as served by /status
    rebooted   \* the boot id differs from the one in the database

vars == <<s, disk, work, files, pc, cur, status, rebooted>>

-----------------------------------------------------------------------------
Value   == {"up", "down"}
Verdict == Value \cup {"unknown"}
Probe   == [Fields -> Value]
Active  == Incident \cup {NoIncident}
Offsets == {"t000", "t015", "t060"}
Labels  == Offsets \cup {"recovery"}

EngineState ==
    [stable : [Fields -> Verdict], counts : [Fields -> [value : Value, n : 0..CountCap]],
     bad : 0..CountCap, good : 0..CountCap, active : Active,
     nicHold : BOOLEAN, nicActive : BOOLEAN]

\* One row of metrics of kind 'probe', with the verdict of classify().
Round == [probe : Probe, bad : BOOLEAN]

\* An incident's row, and what its summary.json says of it.
Phase == {"none", "open", "recovered"}

\* The tables.  `tail' is the end of metrics (this boot); `net' counts the
\* committed _DOWN events of a field minus its _RECOVER events, likewise
\* nicNet and incNet for NIC_ERROR_* and INCIDENT_*.
Database ==
    [engine : EngineState, incidents : [Incident -> Phase],
     jobs : [Incident -> SUBSET Labels], tail : Seq(Round),
     net : [Fields -> Int], nicNet : Int, incNet : Int]

Directory == [dir : BOOLEAN, exports : 0..2, summary : Phase]
NoDirectory == [dir |-> FALSE, exports |-> 0, summary |-> "none"]
EmptyDirectory == [dir |-> TRUE, exports |-> 0, summary |-> "none"]

\* was is the active incident when process() began, ident the directory at work;
\* rows is what reconcile_summaries() fetched and has not dealt with yet.
Locals == [was : Active, ident : Active, rows : [Incident -> Phase]]
NoRows == [i \in Incident |-> "none"]
NoLocals == [was |-> NoIncident, ident |-> NoIncident, rows |-> NoRows]

\* Steps of process() and the rest of the main loop ("idle"), of start-up, and a
\* dead process ("down").
InProcess == {"mkdir", "network", "insert", "export", "close", "commit", "summary", "publish"}
InStartUp == {"reconcile", "rewrite"}
PC == InProcess \cup InStartUp \cup {"idle", "down"}

TypeOK ==
    /\ s \in EngineState
    /\ disk \in Database
    /\ work \in Database
    /\ files \in [Incident -> Directory]
    /\ pc \in PC
    /\ cur \in Locals
    /\ status \in Active \cup {"empty"}
    /\ rebooted \in BOOLEAN

EmptyEngine ==
    [stable |-> [f \in Fields |-> "unknown"],
     counts |-> [f \in Fields |-> [value |-> "up", n |-> 0]],
     bad |-> 0, good |-> 0, active |-> NoIncident, nicHold |-> FALSE, nicActive |-> FALSE]

EmptyDatabase ==
    [engine |-> EmptyEngine, incidents |-> [i \in Incident |-> "none"],
     jobs |-> [i \in Incident |-> {}], tail |-> << >>,
     net |-> [f \in Fields |-> 0], nicNet |-> 0, incNet |-> 0]

Init ==
    /\ s = EmptyEngine
    /\ disk = EmptyDatabase
    /\ work = EmptyDatabase
    /\ files = [i \in Incident |-> NoDirectory]
    /\ pc = "down"
    /\ cur = NoLocals
    /\ status = "empty"
    /\ rebooted = TRUE

-----------------------------------------------------------------------------
(* The debounce of one round. *)

Threshold(v) == IF v = "up" THEN RecoveryThreshold ELSE FailureThreshold

\* Mutant of Bump: the cap is one short of the threshold.
BumpBelowThreshold(n) == IF n < FailureThreshold - 1 THEN n + 1 ELSE n

Bump(n) == IF n < CountCap THEN n + 1 ELSE CountCap

NextCount(c, v) == [value |-> v, n |-> IF c.value = v THEN Bump(c.n) ELSE 1]

NextStable(f, v) ==
    IF \/ s.stable[f] = "unknown" /\ v = "up"
       \/ NextCount(s.counts[f], v).n >= Threshold(v)
    THEN v ELSE s.stable[f]

\* The change an event row makes to `net': +1 for _DOWN, -1 for _RECOVER.
FieldEvent(f, v) ==
    IF NextStable(f, v) = s.stable[f] \/ (s.stable[f] = "unknown" /\ v = "up") THEN 0
    ELSE IF v = "down" THEN 1 ELSE -1

\* classify(p, nic) is None exactly when every field is up and no NIC anomaly holds.
Bad(p) == s.nicHold \/ \E f \in Fields : p[f] = "down"

\* Mutant of Debounced: good rounds do not add up.
DebouncedGoodOnce(p) ==
    [s EXCEPT !.stable = [f \in Fields |-> NextStable(f, p[f])],
              !.counts = [f \in Fields |-> NextCount(s.counts[f], p[f])],
              !.bad  = IF Bad(p) THEN Bump(@) ELSE 0,
              !.good = IF Bad(p) THEN 0 ELSE 1]

Debounced(p) ==
    [s EXCEPT !.stable = [f \in Fields |-> NextStable(f, p[f])],
              !.counts = [f \in Fields |-> NextCount(s.counts[f], p[f])],
              !.bad  = IF Bad(p) THEN Bump(@) ELSE 0,
              !.good = IF Bad(p) THEN 0 ELSE Bump(@)]

TailLength == IF FailureThreshold > RecoveryThreshold THEN FailureThreshold ELSE RecoveryThreshold

Record(t, r) == LET u == Append(t, r) IN IF Len(u) > TailLength THEN Tail(u) ELSE u

-----------------------------------------------------------------------------
(* process(), one step per effect another actor or a crash can observe. *)

Fresh == {i \in Incident : disk.incidents[i] = "none" /\ ~files[i].dir}

\* Bound: no round is taken when an incident it may open would have no identifier.
Room == s.active # NoIncident \/ Fresh # {}

StartRound(p) ==
    /\ pc = "idle"
    /\ Room
    /\ s' = Debounced(p)
    /\ work' = [work EXCEPT !.tail = Record(@, [probe |-> p, bad |-> Bad(p)]),
                            !.net = [f \in Fields |-> @[f] + FieldEvent(f, p[f])]]
    /\ cur' = [NoLocals EXCEPT !.was = s.active]
    /\ pc' = IF Bad(p) /\ s.active = NoIncident /\ s'.bad >= FailureThreshold THEN "mkdir"
             ELSE IF ~Bad(p) /\ s.active # NoIncident /\ s'.good >= RecoveryThreshold THEN "close"
             ELSE "commit"
    /\ UNCHANGED <<disk, files, status, rebooted>>

MakeDirectory ==
    /\ pc = "mkdir"
    /\ \E i \in Fresh :
        /\ files' = [files EXCEPT ![i].dir = TRUE]
        /\ cur' = [cur EXCEPT !.ident = i]
    /\ pc' = "network"
    /\ UNCHANGED <<s, disk, work, status, rebooted>>

ReadNetwork ==
    /\ pc = "network"
    /\ pc' = "insert"
    /\ UNCHANGED <<s, disk, work, files, cur, status, rebooted>>

\* Mutant of InsertIncident: /status names the incident before it is committed.
InsertAndPublish ==
    /\ pc = "insert"
    /\ work' = [work EXCEPT !.incidents[cur.ident] = "open",
                            !.jobs[cur.ident] = Offsets, !.incNet = @ + 1]
    /\ s' = [s EXCEPT !.active = cur.ident]
    /\ status' = cur.ident
    /\ pc' = "export"
    /\ UNCHANGED <<disk, files, cur, rebooted>>

InsertIncident ==
    /\ pc = "insert"
    /\ work' = [work EXCEPT !.incidents[cur.ident] = "open",
                            !.jobs[cur.ident] = Offsets,
                            !.incNet = @ + 1]
    /\ s' = [s EXCEPT !.active = cur.ident]
    /\ pc' = "export"
    /\ UNCHANGED <<disk, files, cur, status, rebooted>>

\* Mutant of ExportPreFault: the commit follows the first of the two exports.
ExportOnce ==
    /\ pc = "export"
    /\ files' = [files EXCEPT ![cur.ident].exports = @ + 1]
    /\ pc' = "commit"
    /\ UNCHANGED <<s, disk, work, cur, status, rebooted>>

\* pre-fault-metrics.json, then pre-fault-events.json
ExportPreFault ==
    /\ pc = "export"
    /\ files' = [files EXCEPT ![cur.ident].exports = @ + 1]
    /\ pc' = IF files'[cur.ident].exports = 2 THEN "commit" ELSE "export"
    /\ UNCHANGED <<s, disk, work, cur, status, rebooted>>

\* Mutant of ClosedTables: no recovery snapshot is scheduled.
ClosedTablesNoJob == [work EXCEPT !.incidents[s.active] = "recovered", !.incNet = @ - 1]

ClosedTables ==
    [work EXCEPT !.incidents[s.active] = "recovered",
                 !.jobs[s.active] = @ \cup {"recovery"},
                 !.incNet = @ - 1]

ClosedEngine == [s EXCEPT !.active = NoIncident]

CloseIncident ==
    /\ pc = "close"
    /\ work.incidents[s.active] # "none"
    /\ work' = ClosedTables
    /\ s' = ClosedEngine
    /\ pc' = "commit"
    /\ UNCHANGED <<disk, files, cur, status, rebooted>>

\* save(): the engine state joins the transaction, which commits.
Saved(e) == [work EXCEPT !.engine = e]

\* Mutant of Commit: the state is stored but the transaction stays open.
CommitDeferred ==
    /\ pc = "commit"
    /\ work' = Saved(s)
    /\ pc' = IF s.active # cur.was THEN "summary" ELSE "publish"
    /\ UNCHANGED <<s, disk, files, cur, status, rebooted>>

Commit ==
    /\ pc = "commit"
    /\ disk' = Saved(s)
    /\ work' = Saved(s)
    /\ pc' = IF s.active # cur.was THEN "summary" ELSE "publish"
    /\ UNCHANGED <<s, files, cur, status, rebooted>>

SummaryOf == IF s.active # NoIncident THEN s.active ELSE cur.was

WriteSummary ==
    /\ pc = "summary"
    /\ files' = [files EXCEPT ![SummaryOf].summary = work.incidents[SummaryOf]]
    /\ pc' = "publish"
    /\ UNCHANGED <<s, disk, work, cur, status, rebooted>>

PublishStatus ==
    /\ pc = "publish"
    /\ status' = s.active
    /\ cur' = NoLocals
    /\ pc' = "idle"
    /\ UNCHANGED <<s, disk, work, files, rebooted>>

ProcessStep ==
    \/ MakeDirectory \/ ReadNetwork \/ InsertIncident \/ ExportPreFault
    \/ CloseIncident \/ Commit \/ WriteSummary \/ PublishStatus

-----------------------------------------------------------------------------
(* The other writers of the engine state and of the incident tables. *)

\* collect_host(): a jump of the NIC counters arms the anomaly hold; the first
\* collection after the hold has expired ends it.
CollectHost(delta) ==
    /\ pc = "idle"
    /\ s' = IF delta THEN [s EXCEPT !.nicHold = TRUE, !.nicActive = TRUE]
            ELSE IF ~s.nicHold THEN [s EXCEPT !.nicActive = FALSE] ELSE s
    /\ work' = [Saved(s') EXCEPT !.nicNet = IF s'.nicActive = s.nicActive THEN @
                                            ELSE IF s'.nicActive THEN @ + 1 ELSE @ - 1]
    /\ disk' = work'
    /\ UNCHANGED <<files, pc, cur, status, rebooted>>

\* Time passes nic_until, in memory and for whoever reloads it.
NicHoldExpires ==
    /\ pc \in {"idle", "down"}
    /\ s.nicHold
    /\ s' = [s EXCEPT !.nicHold = FALSE]
    /\ disk' = [disk EXCEPT !.engine.nicHold = FALSE]
    /\ work' = [work EXCEPT !.engine.nicHold = FALSE]
    /\ UNCHANGED <<files, pc, cur, status, rebooted>>

\* maintenance(), on its own thread and connection or called by the administrator
\* whatever the agent does, for an incident recovered incident_days ago.  That is
\* days, and a round lasts no longer than the watchdog allows: an incident does not
\* age within the round that closes it.
Aged(i) ==
    /\ disk.incidents[i] = "recovered"
    /\ pc = "summary" => cur.was # i

\* rmtree() empties the directory before it removes it.
RemoveEvidence(i) ==
    /\ Aged(i)
    /\ files[i].dir
    /\ \E d \in {EmptyDirectory, NoDirectory} : files' = [files EXCEPT ![i] = d]
    /\ UNCHANGED <<s, disk, work, pc, cur, status, rebooted>>

\* The DELETE waits for the write lock, which process() holds until it commits.
ForgetIncident(i) ==
    /\ Aged(i)
    /\ ~files[i].dir
    /\ pc \in InStartUp \cup {"idle", "summary", "publish", "down"}
    /\ disk' = [disk EXCEPT !.incidents[i] = "none", !.jobs[i] = {}]
    /\ work' = [work EXCEPT !.incidents[i] = "none", !.jobs[i] = {}]
    /\ UNCHANGED <<s, files, pc, cur, status, rebooted>>

-----------------------------------------------------------------------------
(* Failures, exits and restarts. *)

\* Mutant of WriteFails: the engine state is not reloaded.
WriteFailsNoReload ==
    /\ pc \in InProcess \ {"publish"}
    /\ work' = disk
    /\ pc' = "idle"
    /\ UNCHANGED <<s, disk, files, cur, status, rebooted>>

\* Mutant of WriteFails: the transaction is not rolled back.
WriteFailsNoRollback ==
    /\ pc \in InProcess \ {"publish"}
    /\ s' = disk.engine
    /\ pc' = "idle"
    /\ UNCHANGED <<disk, work, files, cur, status, rebooted>>

\* OSError or OperationalError anywhere in process(): rollback and reload.
\* A failing reload is swallowed and leaves the mutated s in place.
WriteFails ==
    /\ pc \in InProcess \ {"publish"}
    /\ work' = disk
    /\ s' \in {disk.engine} \cup (IF ReloadMayFail THEN {s} ELSE {})
    /\ pc' = "idle"
    /\ cur' = NoLocals
    /\ UNCHANGED <<disk, files, status, rebooted>>

\* Leaving run() through its finally clause: save() commits whatever the
\* transaction holds.  From the process's point of view s is gone.
LeaveRun ==
    /\ disk' = Saved(s)
    /\ work' = Saved(s)
    /\ pc' = "down"
    /\ cur' = NoLocals
    /\ status' = "empty"
    /\ UNCHANGED <<s, files, rebooted>>

\* Any other exception: network() cannot start a thread, or the row of the
\* active incident is missing when it is to be closed.
FatalError ==
    /\ \/ pc = "network"
       \/ pc = "close" /\ work.incidents[s.active] = "none"
    /\ LeaveRun

\* SIGTERM is noticed between two rounds.
StopService == pc = "idle" /\ LeaveRun

\* SIGKILL, watchdog, or power loss; the last one changes the boot id.
Crash(power) ==
    /\ pc # "down" \/ (power /\ ~rebooted)
    /\ s' = disk.engine
    /\ work' = disk
    /\ pc' = "down"
    /\ cur' = NoLocals
    /\ status' = "empty"
    /\ rebooted' = (rebooted \/ power)
    /\ UNCHANGED <<disk, files>>

\* Mutant of Booted: the counts of the previous boot survive.
BootedKeepingCounts(e) == [e EXCEPT !.nicHold = FALSE]

\* Mutant of Booted: a reboot forgets the active incident.
BootedForgettingIncident(e) == IF rebooted THEN EmptyEngine ELSE e

\* Engine.__init__ up to its save(): a new boot id forgets the consecutive
\* counts but neither the confirmed field states nor the active incident.
Booted(e) ==
    IF rebooted
    THEN [e EXCEPT !.nicHold = FALSE, !.bad = 0, !.good = 0, !.counts = EmptyEngine.counts]
    ELSE e

\* Mutant of Fetched: WHERE recovered_at IS NULL.
FetchedOpen(d) == [i \in Incident |-> IF d.incidents[i] = "open" THEN "open" ELSE "none"]

\* SELECT path,summary FROM incidents: the cursor keeps the snapshot it begins with.
Fetched(d) == d.incidents

Start ==
    /\ pc = "down"
    /\ s' = Booted(disk.engine)
    /\ disk' = [disk EXCEPT !.engine = s', !.tail = IF rebooted THEN << >> ELSE @]
    /\ work' = disk'
    /\ rebooted' = FALSE
    /\ cur' = [NoLocals EXCEPT !.rows = Fetched(disk)]
    /\ pc' = "reconcile"
    /\ UNCHANGED <<files, status>>

\* reconcile_summaries(): the next row; a row without a directory is passed over.
TakeRow ==
    /\ pc = "reconcile"
    /\ \E i \in Incident :
        /\ cur.rows[i] # "none"
        /\ IF files[i].dir
           THEN cur' = [cur EXCEPT !.ident = i] /\ pc' = "rewrite"
           ELSE cur' = [cur EXCEPT !.rows[i] = "none"] /\ pc' = pc
    /\ UNCHANGED <<s, disk, work, files, status, rebooted>>

\* atomic_json() makes a directory that has been removed in the meantime again.
RewriteSummary ==
    /\ pc = "rewrite"
    /\ files' = [files EXCEPT ![cur.ident].dir = TRUE,
                              ![cur.ident].summary = cur.rows[cur.ident]]
    /\ cur' = [cur EXCEPT !.ident = NoIncident, !.rows[cur.ident] = "none"]
    /\ pc' = "reconcile"
    /\ UNCHANGED <<s, disk, work, status, rebooted>>

\* The rows are exhausted.
EnterLoop ==
    /\ pc = "reconcile"
    /\ cur.rows = NoRows
    /\ pc' = "idle"
    /\ UNCHANGED <<s, disk, work, files, cur, status, rebooted>>

Restart == Start \/ TakeRow \/ RewriteSummary \/ EnterLoop

-----------------------------------------------------------------------------
Maintenance == \E i \in Incident : RemoveEvidence(i) \/ ForgetIncident(i)

\* Steps of a day without failures.
CalmStep ==
    \/ \E p \in Probe : StartRound(p)
    \/ ProcessStep
    \/ \E delta \in BOOLEAN : CollectHost(delta)
    \/ NicHoldExpires
    \/ Maintenance
    \/ Restart

Failure == WriteFails \/ FatalError \/ StopService \/ \E power \in BOOLEAN : Crash(power)

Next == CalmStep \/ Failure

Spec == Init /\ [][Next]_vars

\* The main loop never waits for ever (every probe and command has a deadline),
\* systemd restarts the agent (Restart=always), clocks advance, and retention
\* runs every maintenance_seconds.
Fairness ==
    /\ WF_vars((\E p \in Probe : StartRound(p)) \/ ProcessStep)
    /\ WF_vars(Restart)
    /\ WF_vars(NicHoldExpires)
    /\ WF_vars(Maintenance)

FairSpec == Spec /\ Fairness

-----------------------------------------------------------------------------
(* Safety. *)

\* The engine's idea of the active incident and the incident table never
\* disagree: at most one committed incident is open, and it is the one the
\* committed engine state names, so that a restart can find and close it.
OneOpenIncident ==
    \A i \in Incident : disk.incidents[i] = "open" <=> disk.engine.active = i

\* The evidence that precedes a fault is complete on disk before its incident
\* is committed, and stays as long as the incident is open.
EvidenceBeforeIncident ==
    \A i \in Incident :
        disk.incidents[i] = "open" => files[i].dir /\ files[i].exports = 2

\* The jobs table schedules what the life cycle of each incident calls for.
Scheduled(d) ==
    \A i \in Incident :
        d.jobs[i] = CASE d.incidents[i] = "none" -> {}
                      [] d.incidents[i] = "open" -> Offsets
                      [] d.incidents[i] = "recovered" -> Labels

\* Every committed incident has its three scheduled snapshots, and a recovery
\* snapshot exactly when it has recovered: no crash or failed write separates
\* an incident from its jobs.
SnapshotsScheduled == Scheduled(disk)

\* The events of d tell exactly of the changes that led to engine state e.
Told(e, d) ==
    /\ \A f \in Fields : d.net[f] = IF e.stable[f] = "down" THEN 1 ELSE 0
    /\ d.nicNet = IF e.nicActive THEN 1 ELSE 0
    /\ d.incNet = IF e.active # NoIncident THEN 1 ELSE 0

\* Events record changes only: committed _DOWN and _RECOVER events alternate,
\* as do NIC_ERROR_INCREASE/_RECOVER and INCIDENT_START/_RECOVER, through every
\* rollback, exit and restart.
EventsAlternate == Told(disk.engine, disk)

\* summary.json never tells of an incident, or of a recovery, that a power
\* loss could still undo.  (A recovered incident may lose its row before the file:
\* start-up rewrites a file that maintenance() has just removed with its row.)
SummaryNeverAhead ==
    \A i \in Incident :
        /\ files[i].summary = "open" => disk.incidents[i] # "none"
        /\ files[i].summary = "recovered" => disk.incidents[i] # "open"

-----------------------------------------------------------------------------
(* The inductive invariant behind the safety properties. *)

\* What process() has established when it stands at each of its steps.
Located ==
    /\ pc \in {"mkdir", "network", "insert"} => s.active = NoIncident
    /\ pc \in {"network", "insert", "export"} =>
          /\ cur.ident \in Incident
          /\ disk.incidents[cur.ident] = "none"
          /\ files[cur.ident].dir /\ files[cur.ident].exports \in {0, 1}
    /\ pc = "close" => s.active \in Incident
    /\ pc = "summary" => SummaryOf \in Incident
    /\ pc = "rewrite" => cur.ident \in Incident
    /\ \A i \in Incident : ~files[i].dir => files[i].exports = 0

\* What the open transaction would change in the life of incidents: nothing, ...
Untouched == work.incidents = disk.incidents /\ s.active = disk.engine.active

\* ... the opening of the new incident, ...
Opening ==
    /\ disk.engine.active = NoIncident
    /\ cur.ident \in Incident
    /\ s.active = cur.ident
    /\ disk.incidents[cur.ident] = "none"
    /\ work.incidents = [disk.incidents EXCEPT ![cur.ident] = "open"]

\* ... or the closing of the open one.
Closing ==
    /\ disk.engine.active # NoIncident
    /\ s.active = NoIncident
    /\ work.incidents = [disk.incidents EXCEPT ![disk.engine.active] = "recovered"]

Transaction ==
    /\ pc \notin {"export", "commit"} => Untouched
    /\ pc = "export" => Opening
    /\ pc = "commit" =>
          \/ Untouched
          \/ Opening /\ files[cur.ident].dir /\ files[cur.ident].exports = 2
          \/ Closing

IInv == TypeOK /\ Located /\ Transaction /\ OneOpenIncident /\ EvidenceBeforeIncident

\* Between its start and its commit, process() remembers the incident it found.
Uncommitted == {"mkdir", "network", "insert", "export", "close", "commit"}

Remembered == pc \in Uncommitted => cur.was = disk.engine.active

\* A removed directory takes its summary with it, a new one has none yet, and
\* process() writes a summary only where there is a directory.
SummariesPlaced ==
    /\ \A i \in Incident : ~files[i].dir => files[i].summary = "none"
    /\ pc \in Uncommitted /\ cur.ident \in Incident => files[cur.ident].summary = "none"
    /\ pc = "summary" => files[SummaryOf].dir

\* Neither a file that says "open" of a recovered incident nor an open incident
\* without its file.
Healed(i) ==
    /\ disk.incidents[i] = "open" => files[i].summary = "open"
    /\ disk.incidents[i] = "recovered" => files[i].summary # "open"

\* While summaries are reconciled, a fetched row is behind the table at most by a
\* deletion, and an incident without a row left to deal with is healed.
Reconciling ==
    pc \in InStartUp =>
        /\ \A i \in Incident : IF cur.rows[i] = "none" THEN Healed(i)
                               ELSE disk.incidents[i] \in {cur.rows[i], "none"}
        /\ \A i \in Incident : cur.rows[i] = "open" => disk.incidents[i] = "open"
        /\ pc = "rewrite" => cur.rows[cur.ident] # "none"

\* The records of an incident follow its life, in the open transaction as well.
RInv ==
    /\ Scheduled(disk) /\ Scheduled(work)
    /\ Told(disk.engine, disk) /\ Told(s, work)
    /\ Remembered /\ SummariesPlaced /\ Reconciling /\ SummaryNeverAhead

\* The last n rounds of the metrics table t are all in S.
Trailing(t, n, S) == Len(t) >= n /\ \A k \in (Len(t) - n + 1)..Len(t) : t[k] \in S

BadRounds  == {r \in Round : r.bad}
GoodRounds == {r \in Round : ~r.bad}
RoundsWith(f, v) == {r \in Round : r.probe[f] = v}

\* A counter stands for as many rounds at the end of the table.
Counted(n, t, S) == \A m \in 0..TailLength : m <= n => Trailing(t, m, S)

Counters(e, t) ==
    /\ Counted(e.bad, t, BadRounds) /\ Counted(e.good, t, GoodRounds)
    /\ \A f \in Fields : Counted(e.counts[f].n, t, RoundsWith(f, e.counts[f].value))

\* From e to g, a field changes its confirmed state; its first state may be "up"
\* without debounce.
Confirmed(e, g, f) ==
    g.stable[f] # e.stable[f] /\ ~(e.stable[f] = "unknown" /\ g.stable[f] = "up")

\* Every counter, and every change the open transaction would commit, has its
\* rounds in the metrics table.
DInv ==
    /\ Counters(disk.engine, disk.tail) /\ Counters(s, work.tail)
    /\ pc \notin Uncommitted => s.stable = disk.engine.stable
    /\ \A f \in Fields :
          Confirmed(disk.engine, s, f)
             => Trailing(work.tail, Threshold(s.stable[f]), RoundsWith(f, s.stable[f]))
    /\ pc \in {"mkdir", "network", "insert", "export"} \/ (pc = "commit" /\ Opening)
          => Trailing(work.tail, FailureThreshold, BadRounds)
    /\ pc = "close" \/ (pc = "commit" /\ Closing)
          => Trailing(work.tail, RecoveryThreshold, GoodRounds)

-----------------------------------------------------------------------------
(* Action properties. *)

\* When a restarted agent enters its loop, every open incident has a summary.json
\* that says so, and none of a recovered incident still says "open": whatever was
\* lost between a commit and the write of the file, and although maintenance() may
\* remove directories and rows that reconcile_summaries() has fetched.
RestartHealsSummaries ==
    [][pc = "reconcile" /\ pc' = "idle" => \A i \in Incident : Healed(i)]_vars

\* /status begins to name an incident only when it is on record and still open.
StatusOnRecord ==
    [][status' \in Incident /\ status' # status => disk'.incidents[status'] = "open"]_vars

\* Debounce, judged by the metrics table instead of the counters: an incident is
\* committed open only on top of FailureThreshold consecutive bad rounds of the
\* same boot, closed only on RecoveryThreshold good ones, and a field changes its
\* confirmed state only on as many equal observations, so no restart, rollback or
\* reboot makes a single lost packet count for more.
DebounceJustified ==
    [][/\ \A i \in Incident :
            /\ disk.incidents[i] = "none" /\ disk'.incidents[i] = "open"
                  => Trailing(disk'.tail, FailureThreshold, BadRounds)
            /\ disk.incidents[i] = "open" /\ disk'.incidents[i] = "recovered"
                  => Trailing(disk'.tail, RecoveryThreshold, GoodRounds)
       /\ \A f \in Fields :
            Confirmed(disk.engine, disk'.engine, f)
                  => Trailing(disk'.tail, Threshold(disk'.engine.stable[f]),
                              RoundsWith(f, disk'.engine.stable[f]))]_vars

-----------------------------------------------------------------------------
(* Liveness. *)

NoMoreFailures == <>[][CalmStep]_vars
LastRoundBad == disk.tail # << >> /\ disk.tail[Len(disk.tail)].bad
LastRoundGood == disk.tail # << >> /\ ~disk.tail[Len(disk.tail)].bad

\* A network that stays healthy closes the incident on record, and a fault that
\* stays opens one, whatever failures came before.
HealthCloses == NoMoreFailures /\ <>[]LastRoundGood => <>[](disk.engine.active = NoIncident)
FaultOpens ==
    NoMoreFailures /\ <>[](LastRoundBad /\ Room) => <>[](disk.engine.active # NoIncident)

-----------------------------------------------------------------------------
(* What a client of the database sees, and what restarts rely on. *)
Ledger == INSTANCE IncidentLedger WITH
    phase <- disk.incidents, active <- disk.engine.active

\* The committed tables implement the incident life cycle: one open incident
\* at a time, closed once, never reopened, forgotten only after it was closed.
ImplementsLedger == Ledger!Spec
=============================================================================
