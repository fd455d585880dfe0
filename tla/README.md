# A formal model of Network Blackbox

TLA+ modules, TLC configurations and TLAPS proofs about the program in this
repository: an agent that probes a network and keeps evidence of its faults, a
syslog receiver with a storage guard, and the tool that installs, upgrades,
uninstalls and rolls both back. Every definition is translated from the source; the
`map` in `PROJECT.json` names the lines each one stands for.

## 1. The system

### Components and their state

| component | code | state | operations |
|---|---|---|---|
| incident engine | `app/netblackbox.py` `Engine` | `self.s` in memory; tables `state`, `metrics`, `events`, `incidents`, `snapshot_jobs`; `incidents/<id>/`; `/status` | `process`, `collect_host`, `save`, `reconcile_summaries`, start, exit |
| snapshot jobs | `Engine.jobs`, `snapshot` | `snapshot_jobs`, `self.running` (futures), `snapshots/<offset>/` | collect, dispatch, capture |
| maintenance | `maintenance`, `storage_report`, `maintenance_done` | `maintenance_future`, `storage.json`, flags in `state` | retention, pressure events |
| heartbeat | `heartbeat`, `Engine.run` | `cloud_future`, `cloud_last_attempt`, `cloud_ok` | send, record the answer |
| storage guard | `app/syslog_storage.py` | `syslog-storage.json` (marker), `syslog-storage-error.json` | `cycle`, `--receiver-allowed`, `--agent-allowed`, `--clear-error` |
| syslog archives | `prune_archives`, logrotate | `<day>.log`, archives, `.gz`, compression temporaries | rotate, clean, compress, delete |
| syslog observer | `app/syslog_status.py` | `syslog-observer.json` | `sample` |
| deployment, uninstall | `manage.py` | `install-state.json`, manifests, `upgrade-in-progress.json` (mark), the installed files | install, upgrade, uninstall, rollback |
| configuration | `app/config_tools.py` | none | validate, render |
| probes, HTTP API, verification, scripts | `netblackbox.py`, `verify.py`, `scripts/` | none | |

### How they interact

* The agent is one main loop (jobs, maintenance result, host sample, probe
  round, heartbeat) with three thread pools: two snapshot workers, one maintenance,
  one heartbeat. Threads and loop meet in futures, in files, and in SQLite, where
  maintenance has a connection of its own. The administrator may call maintenance
  as a process beside the agent.
* One `except` around the loop turns an I/O or SQLite error anywhere into
  rollback, reload of the engine state, and a retry; the rest of the round is left
  out. Anything else ends the process; systemd starts it again, and start-up
  repairs what was interrupted.
* The guard is a oneshot on a 30 s timer. It shares the receiver with systemd
  (automatic restart, boot), the administrator and `manage.py`. The receiver's
  `ExecCondition` reads the same files the guard writes.
* Each pass of the guard rotates, reads the receiver's descriptors and prunes the
  archives while the receiver goes on writing.
* The agent only observes guard and receiver, through their files, `systemctl`
  and the journal, and turns what it sees into status and events.
* The deployment tool stops all units, replaces files and starts them again;
  its mark freezes retention and refuses to start services once its owner is dead.
  An uninstall has no mark.

### What is hard

Kills and power loss between two effects (database and file, record and action);
errors in the middle of a transaction with state in memory; values read at the
start of a long step and used at its end; results of threads that are old when
they are recorded; two writers of one flag; restarts that forget and reboots
that should; a latch fed by two sources with different delays; a file renamed under
its writer; partial rollback. `PROJECT.json` lists these hazards at their lines,
with the properties that cover them and, where none does, why.

### What makes each component correct

* *Incident engine*: the engine state and the tables name the same open
  incident; evidence exists before the incident; events alternate; nothing is
  reported before it is durable; thresholds count real consecutive rounds; faults
  open and health closes incidents.
* *Snapshot jobs*: row, future and directory agree; one end per job; evidence is
  never overwritten or removed under a worker; every due job ends.
* *Guard*: the guard never forgets what it stopped and never starts what the
  administrator stopped; lasting pressure stops and lasting space resumes.
* *Archives*: no line of a kept day is ever in no file; what is published is whole; an
  open file is left alone; what has expired goes.
* *Observer*: an error that was seen stays until a resume or a new process, and not
  longer.
* *Main loop*: what lasts is told, whatever results were late or lost; requests
  keep their distance.
* *Deployment*: no service runs on a mixture or has its files replaced under it; a
  mixture is recoverable; an unverified release deletes nothing; a rollback restores;
  the mark of an interrupted install goes in the end.

## 2. The modules

| module | models | abstract in it |
|---|---|---|
| `Incidents` | `Engine.process()` step by step, with every other writer of the incident tables, failures and restarts | a probe is a verdict per field; the metrics table is its last rounds; events are counted, `_DOWN` minus `_RECOVER` |
| `IncidentLedger` | what the committed tables promise: `Open`, `Close`, `Forget` | |
| `SnapshotJobs` | `jobs()`, the workers in `snapshot()`, retention, one incident at a time | a capture's commands are one step; time is a tick counter |
| `PressureEvents` | the three pressure flags and their two writers | a scan result is a truth value per domain |
| `Heartbeat` | the end of a round and `heartbeat()` | instants are ages in ticks |
| `AgentLoop` | a whole round of `run()` around both futures | extends `Heartbeat`, instantiates `PressureEvents` |
| `StorageGuard` | `cycle()`, systemd, administrator, upgrade | space is one of four levels; rotation and pruning are one step |
| `StorageLevels` | `pressure_decision()`, `assess_capacity()` and the thresholds `validate()` accepts, as numbers | sizes in MiB |
| `ArchiveRetention` | one pass over the archives of a source: scan, clean, delete, compress by copy, link and unlink | a line stands for a chunk; a slot is one file with all its names; days are ages |
| `SyslogObserver` | `system_state()` and `sample()`, and the receiver they watch | `failed` and `suspended` counters are one |
| `Deployment` | `_install()`, `uninstall()`, `restore_manifest()`, `rollback`, systemd and the guard as a unit | three files stand for the payload: a program, a unit, `install-state.json`; the control files are one truth value, `paused` |
| `MC*` | instances for TLC | |
| `*_proofs` | theorems about the module they are named for, those of `StorageGuard` with `StorageLevels`, those of `AgentLoop` with its parts; `IncidentRecords_proofs` continues `Incidents_proofs` | |

**State and steps.** A module has a program counter (`pc`, `at` in `Heartbeat`,
`op.pc` in `Deployment`, `guard.step` in `ArchiveRetention`) for each sequential piece
of code, and one action per effect that another actor, or a crash, can tell from
its neighbours: a file written, a statement, a commit, a `systemctl` call. Locals
that live across such effects are variables (`cur`, `running`, `result`, `batch`,
`lag`, `guard.opened`). A database is two variables: `disk`, what is committed, and
`work`, what the agent's connection sees; `commit` sets `disk` to `work`, a
rollback or a kill sets `work` to `disk`.

**Failures** are actions of their own: `WriteFails` is the `except` of the main
loop, `FatalError` and `LeaveRun` its `finally`, `Crash` a SIGKILL, the watchdog
or a power loss (with a new boot id), `Dies` and `Kill` what ends the guard,
`Killed` and `Reboot` what may happen to `manage.py`, `InstallFails`, `ReportFails`,
`UninstallFails`, `CopyFails`, `DisableFails` and `RestartFails` the exceptions it
handles. They are enabled at every step at which the code does something that may
fail. A kill, a reboot or an error in the middle of a copy may leave the target cut
short (`CopyStops`), which is no file of any release.

**External behaviour** (systemd, rsyslog, the administrator, the disk, the
clock) is modelled from how the code uses it: the units rendered by
`config_tools.py`, the counters and messages `syslog_status.py` parses. The map
marks it `external` where no line of the repository stands for it.

**Composition.** `Incidents` instantiates `IncidentLedger` with a refinement
mapping. `AgentLoop` composes `Heartbeat` and `PressureEvents` as the code does: a
round is sequential, so that a step that fails takes the later steps of the round with
it, and it is proved that the loop implements both. `SnapshotJobs`,
`PressureEvents` and `Deployment` each contain the part of `maintenance()` they
interact with; `StorageGuard` sees an upgrade as a mark that appears, dies and
disappears, and `Deployment` sees the guard as a unit that fires, deletes, pauses and
resumes. That the levels of `StorageGuard` stand for the numbers of
`StorageLevels` is a theorem.

## 3. The runs

| run | bounds | states | shows |
|---|---|---|---|
| `incidents` | 2 fields, 2 incidents, thresholds 2, cap 3 | 414 640 | the invariants and action properties of the engine; the tables implement `IncidentLedger`; faults open and health closes incidents |
| `snapshots` | 3 jobs, 2 workers, 2 interrupted captures per job | 983 996 | rows, futures, directories; no due job starves |
| `agent_loop` | interval 2 ticks, a round of 1, 2 domains | 143 136 | the rate limit; lasting pressure, recovery and answers are told |
| `storage` | none: the model is finite | 13 200 | every stop by the guard is on record; ownership of the receiver; pressure stops, space resumes |
| `archives` | 2 files of 2 lines, 3 lines a pass, expired at 3 days, 1 kill | 128 504 | no line is lost; expired files go |
| `observer` | 2 receiver processes, 1 counted error each | 447 877 | the latch holds, and shows what lasts |
| `deployment` | 2 installs or uninstalls | 484 310 | mixtures, deletions, rollback, the mark |
| `incidents_reload_fault`, `storage_takeover`, `observer_latch`, `pressure_fault`, `deployment_restore` | as above (`observer_latch`: 2 counted errors; `pressure_fault`: `PressureEvents` alone, 3 domains) | | the disagreements of section 6 |

**Why the bounds are enough.** *Incidents*: thresholds of 2 are the least the
configuration allows, and a cap of 3 lies above them as the code's 1000 does
above its 30; two incidents let one be old while another opens, and identifiers
recycle when retention forgets one (`Room` is the bound: no round is taken that
would need an identifier there is not); two fields differ in the only way fields can.
*SnapshotJobs*: three jobs for two workers leave one waiting; `MaxInterrupted` and
its guard `MayInterrupt` bound how often one job may be interrupted; the clock
stops at the last due time. *AgentLoop*: an interval of two ticks and a round of one
let a round end with a reading that is stale by half the interval; the two domains
are the one with two writers and one of the other two, which do not differ; the
bounds do not matter for what is proved. *ArchiveRetention*: `Budget` 3
is a whole file and part of a second, so that a pass runs out of time in one;
expired is one day beyond the receiver's reach (`KeepAge` 2); two slots let a pass
work on one while the other changes under it; one kill, because a pass that follows
it begins with a clean-up that leaves nothing to tell a second kill from the first
(the proofs are for any number). *SyslogObserver*: two processes tell counters of one
from another's; one counted error with its resume, and any number of errors that
are only said in the journal, before it and after it.
*Deployment*: two operations are a first install and then an upgrade, an install that changes only the
state file, or an uninstall, each rolled back in any order and with kills and
reboots anywhere. Deadlock is checked in every run.

**Fairness** is asked only of what the code or systemd keeps going: the main loop
(every probe and command has a deadline, the watchdog is 90 s), captures (each
command has a timeout), systemd's restarts (`Restart=always`, no start limit), the
guard's timer, rsyslog's statistics, the clock. No fairness is asked of
rsyslog's resumes, of errors, or of space; of the administrator only that an
interrupted install is rolled back (`Deployment`), as the preflight tells him. Strong
fairness stands where a step comes due again and again but not for good:
* `StorageGuard`: the back-off elapses between two cycles only, because the clock is
  read at the start of a cycle;
* `AgentLoop`: the host sample, a round with a known status and maintenance are each
  due at an interval in a loop that passes by in between;
* `ArchiveRetention`: reading the descriptors may fail, and a pass may run out of time
  while it cleans, but not for ever, and rotation reaches a log that stays due;
* `Deployment`: the rollback of what the mark names may be interrupted by another one.

Liveness properties are conditional on an end of failures: `NoMoreFailures`,
`Undisturbed`, `Quiet`, and the premises of `DueJobsSettle` and `MarkLeaves` say that
from some moment on only calm steps are taken.

Three assumptions on constants restrict what may happen in a passing run; the first
two have a run without the restriction. `ReloadMayFail = FALSE` in `incidents` excludes that the
reload after a rollback fails; `incidents_reload_fault` has it.
`UnmarkedFailures = {}` in `deployment` excludes that copying back without
a mark (the rollback of a completed install) fails or is killed;
`deployment_restore` shows what happens if it fails. `Budget >= MaxLines` in `archives`
excludes that an archive is too large to be compressed in one pass, and with it the
starvation of what follows that archive in its directory (section 6): `ExpiredGo` says
nothing of such archives, and no run has them. The three safety properties do not need
it: they are proved for any `Budget`. `Lapses` of the observer is a
parameter, not a restriction: the passing run has all of them.

## 4. What is checked

Each property has a comment in its module; each has a mutant, a small bug in one
mapped definition, under which TLC finds it violated.

* `Incidents`: `OneOpenIncident`, `EvidenceBeforeIncident`, `SnapshotsScheduled`,
  `EventsAlternate`, `SummaryNeverAhead`, `StatusOnRecord`;
  `RestartHealsSummaries` and `DebounceJustified`, the latter judging the counters
  by the metrics table they were derived from; `HealthCloses`, `FaultOpens`;
  `ImplementsLedger`. `StatusOnRecord` is about the moment `/status` begins to name an
  incident: while later rounds fail it goes on naming one that has been closed or
  removed meanwhile. `RestartHealsSummaries` is about a start that fetches all rows
  once and rewrites one summary after the other, while the administrator's maintenance
  removes incidents on another connection.
* `SnapshotJobs`: `RunningHasWorker`, `DoneIsComplete`, `SettledOnce`,
  `RetentionSparesWorkers`, `EvidenceNeverOverwritten`, `DueJobsSettle`.
* `AgentLoop`: `RateLimit` (stated in `Heartbeat`), `PressureTold`, `RecoveryTold`,
  `AnswersTold`. The three liveness properties are of the whole loop: a failed write
  anywhere in a round may cost a later part of it its turn.
* `StorageGuard`: `StopsAreAccountedFor`, `AdminStopRespected`, `RetryWaits`,
  `PressureStops`, `FaultStops`, `RecoveryResumes`. A start condition whose inventory fails refuses the start
  (`RestartRefused`, `BootRefused`, `RequestRefused`). The administrator may stop the
  receiver at any time; the history variable `stopped` tells whether it was between
  two cycles (what `AdminStopRespected` is about), during one (`storage_takeover`),
  or while the guard owned the receiver, which it then resumes by design.
* `ArchiveRetention`: `NothingLost`, `PublishedWhole`, `OpenFilesSurvive`,
  `ExpiredGo`; and `Inductive`, the invariant the first three are proved from.
* `SyslogObserver`: `ResumedBeforeHealthy`, `ErrorsShow`. The first has a history
  variable for what a sample saw, and whether the observer has been blind since:
  after a failed query, a gap in the statistics or a failed save with a restart it
  promises nothing (section 6).
* `Deployment`: `NoMixedRuntime`, `OnlyVerifiedDelete`, `MixedIsRecoverable`,
  `NothingReplacedUnderServices`, `RollbackRestores`, `MarkLeaves`. The first three are
  conditional on `BackupsVerified`: nothing is promised once an uninstall has backed up
  the remains of an interrupted operation (section 6). A file cut short by an
  interrupted copy counts as missing: what has one is a mixture.

## 5. What is proved

TLAPS checks these for every value of the constants that satisfies the
assumptions named in the modules.

*Incidents* (`Incidents_proofs`). `TypeCorrect`: any set of fields and incidents,
any thresholds from 2 and any cap above them. `IncidentNamed`, `EvidenceKept` and
`LedgerImplemented`, for `ReloadMayFail = FALSE`; without it the first is false
(section 6). The inductive invariant is `IInv`: the type,
`Located` (what `process()` has established at each step), `Transaction`, and
the two properties. `Transaction` is the heart: `OneOpenIncident` is about the
committed tables, and a commit preserves it only because the open transaction
can be one of three things, `Untouched`, `Opening` or `Closing`, and outside
`process()` only the first. A rollback with reload returns to `Untouched`, which
is why the reload matters. The refinement follows: `Commit` is `Open`,
`Close` or a stutter according to that case, retention's DELETE is `Forget`, and
every other step is a stutter.

The records of an incident (`IncidentRecords_proofs`): `JobsFollowIncidents`,
`EventsFollowState`, `SummaryBehindDatabase` and `StatusBehindDatabase`, for
`ReloadMayFail = FALSE` as well. Their invariant `RInv` says of the open transaction
what the properties say of the committed tables: jobs follow its incidents, its events
tell of the engine state in memory. It needs `Remembered`, because the event
of a close is written by what `process()` found at its start, and
`SummariesPlaced`, because retention removes directory and summary together.
`SummariesHealed` needs `Reconciling`, which says of the rows a start has fetched
how far they may be behind the table: by nothing but rows that maintenance has
removed since. A row that was taken is healed and stays so, and so is everything when
none is left, although the code never looks at the table again.
`DebounceHolds`, for all thresholds, is the hardest of them. A counter is data in
`state`, the metrics table is what was measured, and a rollback, a restart or the cap
may part them. `DInv` holds them together without computing one from the other:
`Counters` says that every counter up to the length of the remembered table has as
many rounds at its end, in the committed state and in the open transaction, and that
every change of a confirmed state the transaction would commit has its rounds.

*SnapshotJobs* (`SnapshotJobs_proofs`): `RunningIsManned`, `DoneAreComplete`,
`JobsSettledOnce`, `WorkersSpared` and `EvidenceKept`, for any schedule, any number
of threads and of interruptions. Its `IInv` says how far the
connection may be ahead of the database (`Uncommitted`: by the one settlement in
hand, or by rows skipped in this call), that what `jobs()` has selected is still there
when it comes to it (`InHand`), that threads suffice for what is held and selected
(`Manned`), that a future tells the truth about its directory (`OnDisk`), and that
retention, which checks in one step and removes in another, works only on an
incident for which nothing more will be done (`Forgotten`). The last needs that a
recovered incident gets no new rows (`Scheduled`), and that no row turns from
settled to pending, neither by a rollback nor at a start.

*AgentLoop* (`AgentLoop_proofs`). `HeartbeatsSpaced`: requests are at least
`Interval - MaxRound` apart, for every interval and length of a round. The invariant
`Spaced` ties the age of the last request to the age of the committed time stamp: the
request is younger by no more than the round it was sent in. `LoopImplementsHeartbeat`
and `LoopImplementsEvents`: the composed loop implements each of its parts, so that
what is shown of the parts' safety holds in the loop, as `LoopSpaced` says of the first.

*StorageGuard* (`StorageGuard_proofs`). `TypeCorrect`, `StopsRecorded`,
`RetriesWait` and `AdminObeyed`, all from `Invariant`, without assumptions. The
inductive invariant says what a cycle under way may rely on: no
stop comes before the record that accounts for it (`RecordBeforeStop`), a cycle
about to write that it owns nothing has nothing to resume (`NothingToForget`),
the back-off is in the marker or in the local copy of it (`RetryOnRecord`), and
a stop by the administrator between two cycles is neither owned nor about to be
(`AdminKeepsOwnership`). `DecidedByLevel`: for every configuration that
`validate()` accepts and any usage and free space, the decisions depend on the
level alone, which justifies the four levels of the model.

*ArchiveRetention* (`ArchiveRetention_proofs`): `LinesKept`, `ArchivesWhole` and
`OpenFilesKept`, from `ArchivesInductive`, for any number of files, lines and kills and any
retention. The invariant `Inductive` adds three parts to the properties: only archives
have other names than their own (`Named`); what is open when the descriptors are
read stays in `guard.opened` until the pass ends (`SeenOpen`), the reason why the
scan may be older than the deletion; and where a compression stands, the copy
and the published file have the lines of the original (`AtWork`).

*SyslogObserver* (`SyslogObserver_proofs`): `LatchHolds`, for any number of processes
and errors, whatever lapses. The property is about the receiver's
counters, which no sample reads: a sample has the statistics of some seconds ago,
and compares them with those of an earlier one, or of the file. `IInv` orders these
readings, `Compared` and `Current`: what is remembered of this process, in memory or in
the file, is no more than the statistics say, and they no more than the counters. Then
`Latched`: while a sighted observer has evidence against the running process, its
latch is closed at counters that include every resume before the evidence, or the
process has resumed, and a sample under way has asked about that process.

*Deployment* (`Deployment_proofs`), for any number of operations in any order. The
invariant `MInv` says where `manage.py` may stand (`Located`), that
manifests are numbered as they are begun (`Numbered`), whose the mark is
(`Marked`), which files each step of an install, an uninstall or a restore has
replaced (`Copied`), and that what runs was started from the files that are there
(`Running`), nothing at all from the last stop to the first start (`Quiet`). It needs no
assumption on failures, and gives `TypeCorrect` and `NothingReplacedWhileRunning`.
`RollbackComplete` adds `Restarting`: while units are started one by one, those
already handled are enabled and run as the manifest says, the guard does not run yet
and so cannot pause the receiver, and what runs would be allowed to start again.
`OneRelease`, `VerifiedDeletes` and `Recoverable` add `Trustworthy`: every
backup that will be restored is whole and of a verified release, files are mixed only
under a mark or in a dismantled installation, and nothing deletes then. It is
conditional on `BackupsVerified`, as the properties are; the condition is only about the
program and the units, because an install without a change leaves
`install-state.json` of another release than these, which mixes nothing. That a release
is verified is a fact its manifest keeps (`verified`, the file `verification.json`),
whatever is done to it later, be it the rollback by its own install after the mark is
gone (`ReportFails`). The three are for `UnmarkedFailures = {}`: without it a failed copy in
the rollback of a completed install, or in the one `ReportFails` begins, mixes the files
without a mark (section 6).

**Only model-checked**: liveness, because fairness and ENABLED are out of the
prover's reach: `HealthCloses`, `FaultOpens`, `DueJobsSettle`, `PressureStops`,
`FaultStops`, `RecoveryResumes`, `ErrorsShow`, `PressureTold`, `RecoveryTold`,
`AnswersTold`, `MarkLeaves` and `ExpiredGo`. Every other property of a passing run is
a theorem. The inductive invariants were model-checked before they were proved;
except for `Inductive` of the archives they are in no run, since the theorems say more.

## 6. Where the code and its documents disagree

Each of these is a run that TLC refutes; `PROJECT.json` quotes the lines.

* `incidents_reload_fault`: a reload that fails after a rollback leaves the
  mutated engine state, and the next `save()` commits it.
* `storage_takeover`: a receiver stopped by the administrator during a cycle is
  recorded as paused by the guard, and resumed later.
* `observer_latch`: a resume seen while the error is still in the journal window
  is used up, and the latch never opens.
* `pressure_fault`: a standing guard error is told as pressure and recovery in turns.
* `deployment_restore`: a failed copy in the rollback of a completed install
  leaves a mixture that the next boot starts.

Met while modelling, and behaviour of the models without a run of its own:

* The `except` of `jobs()` also catches an SQLite error of the statements that record
  a complete capture (`netblackbox.py:465`): the job is then recorded as failed
  beside a complete directory.
* A start fetches the paths of all incidents and then makes each summary anew
  (`netblackbox.py:350`). When the administrator's `maintenance` removes an incident
  between the test for its directory and the write, the write makes the directory again;
  it has no row any more, and nothing ever removes it. The model has this
  (`RewriteSummary` beside `Aged` and `ForgetIncident`); no property speaks of
  directories without a row.
* The rate limit compares the clock as read at the top of a round
  (`netblackbox.py:586`) and commits that reading, so that two requests may be
  closer than the interval by the length of a round. `RateLimit` says so.
* One `systemctl` query that fails drops the observer's latch
  (`syslog_status.py:143`), and a gap in the statistics makes an old resume count as
  new (line 141); `ResumedBeforeHealthy` excuses both by `evidence.blind`.
* An automatic rollback removes the mark before it starts the services again
  (`manage.py:391`): killed between the two it leaves stopped services and nothing
  that says so.
* The end of an install prints its result after it has removed the mark
  (`manage.py:510`) and still inside the `try`: an interruption or a broken pipe there
  rolls a verified release back without a mark (`ReportFails`), with the exposure
  `deployment_restore` shows.
* `uninstall()` (`manage.py:545`) looks neither for the mark nor for whole files. After an
  interrupted install it backs up a mixture, and its rollback brings it back without
  a mark. `BackupsVerified` excludes this.
* The guard may pause the receiver between the preflight of an install and the stop of
  the services (`manage.py:287`). The manifest then holds the pause; a rollback
  restores it, finds the receiver refused by its `ExecCondition`, and puts the mark
  back. This lasts as long as the pause: `MarkLeaves` exempts it.
* The rollback command chooses its manifest before it takes the deployment lock; the
  models have one manager at a time.
* An archive that one pass cannot compress within `max_seconds` is started from the
  beginning by each pass (`syslog_storage.py:155`), and files that follow it in
  directory order are not reached: `ExpiredGo` needs `Budget >= MaxLines`.

## 7. What is not modelled

* Probes and command execution (I/O with deadlines; their results are inputs), the
  HTTP API and the query commands (read-only), `verify.py` and
  `verify_remote_syslog.py` (their verdict is an input), `simulate_failure.py`,
  `log_time.py`, `scripts/`.
* Validation and rendering of the configuration, except for the storage thresholds:
  pure functions of one file; the rendered units are modelled by their effect.
* The observer's listener check and per-source `RECEIVING`/`SILENT` states: each sample
  computes them anew from the statistics and the clock, and their memory is one time
  stamp per source, which nothing but the next sample reads.
* Clock steps: all clocks are taken to advance.
* A copy cut short is modelled for every file but `install-state.json` and the control
  files. Cut short, the former makes the rollback command refuse (it is read at
  `manage.py:631`) until somebody removes it, the latter are a pause or none.
* An exception that is neither an SQLite nor an `OSError` in the middle of `process()`:
  the `finally` of `run()` saves the half-changed state. `FatalError` has it only where the
  code waits for the network or closes.
* A failure while `_install()` still copies files into its backup restores what is there,
  without a mark: the models have it as an install without a change that fails before its
  first write (`BeginInstall`). After an interrupted operation, where no service runs, it
  changes nothing and is left out.
* What `apt` does, and the checks of paths, owners and checksums of a manifest: each may
  fail, and that is `InstallFails` and `CopyFails`.
* Deletion of old rows of metrics and events, and the WAL checkpoint: by age, and read by
  nothing else that is modelled.
* rsyslog, systemd and SQLite are external. Units of releases before 1.2, which do not
  ask `--agent-allowed`, are left out of `Deployment`.

## 8. The plan

Done: `Incidents` with `IncidentLedger`; `SnapshotJobs`; `Heartbeat`, `PressureEvents` and
their composition `AgentLoop`; `StorageGuard` with `StorageLevels`;
`ArchiveRetention`; `SyslogObserver`; `Deployment` with uninstall and control files;
the proofs of section 5,
by which every safety and action property of section 4 is a theorem. Left, the first
items first:

1. The safety facts that the liveness arguments rest on, as theorems of their own: that
   a mark in an idle machine names a manifest the rollback command accepts
   (`MarkLeaves`), that a receiver the guard owns is resumed by the first cycle that finds
   space (`RecoveryResumes`), that every pending row is selected when it is due
   (`DueJobsSettle`).
2. Safety of `PressureEvents` for any number of domains: that a flag and the event which
   set it are committed together, and which writer can disagree with it.
3. The hazards that `PROJECT.json` lists without a property: a bound on the sampling
   interval of the observer against the journal window, a save of the observer that
   fails before a restart.

## 9. Running it

    tlc -workers 2 -config Incidents_all.cfg MCIncidents
    tlapm Incidents_proofs.tla

`PROJECT.json` lists every run with its module and configuration. The longest run,
`snapshots`, takes two to three minutes, the proofs eight minutes in all, half of it `Deployment_proofs`.
