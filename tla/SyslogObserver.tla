---------------------------- MODULE SyslogObserver ----------------------------
(***************************************************************************)
(* What the agent says of the syslog receiver: system_state() and          *)
(* SyslogObserver.sample() of app/syslog_status.py, called by the agent's  *)
(* collect_host().                                                         *)
(*                                                                         *)
(* rsyslog tells of a failed write in two ways: a counter in the           *)
(* statistics it writes every ten seconds, and a message in the journal,   *)
(* read back for two minutes.  Neither is complete, so a write error that  *)
(* was seen once is latched: until the statistics report a resume, or      *)
(* another process receives.  The latch, and the counters it is compared   *)
(* with, are kept in syslog-observer.json.                                 *)
(***************************************************************************)
EXTENDS Naturals

CONSTANTS
    MaxStarts,    \* bound: receiver processes
    MaxErrors,    \* bound: write errors of one process
    Lapses        \* what fails now and then: "query", "stats", "save"

ASSUME BoundsAssumption == MaxStarts \in Nat \ {0} /\ MaxErrors \in Nat \ {0}
ASSUME LapsesAssumption == Lapses \subseteq {"query", "stats", "save"}

VARIABLES
    process,    \* the receiver: the identity of its last process, and does it run?
    counters,   \* netblackbox_write as that process counts it
    broken,     \* since its last resume a write failed: "no", or it was only said
                \* in the journal, or it was counted
    journal,    \* the last write error of it in the journal of the last two minutes:
                \* none, or before or after the statistics were last written
    stats,      \* state/rsyslog/stats.log
    state,      \* SyslogObserver.state
    saved,      \* state/syslog-observer.json
    pc,         \* "idle", or "sample" between system_state() and sample()
    seen,       \* what system_state() returned
    published,  \* receiver.state, as served by /syslog
    evidence    \* history: the process whose lasting write error a sample saw, the
                \* resumes it had reported by then, and has the observer been blind
                \* since: did a query fail, were counters missing, was state lost?

vars == <<process, counters, broken, journal, stats, state, saved, pc, seen, published, evidence>>

receiver == <<process, counters, broken, journal, stats>>
observer == <<state, saved, pc, seen, published, evidence>>

-----------------------------------------------------------------------------
NoProcess == 0
Process == 1..MaxStarts

\* `failed' stands for failed and suspended, which are treated alike.
Counters == [failed : 0..MaxErrors, resumed : 0..MaxErrors]
Zero == [failed |-> 0, resumed |-> 0]

Observed == [epoch : Process \cup {NoProcess}, action : Counters, error : BOOLEAN]

TypeOK ==
    /\ process \in [id : Process, up : BOOLEAN]
    /\ counters \in Counters
    /\ broken \in {"no", "said", "counted"}
    /\ journal \in {"none", "before", "after"}
    /\ stats \in [fresh : BOOLEAN, values : Counters]
    /\ state \in Observed
    /\ saved \in Observed
    /\ pc \in {"idle", "sample"}
    /\ seen \in [epoch : Process \cup {NoProcess}, active : {"yes", "no", "unknown"},
                 messages : BOOLEAN]
    /\ published \in {"HEALTHY", "RECEIVER_ERROR", "UNKNOWN"}
    /\ evidence \in [epoch : Process \cup {NoProcess}, resumed : 0..MaxErrors, blind : BOOLEAN]

NothingSeen == [epoch |-> NoProcess, active |-> "unknown", messages |-> FALSE]
FirstState == [epoch |-> NoProcess, action |-> Zero, error |-> FALSE]

Init ==
    /\ process = [id |-> 1, up |-> TRUE]
    /\ counters = Zero
    /\ broken = "no" /\ journal = "none"
    /\ stats = [fresh |-> FALSE, values |-> Zero]
    /\ state = FirstState /\ saved = FirstState
    /\ pc = "idle" /\ seen = NothingSeen
    /\ published = "UNKNOWN"
    /\ evidence = [epoch |-> NoProcess, resumed |-> 0, blind |-> FALSE]

-----------------------------------------------------------------------------
(* The receiver. *)

\* A write fails: it is counted, or written to the journal, or both.
WriteError ==
    /\ process.up
    /\ counters.failed < MaxErrors
    /\ \/ /\ counters' = [counters EXCEPT !.failed = @ + 1]
          /\ broken' = "counted"
          /\ journal' \in {journal, "after"}
       \/ /\ broken # "counted"
          /\ broken' = "said"
          /\ journal' = "after"
          /\ UNCHANGED counters
    /\ UNCHANGED <<process, stats, observer>>

Resume ==
    /\ process.up
    /\ broken # "no"
    /\ counters.resumed < MaxErrors
    /\ broken' = "no"
    /\ counters' = [counters EXCEPT !.resumed = @ + 1]
    /\ UNCHANGED <<process, journal, stats, observer>>

\* Two minutes after the last error: the statistics are either of another time
\* than the error, or no longer fresh.
WindowPasses ==
    /\ journal = "before" \/ (journal = "after" /\ ~stats.fresh)
    /\ journal' = "none"
    /\ UNCHANGED <<process, counters, broken, stats, observer>>

WriteStats ==
    /\ process.up
    /\ stats' = [fresh |-> TRUE, values |-> counters]
    /\ journal' = IF journal = "after" THEN "before" ELSE journal
    /\ UNCHANGED <<process, counters, broken, observer>>

\* No statistics for 35 seconds: rsyslog cannot write them either.  A sample
\* takes less, and reads them once.
StatsLapse ==
    /\ "stats" \in Lapses
    /\ pc = "idle"
    /\ stats.fresh
    /\ stats' = [stats EXCEPT !.fresh = FALSE]
    /\ UNCHANGED <<process, counters, broken, journal, observer>>

ReceiverStops ==
    /\ process.up
    /\ process' = [process EXCEPT !.up = FALSE]
    /\ stats' = [stats EXCEPT !.fresh = FALSE]
    /\ UNCHANGED <<counters, broken, journal, observer>>

\* A new process counts from zero, and its journal and statistics are its own:
\* --receiver-allowed removes the file of the process before.
ReceiverStarts ==
    /\ ~process.up
    /\ process.id < MaxStarts
    /\ process' = [id |-> process.id + 1, up |-> TRUE]
    /\ counters' = Zero
    /\ broken' = "no" /\ journal' = "none"
    /\ stats' = [fresh |-> FALSE, values |-> Zero]
    /\ UNCHANGED observer

-----------------------------------------------------------------------------
(* The observer. *)

Blinded(e, b) == [e EXCEPT !.blind = e.epoch # NoProcess /\ (@ \/ b)]

\* systemctl show, ss and journalctl
SystemState ==
    /\ pc = "idle"
    /\ pc' = "sample"
    /\ seen' = [epoch |-> IF process.up THEN process.id ELSE NoProcess,
                active |-> IF process.up THEN "yes" ELSE "no",
                messages |-> process.up /\ journal # "none"]
    /\ UNCHANGED <<receiver, state, saved, published, evidence>>

\* systemctl has 3 seconds to answer; without a process there is no journal of it.
QueryFails ==
    /\ "query" \in Lapses
    /\ pc = "idle"
    /\ pc' = "sample"
    /\ seen' = NothingSeen
    /\ evidence' = Blinded(evidence, TRUE)
    /\ UNCHANGED <<receiver, state, saved, published>>

\* Mutant of OldAction: the counters of two processes are not told apart.
OldActionOfAnyone == state.action

\* The counters of the last sample, when it saw the same process.
OldAction == IF seen.epoch = state.epoch THEN state.action ELSE Zero

\* Missing or outdated statistics read as an empty dictionary.
Action == IF stats.fresh THEN stats.values ELSE Zero

Increments == Action.failed > OldAction.failed

WriteErrorSeen == Increments \/ seen.messages

Resumed == Action.resumed > OldAction.resumed

\* Mutant of Latch: nothing is latched.
LatchNothing == WriteErrorSeen

Latch ==
    IF WriteErrorSeen THEN TRUE
    ELSE seen.epoch = state.epoch /\ state.error /\ ~Resumed

ReceiverState ==
    IF seen.active = "no" \/ Latch THEN "RECEIVER_ERROR"
    ELSE IF seen.active = "yes" /\ stats.fresh THEN "HEALTHY"
    ELSE "UNKNOWN"

Observe ==
    /\ pc = "sample"
    /\ state' = [epoch |-> seen.epoch, action |-> Action, error |-> Latch]
    /\ evidence' = Blinded(IF WriteErrorSeen /\ broken # "no" /\ seen.epoch # NoProcess
                           THEN [epoch |-> seen.epoch, resumed |-> stats.values.resumed,
                                 blind |-> FALSE]
                           ELSE evidence,
                           Action # stats.values)
    /\ pc' = "idle" /\ seen' = NothingSeen
    /\ UNCHANGED receiver

Sample ==
    /\ Observe
    /\ saved' = state'
    /\ published' = ReceiverState

\* The file cannot be written: collect_host() only learns that much.
SampleUnsaved ==
    /\ "save" \in Lapses
    /\ Observe
    /\ published' = "UNKNOWN"
    /\ UNCHANGED saved

\* A killed or restarted agent reads its state back.
AgentRestarts ==
    /\ state' = saved
    /\ pc' = "idle" /\ seen' = NothingSeen
    /\ published' = "UNKNOWN"
    /\ evidence' = Blinded(evidence, state # saved)
    /\ UNCHANGED <<receiver, saved>>

-----------------------------------------------------------------------------
ObserverStep == SystemState \/ Sample

CalmStep == ObserverStep \/ WriteStats \/ WindowPasses \/ Resume

Disturbance ==
    \/ WriteError \/ ReceiverStops \/ ReceiverStarts \/ AgentRestarts
    \/ StatsLapse \/ QueryFails \/ SampleUnsaved

Next == CalmStep \/ Disturbance

Spec == Init /\ [][Next]_vars

\* collect_host() runs every host_interval_seconds, rsyslog writes its statistics
\* every ten seconds, and time passes.  That output resumes is not assumed.
Fairness ==
    /\ WF_vars(SystemState)
    /\ WF_vars(Sample)
    /\ WF_vars(WriteStats)
    /\ WF_vars(WindowPasses)

FairSpec == Spec /\ Fairness

-----------------------------------------------------------------------------
(* Safety. *)

\* After a lasting write error of a process was seen, that process is not called
\* healthy again before it has resumed: neither the end of the journal window nor
\* a restart of the agent is taken for a recovery.  It takes a failed query, missing
\* statistics or a failed save to get there.
ResumedBeforeHealthy ==
    published = "HEALTHY" /\ evidence.epoch = process.id /\ ~evidence.blind
        => counters.resumed > evidence.resumed

-----------------------------------------------------------------------------
(* The inductive invariant behind it. *)

Epochs == {state.epoch, saved.epoch, seen.epoch, evidence.epoch}

\* The statistics are those of the running process, and nobody knows of a process
\* that was not started yet.
Current ==
    /\ stats.fresh => process.up
    /\ stats.values.resumed <= counters.resumed
    /\ \A epoch \in Epochs : epoch <= process.id

\* What was seen of this process, now or in the file, it has reported since.
Compared ==
    \A old \in {state, saved} :
        old.epoch = process.id => old.action.resumed <= stats.values.resumed

\* The process that receives now has lasting evidence against it.
Suspect == process.up /\ evidence.epoch = process.id /\ ~evidence.blind

\* Then a sample under way asks about this process, and until it resumes the
\* latch is closed, at counters that include every resume before the evidence.
Latched ==
    Suspect =>
        /\ pc = "sample" => seen.epoch = process.id
        /\ \/ counters.resumed > evidence.resumed
           \/ /\ state.epoch = process.id
              /\ state.error
              /\ evidence.resumed <= state.action.resumed

IInv == TypeOK /\ Current /\ Compared /\ Latched /\ ResumedBeforeHealthy

-----------------------------------------------------------------------------
(* Liveness. *)

Quiet == <>[][CalmStep]_vars

\* A counted write error that lasts is shown, however the receiver and the agent
\* were restarted before.
ErrorsShow ==
    Quiet /\ <>[](process.up /\ broken = "counted") => <>[](published = "RECEIVER_ERROR")

\* Once the output has resumed for good, the latch opens again.
LatchOpens ==
    Quiet /\ <>[](process.up /\ broken = "no") => <>[](published = "HEALTHY")
===============================================================================
