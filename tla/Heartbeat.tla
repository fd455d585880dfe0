------------------------------- MODULE Heartbeat -------------------------------
(***************************************************************************)
(* The heartbeat to an outside observer: the last part of every round of   *)
(* run() and heartbeat() on a pool of one worker, app/netblackbox.py.      *)
(*                                                                         *)
(* A round reads the clock once, at its top, and sends at its end; the     *)
(* rate limit compares that reading with cloud_last_attempt, which is      *)
(* committed before the request is handed to the worker.  Instants are     *)
(* modelled by their ages.  The clock is not set while the agent runs.     *)
(***************************************************************************)
EXTENDS Integers

CONSTANTS
    Interval,   \* max(60, interval_seconds), in ticks
    MaxRound    \* the ticks a round may take from its top to its end

ASSUME HeartbeatAssumption == Interval \in Nat \ {0} /\ MaxRound \in Nat

VARIABLES
    at,          \* where the main loop is
    lag,         \* the age of `now`, read at the top of the round
    age,         \* the age of the committed cloud_last_attempt
    cloudOk,     \* the committed cloud_ok: the last event told
    known,       \* has process() filled self.status in this run of the agent?
    future,      \* cloud_future
    since        \* history: the age of the last request handed to the worker

vars == <<at, lag, age, cloudOk, known, future, since>>

NoFuture == [at |-> "none", ok |-> FALSE]
Running == [at |-> "running", ok |-> FALSE]
Future == {NoFuture, Running} \cup [at : {"done"}, ok : BOOLEAN]
Oldest == Interval + MaxRound

TypeOK ==
    /\ at \in {"top", "host", "probe", "heartbeat", "submit"}
    /\ lag \in 0 .. MaxRound
    /\ age \in 0 .. Oldest
    /\ cloudOk \in {"none", "ok", "failed"}
    /\ known \in BOOLEAN
    /\ future \in Future
    /\ since \in 0 .. Interval

Init ==
    /\ at = "top"
    /\ lag = 0
    /\ age = Oldest
    /\ cloudOk = "none"
    /\ known = FALSE
    /\ future = NoFuture
    /\ since = Interval

-----------------------------------------------------------------------------
(* Time and the worker. *)

Older(a, most) == IF a < most THEN a + 1 ELSE most

Tick ==
    /\ at # "top" => lag < MaxRound
    /\ lag' = IF at = "top" THEN 0 ELSE lag + 1
    /\ age' = Older(age, Oldest)
    /\ since' = Older(since, Interval)
    /\ UNCHANGED <<at, cloudOk, known, future>>

\* heartbeat() returns whether curl ended with 0; its deadlines end it otherwise.
HeartbeatEnds ==
    /\ future.at = "running"
    /\ \E ok \in BOOLEAN : future' = [at |-> "done", ok |-> ok]
    /\ UNCHANGED <<at, lag, age, cloudOk, known, since>>

-----------------------------------------------------------------------------
(* One round of the main loop.  Its earlier parts are given by AgentLoop. *)

BeginRound ==
    /\ at = "top"
    /\ at' = "host"
    /\ UNCHANGED <<lag, age, cloudOk, known, future, since>>

HostPart ==
    /\ at = "host"
    /\ at' = "probe"
    /\ UNCHANGED <<lag, age, cloudOk, known, future, since>>

\* process() fills self.status when a probe is due.
ProbePart ==
    /\ at = "probe"
    /\ at' = "heartbeat"
    /\ known' \in {known, TRUE}
    /\ UNCHANGED <<lag, age, cloudOk, future, since>>

\* Mutant of RecordAnswer: the future is not dropped.
RecordAnswerKeeping ==
    /\ at = "heartbeat"
    /\ future.at = "done"
    /\ cloudOk' = IF future.ok THEN "ok" ELSE "failed"
    /\ UNCHANGED <<at, lag, age, known, future, since>>

\* The event, if the answer changed, and cloud_ok are one transaction.
RecordAnswer ==
    /\ at = "heartbeat"
    /\ future.at = "done"
    /\ cloudOk' = IF future.ok THEN "ok" ELSE "failed"
    /\ future' = NoFuture
    /\ UNCHANGED <<at, lag, age, known, since>>

Due == future.at = "none" /\ known /\ age - lag >= Interval

\* cloud_last_attempt is the `now` of this round, and committed first.
CommitAttempt ==
    /\ at = "heartbeat"
    /\ Due
    /\ at' = "submit"
    /\ age' = lag
    /\ UNCHANGED <<lag, cloudOk, known, future, since>>

Submit ==
    /\ at = "submit"
    /\ at' = "top"
    /\ lag' = 0
    /\ future' = Running
    /\ since' = 0
    /\ UNCHANGED <<age, cloudOk, known>>

EndRound ==
    /\ at = "heartbeat"
    /\ future.at # "done"
    /\ ~Due
    /\ at' = "top"
    /\ lag' = 0
    /\ UNCHANGED <<age, cloudOk, known, future, since>>

-----------------------------------------------------------------------------
(* Failures. *)

\* The handler rolls back, and the rest of the round is left out.
Abandoned ==
    /\ at' = "top"
    /\ lag' = 0
    /\ UNCHANGED <<age, cloudOk, known, future, since>>

CollectionFails == at \in {"top", "host", "probe"} /\ Abandoned

\* A commit of an answer: the future is kept for the next round.
AnswerFails == at = "heartbeat" /\ future.at = "done" /\ Abandoned

\* Mutant of AttemptFails: the request was handed over before the commit.
AttemptFailsLate ==
    /\ at = "heartbeat"
    /\ Due
    /\ at' = "top"
    /\ lag' = 0
    /\ future' = Running
    /\ since' = 0
    /\ UNCHANGED <<age, cloudOk, known>>

\* The timestamp is not committed: nothing is handed to the worker.
AttemptFails == at = "heartbeat" /\ Due /\ Abandoned

\* The agent is killed, or ends and waits for its pools, and starts again.
AgentRestarts ==
    /\ at' = "top"
    /\ lag' = 0
    /\ known' = FALSE
    /\ future' = NoFuture
    /\ UNCHANGED <<age, cloudOk, since>>

-----------------------------------------------------------------------------
Next ==
    \/ Tick \/ HeartbeatEnds
    \/ BeginRound \/ HostPart \/ ProbePart
    \/ RecordAnswer \/ CommitAttempt \/ Submit \/ EndRound
    \/ CollectionFails \/ AnswerFails \/ AttemptFails \/ AgentRestarts

Spec == Init /\ [][Next]_vars

-----------------------------------------------------------------------------
(* Properties. *)

\* Whatever writes fail and however often the agent restarts, two requests are
\* handed over at least Interval apart, less the time one round takes between
\* reading the clock and sending (netblackbox.py:586-590).
RateLimit ==
    [][future.at # "running" /\ future'.at = "running"
          => since >= Interval - MaxRound]_vars
=============================================================================
