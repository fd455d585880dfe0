------------------------------ MODULE Deployment ------------------------------
(***************************************************************************)
(* Installing, upgrading, uninstalling and rolling back: _install(),       *)
(* uninstall(), restore_manifest() and the rollback command of manage.py,  *)
(* on a machine whose services restart by themselves, whose storage guard  *)
(* pauses and resumes the receiver, and which may be rebooted at any time. *)
(*                                                                         *)
(* An install backs every file up into a manifest, marks the data          *)
(* directory, stops the services, replaces the files one by one, starts    *)
(* the services, verifies, and removes the mark.  What raises an           *)
(* exception is rolled back at once from the manifest; what is killed is   *)
(* left to the rollback command.  While the mark is there the services     *)
(* start only under a living installer, and nothing deletes evidence.      *)
(*                                                                         *)
(* An uninstall backs up into a manifest of its own, stops and disables    *)
(* the services and removes the files, without a mark.                     *)
(*                                                                         *)
(* A release is named after the install that brought it.  Every release    *)
(* is one whose units ask --agent-allowed and --receiver-allowed.          *)
(***************************************************************************)
EXTENDS Integers, FiniteSets, SequencesExt

CONSTANTS
    MaxInstalls,        \* bound: installs and uninstalls, one manifest each
    UnmarkedFailures    \* what may stop copying back when there is no mark:
                        \* "error", "killed"

ASSUME InstallsAssumption == MaxInstalls \in Nat \ {0}
ASSUME FailuresAssumption == UnmarkedFailures \subseteq {"error", "killed"}

VARIABLES
    files,       \* the release each file is of, 0 if there is none; "state" is
                 \* install-state.json, its release is latest_install
    manifest,    \* the manifests, by install
    mark,        \* upgrade-in-progress.json: the manifest it names (0: no such
                 \* file), and is its owner alive?
    op,          \* the running manage.py
    runs,        \* for each unit the releases it was started from, {} if inactive
    enabled,     \* the units that start at boot
    deleting,    \* the units in the middle of a retention pass
    paused       \* syslog-storage.json: the guard has paused the receiver

vars == <<files, manifest, mark, op, runs, enabled, deleting, paused>>

services == <<runs, enabled, deleting, paused>>

-----------------------------------------------------------------------------
Install == 1..MaxInstalls
Release == {0} \cup Install
File == {"program", "unit", "state"}
Service == {"receiver", "agent", "timer"}
Unit == Service \cup {"guard"}

Payload == <<"unit", "program", "state">>
StartOrder == <<"receiver", "agent", "timer">>

\* Mutant of StopOrder: the guard before the timer that fires it.
StopOrderGuardFirst == <<"guard", "timer", "receiver", "agent">>

StopOrder == <<"timer", "guard", "receiver", "agent">>

InstallSteps == {"mark", "stop", "capture", "put", "enable", "guard", "start", "verify", "unmark"}
UninstallSteps == {"ustop", "udisable", "remove", "uend"}
RestoreSteps == {"rstop", "copy", "reload", "controls", "release", "disable", "restart", "end",
                 "failed"}

Manifest ==
    [phase : {"none", "prepared", "quiescing", "complete", "uninstalling", "uninstalled",
              "rolled_back", "rollback_failed"},
     kind : {"none", "upgrade", "same", "uninstall"}, backup : [File -> Release],
     active : SUBSET Service, enabled : SUBSET Service,
     controls : {"none", "clear", "paused"},       \* runtime_before
     verified : BOOLEAN]                           \* verification.json reports success

NoManifest ==
    [phase |-> "none", kind |-> "none", backup |-> [f \in File |-> 0],
     active |-> {}, enabled |-> {}, controls |-> "none", verified |-> FALSE]

Operation ==
    [kind : {"none", "install", "uninstall", "rollback"}, of : Release,
     pc : InstallSteps \cup UninstallSteps \cup RestoreSteps \cup {"done"}, i : 1..4,
     errors : BOOLEAN]

NoOp == [kind |-> "none", of |-> 0, pc |-> "done", i |-> 1, errors |-> FALSE]
NoMark == [of |-> 0, alive |-> FALSE]

TypeOK ==
    /\ files \in [File -> Release]
    /\ manifest \in [Install -> Manifest]
    /\ mark \in [of : Release, alive : BOOLEAN]
    /\ op \in Operation
    /\ runs \in [Unit -> SUBSET Release]
    /\ enabled \subseteq Service
    /\ deleting \subseteq {"agent", "guard"}
    /\ paused \in BOOLEAN

Init ==
    /\ files = [f \in File |-> 0]
    /\ manifest = [k \in Install |-> NoManifest]
    /\ mark = NoMark
    /\ op = NoOp
    /\ runs = [u \in Unit |-> {}]
    /\ enabled = {} /\ deleting = {}
    /\ paused = FALSE

\* What a service started now would consist of.
Installed == {files["program"], files["unit"]}
Mixed == files["program"] # files["unit"]
Runnable == 0 \notin Installed
Active == {u \in Service : runs[u] # {}}

-----------------------------------------------------------------------------
(* The services. *)

\* Mutant of MayStart: the mark is not looked at.
MayStartMarked(u, m) == Runnable /\ (u = "receiver" => ~paused)

\* --agent-allowed and --receiver-allowed; the timer has no condition.
MayStart(u, m) ==
    /\ Runnable
    /\ u = "timer" \/ m.of = 0 \/ m.alive
    /\ u = "receiver" => ~paused

\* Restart=always after a crash.
UnitRestarts(u) ==
    /\ runs[u] # {}
    /\ runs' = [runs EXCEPT ![u] = IF MayStart(u, mark) THEN Installed ELSE {}]
    /\ deleting' = deleting \ {u}
    /\ UNCHANGED <<files, manifest, mark, op, enabled, paused>>

GuardFires ==
    /\ runs["timer"] # {} /\ runs["guard"] = {}
    /\ Runnable
    /\ runs' = [runs EXCEPT !["guard"] = Installed]
    /\ UNCHANGED <<files, manifest, mark, op, enabled, deleting, paused>>

\* Mutant of StartsDeleting: retention does not look at the mark.
StartsDeletingMarked(u) ==
    /\ runs[u] # {} /\ u \notin deleting
    /\ deleting' = deleting \cup {u}
    /\ UNCHANGED <<files, manifest, mark, op, runs, enabled, paused>>

\* maintenance() and the guard's cycle() look for the mark once, at their start.
StartsDeleting(u) ==
    /\ runs[u] # {} /\ u \notin deleting
    /\ mark.of = 0
    /\ deleting' = deleting \cup {u}
    /\ UNCHANGED <<files, manifest, mark, op, runs, enabled, paused>>

EndsDeleting(u) ==
    /\ u \in deleting
    /\ deleting' = deleting \ {u}
    /\ UNCHANGED <<files, manifest, mark, op, runs, enabled, paused>>

GuardEnds ==
    /\ runs["guard"] # {} /\ "guard" \notin deleting
    /\ runs' = [runs EXCEPT !["guard"] = {}]
    /\ UNCHANGED <<files, manifest, mark, op, enabled, deleting, paused>>

\* A cycle that has found no mark may pause the receiver or resume it; see
\* StorageGuard for what it does in steps.
GuardPauses ==
    /\ "guard" \in deleting /\ runs["receiver"] # {}
    /\ paused' = TRUE
    /\ runs' = [runs EXCEPT !["receiver"] = {}]
    /\ UNCHANGED <<files, manifest, mark, op, enabled, deleting>>

GuardResumes ==
    /\ "guard" \in deleting /\ paused
    /\ Runnable /\ (mark.of = 0 \/ mark.alive)
    /\ paused' = FALSE
    /\ runs' = [runs EXCEPT !["receiver"] = Installed]
    /\ UNCHANGED <<files, manifest, mark, op, enabled, deleting>>

-----------------------------------------------------------------------------
(* _install() *)

\* Only an install that changes files leaves a mark; an uninstall, too, backs up
\* every file.
Changing == manifest[op.of].kind = "upgrade"
AllFiles(k) == manifest[k].kind \in {"upgrade", "uninstall"}
Covered(k) == {f \in File : AllFiles(k) \/ f = "state"}

\* The next item of a sequence, or the next step after it.
After(order, next) ==
    IF op.i < Len(order) THEN [op EXCEPT !.i = @ + 1] ELSE [op EXCEPT !.pc = next, !.i = 1]

\* preflight(): no mark, and either nothing of the project is there or a
\* complete install that can be rolled back.
Preflight ==
    /\ mark.of = 0 /\ ~paused
    /\ IF files["state"] = 0 THEN \A f \in File : files[f] = 0
       ELSE Runnable /\ manifest[files["state"]].phase = "complete"
    /\ runs["guard"] = {}

NewManifest(k, kind, phase) ==
    /\ manifest[k].phase = "none" /\ \A j \in 1..(k - 1) : manifest[j].phase # "none"
    /\ manifest' = [manifest EXCEPT ![k] =
          [phase |-> phase, kind |-> kind, backup |-> files, active |-> Active,
           enabled |-> IF files["unit"] = 0 THEN {} ELSE enabled, controls |-> "none",
           verified |-> FALSE]]

\* Under the deployment lock; whatever fails until here has touched nothing.
\* Without a change to make, only install-state.json is written.  An install that fails
\* while it still copies the files into its backup has no mark to leave either, and what
\* it restores is what is there: it, too, is one without a change, which fails before
\* its first Put.
BeginInstall(changing) ==
    /\ op = NoOp
    /\ Preflight
    /\ changing \/ (Runnable /\ ~Mixed)
    /\ \E k \in Install :
        /\ NewManifest(k, IF changing THEN "upgrade" ELSE "same", "prepared")
        /\ op' = [kind |-> "install", of |-> k, pc |-> IF changing THEN "mark" ELSE "put",
                  i |-> 1, errors |-> FALSE]
    /\ UNCHANGED <<files, mark, services>>

\* The manifest names the mark from the start of this step on, so that errors of a
\* restore put it there even if the install itself did not.
WriteMark ==
    /\ op.pc = "mark"
    /\ manifest' = [manifest EXCEPT ![op.of].phase = "quiescing"]
    /\ mark' = [of |-> op.of, alive |-> TRUE]
    /\ op' = [op EXCEPT !.pc = "stop"]
    /\ UNCHANGED <<files, services>>

\* stop_units(), for the install, the uninstall and every restore: a unit without
\* a unit file is passed over.
AfterStop == [stop |-> "capture", ustop |-> "udisable", rstop |-> "copy"]

StopUnit ==
    /\ op.pc \in DOMAIN AfterStop
    /\ LET stopped == IF files["unit"] = 0 THEN {} ELSE {StopOrder[op.i]} IN
        /\ runs' = [u \in Unit |-> IF u \in stopped THEN {} ELSE runs[u]]
        /\ deleting' = deleting \ stopped
    /\ op' = After(StopOrder, AfterStop[op.pc])
    /\ UNCHANGED <<files, manifest, mark, enabled, paused>>

\* capture_controls(), once nothing of the project runs.
Capture ==
    /\ op.pc = "capture"
    /\ manifest' = [manifest EXCEPT ![op.of].controls = IF paused THEN "paused" ELSE "clear"]
    /\ op' = [op EXCEPT !.pc = "put"]
    /\ UNCHANGED <<files, mark, services>>

PutOrder == IF AllFiles(op.of) THEN Payload ELSE <<"state">>

Put ==
    /\ op.pc = "put"
    /\ files' = [files EXCEPT ![PutOrder[op.i]] = op.of]
    /\ op' = After(PutOrder, "enable")
    /\ UNCHANGED <<manifest, mark, services>>

Enable ==
    /\ op.pc = "enable"
    /\ enabled' = Service
    /\ op' = [op EXCEPT !.pc = IF Changing THEN "guard" ELSE "start"]
    /\ UNCHANGED <<files, manifest, mark, runs, deleting, paused>>

\* The new guard runs once under the mark: it changes nothing, and fails when the
\* old one has paused the receiver.
ValidateGuard ==
    /\ op.pc = "guard" /\ ~paused
    /\ op' = [op EXCEPT !.pc = "start"]
    /\ UNCHANGED <<files, manifest, mark, services>>

\* An install without a change passes over what was active when it began, even if that
\* has stopped since.  A start whose condition fails is no error: systemctl returns 0.
StartUnit ==
    /\ op.pc = "start"
    /\ LET u == StartOrder[op.i]
           inactive == runs[u] = {} /\ (Changing \/ u \notin manifest[op.of].active) IN
        runs' = IF inactive /\ MayStart(u, mark) THEN [runs EXCEPT ![u] = Installed] ELSE runs
    /\ op' = After(StartOrder, "verify")
    /\ UNCHANGED <<files, manifest, mark, enabled, deleting, paused>>

Verify ==
    /\ op.pc = "verify"
    /\ Active = Service
    /\ manifest' = [manifest EXCEPT ![op.of].phase = "complete", ![op.of].verified = TRUE]
    /\ op' = [op EXCEPT !.pc = "unmark"]
    /\ UNCHANGED <<files, mark, services>>

EndInstall ==
    /\ op.pc = "unmark"
    /\ mark' = IF Changing THEN NoMark ELSE mark
    /\ op' = NoOp
    /\ UNCHANGED <<files, manifest, services>>

\* The guard reports its pause, or the verification a service that is not active.
Unacceptable ==
    \/ op.pc = "guard" /\ paused
    \/ op.pc = "verify" /\ Active # Service

Rejected ==
    /\ Unacceptable
    /\ op' = [op EXCEPT !.pc = "rstop", !.i = 1]
    /\ UNCHANGED <<files, manifest, mark, services>>

\* Any other exception, SIGTERM included.
InstallFails ==
    /\ op.pc \in InstallSteps /\ ~Unacceptable
    /\ op' = [op EXCEPT !.pc = "rstop", !.i = 1]
    /\ UNCHANGED <<files, manifest, mark, services>>

\* SIGTERM, or an output that cannot be written, between the removal of the mark and
\* the end of the report rolls a complete install back without a mark.
ReportFails ==
    /\ op.pc = "unmark" /\ Changing
    /\ mark' = NoMark
    /\ op' = [op EXCEPT !.pc = "rstop"]
    /\ UNCHANGED <<files, manifest, services>>

InstallStep ==
    \/ WriteMark \/ Capture \/ Put \/ Enable \/ ValidateGuard \/ StartUnit \/ Verify
    \/ EndInstall \/ Rejected

-----------------------------------------------------------------------------
(* uninstall() *)

\* It asks for install-state.json and for units that are not just starting, not for
\* a mark nor for a whole release (edited files are a matter of --force).
BeginUninstall ==
    /\ op = NoOp
    /\ files["state"] # 0 /\ runs["guard"] = {}
    /\ \E k \in Install :
        /\ NewManifest(k, "uninstall", "uninstalling")
        /\ op' = [kind |-> "uninstall", of |-> k, pc |-> "ustop", i |-> 1, errors |-> FALSE]
    /\ UNCHANGED <<files, mark, services>>

DisableForGood ==
    /\ op.pc = "udisable"
    /\ enabled' = IF files["unit"] = 0 THEN enabled ELSE enabled \ {StartOrder[op.i]}
    /\ op' = After(StartOrder, "remove")
    /\ UNCHANGED <<files, manifest, mark, runs, deleting, paused>>

RemoveFile ==
    /\ op.pc = "remove"
    /\ files' = [files EXCEPT ![Payload[op.i]] = 0]
    /\ op' = After(Payload, "uend")
    /\ UNCHANGED <<manifest, mark, services>>

EndUninstall ==
    /\ op.pc = "uend"
    /\ manifest' = [manifest EXCEPT ![op.of].phase = "uninstalled"]
    /\ op' = NoOp
    /\ UNCHANGED <<files, mark, services>>

UninstallFails ==
    /\ op.pc \in UninstallSteps
    /\ op' = [op EXCEPT !.pc = "rstop", !.i = 1]
    /\ UNCHANGED <<files, manifest, mark, services>>

UninstallStep == DisableForGood \/ RemoveFile \/ EndUninstall

-----------------------------------------------------------------------------
(* restore_manifest() *)

\* The latest install, or the one that the mark names.
Eligible(k) ==
    /\ manifest[k].phase # "none"
    /\ \/ files["state"] \in {0, k}
       \/ manifest[k].kind = "upgrade" /\ mark.of = k

BeginRollback(k) ==
    /\ op = NoOp
    /\ Eligible(k)
    /\ op' = [kind |-> "rollback", of |-> k, pc |-> "rstop", i |-> 1, errors |-> FALSE]
    /\ UNCHANGED <<files, manifest, mark, services>>

\* Bound: copying back without a mark is stopped only by UnmarkedFailures.
MayStop(failure) == op.pc \in {"copy", "reload"} /\ mark.of = 0 => failure \in UnmarkedFailures

\* Mutant of Reload: a restore with errors goes on.
ReloadAnyway ==
    /\ op.pc = "reload"
    /\ op' = [op EXCEPT !.pc = "controls"]
    /\ UNCHANGED <<files, manifest, mark, services>>

\* Errors of the copies end the restore before daemon-reload.
Reload ==
    /\ op.pc = "reload"
    /\ op' = [op EXCEPT !.pc = IF op.errors THEN "failed" ELSE "controls"]
    /\ UNCHANGED <<files, manifest, mark, services>>

\* The pause metadata of the quiesced machine, once it has been captured.
RestoreControls ==
    /\ op.pc = "controls"
    /\ paused' = IF manifest[op.of].controls = "none" THEN paused
                 ELSE manifest[op.of].controls = "paused"
    /\ op' = [op EXCEPT !.pc = "release"]
    /\ UNCHANGED <<files, manifest, mark, runs, enabled, deleting>>

\* Mutant of RestoreOrder: the last file is forgotten.
RestoreOrderShort == IF AllFiles(op.of) THEN <<"state", "program">> ELSE <<"state">>

RestoreOrder == Reverse(PutOrder)

CopyBack ==
    /\ op.pc = "copy"
    /\ LET f == RestoreOrder[op.i] IN files' = [files EXCEPT ![f] = manifest[op.of].backup[f]]
    /\ op' = After(RestoreOrder, "reload")
    /\ UNCHANGED <<manifest, mark, services>>

\* copy2() writes into the file itself: a copy that does not get to its end leaves the
\* file as it was or cut short, which is no better than none.  (Bound: never
\* install-state.json, without which no rollback command works.)
CutShort ==
    {f \in {"program", "unit"} :
        op.pc = "copy" /\ f = RestoreOrder[op.i] /\ manifest[op.of].backup[f] # 0}

CopyStops == files' = files \/ \E f \in CutShort : files' = [files EXCEPT ![f] = 0]

\* The other files are copied all the same.
CopyFails ==
    /\ op.pc = "copy" /\ MayStop("error")
    /\ CopyStops
    /\ op' = [After(RestoreOrder, "reload") EXCEPT !.errors = TRUE]
    /\ UNCHANGED <<manifest, mark, services>>

\* Mutant of ReleaseMark: the mark stays until the services have started.
ReleaseMarkLater ==
    /\ op.pc = "release"
    /\ op' = [op EXCEPT !.pc = "disable"]
    /\ UNCHANGED <<files, manifest, mark, services>>

\* The mark goes before the services start, which would refuse to otherwise.
ReleaseMark ==
    /\ op.pc = "release"
    /\ mark' = IF Changing THEN NoMark ELSE mark
    /\ op' = [op EXCEPT !.pc = "disable"]
    /\ UNCHANGED <<files, manifest, services>>

\* restore_enable() disables first; without a unit file its links are removed.
DisableUnit ==
    /\ op.pc = "disable"
    /\ enabled' = enabled \ {StartOrder[op.i]}
    /\ op' = [op EXCEPT !.pc = "restart"]
    /\ UNCHANGED <<files, manifest, mark, runs, deleting, paused>>

\* What the manifest says of the unit at hand; without a unit file, nothing.
Prior(units) == files["unit"] # 0 /\ StartOrder[op.i] \in units
WasEnabled == Prior(manifest[op.of].enabled)
WasActive == Prior(manifest[op.of].active)

NextUnit == IF op.i < Len(StartOrder) THEN [op EXCEPT !.pc = "disable", !.i = @ + 1]
            ELSE [op EXCEPT !.pc = "end", !.i = 1]

\* systemctl disable fails or takes too long: the rest of the unit is left out.
DisableFails ==
    /\ op.pc = "disable" /\ files["unit"] # 0
    /\ enabled' \in {enabled, enabled \ {StartOrder[op.i]}}
    /\ op' = [NextUnit EXCEPT !.errors = TRUE]
    /\ UNCHANGED <<files, manifest, mark, runs, deleting, paused>>

Reenabled == IF WasEnabled THEN enabled \cup {StartOrder[op.i]} ELSE enabled

RestartUnit ==
    /\ op.pc = "restart"
    /\ WasActive => MayStart(StartOrder[op.i], mark)
    /\ enabled' = Reenabled
    /\ runs' = IF WasActive THEN [runs EXCEPT ![StartOrder[op.i]] = Installed] ELSE runs
    /\ op' = NextUnit
    /\ UNCHANGED <<files, manifest, mark, deleting, paused>>

\* A start that is refused is an error here; the next unit is tried.
StartRefused ==
    /\ op.pc = "restart"
    /\ WasActive /\ ~MayStart(StartOrder[op.i], mark)
    /\ enabled' \in {enabled, Reenabled}
    /\ op' = [NextUnit EXCEPT !.errors = TRUE]
    /\ UNCHANGED <<files, manifest, mark, runs, deleting, paused>>

RestartFails ==
    /\ op.pc = "restart"
    /\ WasEnabled \/ WasActive
    /\ WasActive => MayStart(StartOrder[op.i], mark)
    /\ enabled' \in {enabled, Reenabled}
    /\ op' = [NextUnit EXCEPT !.errors = TRUE]
    /\ UNCHANGED <<files, manifest, mark, runs, deleting, paused>>

\* stop_units() or daemon-reload fails: nothing is restored, or nothing started.
RestoreStops ==
    /\ op.pc \in {"rstop", "reload"}
    /\ op' = [op EXCEPT !.pc = "failed", !.i = 1, !.errors = TRUE]
    /\ UNCHANGED <<files, manifest, mark, services>>

\* Errors in starting the services put the mark back, without an owner.  The
\* manager exits, and an installer records how its rollback went.
EndRestore ==
    /\ op.pc \in {"end", "failed"}
    /\ mark' = IF op.pc = "end" /\ op.errors /\ Changing THEN [of |-> op.of, alive |-> FALSE]
               ELSE [mark EXCEPT !.alive = FALSE]
    /\ manifest' = IF op.kind = "rollback" THEN manifest ELSE
                   [manifest EXCEPT ![op.of].phase =
                        IF op.errors THEN "rollback_failed" ELSE "rolled_back"]
    /\ op' = NoOp
    /\ UNCHANGED <<files, services>>

RestoreStep ==
    \/ CopyBack \/ Reload \/ RestoreControls \/ ReleaseMark \/ DisableUnit
    \/ RestartUnit \/ StartRefused \/ EndRestore

-----------------------------------------------------------------------------
(* What no Python code sees coming. *)

OwnerGone == [mark EXCEPT !.alive = FALSE]

\* Nothing is left to do but to exit.
Over ==
    \/ op.pc = "unmark" /\ ~Changing
    \/ op.kind = "rollback" /\ op.pc = "failed"
    \/ op.kind = "rollback" /\ op.pc = "end" /\ ~(op.errors /\ Changing)

\* SIGKILL: whoever holds the mark is gone.
Killed ==
    /\ op # NoOp /\ ~Over
    /\ MayStop("killed")
    /\ CopyStops
    /\ op' = NoOp
    /\ mark' = OwnerGone
    /\ UNCHANGED <<manifest, services>>

\* A reboot, or a power loss, at any time.
Reboot ==
    /\ op = NoOp \/ ~Over
    /\ MayStop("killed")
    /\ CopyStops
    /\ op' = NoOp
    /\ mark' = OwnerGone
    /\ runs' = [u \in Unit |-> IF u \in enabled /\ files' = files /\ MayStart(u, OwnerGone)
                                  THEN Installed ELSE {}]
    /\ deleting' = {}
    /\ UNCHANGED <<manifest, enabled, paused>>

-----------------------------------------------------------------------------
Administrator ==
    \/ \E changing \in BOOLEAN : BeginInstall(changing)
    \/ BeginUninstall
    \/ \E k \in Install : BeginRollback(k)

ManagerStep == StopUnit \/ InstallStep \/ UninstallStep \/ RestoreStep

Services ==
    \/ \E u \in {"receiver", "agent"} : UnitRestarts(u)
    \/ \E u \in {"agent", "guard"} : StartsDeleting(u) \/ EndsDeleting(u)
    \/ GuardFires \/ GuardEnds \/ GuardPauses \/ GuardResumes

Failure ==
    \/ InstallFails \/ ReportFails \/ UninstallFails \/ CopyFails \/ DisableFails
    \/ RestartFails \/ RestoreStops
    \/ Killed \/ Reboot

Next == Administrator \/ ManagerStep \/ Services \/ Failure

Spec == Init /\ [][Next]_vars

\* manage.py goes on with what it has begun: every command has a timeout.  The
\* administrator does what the preflight tells: roll back what the mark names.
FairSpec ==
    /\ Spec
    /\ WF_vars(ManagerStep)
    /\ SF_vars(\E k \in Install : mark.of = k /\ BeginRollback(k))

-----------------------------------------------------------------------------
(* Safety. *)

\* An uninstall does not look for a mark, and its rollback brings back without one
\* what it found.  Nothing is promised of a machine on which an uninstall has found
\* the remains of an interrupted install or uninstall.
BackupsVerified ==
    \A k \in Install : manifest[k].kind = "uninstall" =>
        \E r \in Install : /\ manifest[r].verified
                           /\ \A f \in {"program", "unit"} : manifest[k].backup[f] = r

\* Neither the receiver nor the agent ever runs on files of two releases,
\* whatever was killed or rebooted, and when.
NoMixedRuntime ==
    BackupsVerified => \A u \in {"receiver", "agent"} : Cardinality(runs[u]) <= 1

\* No evidence is deleted by a release that has not passed its verification, so
\* that what is rolled back finds the evidence as it left it.
OnlyVerifiedDelete ==
    BackupsVerified => \A u \in deleting : \A r \in runs[u] : manifest[r].verified

\* What a killed manager leaves can be put right: files of two releases come with
\* a mark that leads to the backup of one, and a release of which some files are
\* removed is stopped, disabled and still known to install-state.json.
MixedIsRecoverable ==
    BackupsVerified /\ op = NoOp /\ Mixed =>
        \/ /\ mark.of # 0
           /\ Eligible(mark.of)
           /\ manifest[mark.of].backup["program"] = manifest[mark.of].backup["unit"]
        \/ /\ ~Runnable /\ Active = {} /\ enabled = {}
           /\ files["state"] # 0

-----------------------------------------------------------------------------
(* The inductive invariant behind the safety properties. *)

\* Manifests are numbered in the order in which they are begun, an install or
\* uninstall works on the last one, and a backup only holds older releases; only the
\* first install, or one on a machine left bare, finds no install-state.json.
Numbered ==
    /\ \A k \in Install : manifest[k].phase = "none" =>
          manifest[k] = NoManifest /\ \A j \in Install : j > k => manifest[j].phase = "none"
    /\ op.kind \in {"install", "uninstall"} =>
          \A j \in Install : j > op.of => manifest[j].phase = "none"
    /\ \A f \in File : files[f] # 0 => manifest[files[f]].phase # "none"
    /\ \A k \in Install, f \in File : manifest[k].backup[f] < k
    /\ \A k \in Install : manifest[k].phase # "none" /\ manifest[k].kind # "upgrade" =>
          manifest[k].backup["state"] # 0

\* Where manage.py may stand, and how far in a loop over files or units.
Located ==
    /\ op.kind = "none" => op = NoOp
    /\ op.kind # "none" => op.pc # "done" /\ op.of # 0 /\ manifest[op.of].phase # "none"
    /\ op.kind = "install" => manifest[op.of].kind \in {"upgrade", "same"}
    /\ op.kind = "uninstall" => manifest[op.of].kind = "uninstall"
    /\ op.pc \in InstallSteps => op.kind = "install"
    /\ op.pc \in UninstallSteps => op.kind = "uninstall"
    /\ op.pc \in {"mark", "stop", "capture", "guard"} => Changing
    /\ op.pc \in {"put", "copy"} => op.i <= Len(PutOrder)
    /\ op.pc \in {"start", "udisable", "remove", "disable", "restart"} => op.i <= 3
    /\ op.pc \in {"mark", "capture", "enable", "guard", "verify", "unmark", "uend", "reload",
                  "controls", "release", "end", "failed"} => op.i = 1
    /\ op.pc \in InstallSteps \cup UninstallSteps \cup {"rstop"} => ~op.errors

\* The mark is of an install that replaces files; while this install goes on, the
\* mark is its own.
Marked ==
    /\ mark.of # 0 => manifest[mark.of].kind = "upgrade"
    /\ mark.alive => op.kind = "install" /\ op.of = mark.of
    /\ op.kind = "install" /\ ~Changing => mark.of = 0 /\ files["unit"] # 0
    /\ op.pc \in InstallSteps \ {"mark"} /\ Changing => mark.of = op.of

\* What the loops over files have done so far.
Copied ==
    /\ op.pc = "put" /\ Changing => \A j \in 1..(op.i - 1) : files[Payload[j]] = op.of
    /\ op.pc \in {"enable", "guard", "start", "verify", "unmark"} /\ Changing =>
          \A f \in File : files[f] = op.of
    /\ op.pc = "unmark" => manifest[op.of].phase = "complete" /\ manifest[op.of].verified
    /\ op.pc \in {"ustop", "udisable"} => files = manifest[op.of].backup
    /\ op.pc = "remove" => \A j \in 1..3 :
          files[Payload[j]] = IF j < op.i THEN 0 ELSE manifest[op.of].backup[Payload[j]]
    /\ op.pc = "uend" => \A f \in File : files[f] = 0
    /\ op.pc = "copy" /\ ~op.errors => \A j \in 1..(op.i - 1) :
          files[RestoreOrder[j]] = manifest[op.of].backup[RestoreOrder[j]]
    /\ \/ op.pc = "reload" /\ ~op.errors
       \/ op.pc \in {"controls", "release", "disable", "restart", "end"}
       => \A f \in Covered(op.of) : files[f] = manifest[op.of].backup[f]

\* From the stop of the last unit to the start of the first, nothing runs.
Quiet ==
    \/ op.pc \in {"capture", "guard", "udisable", "remove", "uend", "copy", "reload",
                  "controls", "release"}
    \/ op.pc \in {"put", "enable"} /\ Changing

\* What runs was started from the files that are there.
Running ==
    /\ \A u \in Unit : runs[u] = {} \/ (runs[u] = Installed /\ Runnable)
    /\ \A u \in deleting : runs[u] # {}
    /\ Quiet => \A u \in Unit : runs[u] = {}
    /\ op.pc \in DOMAIN AfterStop => \A j \in 1..(op.i - 1) : runs[StopOrder[j]] = {}

\* A restore starts the units one by one, the timer last: until then no guard pauses
\* the receiver, and what has been started would start again after a crash.
Restarting ==
    LET m == manifest[op.of] IN
    /\ op.pc \in {"release", "disable", "restart"} /\ m.controls # "none" =>
          paused = (m.controls = "paused")
    /\ op.pc \in {"disable", "restart"} =>
          /\ \A j \in op.i..3 : runs[StartOrder[j]] = {}
          /\ runs["guard"] = {}
          /\ \A u \in {"receiver", "agent"} : runs[u] # {} => MayStart(u, mark)
          /\ ~op.errors => \A j \in 1..(op.i - 1) :
                /\ runs[StartOrder[j]] # {} <=> files["unit"] # 0 /\ StartOrder[j] \in m.active
                /\ StartOrder[j] \in enabled <=> files["unit"] # 0 /\ StartOrder[j] \in m.enabled
    /\ op.pc = "restart" => StartOrder[op.i] \notin enabled

\* Nothing installed, or all of one verified release.
Whole(release) ==
    IF release["unit"] = 0 THEN \A f \in File : release[f] = 0
    ELSE release["program"] = release["unit"] /\ manifest[release["unit"]].verified

Verified == files["unit"] # 0 => Whole(files)

\* An interrupted uninstall has disabled what it has begun to remove.
Dismantled == files["unit"] = 0 /\ files["program"] # 0 => enabled = {} /\ files["state"] # 0

Trustworthy ==
    /\ \A k \in Install : AllFiles(k) => Whole(manifest[k].backup)
    /\ mark.of = 0 /\ (op.pc = "copy" => ~AllFiles(op.of)) => Verified /\ Dismantled
    /\ deleting # {} => Verified
    /\ Mixed => runs["receiver"] = {} /\ runs["agent"] = {}
    /\ op.pc \in {"copy", "reload"} /\ mark.of = 0 => ~op.errors
    /\ op.pc = "udisable" => \A j \in 1..(op.i - 1) : StartOrder[j] \notin enabled
    /\ op.pc = "remove" => enabled = {}

MInv == TypeOK /\ Numbered /\ Located /\ Marked /\ Copied /\ Running
DInv == MInv /\ (BackupsVerified => Trustworthy)
RInv == MInv /\ Restarting

-----------------------------------------------------------------------------
(* Action properties. *)

\* No file is replaced or removed under a running service, the one-shot guard
\* that the timer may fire again included.
NothingReplacedUnderServices ==
    [][\A f \in {"program", "unit"} :
          files'[f] # files[f] => \A u \in Unit : runs[u] = {}]_vars

\* Manifest k has left no trace: its files are back and, if they include units,
\* so are the enablement, the running services and the pause metadata.
Undone(k) ==
    LET m == manifest[k] IN
    /\ \A f \in Covered(k) : files[f] = m.backup[f]
    /\ files["unit"] # 0 => enabled = m.enabled /\ Active = m.active
    /\ m.controls # "none" => paused = (m.controls = "paused")

\* A rollback that has found no error has undone its install or uninstall.
RollbackRestores ==
    [][RestartUnit /\ op'.pc = "end" /\ ~op'.errors => Undone(op.of)']_vars

-----------------------------------------------------------------------------
(* Liveness. *)

\* Once manage.py is left alone (the machine may still be rebooted between two of its
\* runs), no interrupted install keeps it down: the mark goes for good, at the latest
\* by the rollback of the manifest it names, unless the receiver stays paused or is
\* paused again and again.  A rollback that is to start a paused receiver finds it
\* refused and puts the mark back; when the guard paused it between the preflight and
\* the stop of the services, the manifest holds the pause and every rollback restores it.
MarkLeaves == <>[][Failure => op = NoOp]_vars => <>[](mark.of = 0) \/ []<>paused
==============================================================================
