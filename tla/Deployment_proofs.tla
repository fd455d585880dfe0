-------------------------- MODULE Deployment_proofs --------------------------
(***************************************************************************)
(* What TLAPS proves of Deployment, for any number of installs, uninstalls *)
(* and rollbacks.                                                          *)
(***************************************************************************)
EXTENDS Deployment, FiniteSetTheorems, TLAPS

-----------------------------------------------------------------------------
(* The loops over files and units. *)

\* The orders are short enough to be looked up item by item.
LEMMA Orders ==
  /\ Len(Payload) = 3
  /\ Payload[1] = "unit" /\ Payload[2] = "program" /\ Payload[3] = "state"
  /\ Len(StartOrder) = 3
  /\ StartOrder[1] = "receiver" /\ StartOrder[2] = "agent" /\ StartOrder[3] = "timer"
  /\ Len(StopOrder) = 4
  /\ StopOrder[1] = "timer" /\ StopOrder[2] = "guard"
  /\ StopOrder[3] = "receiver" /\ StopOrder[4] = "agent"
  BY DEF Payload, StartOrder, StopOrder

\* Files are copied back in the reverse of the order in which they are put.
LEMMA CopyOrders ==
  /\ AllFiles(op.of) => /\ PutOrder = Payload /\ Len(PutOrder) = 3
                        /\ Len(RestoreOrder) = 3
                        /\ RestoreOrder[1] = "state" /\ RestoreOrder[2] = "program"
                        /\ RestoreOrder[3] = "unit"
  /\ ~AllFiles(op.of) => /\ PutOrder = <<"state">> /\ Len(PutOrder) = 1
                         /\ PutOrder[1] = "state"
                         /\ Len(RestoreOrder) = 1 /\ RestoreOrder[1] = "state"
<1>1. CASE AllFiles(op.of)
  <2>1. PutOrder = Payload /\ Len(PutOrder) = 3
    BY <1>1, Orders DEF PutOrder
  <2>2. RestoreOrder = [j \in 1..3 |-> Payload[(3 - j) + 1]]
    BY <2>1, Orders DEF RestoreOrder, Reverse
  <2>3. /\ Len(RestoreOrder) = 3 /\ RestoreOrder[1] = Payload[3]
        /\ RestoreOrder[2] = Payload[2] /\ RestoreOrder[3] = Payload[1]
    BY <2>2
  <2> QED
    BY <1>1, <2>1, <2>3, Orders
<1>2. CASE ~AllFiles(op.of)
  <2>1. PutOrder = <<"state">> /\ Len(PutOrder) = 1
    BY <1>2 DEF PutOrder
  <2>2. RestoreOrder = [j \in 1..1 |-> PutOrder[(1 - j) + 1]]
    BY <2>1 DEF RestoreOrder, Reverse
  <2>3. Len(RestoreOrder) = 1 /\ RestoreOrder[1] = PutOrder[1]
    BY <2>2
  <2> QED
    BY <1>2, <2>1, <2>3
<1> QED
  BY <1>1, <1>2

\* The next item of a loop, or the step that follows the loop.
LEMMA AfterFields ==
  ASSUME TypeOK, NEW order, NEW next
  PROVE  /\ After(order, next).kind = op.kind /\ After(order, next).of = op.of
         /\ After(order, next).errors = op.errors
         /\ op.i < Len(order) => /\ After(order, next).pc = op.pc
                                 /\ After(order, next).i = op.i + 1
         /\ ~(op.i < Len(order)) => /\ After(order, next).pc = next
                                    /\ After(order, next).i = 1
  BY DEF After, TypeOK, Operation

\* The loops of three items.
LEMMA LoopFields ==
  ASSUME TypeOK, NEW order \in {StartOrder, Payload}, NEW next
  PROVE  LET a == After(order, next) IN
         /\ a.kind = op.kind /\ a.of = op.of /\ a.errors = op.errors
         /\ op.i < 3 => a.pc = op.pc /\ a.i = op.i + 1
         /\ ~(op.i < 3) => a.pc = next /\ a.i = 1
<1>1. Len(order) = 3
  BY Orders
<1>2. LET a == After(order, next) IN
        /\ a.kind = op.kind /\ a.of = op.of /\ a.errors = op.errors
        /\ op.i < Len(order) => a.pc = op.pc /\ a.i = op.i + 1
        /\ ~(op.i < Len(order)) => a.pc = next /\ a.i = 1
  BY AfterFields
<1> QED
  BY <1>1, <1>2

\* A running manage.py works on a manifest.
LEMMA Busy ==
  ASSUME TypeOK, Located, op.pc # "done"
  PROVE  /\ op.kind \in {"install", "uninstall", "rollback"} /\ op # NoOp
         /\ op.of \in Install /\ manifest[op.of] \in Manifest
         /\ manifest[op.of].phase # "none"
  BY DEF TypeOK, Operation, Located, NoOp, Release

-----------------------------------------------------------------------------
(* Type correctness. *)

LEMMA InstallType == Install \subseteq Nat /\ 0 \notin Install /\ 0 \in Release /\ Install \subseteq Release
  BY InstallsAssumption DEF Install, Release

LEMMA TypeInit == Init => TypeOK
<1>1. NoManifest \in Manifest
  BY InstallType DEF NoManifest, Manifest
<1>2. NoOp \in Operation
  BY InstallType DEF NoOp, Operation
<1>3. NoMark \in [of : Release, alive : BOOLEAN]
  BY InstallType DEF NoMark
<1>4. [f \in File |-> 0] \in [File -> Release] /\ [u \in Unit |-> {}] \in [Unit -> SUBSET Release]
  BY InstallType
<1>5. [k \in Install |-> NoManifest] \in [Install -> Manifest]
  BY <1>1
<1> QED
  BY <1>2, <1>3, <1>4, <1>5 DEF Init, TypeOK

\* Fields of an operation are replaced one at a time.
LEMMA OperationType ==
  ASSUME NEW o \in Operation
  PROVE  /\ \A pc \in InstallSteps \cup UninstallSteps \cup RestoreSteps \cup {"done"} :
               [o EXCEPT !.pc = pc] \in Operation
         /\ \A i \in 1..4 : [o EXCEPT !.i = i] \in Operation
         /\ \A e \in BOOLEAN : [o EXCEPT !.errors = e] \in Operation
  BY DEF Operation

\* To another step, at the first item.
LEMMA StepType ==
  ASSUME NEW o \in Operation,
         NEW pc \in InstallSteps \cup UninstallSteps \cup RestoreSteps \cup {"done"}
  PROVE  [o EXCEPT !.pc = pc, !.i = 1] \in Operation
<1> DEFINE q == [o EXCEPT !.pc = pc]
<1>1. q \in Operation
  BY OperationType
<1> HIDE DEF q
<1>2. \A i \in 1..4 : [q EXCEPT !.i = i] \in Operation
  BY <1>1, OperationType
<1>3. [q EXCEPT !.i = 1] \in Operation
  BY <1>2
<1> QED
  BY <1>3 DEF q

LEMMA AfterType ==
  ASSUME TypeOK, NEW order, Len(order) \in 0..4,
         NEW next \in InstallSteps \cup UninstallSteps \cup RestoreSteps
  PROVE  After(order, next) \in Operation
<1> DEFINE n == Len(order)
<1>1. op \in Operation /\ n \in 0..4
  BY DEF TypeOK
<1> HIDE DEF n
<1>2. op.i < n => op.i + 1 \in 1..4
  <2>1. op.i \in 1..4
    BY <1>1 DEF Operation
  <2> QED
    BY <1>1, <2>1
<1>3. After(order, next) = IF op.i < n THEN [op EXCEPT !.i = op.i + 1]
                           ELSE [op EXCEPT !.pc = next, !.i = 1]
  BY DEF After, n
<1>4. [op EXCEPT !.pc = next, !.i = 1] \in Operation
  BY <1>1, StepType
<1> QED
  BY <1>1, <1>2, <1>3, <1>4, OperationType

\* What is installed or started is of a release.
LEMMA StartedType ==
  ASSUME TypeOK
  PROVE  /\ Installed \in SUBSET Release /\ Active \in SUBSET Service
         /\ \A u \in Unit : runs[u] \in SUBSET Release
         /\ {} \in SUBSET Release
  BY DEF TypeOK, Installed, Active, File, Service, Unit

\* A new manifest takes the first free number.
LEMMA NewManifestType ==
  ASSUME TypeOK, NEW k \in Install, NEW kind \in {"upgrade", "same", "uninstall"},
         NEW phase \in {"prepared", "uninstalling"}, NewManifest(k, kind, phase)
  PROVE  manifest' \in [Install -> Manifest]
<1> DEFINE m == [phase |-> phase, kind |-> kind, backup |-> files, active |-> Active,
                enabled |-> IF files["unit"] = 0 THEN {} ELSE enabled, controls |-> "none",
                verified |-> FALSE]
<1>1. m \in Manifest
  BY StartedType DEF TypeOK, Manifest
<1>2. manifest' = [manifest EXCEPT ![k] = m]
  BY DEF NewManifest
<1> QED
  BY <1>1, <1>2 DEF TypeOK

\* What becomes of a manifest later is its phase, its controls and its verification.
LEMMA ManifestType ==
  ASSUME TypeOK, NEW k \in Install,
         NEW phase \in {"quiescing", "complete", "uninstalled", "rolled_back", "rollback_failed"},
         NEW controls \in {"clear", "paused"}
  PROVE  /\ [manifest EXCEPT ![k].phase = phase] \in [Install -> Manifest]
         /\ [manifest EXCEPT ![k].controls = controls] \in [Install -> Manifest]
         /\ [manifest EXCEPT ![k].phase = phase, ![k].verified = TRUE] \in [Install -> Manifest]
<1>1. manifest[k] \in Manifest
  BY DEF TypeOK
<1>4. [manifest[k] EXCEPT !.phase = phase, !.verified = TRUE] \in Manifest
  BY <1>1 DEF Manifest
<1>2. [manifest[k] EXCEPT !.phase = phase] \in Manifest
  BY <1>1 DEF Manifest
<1>3. [manifest[k] EXCEPT !.controls = controls] \in Manifest
  BY <1>1 DEF Manifest
<1> QED
  BY <1>2, <1>3, <1>4 DEF TypeOK

LEMMA AdministratorType ==
  ASSUME TypeOK, Administrator
  PROVE  TypeOK'
<1>1. ASSUME NEW changing \in BOOLEAN, BeginInstall(changing) PROVE TypeOK'
  <2>1. PICK k \in Install :
          /\ NewManifest(k, IF changing THEN "upgrade" ELSE "same", "prepared")
          /\ op' = [kind |-> "install", of |-> k, pc |-> IF changing THEN "mark" ELSE "put",
                    i |-> 1, errors |-> FALSE]
    BY <1>1 DEF BeginInstall
  <2>2. manifest' \in [Install -> Manifest]
    BY <2>1, NewManifestType
  <2>3. op' \in Operation
    BY <2>1, InstallType DEF Operation, InstallSteps
  <2> QED
    BY <1>1, <2>2, <2>3 DEF BeginInstall, services, TypeOK
<1>2. CASE BeginUninstall
  <2>1. PICK k \in Install :
          /\ NewManifest(k, "uninstall", "uninstalling")
          /\ op' = [kind |-> "uninstall", of |-> k, pc |-> "ustop", i |-> 1, errors |-> FALSE]
    BY <1>2 DEF BeginUninstall
  <2>2. manifest' \in [Install -> Manifest]
    BY <2>1, NewManifestType
  <2>3. op' \in Operation
    BY <2>1, InstallType DEF Operation, UninstallSteps
  <2> QED
    BY <1>2, <2>2, <2>3 DEF BeginUninstall, services, TypeOK
<1>3. ASSUME NEW k \in Install, BeginRollback(k) PROVE TypeOK'
  <2>1. op' \in Operation
    BY <1>3, InstallType DEF BeginRollback, Operation, RestoreSteps
  <2> QED
    BY <1>3, <2>1 DEF BeginRollback, services, TypeOK
<1> QED
  BY <1>1, <1>2, <1>3 DEF Administrator

LEMMA ServicesType ==
  ASSUME TypeOK, Services
  PROVE  TypeOK'
<1> USE StartedType DEF TypeOK, Unit, Service
<1>1. ASSUME NEW u \in {"receiver", "agent"}, UnitRestarts(u) PROVE TypeOK'
  BY <1>1 DEF UnitRestarts
<1>2. ASSUME NEW u \in {"agent", "guard"}, StartsDeleting(u) \/ EndsDeleting(u) PROVE TypeOK'
  BY <1>2 DEF StartsDeleting, EndsDeleting
<1>3. CASE GuardFires \/ GuardEnds
  BY <1>3 DEF GuardFires, GuardEnds
<1>4. CASE GuardPauses \/ GuardResumes
  BY <1>4 DEF GuardPauses, GuardResumes
<1> QED
  BY <1>1, <1>2, <1>3, <1>4 DEF Services

\* The steps of manage.py that leave op in a loop over units.
LEMMA LoopType ==
  ASSUME TypeOK
  PROVE  /\ After(StopOrder, "capture") \in Operation
         /\ After(StopOrder, "udisable") \in Operation
         /\ After(StopOrder, "copy") \in Operation
         /\ After(StartOrder, "verify") \in Operation
         /\ After(StartOrder, "remove") \in Operation
         /\ After(Payload, "uend") \in Operation
         /\ After(PutOrder, "enable") \in Operation
         /\ After(RestoreOrder, "reload") \in Operation
<1>1. Len(StopOrder) \in 0..4 /\ Len(StartOrder) \in 0..4 /\ Len(Payload) \in 0..4
  BY Orders
<1>2. Len(PutOrder) \in 0..4 /\ Len(RestoreOrder) \in 0..4
  BY CopyOrders
<1>3. /\ {"capture", "verify", "enable"} \subseteq InstallSteps
      /\ {"udisable", "remove", "uend"} \subseteq UninstallSteps
      /\ {"copy", "reload"} \subseteq RestoreSteps
  BY DEF InstallSteps, UninstallSteps, RestoreSteps
<1> QED
  BY <1>1, <1>2, <1>3, AfterType

\* Moving on to the next unit of a restore.
LEMMA NextUnitType ==
  ASSUME TypeOK
  PROVE  NextUnit \in Operation /\ [NextUnit EXCEPT !.errors = TRUE] \in Operation
<1>1. op \in Operation
  BY DEF TypeOK
<1>2. {"disable", "end"} \subseteq RestoreSteps
  BY DEF RestoreSteps
<1> DEFINE q == [op EXCEPT !.pc = "disable"]
<1>3. q \in Operation /\ q.i = op.i
  BY <1>1, <1>2, OperationType DEF Operation
<1>4. op.i < 3 => [op EXCEPT !.pc = "disable", !.i = op.i + 1] \in Operation
  <2>1. op.i < 3 => op.i + 1 \in 1..4
    BY <1>1 DEF Operation
  <2> HIDE DEF q
  <2>2. \A i \in 1..4 : [q EXCEPT !.i = i] \in Operation
    BY <1>3, OperationType
  <2>3. op.i < 3 => [q EXCEPT !.i = op.i + 1] \in Operation
    BY <2>1, <2>2
  <2> QED
    BY <2>3 DEF q
<1>5. [op EXCEPT !.pc = "end", !.i = 1] \in Operation
  BY <1>1, <1>2, StepType
<1>6. NextUnit = IF op.i < 3 THEN [op EXCEPT !.pc = "disable", !.i = op.i + 1]
                 ELSE [op EXCEPT !.pc = "end", !.i = 1]
  BY Orders DEF NextUnit
<1>7. NextUnit \in Operation
  BY <1>4, <1>5, <1>6
<1> QED
  BY <1>7, OperationType

LEMMA InstallStepType ==
  ASSUME TypeOK, Located, InstallStep
  PROVE  TypeOK'
<1>1. \A pc \in InstallSteps \cup {"rstop"} :
        [op EXCEPT !.pc = pc] \in Operation /\ [op EXCEPT !.pc = pc, !.i = 1] \in Operation
  BY OperationType, StepType DEF TypeOK, RestoreSteps
<1>2. op.pc # "done" => op.of \in Install /\ op.of \in Release
  BY Busy, InstallType
<1>3. NoOp \in Operation /\ NoMark \in [of : Release, alive : BOOLEAN]
  BY InstallType DEF NoOp, NoMark, Operation
<1> USE DEF InstallSteps
<1>4. CASE WriteMark
  <2>1. manifest' \in [Install -> Manifest]
    BY <1>2, <1>4, ManifestType DEF WriteMark
  <2>2. mark' \in [of : Release, alive : BOOLEAN] /\ op' \in Operation
    BY <1>1, <1>2, <1>4 DEF WriteMark
  <2> QED
    BY <1>4, <2>1, <2>2 DEF WriteMark, services, TypeOK
<1>5. CASE Capture
  <2>1. manifest' \in [Install -> Manifest] /\ op' \in Operation
    BY <1>1, <1>2, <1>5, ManifestType DEF Capture
  <2> QED
    BY <1>5, <2>1 DEF Capture, services, TypeOK
<1>6. CASE Put
  <2>1. files' \in [File -> Release]
    BY <1>2, <1>6 DEF Put, TypeOK
  <2>2. op' \in Operation
    BY <1>6, LoopType DEF Put
  <2> QED
    BY <1>6, <2>1, <2>2 DEF Put, services, TypeOK
<1>7. CASE Enable
  <2>1. op' \in Operation
    BY <1>1, <1>7 DEF Enable
  <2> QED
    BY <1>7, <2>1 DEF Enable, TypeOK
<1>8. CASE ValidateGuard \/ Rejected
  <2>1. op' \in Operation
    BY <1>1, <1>8 DEF ValidateGuard, Rejected
  <2> QED
    BY <1>8, <2>1 DEF ValidateGuard, Rejected, services, TypeOK
<1>9. CASE StartUnit
  <2>1. op' \in Operation
    BY <1>9, LoopType DEF StartUnit
  <2>2. runs' \in [Unit -> SUBSET Release]
    BY <1>9, StartedType DEF StartUnit, TypeOK
  <2> QED
    BY <1>9, <2>1, <2>2 DEF StartUnit, TypeOK
<1>10. CASE Verify
  <2>1. manifest' \in [Install -> Manifest] /\ op' \in Operation
    BY <1>1, <1>2, <1>10, ManifestType DEF Verify
  <2> QED
    BY <1>10, <2>1 DEF Verify, services, TypeOK
<1>11. CASE EndInstall
  BY <1>3, <1>11 DEF EndInstall, services, TypeOK
<1> QED
  BY <1>4, <1>5, <1>6, <1>7, <1>8, <1>9, <1>10, <1>11 DEF InstallStep

\* A restore enables what the manifest found enabled.
LEMMA ReenabledType ==
  ASSUME TypeOK, Located, op.pc = "restart"
  PROVE  Reenabled \subseteq Service
<1>1. manifest[op.of].enabled \subseteq Service
  BY Busy DEF Manifest
<1>2. WasEnabled => StartOrder[op.i] \in manifest[op.of].enabled
  BY DEF WasEnabled, Prior
<1> DEFINE u == StartOrder[op.i]
<1> HIDE DEF u
<1>3. WasEnabled => u \in Service
  BY <1>1, <1>2 DEF u
<1>4. Reenabled = IF WasEnabled THEN enabled \cup {u} ELSE enabled
  BY DEF Reenabled, u
<1> QED
  BY <1>3, <1>4 DEF TypeOK

LEMMA OtherManagerType ==
  ASSUME TypeOK, Located, StopUnit \/ UninstallStep \/ RestoreStep
  PROVE  TypeOK'
<1>1. \A pc \in RestoreSteps \cup UninstallSteps : [op EXCEPT !.pc = pc] \in Operation
  BY OperationType DEF TypeOK
<1>2. op.pc # "done" => op.of \in Install /\ op.of \in Release
  BY Busy, InstallType
<1>3. NoOp \in Operation /\ NoMark \in [of : Release, alive : BOOLEAN]
  BY InstallType DEF NoOp, NoMark, Operation
<1> USE DEF RestoreSteps, UninstallSteps
<1>4. CASE StopUnit
  <2>1. op' \in Operation
    BY <1>4, LoopType DEF StopUnit, AfterStop
  <2>2. runs' \in [Unit -> SUBSET Release]
    BY <1>4, StartedType DEF StopUnit
  <2> QED
    BY <1>4, <2>1, <2>2 DEF StopUnit, TypeOK
<1>5. CASE DisableForGood
  BY <1>5, LoopType DEF DisableForGood, TypeOK
<1>6. CASE RemoveFile
  <2>1. files' \in [File -> Release] /\ op' \in Operation
    BY <1>6, LoopType, InstallType DEF RemoveFile, TypeOK
  <2> QED
    BY <1>6, <2>1 DEF RemoveFile, services, TypeOK
<1>7. CASE EndUninstall
  <2>1. manifest' \in [Install -> Manifest]
    BY <1>2, <1>7, ManifestType DEF EndUninstall
  <2> QED
    BY <1>3, <1>7, <2>1 DEF EndUninstall, services, TypeOK
<1>8. CASE CopyBack
  <2>1. \A f \in File : manifest[op.of].backup[f] \in Release
    BY <1>2, <1>8 DEF CopyBack, TypeOK, Manifest
  <2>2. files' \in [File -> Release]
    BY <1>8, <2>1 DEF CopyBack, TypeOK
  <2>3. op' \in Operation
    BY <1>8, LoopType DEF CopyBack
  <2> QED
    BY <1>8, <2>2, <2>3 DEF CopyBack, services, TypeOK
<1>9. CASE Reload
  BY <1>1, <1>9 DEF Reload, services, TypeOK
<1>10. CASE RestoreControls
  <2>1. op' \in Operation
    BY <1>1, <1>10 DEF RestoreControls
  <2> QED
    BY <1>10, <2>1 DEF RestoreControls, services, TypeOK
<1>11. CASE ReleaseMark
  BY <1>1, <1>3, <1>11 DEF ReleaseMark, services, TypeOK
<1>12. CASE DisableUnit
  <2>1. op' \in Operation
    BY <1>1, <1>12 DEF DisableUnit
  <2> QED
    BY <1>12, <2>1 DEF DisableUnit, TypeOK
<1>13. CASE RestartUnit \/ StartRefused
  <2>1. op' \in Operation
    BY <1>13, NextUnitType DEF RestartUnit, StartRefused
  <2>2. enabled' \subseteq Service
    BY <1>13, ReenabledType DEF RestartUnit, StartRefused, TypeOK
  <2>3. runs' \in [Unit -> SUBSET Release]
    BY <1>13, StartedType DEF RestartUnit, StartRefused, TypeOK
  <2> QED
    BY <1>13, <2>1, <2>2, <2>3 DEF RestartUnit, StartRefused, TypeOK
<1>14. CASE EndRestore
  <2>1. manifest' \in [Install -> Manifest]
    BY <1>2, <1>14, ManifestType DEF EndRestore, TypeOK
  <2>2. mark' \in [of : Release, alive : BOOLEAN]
    BY <1>2, <1>14 DEF EndRestore, TypeOK
  <2> QED
    BY <1>3, <1>14, <2>1, <2>2 DEF EndRestore, services, TypeOK
<1> QED
  BY <1>4, <1>5, <1>6, <1>7, <1>8, <1>9, <1>10, <1>11, <1>12, <1>13, <1>14
     DEF UninstallStep, RestoreStep

\* A manager that is killed leaves the mark without an owner.
LEMMA OwnerGoneType ==
  ASSUME TypeOK
  PROVE  OwnerGone \in [of : Release, alive : BOOLEAN] /\ NoOp \in Operation
<1>1. OwnerGone \in [of : Release, alive : BOOLEAN]
  BY DEF TypeOK, OwnerGone
<1>2. NoOp \in Operation
  BY InstallType DEF NoOp, Operation
<1> QED
  BY <1>1, <1>2

\* A copy that stops leaves the file or nothing of it.
LEMMA CopyStopsType ==
  ASSUME TypeOK, CopyStops
  PROVE  files' \in [File -> Release]
<1>1. CutShort \subseteq File
  BY DEF CutShort, File
<1>2. ASSUME NEW f \in CutShort
      PROVE  [files EXCEPT ![f] = 0] \in [File -> Release]
  BY <1>1, InstallType DEF TypeOK
<1> QED
  BY <1>2 DEF CopyStops, TypeOK

LEMMA FailureType ==
  ASSUME TypeOK, Located, Failure
  PROVE  TypeOK'
<1>1. CASE InstallFails \/ UninstallFails
  <2>1. [op EXCEPT !.pc = "rstop", !.i = 1] \in Operation
    BY StepType DEF TypeOK, RestoreSteps
  <2> QED
    BY <1>1, <2>1 DEF InstallFails, UninstallFails, services, TypeOK
<1>2. CASE CopyFails
  <2>1. op' \in Operation
    BY <1>2, LoopType, OperationType DEF CopyFails
  <2> QED
    BY <1>2, <2>1, CopyStopsType DEF CopyFails, services, TypeOK
<1>3. CASE DisableFails \/ RestartFails
  <2>1. op' \in Operation /\ enabled' \subseteq Service
    BY <1>3, NextUnitType, ReenabledType DEF DisableFails, RestartFails, TypeOK
  <2> QED
    BY <1>3, <2>1 DEF DisableFails, RestartFails, TypeOK
<1>7. CASE ReportFails
  <2>1. [op EXCEPT !.pc = "rstop"] \in Operation
    BY OperationType DEF TypeOK, RestoreSteps
  <2>2. NoMark \in [of : Release, alive : BOOLEAN]
    BY InstallType DEF NoMark
  <2> QED
    BY <1>7, <2>1, <2>2 DEF ReportFails, services, TypeOK
<1>4. CASE RestoreStops
  <2> DEFINE q == [op EXCEPT !.pc = "failed", !.i = 1]
  <2>1. q \in Operation
    BY StepType DEF TypeOK, RestoreSteps
  <2>2. op' = [q EXCEPT !.errors = TRUE]
    BY <1>4, <2>1 DEF RestoreStops
  <2> HIDE DEF q
  <2>3. op' \in Operation
    BY <2>1, <2>2, OperationType
  <2> QED
    BY <1>4, <2>3 DEF RestoreStops, services, TypeOK
<1>5. CASE Killed
  BY <1>5, OwnerGoneType, CopyStopsType DEF Killed, services, TypeOK
<1>6. CASE Reboot
  <2>1. runs' \in [Unit -> SUBSET Release]
    BY <1>6, StartedType DEF Reboot
  <2> QED
    BY <1>6, <2>1, OwnerGoneType, CopyStopsType DEF Reboot, TypeOK
<1> QED
  BY <1>1, <1>2, <1>3, <1>4, <1>5, <1>6, <1>7 DEF Failure

\* What is located stays of its type.
LEMMA NextType ==
  ASSUME TypeOK, Located, [Next]_vars
  PROVE  TypeOK'
<1>1. CASE Next
  BY <1>1, AdministratorType, ServicesType, InstallStepType, OtherManagerType, FailureType
     DEF Next, ManagerStep
<1>2. CASE UNCHANGED vars
  BY <1>2 DEF vars, TypeOK
<1> QED
  BY <1>1, <1>2

-----------------------------------------------------------------------------
\* To the next unit of a restore, or to its end.
LEMMA NextUnitFields ==
  ASSUME TypeOK
  PROVE  /\ NextUnit.kind = op.kind /\ NextUnit.of = op.of /\ NextUnit.errors = op.errors
         /\ op.i < 3 => NextUnit.pc = "disable" /\ NextUnit.i = op.i + 1
         /\ ~(op.i < 3) => NextUnit.pc = "end" /\ NextUnit.i = 1
  BY Orders DEF NextUnit, TypeOK, Operation

\* An error is noted.
LEMMA ErrorFields ==
  ASSUME NEW o \in Operation
  PROVE  /\ [o EXCEPT !.errors = TRUE].kind = o.kind /\ [o EXCEPT !.errors = TRUE].of = o.of
         /\ [o EXCEPT !.errors = TRUE].pc = o.pc /\ [o EXCEPT !.errors = TRUE].i = o.i
         /\ [o EXCEPT !.errors = TRUE].errors = TRUE
  BY DEF Operation

\* A restore goes on to its next file or unit in spite of an error.
LEMMA GoesOnFields ==
  ASSUME TypeOK
  PROVE  /\ RestartUnit => op' = NextUnit
         /\ StartRefused \/ DisableFails \/ RestartFails =>
              /\ op'.kind = NextUnit.kind /\ op'.of = NextUnit.of
              /\ op'.pc = NextUnit.pc /\ op'.i = NextUnit.i /\ op'.errors = TRUE
         /\ CopyFails =>
              /\ op'.kind = op.kind /\ op'.of = op.of /\ op'.errors = TRUE
              /\ op'.pc = After(RestoreOrder, "reload").pc
              /\ op'.i = After(RestoreOrder, "reload").i
<1> DEFINE n == NextUnit
           a == After(RestoreOrder, "reload")
<1>1. n \in Operation /\ a \in Operation /\ a.kind = op.kind /\ a.of = op.of
  BY LoopType, NextUnitType, AfterFields
<1>2. RestartUnit => op' = n
  BY DEF RestartUnit
<1>3. StartRefused \/ DisableFails \/ RestartFails => op' = [n EXCEPT !.errors = TRUE]
  BY DEF StartRefused, DisableFails, RestartFails
<1>4. CopyFails => op' = [a EXCEPT !.errors = TRUE]
  BY DEF CopyFails
<1> HIDE DEF n, a
<1>5. \A o \in {n, a} : /\ [o EXCEPT !.errors = TRUE].kind = o.kind
                        /\ [o EXCEPT !.errors = TRUE].of = o.of
                        /\ [o EXCEPT !.errors = TRUE].pc = o.pc
                        /\ [o EXCEPT !.errors = TRUE].i = o.i
                        /\ [o EXCEPT !.errors = TRUE].errors = TRUE
  BY <1>1, ErrorFields
<1>6. StartRefused \/ DisableFails \/ RestartFails =>
        /\ op'.kind = n.kind /\ op'.of = n.of /\ op'.pc = n.pc
        /\ op'.i = n.i /\ op'.errors = TRUE
  BY <1>3, <1>5
<1>7. CopyFails => /\ op'.kind = a.kind /\ op'.of = a.of /\ op'.pc = a.pc
                   /\ op'.i = a.i /\ op'.errors = TRUE
  BY <1>4, <1>5
<1> QED
  BY <1>1, <1>2, <1>6, <1>7 DEF n, a

-----------------------------------------------------------------------------
(* What a step does to the manifests. *)

\* A new manifest is the first that is free, and the others stay.
LEMMA NewManifestFields ==
  ASSUME TypeOK, NEW k \in Install, NEW kind, NEW phase, NewManifest(k, kind, phase)
  PROVE  /\ manifest[k].phase = "none"
         /\ \A j \in Install : j < k => manifest[j].phase # "none"
         /\ \A j \in Install : j # k => manifest'[j] = manifest[j]
         /\ manifest'[k].phase = phase /\ manifest'[k].kind = kind
         /\ manifest'[k].backup = files
         /\ manifest'[k].enabled = IF files["unit"] = 0 THEN {} ELSE enabled
         /\ manifest'[k].active = Active /\ ~manifest'[k].verified
  BY InstallsAssumption DEF NewManifest, TypeOK, Install

\* A change of phase or of controls leaves the rest of the manifests alone.
LEMMA ManifestFields ==
  ASSUME TypeOK, NEW k \in Install, NEW phase, NEW controls,
         \/ manifest' = [manifest EXCEPT ![k].phase = phase]
         \/ manifest' = [manifest EXCEPT ![k].controls = controls]
  PROVE  /\ \A j \in Install : j # k => manifest'[j] = manifest[j]
         /\ manifest'[k].kind = manifest[k].kind /\ manifest'[k].backup = manifest[k].backup
         /\ manifest'[k].enabled = manifest[k].enabled /\ manifest'[k].active = manifest[k].active
         /\ manifest'[k].phase = IF manifest' = [manifest EXCEPT ![k].phase = phase]
                                 THEN phase ELSE manifest[k].phase
<1>1. manifest[k] \in Manifest
  BY DEF TypeOK
<1>2. CASE manifest' = [manifest EXCEPT ![k].phase = phase]
  <2>1. manifest'[k] = [manifest[k] EXCEPT !.phase = phase]
    BY <1>2 DEF TypeOK
  <2> QED
    BY <1>1, <1>2, <2>1 DEF Manifest, TypeOK
<1>3. CASE manifest' = [manifest EXCEPT ![k].controls = controls] /\ manifest' # [manifest EXCEPT ![k].phase = phase]
  <2>1. manifest'[k] = [manifest[k] EXCEPT !.controls = controls]
    BY <1>3 DEF TypeOK
  <2> QED
    BY <1>1, <1>3, <2>1 DEF Manifest, TypeOK
<1> QED
  BY <1>2, <1>3

\* All but the beginning of an install or uninstall.
Onward == [(\E k \in Install : BeginRollback(k)) \/ ManagerStep \/ Services \/ Failure]_vars

LEMMA Steps ==
  ASSUME [Next]_vars
  PROVE  \/ \E changing \in BOOLEAN : BeginInstall(changing)
         \/ BeginUninstall
         \/ Onward
  BY DEF Next, Administrator, Onward

\* Five steps change the phase of the manifest at hand, one of them completes it, and
\* one changes its controls.
LEMMA ManifestSteps ==
  ASSUME Onward
  PROVE  \/ UNCHANGED manifest
         \/ /\ op.pc = "capture"
            /\ \E controls \in {"clear", "paused"} :
                  manifest' = [manifest EXCEPT ![op.of].controls = controls]
         \/ Verify
         \/ /\ op.pc \in {"mark", "uend", "end", "failed"}
            /\ op.pc \in {"end", "failed"} => op.kind # "rollback"
            /\ \E phase \in {"quiescing", "uninstalled", "rolled_back", "rollback_failed"} :
                  manifest' = [manifest EXCEPT ![op.of].phase = phase]
<1>1. CASE \E k \in Install : BeginRollback(k)
  BY <1>1 DEF BeginRollback
<1>2. CASE StopUnit \/ InstallStep
  BY <1>2 DEF StopUnit, InstallStep, WriteMark, Capture, Put, Enable, ValidateGuard, StartUnit,
              EndInstall, Rejected
<1>3. CASE UninstallStep
  BY <1>3 DEF UninstallStep, DisableForGood, RemoveFile, EndUninstall
<1>4. CASE RestoreStep
  BY <1>4 DEF RestoreStep, CopyBack, Reload, RestoreControls, ReleaseMark, DisableUnit,
              RestartUnit, StartRefused, EndRestore
<1>5. CASE Services
  BY <1>5 DEF Services, UnitRestarts, StartsDeleting, EndsDeleting, GuardFires, GuardEnds,
              GuardPauses, GuardResumes
<1>6. CASE Failure
  BY <1>6 DEF Failure, InstallFails, ReportFails, UninstallFails, CopyFails, DisableFails,
              RestartFails, RestoreStops, Killed, Reboot
<1>7. CASE UNCHANGED vars
  BY <1>7 DEF vars
<1> QED
  BY <1>1, <1>2, <1>3, <1>4, <1>5, <1>6, <1>7 DEF Onward, ManagerStep

\* What a manifest has backed up stays, and so does what it is a manifest of.
LEMMA OldManifests ==
  ASSUME TypeOK, Located, Onward, NEW k \in Install
  PROVE  /\ manifest'[k].kind = manifest[k].kind
         /\ manifest'[k].backup = manifest[k].backup
         /\ manifest'[k].enabled = manifest[k].enabled
         /\ manifest'[k].active = manifest[k].active
         /\ manifest'[k].phase = "none" <=> manifest[k].phase = "none"
         /\ manifest[k].phase = "none" => manifest'[k] = manifest[k]
         /\ manifest'[k].phase # manifest[k].phase =>
               /\ k = op.of /\ op.pc \in {"mark", "verify", "uend", "end", "failed"}
               /\ op.kind \in {"install", "uninstall"}
         /\ manifest[k].verified => manifest'[k].verified
         /\ manifest'[k].verified # manifest[k].verified => Verify /\ k = op.of
<1>1. CASE UNCHANGED manifest
  BY <1>1
<1>2. ASSUME op.pc = "capture", NEW controls \in {"clear", "paused"},
             manifest' = [manifest EXCEPT ![op.of].controls = controls]
      PROVE  /\ manifest'[op.of].phase = manifest[op.of].phase
             /\ \A j \in Install : j # op.of => manifest'[j] = manifest[j]
             /\ manifest'[op.of].kind = manifest[op.of].kind
             /\ manifest'[op.of].backup = manifest[op.of].backup
             /\ manifest'[op.of].enabled = manifest[op.of].enabled
             /\ manifest'[op.of].active = manifest[op.of].active
             /\ manifest'[op.of].verified = manifest[op.of].verified
             /\ manifest[op.of].phase # "none"
  <2>1. op.of \in Install /\ manifest[op.of] \in Manifest /\ manifest[op.of].phase # "none"
    BY <1>2, Busy
  <2>2. manifest'[op.of] = [manifest[op.of] EXCEPT !.controls = controls]
    BY <1>2, <2>1 DEF TypeOK
  <2>3. \A j \in Install : j # op.of => manifest'[j] = manifest[j]
    BY <1>2, <2>1 DEF TypeOK
  <2> QED
    BY <2>1, <2>2, <2>3 DEF Manifest
<1>3. ASSUME op.pc \in {"mark", "uend", "end", "failed"},
             op.pc \in {"end", "failed"} => op.kind # "rollback",
             NEW phase \in {"quiescing", "uninstalled", "rolled_back", "rollback_failed"},
             manifest' = [manifest EXCEPT ![op.of].phase = phase]
      PROVE  /\ manifest'[op.of].phase = phase
             /\ \A j \in Install : j # op.of => manifest'[j] = manifest[j]
             /\ manifest'[op.of].kind = manifest[op.of].kind
             /\ manifest'[op.of].backup = manifest[op.of].backup
             /\ manifest'[op.of].enabled = manifest[op.of].enabled
             /\ manifest'[op.of].active = manifest[op.of].active
             /\ manifest'[op.of].verified = manifest[op.of].verified
             /\ manifest[op.of].phase # "none"
             /\ op.kind \in {"install", "uninstall"}
  <2>1. op.of \in Install /\ manifest[op.of] \in Manifest /\ manifest[op.of].phase # "none"
    BY <1>3, Busy
  <2>4. op.kind \in {"install", "uninstall"}
    BY <1>3, Busy DEF Located, InstallSteps, UninstallSteps
  <2>2. manifest'[op.of] = [manifest[op.of] EXCEPT !.phase = phase]
    BY <1>3, <2>1 DEF TypeOK
  <2>3. \A j \in Install : j # op.of => manifest'[j] = manifest[j]
    BY <1>3, <2>1 DEF TypeOK
  <2> QED
    BY <2>1, <2>2, <2>3, <2>4 DEF Manifest
<1>4. ASSUME Verify
      PROVE  /\ op.pc = "verify" /\ op.kind = "install"
             /\ \A j \in Install : j # op.of => manifest'[j] = manifest[j]
             /\ manifest'[op.of].kind = manifest[op.of].kind
             /\ manifest'[op.of].backup = manifest[op.of].backup
             /\ manifest'[op.of].enabled = manifest[op.of].enabled
             /\ manifest'[op.of].active = manifest[op.of].active
             /\ manifest'[op.of].phase = "complete" /\ manifest'[op.of].verified
             /\ manifest[op.of].phase # "none"
  <2>1. op.of \in Install /\ manifest[op.of] \in Manifest /\ manifest[op.of].phase # "none"
    BY <1>4, Busy DEF Verify
  <2>2. op.pc = "verify" /\ op.kind = "install"
    BY <1>4 DEF Verify, Located, InstallSteps
  <2>3. manifest'[op.of] = [manifest[op.of] EXCEPT !.phase = "complete", !.verified = TRUE]
    BY <1>4, <2>1 DEF Verify, TypeOK
  <2>4. \A j \in Install : j # op.of => manifest'[j] = manifest[j]
    BY <1>4, <2>1 DEF Verify, TypeOK
  <2> QED
    BY <2>1, <2>2, <2>3, <2>4 DEF Manifest
<1> QED
  BY <1>1, <1>2, <1>3, <1>4, ManifestSteps

\* The verification is the only step that completes an install.
LEMMA Completed ==
  ASSUME TypeOK, Located, Verify
  PROVE  /\ op.of \in Install
         /\ manifest'[op.of].phase = "complete" /\ manifest'[op.of].verified
<1>1. op.of \in Install
  BY Busy DEF Verify
<1> QED
  BY <1>1 DEF Verify, TypeOK, Manifest

-----------------------------------------------------------------------------
(* Numbered. *)

\* Only manage.py writes files, at three of its steps, the last of which may stop short.
LEMMA FileActions ==
  ASSUME Onward
  PROVE  \/ UNCHANGED files
         \/ Put \/ RemoveFile \/ CopyBack
         \/ CopyStops /\ (CopyFails \/ Killed \/ Reboot)
<1>1. UNCHANGED files \/ ~(\E k \in Install : BeginRollback(k))
  BY DEF BeginRollback
<1>2. UNCHANGED files \/ ~(StopUnit \/ InstallStep) \/ Put
  BY DEF StopUnit, InstallStep, WriteMark, Capture, Enable, ValidateGuard, StartUnit,
         Verify, EndInstall, Rejected
<1>3. UNCHANGED files \/ ~UninstallStep \/ RemoveFile
  BY DEF UninstallStep, DisableForGood, EndUninstall
<1>4. UNCHANGED files \/ ~RestoreStep \/ CopyBack
  BY DEF RestoreStep, Reload, RestoreControls, ReleaseMark, DisableUnit,
         RestartUnit, StartRefused, EndRestore
<1>5. UNCHANGED files \/ ~Services
  BY DEF Services, UnitRestarts, StartsDeleting, EndsDeleting, GuardFires, GuardEnds,
         GuardPauses, GuardResumes
<1>6. UNCHANGED files \/ ~Failure \/ (CopyStops /\ (CopyFails \/ Killed \/ Reboot))
  BY DEF Failure, InstallFails, ReportFails, UninstallFails, CopyFails, DisableFails,
         RestartFails, RestoreStops, Killed, Reboot
<1>7. UNCHANGED files \/ ~(UNCHANGED vars)
  BY DEF vars
<1> QED
  BY <1>1, <1>2, <1>3, <1>4, <1>5, <1>6, <1>7 DEF Onward, ManagerStep

\* Only a Put and a CopyBack bring a file, from the manifest at hand.
LEMMA FileSteps ==
  ASSUME TypeOK, Located, Onward, NEW f \in File
  PROVE  \/ files'[f] = files[f]
         \/ op.pc = "put" /\ files'[f] = op.of /\ f \in Covered(op.of)
         \/ op.pc = "remove" /\ files'[f] = 0
         \/ op.pc = "copy" /\ files'[f] = manifest[op.of].backup[f] /\ f \in Covered(op.of)
         \/ /\ op.pc = "copy" /\ files'[f] = 0 /\ f \in Covered(op.of)
            /\ CopyFails \/ Killed \/ Reboot
<1>4. CASE CopyStops /\ (CopyFails \/ Killed \/ Reboot)
  <2>1. ASSUME NEW g \in CutShort
        PROVE  op.pc = "copy" /\ g \in Covered(op.of)
    <3>1. op.pc = "copy" /\ g = RestoreOrder[op.i]
      BY DEF CutShort
    <3>2. op.i \in 1..4 /\ op.i <= Len(RestoreOrder)
      BY <3>1, CopyOrders DEF Located, TypeOK, Operation
    <3> QED
      BY <3>1, <3>2, CopyOrders DEF Covered, File
  <2>2. CASE files' = files
    BY <2>2
  <2>3. ASSUME NEW g \in CutShort, files' = [files EXCEPT ![g] = 0]
        PROVE  files'[f] = IF f = g THEN 0 ELSE files[f]
    BY <2>3 DEF TypeOK
  <2> QED
    BY <1>4, <2>1, <2>2, <2>3 DEF CopyStops
<1>1. CASE Put
  <2>1. op.i \in 1..4 /\ op.i <= Len(PutOrder)
    BY <1>1 DEF Put, Located, TypeOK, Operation
  <2>2. PutOrder[op.i] \in Covered(op.of)
    BY <2>1, Orders, CopyOrders DEF Covered, File
  <2> QED
    BY <1>1, <2>2 DEF Put, TypeOK
<1>2. CASE CopyBack
  <2>1. op.i \in 1..4 /\ op.i <= Len(RestoreOrder)
    BY <1>2, CopyOrders DEF CopyBack, Located, TypeOK, Operation
  <2>2. RestoreOrder[op.i] \in Covered(op.of)
    BY <2>1, CopyOrders DEF Covered, File
  <2> QED
    BY <1>2, <2>2 DEF CopyBack, TypeOK
<1>3. CASE RemoveFile
  BY <1>3 DEF RemoveFile, TypeOK
<1> QED
  BY <1>1, <1>2, <1>3, <1>4, FileActions

\* manage.py goes on with the manifest it has begun with, takes up one to roll it
\* back, or ends.
LEMMA OpSteps ==
  ASSUME TypeOK, Onward
  PROVE  \/ op'.kind = op.kind /\ op'.of = op.of
         \/ op = NoOp /\ op'.kind = "rollback"
         \/ op' = NoOp
<1>1. CASE \E k \in Install : BeginRollback(k)
  BY <1>1 DEF BeginRollback
<1>2. CASE StopUnit \/ StartUnit \/ Put \/ DisableForGood \/ RemoveFile \/ CopyBack
  <2>1. PICK order, next : op' = After(order, next)
    BY <1>2 DEF StopUnit, StartUnit, Put, DisableForGood, RemoveFile, CopyBack
  <2> QED
    BY <2>1, AfterFields
<1>3. CASE WriteMark \/ Capture \/ Enable \/ ValidateGuard \/ Verify \/ EndInstall
  BY <1>3 DEF WriteMark, Capture, Enable, ValidateGuard, Verify, EndInstall, TypeOK, Operation
<1>4. CASE Rejected \/ EndUninstall \/ Reload \/ RestoreControls \/ ReleaseMark \/ DisableUnit \/ EndRestore
  BY <1>4 DEF Rejected, EndUninstall, Reload, RestoreControls, ReleaseMark, DisableUnit, EndRestore,
              TypeOK, Operation
<1>7. CASE RestartUnit \/ StartRefused \/ DisableFails \/ RestartFails \/ CopyFails
  BY <1>7, GoesOnFields, NextUnitFields
<1>8. CASE InstallFails \/ ReportFails \/ UninstallFails \/ RestoreStops \/ Killed \/ Reboot
  BY <1>8 DEF InstallFails, ReportFails, UninstallFails, RestoreStops, Killed, Reboot, TypeOK, Operation
<1>9. UNCHANGED op \/ ~(Services \/ UNCHANGED vars)
  BY DEF Services, UnitRestarts, StartsDeleting, EndsDeleting, GuardFires, GuardEnds,
         GuardPauses, GuardResumes, vars
<1> QED
  BY <1>1, <1>2, <1>3, <1>4, <1>7, <1>8, <1>9
     DEF Onward, ManagerStep, InstallStep, UninstallStep, RestoreStep, Failure

LEMMA NumberedInit == Init => Numbered
  BY InstallType DEF Init, Numbered, NoManifest, NoOp

LEMMA NumberedBegin ==
  ASSUME TypeOK, TypeOK', Numbered, (\E changing \in BOOLEAN : BeginInstall(changing)) \/ BeginUninstall
  PROVE  Numbered'
<1>1. PICK k \in Install, kind \in {"upgrade", "same", "uninstall"},
           phase \in {"prepared", "uninstalling"} :
        NewManifest(k, kind, phase) /\ op'.of = k /\ UNCHANGED files
        /\ (kind \in {"same", "uninstall"} => files["state"] # 0)
  BY DEF BeginInstall, BeginUninstall, Preflight, Runnable, Installed, File
<1> DEFINE new == /\ manifest[k].phase = "none"
                  /\ \A j \in Install : j < k => manifest[j].phase # "none"
                  /\ \A j \in Install : j # k => manifest'[j] = manifest[j]
                  /\ manifest'[k].phase = phase /\ manifest'[k].kind = kind
                  /\ manifest'[k].backup = files
<1>2. new
  BY <1>1, NewManifestFields
<1>3. \A j \in Install : j \in Int
  BY InstallType
<1>4. \A j \in Install : manifest'[j].phase = "none" =>
        j # k /\ manifest'[j] = manifest[j] /\ manifest[j].phase = "none" /\ j > k
  BY <1>2, <1>3
<1>5. \A f \in File : files[f] \in Release /\ (files[f] # 0 => files[f] \in Install)
  BY DEF TypeOK, Release
<1>6. \A f \in File : files[f] # 0 => manifest[files[f]].phase # "none" /\ files[f] # k
  BY <1>1, <1>2 DEF Numbered
<1>7. \A f \in File : files[f] < k
  <2> SUFFICES ASSUME NEW f \in File PROVE files[f] < k
    OBVIOUS
  <2>1. CASE files[f] = 0
    BY <2>1, InstallsAssumption DEF Install
  <2>2. CASE files[f] # 0
    <3>1. ~(files[f] > k)
      BY <1>2, <1>5, <1>6, <2>2 DEF Numbered
    <3> QED
      BY <1>3, <1>5, <1>6, <2>2, <3>1
  <2> QED
    BY <2>1, <2>2
<1> HIDE DEF new
<1>8. \A j \in Install : manifest'[j].phase = "none" =>
        manifest'[j] = NoManifest /\ \A l \in Install : l > j => manifest'[l].phase = "none"
  <2> SUFFICES ASSUME NEW j \in Install, manifest'[j].phase = "none", NEW l \in Install, l > j
               PROVE  manifest'[l].phase = "none"
    BY <1>4 DEF Numbered
  <2>1. l > k /\ manifest[l].phase = "none"
    BY <1>3, <1>4 DEF Numbered
  <2> QED
    BY <1>2, <1>3, <2>1 DEF new
<1>9. \A j \in Install : j > k => manifest'[j].phase = "none"
  BY <1>2, <1>3 DEF Numbered, new
<1>10. \A f \in File : files'[f] # 0 => manifest'[files'[f]].phase # "none"
  BY <1>1, <1>2, <1>5, <1>6 DEF new
<1>11. \A j \in Install, f \in File : manifest'[j].backup[f] < j
  BY <1>2, <1>7 DEF Numbered, new
<1>12. \A j \in Install : manifest'[j].phase # "none" /\ manifest'[j].kind # "upgrade" =>
         manifest'[j].backup["state"] # 0
  BY <1>1, <1>2 DEF Numbered, new
<1> QED
  BY <1>1, <1>8, <1>9, <1>10, <1>11, <1>12 DEF Numbered

LEMMA NumberedOnward ==
  ASSUME TypeOK, Numbered, Located, Onward
  PROVE  Numbered'
<1>1. \A k \in Install :
        /\ manifest'[k].kind = manifest[k].kind /\ manifest'[k].backup = manifest[k].backup
        /\ manifest'[k].phase = "none" <=> manifest[k].phase = "none"
        /\ manifest[k].phase = "none" => manifest'[k] = manifest[k]
  BY OldManifests
<1>2. \A k \in Install : manifest'[k].phase = "none" =>
        manifest'[k] = NoManifest /\ \A j \in Install : j > k => manifest'[j].phase = "none"
  BY <1>1 DEF Numbered
<1>3. op'.kind \in {"install", "uninstall"} =>
        \A j \in Install : j > op'.of => manifest'[j].phase = "none"
  BY <1>1, OpSteps DEF Numbered, NoOp
<1>4. \A f \in File : files'[f] # 0 => manifest'[files'[f]].phase # "none"
  <2> SUFFICES ASSUME NEW f \in File, files'[f] # 0 PROVE manifest'[files'[f]].phase # "none"
    OBVIOUS
  <2>1. CASE files'[f] = files[f]
    <3>1. files[f] \in Install
      BY <2>1 DEF TypeOK, Release
    <3> QED
      BY <1>1, <2>1, <3>1 DEF Numbered
  <2>2. CASE op.pc = "put" /\ files'[f] = op.of
    BY <1>1, <2>2, Busy
  <2>3. CASE op.pc = "copy" /\ files'[f] = manifest[op.of].backup[f]
    <3> DEFINE b == manifest[op.of].backup[f]
    <3>1. op.of \in Install /\ manifest[op.of] \in Manifest /\ manifest[op.of].phase # "none"
      BY <2>3, Busy
    <3>2. b \in Install
      BY <2>3, <3>1 DEF Manifest, Release
    <3>3. b < op.of
      BY <3>1 DEF Numbered
    <3>4. manifest[b].phase # "none"
      BY <3>1, <3>2, <3>3, InstallType DEF Numbered
    <3> QED
      BY <1>1, <2>3, <3>2, <3>4
  <2> QED
    BY <2>1, <2>2, <2>3, FileSteps
<1>5. \A k \in Install, f \in File : manifest'[k].backup[f] < k
  BY <1>1 DEF Numbered
<1>6. \A k \in Install : manifest'[k].phase # "none" /\ manifest'[k].kind # "upgrade" =>
        manifest'[k].backup["state"] # 0
  BY <1>1 DEF Numbered
<1> QED
  BY <1>2, <1>3, <1>4, <1>5, <1>6 DEF Numbered

-----------------------------------------------------------------------------
(* Located. *)

\* The orders of a payload follow from the kind of its manifest.
LEMMA SameOrders ==
  ASSUME TypeOK, Located, Onward, op.pc # "done", op'.of = op.of
  PROVE  /\ (Changing <=> Changing') /\ (AllFiles(op.of) <=> AllFiles(op.of)')
         /\ PutOrder' = PutOrder /\ RestoreOrder' = RestoreOrder
         /\ Covered(op.of)' = Covered(op.of)
         /\ manifest'[op.of].kind = manifest[op.of].kind
         /\ manifest'[op.of].backup = manifest[op.of].backup
         /\ manifest'[op.of].enabled = manifest[op.of].enabled
         /\ manifest'[op.of].active = manifest[op.of].active
         /\ manifest'[op.of].phase # "none"
<1>1. op.of \in Install /\ manifest[op.of].phase # "none"
  BY Busy
<1>2. /\ manifest'[op.of].kind = manifest[op.of].kind
      /\ manifest'[op.of].backup = manifest[op.of].backup
      /\ manifest'[op.of].enabled = manifest[op.of].enabled
      /\ manifest'[op.of].active = manifest[op.of].active
      /\ manifest'[op.of].phase # "none"
  BY <1>1, OldManifests
<1>3. (Changing <=> Changing') /\ (AllFiles(op.of) <=> AllFiles(op.of)')
  BY <1>2 DEF Changing, AllFiles
<1>4. PutOrder' = PutOrder
  BY <1>3 DEF PutOrder
<1>5. RestoreOrder' = RestoreOrder
  BY <1>4 DEF RestoreOrder
<1>6. Covered(op.of)' = Covered(op.of)
  BY <1>3 DEF Covered
<1> QED
  BY <1>2, <1>3, <1>4, <1>5, <1>6

LEMMA LocatedInit == Init => Located
  BY DEF Init, Located, NoOp, InstallSteps, UninstallSteps, RestoreSteps

LEMMA LocatedBegin ==
  ASSUME TypeOK, (\E changing \in BOOLEAN : BeginInstall(changing)) \/ BeginUninstall
  PROVE  Located'
<1>1. PICK k \in Install, kind \in {"upgrade", "same", "uninstall"},
           phase \in {"prepared", "uninstalling"} :
        /\ NewManifest(k, kind, phase)
        /\ \/ /\ kind = "upgrade"
              /\ op' = [kind |-> "install", of |-> k, pc |-> "mark", i |-> 1, errors |-> FALSE]
           \/ /\ kind = "same"
              /\ op' = [kind |-> "install", of |-> k, pc |-> "put", i |-> 1, errors |-> FALSE]
           \/ /\ kind = "uninstall"
              /\ op' = [kind |-> "uninstall", of |-> k, pc |-> "ustop", i |-> 1, errors |-> FALSE]
  BY DEF BeginInstall, BeginUninstall
<1>2. manifest'[k].phase = phase /\ manifest'[k].kind = kind /\ k # 0
  BY <1>1, NewManifestFields, InstallType
<1>3. Len(PutOrder') >= 1
  BY DEF PutOrder, Payload
<1> QED
  BY <1>1, <1>2, <1>3 DEF Located, Changing, NoOp, InstallSteps, UninstallSteps, RestoreSteps

LEMMA LocatedOnward ==
  ASSUME TypeOK, Located, Onward
  PROVE  Located'
<1> DEFINE going == op'.kind = op.kind /\ op'.of = op.of
<1>1. op.pc # "done" =>
        /\ op.kind \in {"install", "uninstall", "rollback"} /\ op.of # 0
        /\ op.i \in 1..4 /\ 1 <= Len(PutOrder) /\ Len(RestoreOrder) = Len(PutOrder)
  BY Busy, CopyOrders, InstallType DEF TypeOK, Operation
<1>2. op.pc # "done" /\ going =>
        /\ (Changing <=> Changing') /\ Len(PutOrder') = Len(PutOrder)
        /\ manifest'[op.of].kind = manifest[op.of].kind /\ manifest'[op.of].phase # "none"
  BY SameOrders
<1> USE DEF InstallSteps, UninstallSteps, RestoreSteps
<1>3. ASSUME NEW k \in Install, BeginRollback(k) PROVE Located'
  <2>1. manifest'[k].phase # "none" /\ k # 0
    BY <1>3, InstallType DEF BeginRollback, Eligible
  <2> QED
    BY <1>3, <2>1 DEF BeginRollback, Located
<1>4. CASE op' = NoOp
  BY <1>4 DEF Located, NoOp
<1>5. CASE StopUnit
  <2>1. /\ going /\ op'.errors = op.errors
        /\ \/ op'.pc = op.pc /\ op'.i = op.i + 1
           \/ op'.pc = AfterStop[op.pc] /\ op'.i = 1
    BY <1>5, AfterFields DEF StopUnit
  <2>2. \/ op.pc = "stop" /\ op'.pc \in {"stop", "capture"}
        \/ op.pc = "ustop" /\ op'.pc \in {"ustop", "udisable"}
        \/ op.pc = "rstop" /\ op'.pc \in {"rstop", "copy"}
    BY <1>5, <2>1 DEF StopUnit, AfterStop
  <2>3. op'.pc \in {"capture", "udisable", "copy"} => op'.i = 1
    BY <2>1, <2>2
  <2> QED
    BY <1>1, <1>2, <2>1, <2>2, <2>3 DEF Located, Changing
<1>6. CASE WriteMark \/ Capture \/ Enable \/ ValidateGuard \/ Verify
  <2>1. /\ going /\ op'.errors = op.errors /\ op'.i = op.i
        /\ \/ op.pc = "mark" /\ op'.pc = "stop"
           \/ op.pc = "capture" /\ op'.pc = "put"
           \/ op.pc = "enable" /\ op'.pc = "guard" /\ Changing
           \/ op.pc = "enable" /\ op'.pc = "start"
           \/ op.pc = "guard" /\ op'.pc = "start"
           \/ op.pc = "verify" /\ op'.pc = "unmark"
    BY <1>6 DEF WriteMark, Capture, Enable, ValidateGuard, Verify, TypeOK, Operation
  <2> QED
    BY <1>1, <1>2, <2>1 DEF Located, Changing
<1>7. CASE Put \/ CopyBack \/ CopyFails
  <2>1. /\ going
        /\ \/ /\ op.pc = "put" /\ op'.errors = op.errors
              /\ \/ op.i < Len(PutOrder) /\ op'.pc = "put" /\ op'.i = op.i + 1
                 \/ op'.pc = "enable" /\ op'.i = 1
           \/ /\ op.pc = "copy"
              /\ \/ op.i < Len(PutOrder) /\ op'.pc = "copy" /\ op'.i = op.i + 1
                 \/ op'.pc = "reload" /\ op'.i = 1
    <3>1. CASE Put
      BY <3>1, AfterFields DEF Put
    <3>2. CASE CopyBack
      BY <1>1, <3>2, AfterFields DEF CopyBack
    <3>3. CASE CopyFails
      BY <1>1, <3>3, AfterFields, GoesOnFields DEF CopyFails
    <3> QED
      BY <1>7, <3>1, <3>2, <3>3
  <2> QED
    BY <1>1, <1>2, <2>1 DEF Located
<1>8. CASE StartUnit \/ DisableForGood \/ RemoveFile
  <2>1. /\ going /\ op'.errors = op.errors
        /\ \/ op.i < 3 /\ op'.pc = op.pc /\ op'.i = op.i + 1
           \/ op'.i = 1
        /\ \/ op.pc = "start" /\ op'.pc \in {"start", "verify"}
           \/ op.pc = "udisable" /\ op'.pc \in {"udisable", "remove"}
           \/ op.pc = "remove" /\ op'.pc \in {"remove", "uend"}
        /\ op'.pc # op.pc => op'.i = 1
    <3>1. CASE StartUnit
      BY <3>1, LoopFields DEF StartUnit
    <3>2. CASE DisableForGood
      BY <3>2, LoopFields DEF DisableForGood
    <3>3. CASE RemoveFile
      BY <3>3, LoopFields DEF RemoveFile
    <3> QED
      BY <1>8, <3>1, <3>2, <3>3
  <2> QED
    BY <1>1, <1>2, <2>1 DEF Located
<1>9. CASE Rejected \/ InstallFails \/ ReportFails \/ UninstallFails
  <2>1. /\ going /\ op'.errors = op.errors /\ op'.i = 1 /\ op'.pc = "rstop"
        /\ op.pc \in InstallSteps \cup UninstallSteps
    BY <1>9 DEF Rejected, Unacceptable, InstallFails, ReportFails, UninstallFails, Located,
                TypeOK, Operation
  <2> QED
    BY <1>1, <1>2, <2>1 DEF Located
<1>10. CASE Reload \/ RestoreControls \/ ReleaseMark \/ DisableUnit
  <2>1. /\ going /\ op'.i = op.i
        /\ \/ op.pc = "reload" /\ op'.pc \in {"controls", "failed"}
           \/ op.pc = "controls" /\ op'.pc = "release"
           \/ op.pc = "release" /\ op'.pc = "disable"
           \/ op.pc = "disable" /\ op'.pc = "restart"
    BY <1>10 DEF Reload, RestoreControls, ReleaseMark, DisableUnit, TypeOK, Operation
  <2> QED
    BY <1>1, <1>2, <2>1 DEF Located
<1>11. CASE RestartUnit \/ StartRefused \/ DisableFails \/ RestartFails
  <2>1. /\ going /\ op.pc \in {"disable", "restart"}
        /\ \/ op.i < 3 /\ op'.pc = "disable" /\ op'.i = op.i + 1
           \/ op'.pc = "end" /\ op'.i = 1
    BY <1>11, GoesOnFields, NextUnitFields DEF RestartUnit, StartRefused, DisableFails, RestartFails
  <2> QED
    BY <1>1, <1>2, <2>1 DEF Located
<1>12. CASE RestoreStops
  <2>1. going /\ op.pc # "done" /\ op'.i = 1 /\ op'.pc = "failed"
    BY <1>12 DEF RestoreStops, TypeOK, Operation
  <2> QED
    BY <1>1, <1>2, <2>1 DEF Located
<1>13. CASE UNCHANGED op
  <2>1. going
    BY <1>13
  <2>2. op.pc = "done" => Located'
    BY <1>13 DEF Located
  <2> QED
    BY <1>2, <1>13, <2>1, <2>2 DEF Located
<1>14. UNCHANGED op \/ ~(Services \/ UNCHANGED vars)
  BY DEF Services, UnitRestarts, StartsDeleting, EndsDeleting, GuardFires, GuardEnds,
         GuardPauses, GuardResumes, vars
<1>15. op' = NoOp \/ ~(EndInstall \/ EndUninstall \/ EndRestore \/ Killed \/ Reboot)
  BY DEF EndInstall, EndUninstall, EndRestore, Killed, Reboot
<1> QED
  BY <1>3, <1>4, <1>5, <1>6, <1>7, <1>8, <1>9, <1>10, <1>11, <1>12, <1>13, <1>14, <1>15
     DEF Onward, ManagerStep, InstallStep, UninstallStep, RestoreStep, Failure

-----------------------------------------------------------------------------
(* Marked. *)

\* The order in which manage.py goes through its steps.
LEMMA PcSteps ==
  ASSUME TypeOK, Located, Onward
  PROVE  \/ UNCHANGED op /\ (Services \/ UNCHANGED vars)
         \/ op' = NoOp /\ (EndInstall \/ EndUninstall \/ EndRestore \/ Killed \/ Reboot)
         \/ op = NoOp /\ op'.pc = "rstop" /\ op'.i = 1
         \/ /\ StopUnit /\ op.pc \in {"stop", "ustop", "rstop"} /\ op.i \in 1..4
            /\ \/ op'.pc = op.pc /\ op'.i = op.i + 1
               \/ op'.pc = AfterStop[op.pc] /\ op.i = 4 /\ op'.i = 1
         \/ op.pc \in InstallSteps \cup UninstallSteps /\ op'.pc = "rstop" /\ op'.i = 1
         \/ WriteMark /\ op.pc = "mark" /\ op'.pc = "stop" /\ op'.i = 1
         \/ op.pc = "capture" /\ op'.pc = "put" /\ op'.i = 1
         \/ Put /\ op.pc = "put" /\ op'.pc \in {"put", "enable"}
         \/ op.pc = "enable" /\ op'.pc \in {"guard", "start"}
         \/ op.pc = "guard" /\ op'.pc = "start"
         \/ op.pc = "start" /\ op'.pc \in {"start", "verify"}
         \/ Verify /\ op.pc = "verify" /\ op'.pc = "unmark"
         \/ DisableForGood /\ op.pc = "udisable" /\ op'.pc = "udisable"
         \/ DisableForGood /\ op.pc = "udisable" /\ op'.pc = "remove" /\ op'.i = 1
         \/ RemoveFile /\ op.pc = "remove" /\ op'.pc \in {"remove", "uend"}
         \/ (CopyBack \/ CopyFails) /\ op.pc = "copy" /\ op'.pc \in {"copy", "reload"}
         \/ op.pc = "reload" /\ op'.pc = "controls" /\ ~op.errors
         \/ op.pc \in {"rstop", "reload"} /\ op'.pc = "failed"
         \/ RestoreControls /\ op.pc = "controls" /\ op'.pc = "release"
         \/ ReleaseMark /\ op.pc = "release" /\ op'.pc = "disable" /\ op'.i = op.i
         \/ DisableUnit /\ op.pc = "disable" /\ op'.pc = "restart" /\ op'.i = op.i
         \/ /\ \/ (RestartUnit \/ StartRefused \/ RestartFails) /\ op.pc = "restart"
               \/ DisableFails /\ op.pc = "disable"
            /\ (op'.pc = "disable" /\ op'.i = op.i + 1) \/ op'.pc = "end"
<1>1. CASE \E k \in Install : BeginRollback(k)
  BY <1>1 DEF BeginRollback
<1>2. CASE StopUnit
  <2>1. op.i \in 1..4 /\ Len(StopOrder) = 4
    BY Orders DEF TypeOK, Operation
  <2>2. \/ op.i < Len(StopOrder) /\ op'.pc = op.pc /\ op'.i = op.i + 1
        \/ ~(op.i < Len(StopOrder)) /\ op'.pc = AfterStop[op.pc] /\ op'.i = 1
    BY <1>2, AfterFields DEF StopUnit
  <2>3. op.pc \in {"stop", "ustop", "rstop"}
    BY <1>2 DEF StopUnit, AfterStop
  <2> QED
    BY <1>2, <2>1, <2>2, <2>3
<1>3. CASE Put
  BY <1>3, AfterFields DEF Put
<1>4. CASE CopyBack \/ CopyFails
  <2>1. op.pc = "copy"
    BY <1>4 DEF CopyBack, CopyFails
  <2>2. op'.pc = After(RestoreOrder, "reload").pc
    BY <1>4, GoesOnFields DEF CopyBack
  <2> QED
    BY <1>4, <2>1, <2>2, AfterFields
<1>5. CASE StartUnit \/ DisableForGood \/ RemoveFile
  BY <1>5, AfterFields DEF StartUnit, DisableForGood, RemoveFile
<1>6. CASE WriteMark \/ Capture \/ Enable \/ ValidateGuard \/ Verify
  BY <1>6 DEF WriteMark, Capture, Enable, ValidateGuard, Verify, Located, TypeOK, Operation
<1>7. CASE Rejected \/ InstallFails \/ ReportFails \/ UninstallFails
  BY <1>7 DEF Rejected, Unacceptable, InstallFails, ReportFails, UninstallFails, InstallSteps,
              Located, TypeOK, Operation
<1>8. CASE Reload \/ RestoreControls \/ ReleaseMark \/ DisableUnit \/ RestoreStops
  BY <1>8 DEF Reload, RestoreControls, ReleaseMark, DisableUnit, RestoreStops, TypeOK, Operation
<1>9. CASE RestartUnit \/ StartRefused \/ DisableFails \/ RestartFails
  BY <1>9, GoesOnFields, NextUnitFields DEF RestartUnit, StartRefused, DisableFails, RestartFails
<1>10. UNCHANGED op \/ ~(Services \/ UNCHANGED vars)
  BY DEF Services, UnitRestarts, StartsDeleting, EndsDeleting, GuardFires, GuardEnds,
         GuardPauses, GuardResumes, vars
<1>11. op' = NoOp \/ ~(EndInstall \/ EndUninstall \/ EndRestore \/ Killed \/ Reboot)
  BY DEF EndInstall, EndUninstall, EndRestore, Killed, Reboot
<1> QED
  BY <1>1, <1>2, <1>3, <1>4, <1>5, <1>6, <1>7, <1>8, <1>9, <1>10, <1>11
     DEF Onward, ManagerStep, InstallStep, UninstallStep, RestoreStep, Failure

\* Who writes the mark, and when.
LEMMA MarkSteps ==
  ASSUME TypeOK, Onward
  PROVE  \/ UNCHANGED mark
         \/ WriteMark
         \/ /\ mark'.of = 0 /\ ~mark'.alive /\ Changing
            /\ op.pc = "release" \/ EndInstall \/ ReportFails
         \/ mark'.of = mark.of /\ ~mark'.alive /\ op' = NoOp
         \/ mark'.of = op.of /\ ~mark'.alive /\ op.pc = "end" /\ Changing /\ op' = NoOp
<1>1. CASE \E k \in Install : BeginRollback(k)
  BY <1>1 DEF BeginRollback
<1>2. CASE StopUnit \/ InstallStep
  BY <1>2 DEF StopUnit, InstallStep, Capture, Put, Enable, ValidateGuard, StartUnit,
              Verify, EndInstall, NoMark, Rejected
<1>3. CASE UninstallStep
  BY <1>3 DEF UninstallStep, DisableForGood, RemoveFile, EndUninstall
<1>4. CASE RestoreStep
  BY <1>4 DEF RestoreStep, CopyBack, Reload, RestoreControls, ReleaseMark, NoMark, DisableUnit,
              RestartUnit, StartRefused, EndRestore, TypeOK
<1>5. CASE Services
  BY <1>5 DEF Services, UnitRestarts, StartsDeleting, EndsDeleting, GuardFires, GuardEnds,
              GuardPauses, GuardResumes
<1>6. CASE Failure
  BY <1>6 DEF Failure, InstallFails, ReportFails, UninstallFails, CopyFails, DisableFails,
              RestartFails, RestoreStops, Killed, Reboot, OwnerGone, NoMark, TypeOK
<1>7. CASE UNCHANGED vars
  BY <1>7 DEF vars
<1> QED
  BY <1>1, <1>2, <1>3, <1>4, <1>5, <1>6, <1>7 DEF Onward, ManagerStep

\* A retention pass begins only where there is no mark.
LEMMA DeletingSteps ==
  ASSUME TypeOK, Onward
  PROVE  \/ deleting' \subseteq deleting
         \/ mark.of = 0 /\ UNCHANGED <<files, manifest, mark, op, runs>>
<1>1. CASE \E k \in Install : BeginRollback(k)
  BY <1>1 DEF BeginRollback, services
<1>2. CASE StopUnit
  BY <1>2 DEF StopUnit
<1>3. CASE InstallStep
  BY <1>3 DEF InstallStep, WriteMark, Capture, Put, Enable, ValidateGuard, StartUnit,
              Verify, EndInstall, Rejected, services
<1>4. CASE UninstallStep
  BY <1>4 DEF UninstallStep, DisableForGood, RemoveFile, EndUninstall, services
<1>5. CASE RestoreStep
  BY <1>5 DEF RestoreStep, CopyBack, Reload, RestoreControls, ReleaseMark, DisableUnit,
              RestartUnit, StartRefused, EndRestore, services
<1>6. CASE Services
  BY <1>6 DEF Services, UnitRestarts, StartsDeleting, EndsDeleting, GuardFires, GuardEnds,
              GuardPauses, GuardResumes
<1>7. CASE Failure
  BY <1>7 DEF Failure, InstallFails, ReportFails, UninstallFails, CopyFails, DisableFails,
              RestartFails, RestoreStops, Killed, Reboot, services
<1>8. CASE UNCHANGED vars
  BY <1>8 DEF vars
<1> QED
  BY <1>1, <1>2, <1>3, <1>4, <1>5, <1>6, <1>7, <1>8 DEF Onward, ManagerStep

LEMMA MarkedInit == Init => Marked
  BY DEF Init, Marked, NoMark, NoOp, InstallSteps

LEMMA MarkedBegin ==
  ASSUME TypeOK, Numbered, Located, Marked,
         (\E changing \in BOOLEAN : BeginInstall(changing)) \/ BeginUninstall
  PROVE  Marked'
<1>1. PICK k \in Install, kind \in {"upgrade", "same", "uninstall"},
           phase \in {"prepared", "uninstalling"} :
        /\ NewManifest(k, kind, phase) /\ UNCHANGED <<files, mark, deleting>> /\ op = NoOp
        /\ \/ /\ kind = "upgrade" /\ mark.of = 0
              /\ op' = [kind |-> "install", of |-> k, pc |-> "mark", i |-> 1, errors |-> FALSE]
           \/ /\ kind = "same" /\ mark.of = 0 /\ files["unit"] # 0
              /\ op' = [kind |-> "install", of |-> k, pc |-> "put", i |-> 1, errors |-> FALSE]
           \/ /\ kind = "uninstall"
              /\ op' = [kind |-> "uninstall", of |-> k, pc |-> "ustop", i |-> 1, errors |-> FALSE]
  BY DEF BeginInstall, BeginUninstall, Preflight, Runnable, Installed, services
<1>2. /\ manifest[k].phase = "none" /\ manifest'[k].kind = kind
      /\ \A j \in Install : j # k => manifest'[j] = manifest[j]
  BY <1>1, NewManifestFields
<1>3. manifest[k].kind = "none"
  BY <1>2 DEF Numbered, NoManifest
<1>4. mark.of # 0 => mark.of \in Install
  BY DEF TypeOK, Release
<1>5. mark'.of # 0 => manifest'[mark'.of].kind = "upgrade"
  BY <1>1, <1>2, <1>3, <1>4 DEF Marked
<1>6. ~mark'.alive
  BY <1>1 DEF Marked, NoOp
<1>8. Changing' => op'.pc # "put"
  BY <1>1, <1>2 DEF Changing
<1>9. ~Changing' /\ op'.kind = "install" => mark'.of = 0 /\ files'["unit"] # 0
  BY <1>1, <1>2 DEF Changing
<1>11. op'.pc \in {"mark", "put", "ustop"} /\ op'.of = k
  BY <1>1
<1>12. op'.pc \in InstallSteps \ {"mark"} /\ Changing' => mark'.of = op'.of
  BY <1>8, <1>11 DEF InstallSteps
<1> QED
  BY <1>5, <1>6, <1>9, <1>12 DEF Marked

\* Once its files are back, nothing of an install is left.
LEMMA Restored ==
  ASSUME TypeOK, Numbered, Located, Copied, Changing,
         op.pc \in {"controls", "release", "disable", "restart", "end"}
  PROVE  op.of \notin Installed
<1>1. op.of \in Install
  BY Busy
<1>2. \A f \in {"program", "unit"} : files[f] = manifest[op.of].backup[f]
  BY DEF Copied, Covered, AllFiles, Changing, File
<1>3. \A f \in {"program", "unit"} : files[f] < op.of
  BY <1>1, <1>2 DEF Numbered, File
<1>4. op.of \in Nat
  BY <1>1, InstallType
<1>5. files["program"] # op.of /\ files["unit"] # op.of
  BY <1>3, <1>4
<1> QED
  BY <1>5 DEF Installed

\* What is installed changes only when nothing runs.
LEMMA InstalledSteps ==
  ASSUME TypeOK, Located, Onward
  PROVE  \/ UNCHANGED Installed /\ \A f \in {"program", "unit"} : files'[f] = files[f]
         \/ Quiet
<1>1. ASSUME NEW f \in {"program", "unit"}, files'[f] # files[f] PROVE Quiet
  <2>1. op.pc \in {"remove", "copy"} \/ (op.pc = "put" /\ f \in Covered(op.of))
    BY <1>1, FileSteps DEF File
  <2>2. op.pc = "put" /\ f \in Covered(op.of) => Changing
    BY <1>1 DEF Covered, AllFiles, Changing, Located, InstallSteps
  <2> QED
    BY <2>1, <2>2 DEF Quiet
<1> QED
  BY <1>1 DEF Installed

LEMMA MarkedOnward ==
  ASSUME TypeOK, Numbered, Located, Marked, Copied, Running, Onward
  PROVE  Marked'
<1>1. mark.of # 0 => mark.of \in Install
  BY DEF TypeOK, Release
<1>2. WriteMark => /\ mark'.of = op.of /\ mark'.alive /\ Changing /\ op.of \in Install
                   /\ op.kind = "install" /\ op'.kind = "install" /\ op'.of = op.of /\ op'.pc = "stop"
                   /\ UNCHANGED <<files, deleting>>
  BY Busy DEF WriteMark, Located, InstallSteps, services, TypeOK, Operation
<1>3. op.pc \in {"release", "end"} /\ Changing => op.of \notin Installed
  BY Restored
<1> DEFINE going == op'.kind = op.kind /\ op'.of = op.of
<1>4. op'.kind \in {"install", "uninstall"} =>
        going /\ op.pc # "done" /\ op' # NoOp /\ op.of \in Install
  BY OpSteps, Busy DEF NoOp, Located
<1>5. op.pc # "done" /\ going => (Changing <=> Changing')
  BY SameOrders
<1>6. /\ op.kind = "install" /\ op.pc = "release" => op'.pc \notin InstallSteps
      /\ EndInstall => op' = NoOp
      /\ ReportFails => op.pc = "unmark" /\ op'.pc = "rstop" /\ UNCHANGED <<files, deleting>>
  BY PcSteps DEF EndInstall, ReportFails, services, TypeOK, Operation, InstallSteps, UninstallSteps, NoOp, WriteMark, Put, Verify, RemoveFile,
                 CopyBack, CopyFails, ReleaseMark
<1>7. mark'.of # 0 => manifest'[mark'.of].kind = "upgrade"
  <2> SUFFICES ASSUME mark'.of # 0 PROVE mark'.of \in Install /\ manifest[mark'.of].kind = "upgrade"
    BY OldManifests
  <2>1. CASE mark'.of = op.of /\ op.pc = "end" /\ Changing
    BY <2>1, Busy DEF Changing
  <2>2. CASE WriteMark
    BY <1>2, <2>2 DEF Changing
  <2> QED
    BY <1>1, <2>1, <2>2, MarkSteps DEF Marked
<1>8. mark'.alive => op'.kind = "install" /\ op'.of = mark'.of
  <2> SUFFICES ASSUME mark'.alive, ~WriteMark PROVE op'.kind = "install" /\ op'.of = mark'.of
    BY <1>2
  <2>1. UNCHANGED mark
    BY MarkSteps
  <2>2. op.kind = "install" /\ op.of = mark.of /\ op # NoOp /\ op.of # 0 /\ op.pc # "done"
    BY <2>1 DEF Marked, NoOp, Located
  <2>3. EndInstall => Changing
    BY <2>2 DEF Marked
  <2>4. ~EndInstall
    BY <2>1, <2>2, <2>3 DEF EndInstall, NoMark
  <2>5. ~(EndUninstall \/ EndRestore \/ Killed \/ Reboot)
    BY <2>2 DEF EndUninstall, EndRestore, Killed, Reboot, OwnerGone, Located, UninstallSteps, TypeOK
  <2>6. op' # NoOp
    BY <2>2, <2>4, <2>5, PcSteps DEF NoOp, AfterStop
  <2> QED
    BY <2>1, <2>2, <2>6, OpSteps
<1>9. op'.kind = "install" /\ ~Changing' => mark'.of = 0 /\ files'["unit"] # 0
  <2> SUFFICES ASSUME op'.kind = "install", ~Changing' PROVE mark'.of = 0 /\ files'["unit"] # 0
    OBVIOUS
  <2>1. going /\ op.kind = "install" /\ ~Changing /\ mark.of = 0 /\ files["unit"] # 0 /\ op' # NoOp
    BY <1>4, <1>5 DEF Marked
  <2>2. mark'.of = 0
    BY <1>2, <2>1, MarkSteps
  <2>3. files'["unit"] = files["unit"]
    BY <2>1, FileSteps DEF File, Covered, AllFiles, Changing, Located, UninstallSteps
  <2> QED
    BY <2>1, <2>2, <2>3
<1>10. op'.pc \in InstallSteps \ {"mark"} /\ Changing' => mark'.of = op'.of
  <2> SUFFICES ASSUME op'.pc \in InstallSteps \ {"mark"}, Changing', ~WriteMark PROVE mark'.of = op'.of
    BY <1>2
  <2>1. op.pc \in InstallSteps \ {"mark"} /\ op' # NoOp
    BY PcSteps DEF InstallSteps, UninstallSteps, NoOp, AfterStop, Put, Verify, RemoveFile,
                   CopyBack, CopyFails, ReleaseMark
  <2>2. going /\ Changing /\ mark.of = op.of
    BY <1>5, <2>1, OpSteps DEF InstallSteps, NoOp, Marked
  <2>3. UNCHANGED mark
    BY <1>6, <2>1, <2>2, MarkSteps DEF InstallSteps
  <2> QED
    BY <2>2, <2>3
<1> QED
  BY <1>7, <1>8, <1>9, <1>10 DEF Marked

-----------------------------------------------------------------------------
(* Running. *)

\* What may start a unit: itself again, the timer, the guard, manage.py or a reboot.
\* The receiver and the agent look at the mark.
LEMMA RunSteps ==
  ASSUME TypeOK, Onward, NEW u \in Unit
  PROVE  \/ runs'[u] \in {runs[u], {}}
         \/ /\ runs'[u] = Installed /\ Runnable /\ UNCHANGED <<files, manifest>>
            /\ u \in {"receiver", "agent"} => mark'.of = 0 \/ mark'.alive
            /\ \/ op' = NoOp /\ ~UNCHANGED op
               \/ UNCHANGED op /\ op' = NoOp
               \/ op.pc \in {"start", "restart"}
               \/ /\ UNCHANGED op
                  /\ \/ runs[u] # {}
                     \/ u = "guard" /\ runs["timer"] # {}
                     \/ u = "receiver" /\ "guard" \in deleting
<1> USE DEF TypeOK
<1>1. CASE \E k \in Install : BeginRollback(k)
  BY <1>1 DEF BeginRollback, services
<1>2. CASE StopUnit
  BY <1>2 DEF StopUnit
<1>3. CASE StartUnit
  BY <1>3 DEF StartUnit, MayStart
<1>4. CASE InstallStep /\ ~StartUnit
  BY <1>4 DEF InstallStep, WriteMark, Capture, Put, Enable, ValidateGuard, Verify, EndInstall,
              Rejected, services
<1>5. CASE UninstallStep
  BY <1>5 DEF UninstallStep, DisableForGood, RemoveFile, EndUninstall, services
<1>6. CASE RestartUnit
  BY <1>6 DEF RestartUnit, MayStart
<1>7. CASE RestoreStep /\ ~RestartUnit
  BY <1>7 DEF RestoreStep, CopyBack, Reload, RestoreControls, ReleaseMark, DisableUnit,
              StartRefused, EndRestore, services
<1>8. ASSUME NEW v \in {"receiver", "agent"}, UnitRestarts(v)
      PROVE  \/ runs'[u] \in {runs[u], {}}
             \/ /\ runs'[u] = Installed /\ Runnable /\ UNCHANGED <<files, manifest, op, mark>>
                /\ u \in {"receiver", "agent"} => mark.of = 0 \/ mark.alive
                /\ runs[u] # {}
  BY <1>8 DEF UnitRestarts, MayStart, Unit
<1>9. CASE \E v \in {"agent", "guard"} : StartsDeleting(v) \/ EndsDeleting(v)
  BY <1>9 DEF StartsDeleting, EndsDeleting
<1>10. CASE GuardFires \/ GuardEnds
  BY <1>10 DEF GuardFires, GuardEnds
<1>11. CASE GuardPauses \/ GuardResumes
  BY <1>11 DEF GuardPauses, GuardResumes
<1>12. CASE Reboot
  BY <1>12 DEF Reboot, MayStart
<1>13. CASE Failure /\ ~Reboot
  BY <1>13 DEF Failure, InstallFails, ReportFails, UninstallFails, CopyFails, DisableFails,
              RestartFails, RestoreStops, Killed, services
<1>14. CASE UNCHANGED vars
  BY <1>14 DEF vars
<1> QED
  BY <1>1, <1>2, <1>3, <1>4, <1>5, <1>6, <1>7, <1>8, <1>9, <1>10, <1>11, <1>12, <1>13, <1>14
     DEF Onward, ManagerStep, Services

\* What is in the middle of a retention pass is stopped with the unit.
LEMMA DeletingRuns ==
  ASSUME TypeOK, Running, Onward, NEW u \in deleting'
  PROVE  runs'[u] # {}
<1> USE DEF TypeOK, Running, Unit, Service
<1>1. CASE UNCHANGED <<runs, deleting>>
  BY <1>1
<1>2. CASE StopUnit
  BY <1>2 DEF StopUnit
<1>3. CASE StartUnit
  BY <1>3 DEF StartUnit
<1>4. CASE RestartUnit
  <2>1. Installed # {}
    BY DEF Installed
  <2>2. u \in deleting /\ runs[u] # {}
    BY <1>4 DEF RestartUnit
  <2>3. runs'[u] \in {runs[u], Installed}
    BY <1>4 DEF RestartUnit
  <2> QED
    BY <2>1, <2>2, <2>3
<1>5. ASSUME NEW v \in {"receiver", "agent"}, UnitRestarts(v) PROVE runs'[u] # {}
  BY <1>5 DEF UnitRestarts
<1>6. ASSUME NEW v \in {"agent", "guard"}, StartsDeleting(v) \/ EndsDeleting(v) PROVE runs'[u] # {}
  BY <1>6 DEF StartsDeleting, EndsDeleting
<1>7. CASE GuardFires \/ GuardEnds
  BY <1>7 DEF GuardFires, GuardEnds, Installed
<1>8. CASE GuardPauses \/ GuardResumes
  BY <1>8 DEF GuardPauses, GuardResumes
<1>9. CASE Reboot
  BY <1>9 DEF Reboot
<1>10. UNCHANGED <<runs, deleting>> \/ ~(InstallStep \/ UninstallStep) \/ StartUnit
  BY DEF InstallStep, WriteMark, Capture, Put, Enable, ValidateGuard, Verify, EndInstall,
         Rejected, UninstallStep, DisableForGood, RemoveFile, EndUninstall, services
<1>11. UNCHANGED <<runs, deleting>> \/ ~RestoreStep \/ RestartUnit
  BY DEF RestoreStep, CopyBack, Reload, RestoreControls, ReleaseMark, DisableUnit,
         StartRefused, EndRestore, services
<1>12. UNCHANGED <<runs, deleting>> \/ ~Failure \/ Reboot
  BY DEF Failure, InstallFails, ReportFails, UninstallFails, CopyFails, DisableFails,
              RestartFails, RestoreStops, Killed, services
<1>13. UNCHANGED <<runs, deleting>> \/ ~((\E k \in Install : BeginRollback(k)) \/ UNCHANGED vars)
  BY DEF BeginRollback, services, vars
<1> QED
  BY <1>1, <1>2, <1>3, <1>4, <1>5, <1>6, <1>7, <1>8, <1>9, <1>10, <1>11, <1>12, <1>13
     DEF Onward, ManagerStep, Services

LEMMA RunningInit == Init => Running
  BY DEF Init, Running, Quiet, NoOp, AfterStop

LEMMA RunningBegin ==
  ASSUME TypeOK, Located, Running,
         (\E changing \in BOOLEAN : BeginInstall(changing)) \/ BeginUninstall
  PROVE  Running'
<1>1. /\ UNCHANGED <<files, runs, deleting>> /\ op'.i = 1
      /\ op'.pc \in {"mark", "ustop"} \/ (op'.pc = "put" /\ ~Changing')
  <2>1. PICK k \in Install, kind \in {"upgrade", "same", "uninstall"},
             phase \in {"prepared", "uninstalling"} :
          /\ NewManifest(k, kind, phase) /\ UNCHANGED <<files, runs, deleting>>
          /\ op'.of = k /\ op'.i = 1
          /\ \/ op'.pc \in {"mark", "ustop"}
             \/ op'.pc = "put" /\ kind = "same"
    BY DEF BeginInstall, BeginUninstall, services
  <2> QED
    BY <2>1, NewManifestFields DEF Changing
<1>2. ~Quiet'
  BY <1>1 DEF Quiet
<1> QED
  BY <1>1, <1>2 DEF Running, Installed, Runnable

\* Where nothing runs, nothing starts but by manage.py or a reboot.
LEMMA QuietSteps ==
  ASSUME TypeOK, Located, Running, Onward, op' # NoOp, op.pc \notin {"start", "restart"},
         \A u \in Unit : runs[u] = {}
  PROVE  \A u \in Unit : runs'[u] = {}
  BY RunSteps DEF Running, Unit, Service, TypeOK

LEMMA RunningOnward ==
  ASSUME TypeOK, Located, Running, Onward
  PROVE  Running'
<1>1. \A u \in Unit : runs'[u] = {} \/ (runs'[u] = Installed' /\ Runnable')
  <2>1. CASE Quiet /\ op' # NoOp
    BY <2>1, QuietSteps DEF Quiet, Running
  <2>2. CASE Quiet /\ op' = NoOp
    <3> SUFFICES ASSUME NEW u \in Unit, runs'[u] # {} PROVE runs'[u] = Installed' /\ Runnable'
      OBVIOUS
    <3>1. runs[u] = {}
      BY <2>2 DEF Running
    <3> QED
      BY <3>1, RunSteps DEF Installed, Runnable
  <2>3. CASE ~Quiet
    <3>1. Installed' = Installed /\ (Runnable' <=> Runnable)
      BY <2>3, InstalledSteps DEF Runnable
    <3> QED
      BY <3>1, RunSteps DEF Running
  <2> QED
    BY <2>1, <2>2, <2>3
<1>2. \A u \in deleting' : runs'[u] # {}
  BY DeletingRuns
<1>3. op'.pc \in DOMAIN AfterStop => \A j \in 1..(op'.i - 1) : runs'[StopOrder[j]] = {}
  <2> SUFFICES ASSUME op'.pc \in DOMAIN AfterStop, NEW j \in 1..(op'.i - 1)
               PROVE  runs'[StopOrder[j]] = {}
    OBVIOUS
  <2>1. \/ UNCHANGED op
        \/ op'.i = 1
        \/ StopUnit /\ op.i \in 1..4 /\ op'.i = op.i + 1
    BY PcSteps DEF AfterStop, NoOp, InstallSteps, UninstallSteps
  <2>2. CASE UNCHANGED op
    <3>1. op.pc \in {"stop", "ustop", "rstop"} /\ op.i \in 1..4 /\ op # NoOp
      BY <2>2 DEF AfterStop, NoOp, TypeOK, Operation
    <3>2. j \in 1..3
      BY <2>2, <3>1
    <3>3. \A l \in 1..j : runs[StopOrder[l]] = {}
      BY <2>2, <3>1, <3>2 DEF Running
    <3>4. /\ runs["timer"] = {}
          /\ j > 1 => runs["guard"] = {}
          /\ j > 2 => runs["receiver"] = {}
      BY <3>2, <3>3, Orders
    <3>5. j > 1 => "guard" \notin deleting
      BY <3>4 DEF Running
    <3> QED
      BY <2>2, <3>1, <3>2, <3>4, <3>5, RunSteps, Orders DEF Unit, Service
  <2>3. CASE op'.i = 1
    BY <2>3
  <2>4. CASE StopUnit /\ op.i \in 1..4 /\ op'.i = op.i + 1
    <3>1. j \in 1..op.i /\ j \in 1..4 /\ StopOrder[j] \in Unit
      BY <2>4, Orders DEF Unit, Service
    <3>2. CASE files["unit"] = 0
      BY <2>4, <3>1, <3>2 DEF StopUnit, Running, Runnable, Installed
    <3>3. CASE files["unit"] # 0
      <4>1. runs'[StopOrder[j]] = IF StopOrder[j] = StopOrder[op.i] THEN {} ELSE runs[StopOrder[j]]
        BY <2>4, <3>1, <3>3 DEF StopUnit
      <4>2. j # op.i => runs[StopOrder[j]] = {}
        BY <2>4, <3>1 DEF StopUnit, Running
      <4> QED
        BY <4>1, <4>2
    <3> QED
      BY <3>2, <3>3
  <2> QED
    BY <2>1, <2>2, <2>3, <2>4
<1>4. Quiet' => \A u \in Unit : runs'[u] = {}
  <2> SUFFICES ASSUME Quiet' PROVE \A u \in Unit : runs'[u] = {}
    OBVIOUS
  <2>1. op' # NoOp /\ op'.pc # "done"
    BY DEF Quiet, NoOp
  <2>2. CASE Quiet
    BY <2>1, <2>2, QuietSteps DEF Quiet, Running
  <2>3. CASE StopUnit /\ op.i = 4
    <3>1. \A j \in 1..3 : runs[StopOrder[j]] = {}
      BY <2>3 DEF StopUnit, Running
    <3>2. CASE files["unit"] = 0
      BY <2>3, <3>2 DEF StopUnit, Running, Runnable, Installed
    <3>3. CASE files["unit"] # 0
      BY <2>3, <3>1, <3>3, Orders DEF StopUnit, Unit, Service
    <3> QED
      BY <3>2, <3>3
  <2>4. Quiet \/ (StopUnit /\ op.i = 4)
    <3>1. op.pc # "done" /\ op'.of = op.of => (Changing <=> Changing')
      BY SameOrders
    <3>2. op'.pc # "rstop"
      BY DEF Quiet
    <3>3. op'.kind = op.kind /\ op'.of = op.of /\ op.pc # "done"
      BY <2>1, <3>2, OpSteps, PcSteps DEF NoOp
    <3>4. op'.pc \in {"put", "enable", "guard"} => Changing
      BY <3>1, <3>3, LocatedOnward DEF Quiet, Located
    <3>5. \/ op'.pc \in {"put", "enable", "guard"}
          \/ op'.pc \in {"capture", "udisable", "remove", "uend", "copy", "reload", "controls",
                         "release"}
      BY DEF Quiet
    <3>6. CASE op'.pc \in {"put", "enable", "guard"}
      <4>1. op.pc \in {"capture", "put", "enable", "guard"}
        BY <2>1, <3>2, <3>6, PcSteps DEF AfterStop
      <4> QED
        BY <3>4, <3>6, <4>1 DEF Quiet
    <3>7. CASE op'.pc \in {"capture", "udisable", "remove", "uend", "copy", "reload", "controls",
                           "release"}
      BY <2>1, <3>2, <3>7, PcSteps DEF Quiet, AfterStop
    <3> QED
      BY <3>5, <3>6, <3>7
  <2> QED
    BY <2>2, <2>3, <2>4
<1> QED
  BY <1>1, <1>2, <1>3, <1>4 DEF Running

-----------------------------------------------------------------------------
(* Copied. *)

LEMMA CopiedInit == Init => Copied
  BY DEF Init, Copied, NoOp

LEMMA CopiedBegin ==
  ASSUME TypeOK, (\E changing \in BOOLEAN : BeginInstall(changing)) \/ BeginUninstall
  PROVE  Copied'
<1>1. PICK k \in Install, kind \in {"upgrade", "same", "uninstall"},
           phase \in {"prepared", "uninstalling"} :
        /\ NewManifest(k, kind, phase) /\ UNCHANGED files /\ op'.of = k
        /\ \/ op'.pc = "mark"
           \/ op'.pc = "put" /\ kind = "same"
           \/ op'.pc = "ustop"
  BY DEF BeginInstall, BeginUninstall
<1>2. manifest'[k].kind = kind /\ manifest'[k].backup = files /\ ~manifest'[k].verified
  BY <1>1, NewManifestFields
<1> QED
  BY <1>1, <1>2 DEF Copied, Changing

LEMMA CopiedPut ==
  ASSUME TypeOK, Located, Copied, Put
  PROVE  Copied'
<1>1. op.pc = "put" /\ op.i \in 1..4 /\ op.i <= Len(PutOrder)
  BY DEF Put, Located, TypeOK, Operation
<1>2. UNCHANGED manifest /\ op'.of = op.of /\ (Changing' <=> Changing)
  BY AfterFields DEF Put, Changing
<1>3. \/ op.i < Len(PutOrder) /\ op'.pc = "put" /\ op'.i = op.i + 1
      \/ ~(op.i < Len(PutOrder)) /\ op'.pc = "enable"
  BY <1>1, AfterFields DEF Put
<1>4. SUFFICES ASSUME Changing
               PROVE  /\ op'.pc = "put" => \A j \in 1..(op'.i - 1) : files'[Payload[j]] = op.of
                      /\ op'.pc = "enable" => \A f \in File : files'[f] = op.of
  BY <1>2, <1>3 DEF Copied
<1>5. PutOrder = Payload /\ Len(PutOrder) = 3 /\ op.i \in 1..3
  <2>1. AllFiles(op.of)
    BY <1>4 DEF Changing, AllFiles
  <2>2. PutOrder = Payload /\ Len(PutOrder) = 3
    BY <2>1, CopyOrders
  <2>3. op.i <= 3
    BY <1>1, <2>2
  <2> QED
    BY <1>1, <2>2, <2>3
<1>6. \A j \in 1..3 : Payload[j] \in File
  BY Orders DEF File
<1>7. \A j \in 1..op.i : files'[Payload[j]] = op.of
  <2> SUFFICES ASSUME NEW j \in 1..op.i PROVE files'[Payload[j]] = op.of
    OBVIOUS
  <2>1. files'[Payload[j]] = IF Payload[j] = Payload[op.i] THEN op.of ELSE files[Payload[j]]
    BY <1>5, <1>6 DEF Put, TypeOK
  <2>2. j # op.i => files[Payload[j]] = op.of
    BY <1>1, <1>4, <1>5 DEF Copied
  <2> QED
    BY <2>1, <2>2
<1>8. op'.pc = "put" => \A j \in 1..(op'.i - 1) : files'[Payload[j]] = op.of
  BY <1>3, <1>5, <1>7
<1>9. op'.pc = "enable" => \A f \in File : files'[f] = op.of
  <2> SUFFICES ASSUME op'.pc = "enable" PROVE \A f \in File : files'[f] = op.of
    OBVIOUS
  <2>1. op.i = 3
    BY <1>3, <1>5
  <2>2. files'[Payload[1]] = op.of /\ files'[Payload[2]] = op.of /\ files'[Payload[3]] = op.of
    BY <1>7, <2>1
  <2> QED
    BY <2>2, Orders DEF File
<1> QED
  BY <1>8, <1>9

LEMMA CopiedRemove ==
  ASSUME TypeOK, Located, Copied, RemoveFile
  PROVE  Copied'
<1>1. op.pc = "remove" /\ op.i \in 1..3
  BY DEF RemoveFile, Located, TypeOK, Operation
<1>2. UNCHANGED manifest /\ op'.of = op.of
  BY AfterFields DEF RemoveFile
<1>3. \/ op.i < 3 /\ op'.pc = "remove" /\ op'.i = op.i + 1
      \/ ~(op.i < 3) /\ op'.pc = "uend"
  BY <1>1, LoopFields DEF RemoveFile
<1> DEFINE backup == manifest[op.of].backup
<1>4. \A j \in 1..3 : files'[Payload[j]] = IF j <= op.i THEN 0 ELSE backup[Payload[j]]
  <2> SUFFICES ASSUME NEW j \in 1..3
               PROVE  files'[Payload[j]] = IF j <= op.i THEN 0 ELSE backup[Payload[j]]
    OBVIOUS
  <2>1. Payload[j] \in File /\ (Payload[j] = Payload[op.i] => j = op.i)
    BY <1>1, Orders DEF File
  <2>2. files'[Payload[j]] = IF Payload[j] = Payload[op.i] THEN 0 ELSE files[Payload[j]]
    BY <2>1 DEF RemoveFile, TypeOK
  <2>3. files[Payload[j]] = IF j < op.i THEN 0 ELSE backup[Payload[j]]
    BY <1>1 DEF Copied
  <2> QED
    BY <1>1, <2>1, <2>2, <2>3
<1>5. op'.pc = "remove" => \A j \in 1..3 :
        files'[Payload[j]] = IF j < op'.i THEN 0 ELSE manifest'[op'.of].backup[Payload[j]]
  BY <1>1, <1>2, <1>3, <1>4
<1>6. op'.pc = "uend" => \A f \in File : files'[f] = 0
  BY <1>1, <1>3, <1>4, Orders DEF File
<1> QED
  BY <1>3, <1>5, <1>6 DEF Copied

LEMMA CopiedBack ==
  ASSUME TypeOK, Located, Copied, CopyBack \/ CopyFails
  PROVE  Copied'
<1> DEFINE n == Len(RestoreOrder)
           backup == manifest[op.of].backup
<1>1. op.pc = "copy" /\ op.i \in 1..4 /\ op.i <= n
  BY CopyOrders DEF CopyBack, CopyFails, Located, TypeOK, Operation
<1> DEFINE a == After(RestoreOrder, "reload")
<1>0. /\ a.of = op.of /\ a.errors = op.errors
      /\ op.i < n => a.pc = op.pc /\ a.i = op.i + 1
      /\ ~(op.i < n) => a.pc = "reload" /\ a.i = 1
  BY AfterFields
<1>2. /\ UNCHANGED manifest /\ op'.of = op.of /\ op'.pc = a.pc /\ op'.i = a.i
      /\ CopyFails => op'.errors
      /\ CopyBack => op'.errors = op.errors
  <2>1. CASE CopyBack
    <3>1. UNCHANGED manifest /\ op' = a /\ op.pc = "copy"
      BY <2>1 DEF CopyBack
    <3>2. CopyFails => op'.errors
      BY GoesOnFields
    <3> HIDE DEF a
    <3> QED
      BY <1>0, <3>1, <3>2
  <2>2. CASE CopyFails
    <3>1. UNCHANGED manifest
      BY <2>2 DEF CopyFails
    <3>2. op'.of = op.of /\ op'.pc = a.pc /\ op'.i = a.i /\ op'.errors
      BY <2>2, GoesOnFields
    <3>3. CopyBack => op'.errors = op.errors
      BY <1>0 DEF CopyBack
    <3> QED
      BY <3>1, <3>2, <3>3
  <2> QED
    BY <2>1, <2>2
<1> HIDE DEF a
<1>3. RestoreOrder' = RestoreOrder /\ Covered(op.of)' = Covered(op.of)
  BY <1>2 DEF RestoreOrder, PutOrder, AllFiles, Covered
<1>4. \/ op.i < n /\ op'.pc = "copy" /\ op'.i = op.i + 1
      \/ ~(op.i < n) /\ op'.pc = "reload"
  BY <1>0, <1>1, <1>2
<1>5. SUFFICES ASSUME ~op'.errors
               PROVE  /\ op'.pc = "copy" => \A j \in 1..(op'.i - 1) :
                           files'[RestoreOrder[j]] = backup[RestoreOrder[j]]
                      /\ op'.pc = "reload" => \A f \in Covered(op.of) : files'[f] = backup[f]
  BY <1>2, <1>3, <1>4 DEF Copied
<1>6. CopyBack /\ ~op.errors
  BY <1>2, <1>5
<1>7. \A j \in 1..n : RestoreOrder[j] \in File
  BY CopyOrders DEF File
<1>8. \A j \in 1..op.i : files'[RestoreOrder[j]] = backup[RestoreOrder[j]]
  <2> SUFFICES ASSUME NEW j \in 1..op.i PROVE files'[RestoreOrder[j]] = backup[RestoreOrder[j]]
    OBVIOUS
  <2> DEFINE f == RestoreOrder[op.i]
             g == RestoreOrder[j]
  <2>1. f \in File /\ g \in File
    BY <1>1, <1>7, CopyOrders
  <2>2. files' = [files EXCEPT ![f] = backup[f]]
    BY <1>6 DEF CopyBack
  <2>3. j # op.i => files[g] = backup[g]
    BY <1>1, <1>6 DEF Copied
  <2> HIDE DEF f, g
  <2>4. files'[g] = IF g = f THEN backup[f] ELSE files[g]
    BY <2>1, <2>2 DEF TypeOK
  <2>5. j = op.i => g = f
    BY DEF f, g
  <2>6. files'[g] = backup[g]
    BY <2>3, <2>4, <2>5
  <2> QED
    BY <2>6 DEF g
<1>9. op'.pc = "copy" => \A j \in 1..(op'.i - 1) : files'[RestoreOrder[j]] = backup[RestoreOrder[j]]
  BY <1>1, <1>4, <1>8
<1>10. op'.pc = "reload" => \A f \in Covered(op.of) : files'[f] = backup[f]
  <2> SUFFICES ASSUME op'.pc = "reload", NEW f \in Covered(op.of) PROVE files'[f] = backup[f]
    OBVIOUS
  <2>1. CASE AllFiles(op.of)
    <3>1. op.i >= 3
      <4>1. n = 3
        BY <2>1, CopyOrders
      <4> HIDE DEF n
      <4> QED
        BY <1>1, <1>4, <2>1, <4>1
    <3>2. /\ files'[RestoreOrder[1]] = backup[RestoreOrder[1]]
          /\ files'[RestoreOrder[2]] = backup[RestoreOrder[2]]
          /\ files'[RestoreOrder[3]] = backup[RestoreOrder[3]]
      BY <1>1, <1>8, <3>1
    <3> QED
      BY <2>1, <3>2, CopyOrders DEF Covered, File
  <2>2. CASE ~AllFiles(op.of)
    <3>1. files'[RestoreOrder[1]] = backup[RestoreOrder[1]]
      BY <1>1, <1>8
    <3> QED
      BY <2>2, <3>1, CopyOrders DEF Covered
  <2> QED
    BY <2>1, <2>2
<1> QED
  BY <1>9, <1>10

LEMMA CopiedOnward ==
  ASSUME TypeOK, Located, Copied, Onward
  PROVE  Copied'
<1>2. CASE Killed \/ Reboot
  BY <1>2 DEF Killed, Reboot, NoOp, Copied
<1>1. CASE UNCHANGED files /\ ~(CopyBack \/ CopyFails \/ Put \/ RemoveFile)
  <2> SUFFICES ASSUME op'.pc # "done" PROVE Copied'
    BY DEF Copied
  <2>1. CASE UNCHANGED op
    <3>1. /\ (Changing <=> Changing') /\ RestoreOrder' = RestoreOrder
          /\ Covered(op.of)' = Covered(op.of) /\ manifest'[op.of].backup = manifest[op.of].backup
      BY <2>1, SameOrders
    <3>2. op.pc \in {"mark", "unmark"} =>
            /\ manifest'[op.of].verified = manifest[op.of].verified
            /\ op.pc = "unmark" => manifest'[op.of].phase = manifest[op.of].phase
      BY <2>1, Busy, OldManifests DEF Verify
    <3> QED
      BY <1>1, <2>1, <3>1, <3>2 DEF Copied
  <2>2. CASE op'.pc \in {"rstop", "failed", "stop", "capture"}
    BY <2>2 DEF Copied
  <2>3. CASE op'.pc \notin {"rstop", "failed", "stop", "capture"} /\ ~UNCHANGED op
    <3>1. op.pc # "done" /\ op' # NoOp
      BY <2>3, PcSteps DEF NoOp
    <3>2. op'.of = op.of
      BY <2>3, <3>1, OpSteps DEF NoOp
    <3>3. /\ (Changing <=> Changing') /\ RestoreOrder' = RestoreOrder
          /\ Covered(op.of)' = Covered(op.of) /\ manifest'[op.of].backup = manifest[op.of].backup
      BY <3>1, <3>2, SameOrders
    <3>4. CASE StopUnit
      <4>1. op.pc \in {"stop", "ustop", "rstop"}
        BY <3>4 DEF StopUnit, AfterStop
      <4>2. \/ op.pc = "ustop" /\ op'.pc \in {"ustop", "udisable"}
            \/ op'.pc = "copy" /\ op'.i = 1
        BY <2>3, <3>1, <4>1, PcSteps DEF AfterStop
      <4> QED
        BY <1>1, <3>2, <3>3, <4>2 DEF Copied
    <3>5. CASE op.pc \in {"capture", "enable", "guard", "start", "verify"}
      <4>1. Verify => manifest'[op.of].phase = "complete" /\ manifest'[op.of].verified
        BY Completed
      <4> QED
        BY <1>1, <2>3, <3>1, <3>2, <3>3, <3>5, <4>1, PcSteps DEF Copied
    <3>6. CASE op.pc = "udisable"
      BY <1>1, <2>3, <3>1, <3>2, <3>3, <3>6, PcSteps, Orders DEF Copied
    <3>7. CASE op.pc \in {"reload", "controls", "release", "disable", "restart"}
      BY <1>1, <2>3, <3>1, <3>2, <3>3, <3>7, PcSteps DEF Copied
    <3> QED
      BY <1>1, <2>3, <3>1, <3>4, <3>5, <3>6, <3>7, PcSteps
  <2> QED
    BY <2>1, <2>2, <2>3
<1> QED
  BY <1>1, <1>2, FileActions, CopiedPut, CopiedRemove, CopiedBack

-----------------------------------------------------------------------------
(* The invariant of the machine, whatever fails. *)

LEMMA MInvInit == Init => MInv
  BY TypeInit, NumberedInit, LocatedInit, MarkedInit, CopiedInit, RunningInit DEF MInv

LEMMA MInvStep ==
  ASSUME MInv, [Next]_vars
  PROVE  MInv'
<1>1. TypeOK'
  BY NextType DEF MInv
<1>2. CASE (\E changing \in BOOLEAN : BeginInstall(changing)) \/ BeginUninstall
  BY <1>1, <1>2, NumberedBegin, LocatedBegin, MarkedBegin, CopiedBegin, RunningBegin DEF MInv
<1>3. CASE Onward
  BY <1>1, <1>3, NumberedOnward, LocatedOnward, MarkedOnward, CopiedOnward, RunningOnward DEF MInv
<1> QED
  BY <1>2, <1>3, Steps

LEMMA Machine == Spec => []MInv
<1>1. Init => MInv
  BY MInvInit
<1>2. MInv /\ [Next]_vars => MInv'
  BY MInvStep
<1> QED
  BY <1>1, <1>2, PTL DEF Spec

\* Type correctness: what manage.py, the services and every failure write is of the
\* types that Deployment declares, for any number of installs and uninstalls.
THEOREM TypeCorrect == Spec => []TypeOK
<1>1. MInv => TypeOK
  BY DEF MInv
<1> QED
  BY <1>1, Machine, PTL

\* No file of the program or of a unit is replaced, removed or copied back while any
\* unit runs: not by an install, an uninstall or a rollback, whoever restarts by itself,
\* and whatever has been killed before.
THEOREM NothingReplacedWhileRunning == Spec => NothingReplacedUnderServices
<1> DEFINE A == \A f \in {"program", "unit"} :
                  files'[f] # files[f] => \A u \in Unit : runs[u] = {}
<1>1. MInv /\ [Next]_vars => A
  <2> SUFFICES ASSUME MInv, [Next]_vars PROVE A
    OBVIOUS
  <2>1. CASE (\E changing \in BOOLEAN : BeginInstall(changing)) \/ BeginUninstall
    BY <2>1 DEF BeginInstall, BeginUninstall
  <2>2. CASE Onward
    BY <2>2, InstalledSteps DEF MInv, Running
  <2> QED
    BY <2>1, <2>2, Steps
<1>2. MInv /\ [Next]_vars => [A]_vars
  BY <1>1
<1> HIDE DEF A
<1>3. Spec => [][A]_vars
  BY <1>2, Machine, PTL DEF Spec
<1> QED
  BY <1>3 DEF A, NothingReplacedUnderServices

-----------------------------------------------------------------------------
(* What is trustworthy, if copying back without a mark is not stopped. *)

\* A verification stays, and the release that gets one is of the last install.
LEMMA VerifiedSteps ==
  ASSUME MInv, Onward, NEW k \in Install
  PROVE  /\ manifest[k].verified => manifest'[k].verified
         /\ manifest'[k].verified # manifest[k].verified =>
               \A j \in Install : j > k => manifest[j].phase = "none"
<1>1. manifest'[k].verified # manifest[k].verified => k = op.of /\ op.kind = "install"
  BY OldManifests DEF MInv, Verify, Located, InstallSteps
<1> QED
  BY <1>1, OldManifests DEF MInv, Numbered

\* So the release of a backup is what it was: nothing, or a verified one.
LEMMA BackupWhole ==
  ASSUME MInv, Onward, NEW k \in Install, manifest[k].phase # "none", Whole(manifest[k].backup)
  PROVE  Whole(manifest[k].backup)'
<1> DEFINE r == manifest[k].backup["unit"]
<1>1. manifest'[k].backup = manifest[k].backup
  BY OldManifests DEF MInv
<1>2. CASE r = 0
  BY <1>1, <1>2 DEF Whole
<1>3. CASE r # 0
  <2>1. r \in Install /\ r < k
    BY <1>3 DEF MInv, TypeOK, Manifest, File, Release, Numbered
  <2>2. manifest[r].verified => manifest'[r].verified
    BY <2>1, VerifiedSteps
  <2> QED
    BY <1>1, <1>3, <2>2 DEF Whole
<1> QED
  BY <1>2, <1>3

\* What an uninstall has backed up was verified when it began.
LEMMA BackupsStay ==
  ASSUME MInv, [Next]_vars, BackupsVerified'
  PROVE  BackupsVerified
<1> SUFFICES ASSUME NEW k \in Install, manifest[k].kind = "uninstall"
             PROVE  \E r \in Install : /\ manifest[r].verified
                                       /\ \A f \in {"program", "unit"} : manifest[k].backup[f] = r
  BY DEF BackupsVerified
<1>1. manifest[k].phase # "none"
  BY DEF MInv, Numbered, NoManifest
<1>2. CASE (\E changing \in BOOLEAN : BeginInstall(changing)) \/ BeginUninstall
  <2>1. PICK l \in Install, kind \in {"upgrade", "same", "uninstall"},
             phase \in {"prepared", "uninstalling"} : NewManifest(l, kind, phase)
    BY <1>2 DEF BeginInstall, BeginUninstall
  <2>2. /\ manifest[l].phase = "none" /\ ~manifest'[l].verified
        /\ \A j \in Install : j # l => manifest'[j] = manifest[j]
    BY <2>1, NewManifestFields DEF MInv
  <2>3. manifest'[k] = manifest[k]
    BY <1>1, <2>2
  <2>4. PICK r \in Install : /\ manifest'[r].verified
                             /\ \A f \in {"program", "unit"} : manifest'[k].backup[f] = r
    BY <2>3 DEF BackupsVerified
  <2> QED
    BY <2>2, <2>3, <2>4
<1>3. CASE Onward
  <2>1. manifest'[k].kind = manifest[k].kind /\ manifest'[k].backup = manifest[k].backup
    BY <1>3, OldManifests DEF MInv
  <2>2. PICK r \in Install : /\ manifest'[r].verified
                             /\ \A f \in {"program", "unit"} : manifest'[k].backup[f] = r
    BY <2>1 DEF BackupsVerified
  <2>3. k > r
    BY <2>1, <2>2, InstallType DEF MInv, Numbered, File
  <2>4. manifest'[r].verified = manifest[r].verified
    BY <1>1, <1>3, <2>3, VerifiedSteps
  <2> QED
    BY <2>1, <2>2, <2>4
<1> QED
  BY <1>2, <1>3, Steps

LEMMA TrustworthyInit == Init => Trustworthy
<1> SUFFICES ASSUME Init PROVE Trustworthy
  OBVIOUS
<1>1. \A k \in Install : ~AllFiles(k)
  BY DEF Init, AllFiles, NoManifest
<1>2. Verified /\ Dismantled
  BY DEF Init, Verified, Dismantled, File
<1>3. op.pc = "done" /\ runs["receiver"] = {} /\ runs["agent"] = {}
  BY DEF Init, NoOp, Unit, Service
<1> QED
  BY <1>1, <1>2, <1>3 DEF Trustworthy

LEMMA TrustworthyBegin ==
  ASSUME MInv, Trustworthy, BackupsVerified',
         (\E changing \in BOOLEAN : BeginInstall(changing)) \/ BeginUninstall
  PROVE  Trustworthy'
<1>1. PICK k \in Install, kind \in {"upgrade", "same", "uninstall"},
           phase \in {"prepared", "uninstalling"} :
        /\ NewManifest(k, kind, phase) /\ UNCHANGED <<files, mark, services>> /\ op = NoOp
        /\ kind = "upgrade" => Preflight
        /\ op'.pc \in {"mark", "put", "ustop"} /\ op'.i = 1
  BY DEF BeginInstall, BeginUninstall
<1>2. /\ manifest[k].phase = "none" /\ manifest'[k].kind = kind /\ manifest'[k].backup = files
      /\ \A j \in Install : j # k => manifest'[j] = manifest[j]
  BY <1>1, NewManifestFields DEF MInv
<1>3. \A r \in Install : manifest[r].verified => manifest'[r].verified
  BY <1>2 DEF MInv, Numbered, NoManifest
<1>4. \A f \in File : files[f] # 0 => files[f] \in Install
  BY DEF MInv, TypeOK, Release
<1>5. Verified => Verified'
  BY <1>1, <1>3, <1>4 DEF Verified, Whole, File
<1>6. ASSUME NEW j \in Install, AllFiles(j)' PROVE Whole(manifest[j].backup)'
  <2>1. CASE j # k
    <3>1. manifest'[j] = manifest[j] /\ Whole(manifest[j].backup)
      BY <1>2, <1>6, <2>1 DEF AllFiles, Trustworthy
    <3>2. manifest[j].backup["unit"] # 0 => manifest[j].backup["unit"] \in Install
      BY DEF MInv, TypeOK, Manifest, File, Release
    <3> QED
      BY <1>3, <3>1, <3>2 DEF Whole
  <2>2. CASE j = k /\ kind = "upgrade"
    <3>1. Verified
      BY <1>1, <2>2 DEF Trustworthy, Preflight, NoOp
    <3>2. files["unit"] = 0 => \A f \in File : files[f] = 0
      BY <1>1, <2>2 DEF Preflight, Runnable, Installed
    <3> QED
      BY <1>2, <1>3, <1>4, <2>2, <3>1, <3>2 DEF Verified, Whole, File
  <2>3. CASE j = k /\ kind = "uninstall"
    <3>1. PICK r \in Install : /\ manifest'[r].verified
                               /\ \A f \in {"program", "unit"} : manifest'[k].backup[f] = r
      BY <1>2, <2>3 DEF BackupsVerified
    <3> QED
      BY <2>3, <3>1, InstallType DEF Whole
  <2> QED
    BY <1>2, <1>6, <2>1, <2>2, <2>3 DEF AllFiles
<1>7. mark'.of = 0 => Verified' /\ Dismantled'
  BY <1>1, <1>5 DEF Trustworthy, NoOp, Dismantled, services
<1>8. (deleting' # {} => Verified') /\ (Mixed' => runs'["receiver"] = {} /\ runs'["agent"] = {})
  BY <1>1, <1>5 DEF Trustworthy, Mixed, services
<1> QED
  BY <1>1, <1>6, <1>7, <1>8 DEF Trustworthy

\* Only two steps enable a unit, none that is not there.
LEMMA EnabledSteps ==
  ASSUME Onward
  PROVE  \/ enabled' \subseteq enabled
         \/ Enable
         \/ op.pc = "restart" /\ files["unit"] # 0 /\ UNCHANGED <<files, mark>>
<1>1. CASE \E k \in Install : BeginRollback(k)
  BY <1>1 DEF BeginRollback, services
<1>2. CASE StopUnit \/ InstallStep
  BY <1>2 DEF StopUnit, InstallStep, WriteMark, Capture, Put, ValidateGuard, StartUnit,
              Verify, EndInstall, Rejected, services
<1>3. CASE UninstallStep
  BY <1>3 DEF UninstallStep, DisableForGood, RemoveFile, EndUninstall, services
<1>4. CASE RestoreStep \/ RestartFails
  BY <1>4 DEF RestoreStep, CopyBack, Reload, RestoreControls, ReleaseMark, DisableUnit, EndRestore,
              RestartUnit, StartRefused, RestartFails, Reenabled, WasEnabled, Prior, services
<1>5. CASE Services
  BY <1>5 DEF Services, UnitRestarts, StartsDeleting, EndsDeleting, GuardFires, GuardEnds,
              GuardPauses, GuardResumes
<1>6. CASE Failure /\ ~RestartFails
  BY <1>6 DEF Failure, InstallFails, ReportFails, UninstallFails, CopyFails, DisableFails,
              RestoreStops, Killed, Reboot, services
<1>7. CASE UNCHANGED vars
  BY <1>7 DEF vars
<1> QED
  BY <1>1, <1>2, <1>3, <1>4, <1>5, <1>6, <1>7 DEF Onward, ManagerStep

\* Where files are removed or copied back, the backup has an install-state.json, or
\* there is none of anything.
LEMMA StateBackedUp ==
  ASSUME MInv, Trustworthy, op.pc # "done", ~Changing
  PROVE  /\ op.of \in Install /\ manifest[op.of].backup["state"] # 0
         /\ AllFiles(op.of) => manifest[op.of].backup["unit"] # 0
<1>1. op.of \in Install /\ manifest[op.of].phase # "none"
  BY Busy DEF MInv
<1>2. manifest[op.of].backup["state"] # 0
  BY <1>1 DEF MInv, Numbered, Changing
<1> QED
  BY <1>1, <1>2 DEF Trustworthy, Whole, File

\* What a loop of uninstall() has disabled stays disabled.
LEMMA TrustworthyDisabled ==
  ASSUME MInv, MInv', Trustworthy, Onward
  PROVE  /\ op'.pc = "udisable" => \A j \in 1..(op'.i - 1) : StartOrder[j] \notin enabled'
         /\ op'.pc = "remove" => enabled' = {}
<1>1. op.pc = "udisable" => files["unit"] # 0 /\ op.i \in 1..3 /\ ~Enable
  <2> SUFFICES ASSUME op.pc = "udisable" PROVE files["unit"] # 0 /\ op.i \in 1..3 /\ ~Enable
    OBVIOUS
  <2>1. op.kind = "uninstall" /\ manifest[op.of].kind = "uninstall" /\ op.i <= 3
    BY DEF MInv, Located, UninstallSteps
  <2>2. op.i \in 1..3
    BY <2>1 DEF MInv, TypeOK, Operation
  <2>3. manifest[op.of].backup["unit"] # 0
    BY <2>1, StateBackedUp DEF Changing, AllFiles
  <2> QED
    BY <2>2, <2>3 DEF MInv, Copied, Enable
<1>2. \/ op'.pc \notin {"udisable", "remove"}
      \/ UNCHANGED op
      \/ op.pc = "udisable"
      \/ op.pc = "ustop" /\ op'.pc = "udisable" /\ op'.i = 1
      \/ RemoveFile
  BY PcSteps DEF MInv, NoOp, AfterStop
<1>3. CASE op.pc = "udisable" /\ DisableForGood
  <2>1. enabled' = enabled \ {StartOrder[op.i]}
    BY <1>1, <1>3 DEF DisableForGood
  <2>2. \A j \in 1..op.i : StartOrder[j] \notin enabled'
    BY <1>1, <1>3, <2>1 DEF Trustworthy
  <2>3. \/ op'.pc = "udisable" /\ op'.i = op.i + 1
        \/ op'.pc = "remove" /\ op.i = 3
    BY <1>1, <1>3, LoopFields DEF DisableForGood, MInv
  <2>4. op.i = 3 => enabled' = {}
    BY <1>3, <2>1, <2>2, Orders DEF MInv, TypeOK, Service
  <2> QED
    BY <1>1, <1>3, <2>2, <2>3, <2>4
<1>4. CASE op.pc = "udisable" /\ ~DisableForGood
  <2>1. UNCHANGED op \/ op'.pc \notin {"udisable", "remove"}
    BY <1>4, PcSteps DEF MInv, NoOp, AfterStop
  <2>2. enabled' \subseteq enabled
    BY <1>1, <1>4, EnabledSteps
  <2> QED
    BY <1>4, <2>1, <2>2 DEF Trustworthy
<1>5. CASE RemoveFile
  BY <1>5, PcSteps DEF RemoveFile, Trustworthy, services, MInv, NoOp
<1>6. CASE UNCHANGED op /\ op.pc = "remove"
  <2>1. enabled' \subseteq enabled
    BY <1>6, EnabledSteps DEF Enable
  <2> QED
    BY <1>6, <2>1 DEF Trustworthy
<1> QED
  BY <1>2, <1>3, <1>4, <1>5, <1>6

\* Without UnmarkedFailures, what is copied back without a mark is all copied back.
LEMMA TrustworthyCopies ==
  ASSUME UnmarkedFailures = {}, MInv, MInv', Trustworthy, Onward
  PROVE  /\ op'.pc \in {"copy", "reload"} /\ mark'.of = 0 => ~op'.errors
         /\ op.pc = "copy" /\ mark.of = 0 =>
              /\ UNCHANGED mark /\ op'.of = op.of
              /\ op'.pc = "copy" \/ (op'.pc = "reload" /\ ~op'.errors)
<1>1. op.pc = "copy" /\ mark.of = 0 => ~CopyFails /\ ~Killed /\ ~Reboot
  BY DEF CopyFails, Killed, Reboot, MayStop
<1>2. op.pc = "copy" => UNCHANGED op \/ Killed \/ Reboot \/ CopyFails \/ CopyBack
  BY PcSteps DEF MInv, EndInstall, EndUninstall, EndRestore, NoOp, InstallSteps, UninstallSteps
<1>3. CopyBack => /\ UNCHANGED mark /\ op'.errors = op.errors /\ op'.of = op.of
                  /\ op'.pc \in {"copy", "reload"}
  BY AfterFields DEF CopyBack, MInv
<1>4. op.pc = "copy" /\ op' # NoOp => UNCHANGED mark
  BY MarkSteps DEF MInv, WriteMark, EndInstall, ReportFails
<1>5. op.pc = "copy" => op # NoOp
  BY DEF NoOp
<1>6. op.pc = "copy" /\ mark.of = 0 =>
        /\ UNCHANGED mark /\ op'.of = op.of
        /\ op'.pc = "copy" \/ (op'.pc = "reload" /\ ~op'.errors)
  BY <1>1, <1>2, <1>3, <1>4, <1>5 DEF Trustworthy
<1>7. op'.pc \in {"copy", "reload"} /\ mark'.of = 0 => ~op'.errors
  <2> SUFFICES ASSUME op'.pc \in {"copy", "reload"}, mark'.of = 0 PROVE ~op'.errors
    OBVIOUS
  <2>1. \/ UNCHANGED op
        \/ op.pc = "rstop" /\ StopUnit
        \/ op.pc = "copy" /\ (CopyBack \/ CopyFails)
    BY PcSteps DEF MInv, NoOp, AfterStop
  <2>2. CASE UNCHANGED op
    <3>1. mark.of = 0
      BY <2>2, MarkSteps DEF MInv, WriteMark, EndInstall, ReportFails, NoOp
    <3> QED
      BY <2>2, <3>1 DEF Trustworthy
  <2>3. CASE op.pc = "rstop" /\ StopUnit
    BY <2>3, AfterFields DEF StopUnit, MInv, Located
  <2>4. CASE op.pc = "copy" /\ (CopyBack \/ CopyFails)
    <3>1. UNCHANGED mark
      BY <2>4 DEF CopyBack, CopyFails
    <3> QED
      BY <1>1, <1>3, <2>4, <3>1 DEF Trustworthy
  <2> QED
    BY <2>1, <2>2, <2>3, <2>4
<1> QED
  BY <1>6, <1>7

\* What is installed stays verified.
LEMMA InstalledVerified ==
  ASSUME MInv, Onward, files["unit"] # 0
  PROVE  /\ files["unit"] \in Install
         /\ manifest[files["unit"]].verified => manifest'[files["unit"]].verified
<1>1. files["unit"] \in Install
  BY DEF MInv, TypeOK, Release, File
<1> QED
  BY <1>1, VerifiedSteps

\* Without a mark only uninstall() and a copy of a whole payload touch more than the
\* state file.
LEMMA UnmarkedSteps ==
  ASSUME MInv, Onward, mark.of = 0, ~RemoveFile, op.pc = "copy" => ~AllFiles(op.of)
  PROVE  files'["program"] = files["program"] /\ files'["unit"] = files["unit"]
<1> SUFFICES ASSUME NEW f \in {"program", "unit"}, files'[f] # files[f] PROVE FALSE
  OBVIOUS
<1>1. op.pc # "remove"
  BY FileActions DEF Put, CopyBack, CopyStops, CutShort
<1>2. f \in Covered(op.of) => AllFiles(op.of)
  BY DEF Covered
<1>3. op.pc = "put" /\ f \in Covered(op.of)
  BY <1>1, <1>2, FileSteps DEF MInv, File
<1>4. Changing /\ op.of # 0
  BY <1>2, <1>3 DEF MInv, Located, AllFiles, Changing, InstallSteps
<1> QED
  BY <1>3, <1>4 DEF MInv, Marked, InstallSteps

LEMMA TrustworthyUnmarked ==
  ASSUME UnmarkedFailures = {}, MInv, MInv', Trustworthy, Onward,
         mark'.of = 0, op'.pc = "copy" => ~AllFiles(op.of)'
  PROVE  Verified' /\ Dismantled'
<1>1. op.pc # "done" => op.of \in Install /\ op.of # 0 /\ manifest[op.of].phase # "none"
  BY Busy, InstallType DEF MInv
<1>2. CASE mark.of # 0
  <2>1. Changing /\ (op.pc = "release" \/ EndInstall \/ ReportFails)
    BY <1>1, <1>2, MarkSteps DEF MInv, WriteMark
  <2>2. \A f \in File : files'[f] = files[f]
    <3>1. op.pc \in {"release", "unmark"}
      BY <2>1 DEF EndInstall, ReportFails
    <3> QED
      BY <3>1, FileSteps DEF MInv
  <2>3. \A k \in Install : manifest[k].verified => manifest'[k].verified
    BY VerifiedSteps
  <2>4. CASE EndInstall \/ ReportFails
    <3>1. \A f \in File : files[f] = op.of
      BY <2>1, <2>4 DEF EndInstall, ReportFails, MInv, Copied
    <3>2. manifest[op.of].verified /\ op.of # 0 /\ op.of \in Install
      BY <1>1, <2>4 DEF EndInstall, ReportFails, MInv, Copied
    <3> QED
      BY <2>2, <2>3, <3>1, <3>2 DEF Verified, Whole, Dismantled, File
  <2>5. CASE op.pc = "release"
    <3>1. \A f \in File : files[f] = manifest[op.of].backup[f]
      BY <2>1, <2>5 DEF MInv, Copied, Covered, AllFiles, Changing
    <3>2. Whole(manifest[op.of].backup)
      BY <1>1, <2>1, <2>5 DEF Trustworthy, AllFiles, Changing
    <3>3. files["unit"] # 0 => files["unit"] \in Install
      BY DEF MInv, TypeOK, Release, File
    <3> QED
      BY <2>2, <2>3, <3>1, <3>2, <3>3 DEF Verified, Whole, Dismantled, File
  <2> QED
    BY <2>1, <2>4, <2>5
<1>3. CASE mark.of = 0 /\ op.pc = "copy" /\ AllFiles(op.of)
  <2>1. op'.of = op.of /\ (op'.pc = "copy" \/ (op'.pc = "reload" /\ ~op'.errors))
    BY <1>3, TrustworthyCopies
  <2>2. AllFiles(op.of)' /\ Covered(op.of)' = File
    BY <1>1, <1>3, <2>1, OldManifests DEF MInv, AllFiles, Covered
  <2>3. op'.pc = "reload" /\ ~op'.errors
    BY <2>1, <2>2
  <2>4. \A f \in File : files'[f] = manifest'[op.of].backup[f]
    BY <2>1, <2>2, <2>3 DEF MInv, Copied
  <2>5. PICK k \in Install : k = op.of
    BY <1>1, <1>3
  <2>6. Whole(manifest[k].backup)'
    BY <1>1, <1>3, <2>5, BackupWhole DEF Trustworthy
  <2> QED
    BY <2>1, <2>4, <2>5, <2>6 DEF Verified, Whole, Dismantled, File
<1>4. CASE mark.of = 0 /\ ~(op.pc = "copy" /\ AllFiles(op.of)) /\ ~RemoveFile
  <2>1. Verified /\ Dismantled
    BY <1>4 DEF Trustworthy
  <2>2. files'["program"] = files["program"] /\ files'["unit"] = files["unit"]
    BY <1>4, UnmarkedSteps
  <2>3. Verified'
    BY <1>4, <2>1, <2>2, InstalledVerified DEF Verified, Whole
  <2>4. ASSUME files["unit"] = 0, files["program"] # 0 PROVE enabled' = {} /\ files'["state"] # 0
    <3>1. enabled = {} /\ files["state"] # 0
      BY <2>1, <2>4 DEF Dismantled
    <3>2. ~Enable
      <4>1. Enable => op.pc = "enable" /\ op.kind = "install"
        BY DEF Enable, MInv, Located, InstallSteps
      <4> QED
        BY <1>1, <1>4, <2>4, <4>1 DEF MInv, Marked, InstallSteps
    <3>3. enabled' = {}
      BY <2>4, <3>1, <3>2, EnabledSteps
    <3>4. op.pc = "copy" => manifest[op.of].backup["state"] # 0
      BY <1>4, StateBackedUp DEF AllFiles, Changing
    <3>5. op.pc = "remove" => files'["state"] = files["state"]
      BY <1>4, FileActions DEF Put, CopyBack, CopyStops, CutShort
    <3>7. op.pc = "copy" => ~CopyFails /\ ~Killed /\ ~Reboot
      BY <1>4 DEF CopyFails, Killed, Reboot, MayStop
    <3>6. files'["state"] # 0
      BY <1>1, <3>1, <3>4, <3>5, <3>7, FileSteps DEF MInv, File
    <3> QED
      BY <3>3, <3>6
  <2> QED
    BY <2>2, <2>3, <2>4 DEF Dismantled
<1>5. CASE RemoveFile
  <2>1. op.pc = "remove" /\ enabled' = {} /\ op.i \in 1..3
    BY <1>5 DEF RemoveFile, Trustworthy, services, MInv, Located, TypeOK, Operation
  <2>2. \/ op'.pc = "remove" /\ op'.i = op.i + 1
        \/ op'.pc = "uend"
    BY <1>5, <2>1, LoopFields DEF RemoveFile, MInv
  <2>3. manifest'[op.of].backup["state"] # 0 /\ op'.of = op.of
    <3>1. ~Changing
      BY <2>1 DEF MInv, Located, Changing, UninstallSteps
    <3>2. UNCHANGED manifest /\ op'.of = op.of
      BY <1>5, AfterFields DEF RemoveFile, MInv
    <3> QED
      BY <2>1, <3>1, <3>2, StateBackedUp
  <2>4. CASE op'.pc = "remove" /\ op'.i = op.i + 1
    <3>1. \A j \in 1..3 : files'[Payload[j]] = IF j < op'.i THEN 0 ELSE manifest'[op'.of].backup[Payload[j]]
      BY <2>4 DEF MInv, Copied
    <3>2. files'["unit"] = 0
      BY <2>1, <2>4, <3>1, Orders
    <3>3. files'["program"] # 0 => op'.i = 2
      BY <2>1, <2>4, <3>1, Orders
    <3>4. op'.i = 2 => files'["state"] # 0
      BY <2>3, <3>1, Orders
    <3> QED
      BY <2>1, <3>2, <3>3, <3>4 DEF Verified, Dismantled
  <2>5. CASE op'.pc = "uend"
    BY <2>5 DEF MInv, Copied, Verified, Dismantled, File
  <2> QED
    BY <2>2, <2>4, <2>5
<1> QED
  BY <1>2, <1>3, <1>4, <1>5

LEMMA TrustworthyDeleting ==
  ASSUME MInv, MInv', Trustworthy, Onward, deleting' # {}
  PROVE  Verified'
<1>1. PICK u \in deleting' : TRUE
  OBVIOUS
<1>2. u \in Unit /\ runs'[u] # {}
  BY <1>1, DeletingRuns DEF MInv, TypeOK, Unit, Service
<1>3. CASE deleting # {}
  <2>1. ~Quiet
    BY <1>3 DEF MInv, Running, TypeOK, Unit, Service
  <2>2. files'["program"] = files["program"] /\ files'["unit"] = files["unit"]
    BY <2>1, InstalledSteps DEF MInv
  <2>3. Verified
    BY <1>3 DEF Trustworthy
  <2> QED
    BY <1>3, <2>2, <2>3, InstalledVerified DEF Verified, Whole
<1>4. CASE deleting = {}
  <2>1. mark.of = 0 /\ UNCHANGED <<files, manifest, mark, op, runs>>
    BY <1>4, DeletingSteps DEF MInv
  <2>2. op.pc # "copy"
    BY <1>2, <2>1 DEF MInv, Running, Quiet
  <2> QED
    BY <2>1, <2>2 DEF Trustworthy, Verified, Whole
<1> QED
  BY <1>3, <1>4

LEMMA TrustworthyRunning ==
  ASSUME UnmarkedFailures = {}, MInv, MInv', Trustworthy, Onward, Mixed',
         NEW u \in {"receiver", "agent"}
  PROVE  runs'[u] = {}
<1> SUFFICES ASSUME runs'[u] # {} PROVE FALSE
  OBVIOUS
<1>1. u \in Unit /\ Runnable' /\ files'["program"] # files'["unit"] /\ files'["unit"] # 0
  BY DEF MInv, Running, Unit, Service, Mixed, Runnable, Installed
<1>2. mark'.of # 0
  <2> SUFFICES ASSUME mark'.of = 0 PROVE FALSE
    OBVIOUS
  <2>1. op'.pc # "copy"
    BY <1>1 DEF MInv, Running, Quiet
  <2>2. Verified'
    BY <2>1, TrustworthyUnmarked
  <2> QED
    BY <1>1, <2>2 DEF Verified, Whole
<1>3. CASE runs'[u] = runs[u]
  <2>1. ~Quiet
    BY <1>1, <1>3 DEF MInv, Running
  <2>2. Mixed
    BY <1>1, <2>1, InstalledSteps DEF MInv, Mixed
  <2> QED
    BY <1>3, <2>2 DEF Trustworthy
<1>4. CASE runs'[u] # runs[u]
  <2>1. /\ Runnable /\ UNCHANGED <<files, manifest>> /\ mark'.alive
        /\ \/ op' = NoOp
           \/ op.pc \in {"start", "restart"}
           \/ UNCHANGED op /\ runs[u] # {}
           \/ UNCHANGED op /\ u = "receiver" /\ "guard" \in deleting
    BY <1>1, <1>2, <1>4, RunSteps DEF MInv
  <2>2. Mixed /\ runs[u] = {}
    BY <1>1, <2>1 DEF Mixed, Trustworthy
  <2>3. op'.kind = "install" /\ op'.of = mark'.of
    BY <2>1 DEF MInv, Marked
  <2>4. op' # NoOp
    BY <2>3 DEF NoOp
  <2>5. "guard" \notin deleting
    BY <1>1, <2>1, <2>2 DEF Trustworthy, Verified, Whole, Mixed
  <2>6. op.pc \in {"start", "restart"} /\ op'.of = op.of
    BY <2>1, <2>2, <2>3, <2>4, <2>5, OpSteps DEF MInv, NoOp
  <2>7. Changing /\ op.of \in Install
    <3>1. op.of \in Install /\ manifest'[op.of].kind = manifest[op.of].kind
      BY <2>6, Busy, OldManifests DEF MInv
    <3>2. manifest'[op.of].kind = "upgrade"
      BY <1>2, <2>3, <2>6 DEF MInv, Marked
    <3> QED
      BY <3>1, <3>2 DEF Changing
  <2>8. op.pc = "restart"
    BY <2>2, <2>6, <2>7 DEF MInv, Copied, Mixed, File
  <2>9. \A f \in File : files[f] = manifest[op.of].backup[f]
    BY <2>7, <2>8 DEF MInv, Copied, Covered, AllFiles, Changing
  <2>10. Whole(manifest[op.of].backup)
    BY <2>7 DEF Trustworthy, AllFiles, Changing
  <2> QED
    BY <2>2, <2>9, <2>10 DEF Whole, Mixed, File
<1> QED
  BY <1>3, <1>4

LEMMA TrustworthyOnward ==
  ASSUME UnmarkedFailures = {}, MInv, MInv', Trustworthy, Onward
  PROVE  Trustworthy'
<1>1. ASSUME NEW k \in Install, AllFiles(k)' PROVE Whole(manifest[k].backup)'
  <2>1. AllFiles(k) /\ manifest[k].phase # "none"
    BY <1>1, OldManifests DEF AllFiles, MInv, Numbered, NoManifest
  <2> QED
    BY <2>1, BackupWhole DEF Trustworthy
<1>2. mark'.of = 0 /\ (op'.pc = "copy" => ~AllFiles(op.of)') => Verified' /\ Dismantled'
  BY TrustworthyUnmarked
<1>3. deleting' # {} => Verified'
  BY TrustworthyDeleting
<1>4. Mixed' => runs'["receiver"] = {} /\ runs'["agent"] = {}
  BY TrustworthyRunning
<1>5. op'.pc \in {"copy", "reload"} /\ mark'.of = 0 => ~op'.errors
  BY TrustworthyCopies
<1>6. /\ op'.pc = "udisable" => \A j \in 1..(op'.i - 1) : StartOrder[j] \notin enabled'
      /\ op'.pc = "remove" => enabled' = {}
  BY TrustworthyDisabled
<1> QED
  BY <1>1, <1>2, <1>3, <1>4, <1>5, <1>6 DEF Trustworthy

LEMMA Trusted ==
  ASSUME UnmarkedFailures = {}
  PROVE  Spec => []DInv
<1>1. Init => DInv
  BY MInvInit, TrustworthyInit DEF DInv
<1>2. ASSUME DInv, [Next]_vars PROVE DInv'
  <2>1. MInv /\ MInv'
    BY <1>2, MInvStep DEF DInv
  <2>2. ASSUME BackupsVerified' PROVE Trustworthy'
    <3>1. Trustworthy
      BY <1>2, <2>1, <2>2, BackupsStay DEF DInv
    <3>2. CASE (\E changing \in BOOLEAN : BeginInstall(changing)) \/ BeginUninstall
      BY <2>1, <2>2, <3>1, <3>2, TrustworthyBegin
    <3>3. CASE Onward
      BY <2>1, <3>1, <3>3, TrustworthyOnward
    <3> QED
      BY <1>2, <3>2, <3>3, Steps
  <2> QED
    BY <2>1, <2>2 DEF DInv
<1>3. DInv /\ [Next]_vars => DInv'
  BY <1>2
<1> QED
  BY <1>1, <1>3, PTL DEF Spec

\* Neither the receiver nor the agent ever runs on files of two releases: not after any
\* kill or reboot of an install, an uninstall or a rollback, however often, if copying
\* back without a mark is not stopped.
THEOREM OneRelease ==
  ASSUME UnmarkedFailures = {}
  PROVE  Spec => []NoMixedRuntime
<1>1. ASSUME DInv PROVE NoMixedRuntime
  <2> SUFFICES ASSUME BackupsVerified, NEW u \in {"receiver", "agent"}
               PROVE  Cardinality(runs[u]) <= 1
    BY DEF NoMixedRuntime
  <2>1. runs[u] = {} \/ (runs[u] = Installed /\ ~Mixed)
    BY <1>1 DEF DInv, MInv, Running, Trustworthy, Unit, Service
  <2>2. runs[u] = {} \/ runs[u] = {files["unit"]}
    BY <2>1 DEF Installed, Mixed
  <2> QED
    BY <2>2, FS_EmptySet, FS_Singleton
<1> QED
  BY <1>1, Trusted, PTL

\* Evidence is only ever deleted by a release that has passed its verification, the one
\* that any rollback finds again or brings back.
THEOREM VerifiedDeletes ==
  ASSUME UnmarkedFailures = {}
  PROVE  Spec => []OnlyVerifiedDelete
<1>1. ASSUME DInv PROVE OnlyVerifiedDelete
  <2> SUFFICES ASSUME BackupsVerified, NEW u \in deleting, NEW r \in runs[u]
               PROVE  manifest[r].verified
    BY DEF OnlyVerifiedDelete
  <2>1. runs[u] = Installed /\ Runnable
    BY <1>1 DEF DInv, MInv, TypeOK, Running, Unit, Service
  <2>2. Verified
    BY <1>1 DEF DInv, Trustworthy
  <2> QED
    BY <2>1, <2>2 DEF Verified, Whole, Installed, Runnable
<1> QED
  BY <1>1, Trusted, PTL

\* Whatever is killed, files of two releases come with a mark that leads to the backup
\* of one of them, or are the rest of an uninstall that has stopped and disabled all.
THEOREM Recoverable ==
  ASSUME UnmarkedFailures = {}
  PROVE  Spec => []MixedIsRecoverable
<1>1. ASSUME DInv PROVE MixedIsRecoverable
  <2> SUFFICES ASSUME BackupsVerified, op = NoOp, Mixed PROVE MixedIsRecoverable
    BY DEF MixedIsRecoverable
  <2>1. Trustworthy /\ MInv
    BY <1>1 DEF DInv
  <2>2. CASE mark.of # 0
    <3>1. mark.of \in Install /\ manifest[mark.of].kind = "upgrade"
      BY <2>1, <2>2 DEF MInv, TypeOK, Release, Marked
    <3>2. manifest[mark.of].phase # "none"
      BY <2>1, <3>1 DEF MInv, Numbered, NoManifest
    <3>3. manifest[mark.of].backup["program"] = manifest[mark.of].backup["unit"]
      BY <2>1, <3>1 DEF Trustworthy, AllFiles, Whole, File
    <3> QED
      BY <2>2, <3>1, <3>2, <3>3 DEF MixedIsRecoverable, Eligible
  <2>3. CASE mark.of = 0
    <3>1. Verified /\ Dismantled
      BY <2>1, <2>3 DEF Trustworthy, NoOp
    <3>2. files["unit"] = 0 /\ files["program"] # 0
      BY <3>1 DEF Verified, Whole, Mixed
    <3>3. Active = {}
      BY <2>1, <3>2 DEF Active, MInv, Running, Runnable, Installed, Unit
    <3> QED
      BY <3>1, <3>2, <3>3 DEF MixedIsRecoverable, Dismantled, Runnable, Installed
  <2> QED
    BY <2>2, <2>3
<1> QED
  BY <1>1, Trusted, PTL

-----------------------------------------------------------------------------
(* Restarting. *)

\* Between two starts of a restore nothing of the machine moves but crashes and the
\* retention passes of what has been started.
LEMMA RestartingServices ==
  ASSUME MInv, Restarting, Services \/ UNCHANGED vars, op.pc \in {"release", "disable", "restart"}
  PROVE  /\ UNCHANGED <<files, manifest, mark, op, enabled, paused>>
         /\ \A u \in Unit : runs'[u] = {} <=> runs[u] = {}
<1>1. op.pc \in {"disable", "restart"} => op.i \in 1..3
  BY DEF MInv, Located, TypeOK, Operation
<1>2. runs["guard"] = {} /\ runs["timer"] = {}
  <2>1. CASE op.pc = "release"
    BY <2>1 DEF MInv, Running, Quiet, Unit, Service
  <2>2. CASE op.pc \in {"disable", "restart"}
    BY <1>1, <2>2, Orders DEF Restarting
  <2> QED
    BY <2>1, <2>2
<1>3. "guard" \notin deleting
  BY <1>2 DEF MInv, Running
<1>4. \A u \in {"receiver", "agent"} : runs[u] # {} => MayStart(u, mark)
  BY DEF Restarting, MInv, Running, Quiet, Unit, Service
<1>5. ASSUME NEW u \in {"receiver", "agent"}, UnitRestarts(u)
      PROVE  /\ UNCHANGED <<files, manifest, mark, op, enabled, paused>>
             /\ \A v \in Unit : runs'[v] = {} <=> runs[v] = {}
  <2>1. runs[u] # {} /\ runs' = [runs EXCEPT ![u] = Installed] /\ Installed # {}
    BY <1>4, <1>5 DEF UnitRestarts, Installed
  <2> QED
    BY <1>5, <2>1 DEF UnitRestarts, MInv, TypeOK
<1>6. ASSUME NEW u \in {"agent", "guard"}, StartsDeleting(u) \/ EndsDeleting(u)
      PROVE  UNCHANGED <<files, manifest, mark, op, enabled, paused, runs>>
  BY <1>6 DEF StartsDeleting, EndsDeleting
<1>7. ~(GuardFires \/ GuardEnds \/ GuardPauses \/ GuardResumes)
  BY <1>2, <1>3 DEF GuardFires, GuardEnds, GuardPauses, GuardResumes
<1>8. CASE UNCHANGED vars
  BY <1>8 DEF vars
<1> QED
  BY <1>5, <1>6, <1>7, <1>8 DEF Services

\* What RestartUnit, StartRefused and RestartFails do to the unit at hand.
LEMMA RestartingUnit ==
  ASSUME MInv, Restarting, op.pc = "restart", RestartUnit \/ StartRefused \/ RestartFails
  PROVE  LET u == StartOrder[op.i] IN
         /\ UNCHANGED <<files, manifest, mark, paused>>
         /\ \A v \in Unit : v # u => runs'[v] = runs[v]
         /\ runs'[u] # {} => MayStart(u, mark)
         /\ \A v \in Service : v # u => (v \in enabled' <=> v \in enabled)
         /\ ~op'.errors => /\ ~op.errors
                           /\ runs'[u] # {} <=> WasActive
                           /\ u \in enabled' <=> WasEnabled
<1> DEFINE u == StartOrder[op.i]
<1>1. op.i \in 1..3
  BY DEF MInv, Located, TypeOK, Operation
<1>2. u \in Service /\ u \in Unit
  BY <1>1, Orders DEF Service, Unit
<1>3. runs[u] = {} /\ u \notin enabled
  BY <1>1 DEF Restarting
<1>4. Reenabled = IF WasEnabled THEN enabled \cup {u} ELSE enabled
  BY DEF Reenabled
<1>5. enabled' \in {enabled, Reenabled} /\ UNCHANGED <<files, manifest, mark, paused>>
  BY DEF RestartUnit, StartRefused, RestartFails
<1>6. CASE RestartUnit
  <2>1. /\ enabled' = Reenabled /\ op'.errors = op.errors
        /\ WasActive => MayStart(u, mark)
        /\ runs' = IF WasActive THEN [runs EXCEPT ![u] = Installed] ELSE runs
    BY <1>6, GoesOnFields, NextUnitFields DEF RestartUnit, MInv
  <2>2. Installed # {}
    BY DEF Installed
  <2> HIDE DEF u
  <2>3. runs'[u] = IF WasActive THEN Installed ELSE {}
    BY <1>2, <1>3, <2>1 DEF MInv, TypeOK
  <2>4. \A v \in Unit : v # u => runs'[v] = runs[v]
    BY <2>1 DEF MInv, TypeOK
  <2>5. u \in enabled' <=> WasEnabled
    BY <1>3, <1>4, <2>1
  <2>6. \A v \in Service : v # u => (v \in enabled' <=> v \in enabled)
    BY <1>4, <2>1
  <2> QED
    BY <1>5, <2>1, <2>2, <2>3, <2>4, <2>5, <2>6 DEF u
<1>7. CASE StartRefused \/ RestartFails
  <2>1. UNCHANGED runs /\ op'.errors
    BY <1>7, GoesOnFields DEF StartRefused, RestartFails, MInv
  <2> HIDE DEF u
  <2>2. \A v \in Service : v # u => (v \in enabled' <=> v \in enabled)
    BY <1>4, <1>5
  <2> QED
    BY <1>3, <1>5, <2>1, <2>2 DEF u
<1> QED
  BY <1>6, <1>7

\* The units are different.
LEMMA StartOrderDistinct ==
  /\ \A i, j \in 1..3 : StartOrder[i] = StartOrder[j] => i = j
  /\ \A i \in 1..3 : StartOrder[i] \in Service /\ StartOrder[i] \in Unit
  BY Orders DEF Service, Unit

LEMMA RestartingInit == Init => Restarting
  BY DEF Init, Restarting, NoOp

LEMMA RestartingStep ==
  ASSUME MInv, MInv', Restarting, [Next]_vars
  PROVE  Restarting'
<1>1. CASE op'.pc \notin {"release", "disable", "restart"}
  BY <1>1 DEF Restarting
<1>2. CASE (\E changing \in BOOLEAN : BeginInstall(changing)) \/ BeginUninstall
  <2>1. op'.pc \in {"mark", "put", "ustop"}
    BY <1>2 DEF BeginInstall, BeginUninstall
  <2> QED
    BY <1>1, <2>1
<1>3. CASE Onward /\ op'.pc \in {"release", "disable", "restart"}
  <2>1. \/ UNCHANGED op /\ (Services \/ UNCHANGED vars)
        \/ RestoreControls /\ op'.pc = "release"
        \/ ReleaseMark /\ op.pc = "release" /\ op'.pc = "disable" /\ op'.i = op.i
        \/ DisableUnit /\ op'.pc = "restart" /\ op'.i = op.i
        \/ /\ RestartUnit \/ StartRefused \/ RestartFails
           /\ op.pc = "restart" /\ op'.pc = "disable" /\ op'.i = op.i + 1
        \/ DisableFails /\ op.pc = "disable" /\ op'.pc = "disable" /\ op'.i = op.i + 1
    BY <1>3, PcSteps DEF MInv, NoOp, AfterStop
  <2>2. op.pc # "done" /\ op'.of = op.of
    BY <1>3, <2>1, OpSteps, PcSteps DEF MInv, NoOp, RestoreControls, ReleaseMark, DisableUnit
  <2>3. op.pc \in {"disable", "restart"} => op.i \in 1..3
    BY DEF MInv, Located, TypeOK, Operation
  <2>4. CASE UNCHANGED op /\ (Services \/ UNCHANGED vars)
    <3>1. /\ UNCHANGED <<files, manifest, mark, op, enabled, paused>>
          /\ \A u \in Unit : runs'[u] = {} <=> runs[u] = {}
      BY <1>3, <2>4, RestartingServices
    <3>2. \A u : MayStart(u, mark) <=> MayStart(u, mark)'
      BY <3>1 DEF MayStart, Runnable, Installed
    <3> QED
      BY <2>3, <3>1, <3>2, StartOrderDistinct DEF Restarting, Unit, Service
  <2>5. CASE RestoreControls /\ op'.pc = "release"
    BY <2>2, <2>5 DEF RestoreControls, Restarting, MInv, TypeOK, Operation
  <2>6. CASE ReleaseMark /\ op.pc = "release" /\ op'.pc = "disable" /\ op'.i = op.i
    <3>1. op'.i = 1 /\ \A u \in Unit : runs'[u] = {}
      BY <2>6 DEF MInv, Located, Running, Quiet, ReleaseMark, services
    <3>2. \A u \in Unit : runs'[u] = {}
      BY <3>1
    <3>3. UNCHANGED <<manifest, paused>>
      BY <2>6 DEF ReleaseMark, services
    <3> QED
      BY <2>2, <2>6, <3>1, <3>2, <3>3, StartOrderDistinct DEF Restarting, Unit, Service
  <2>7. CASE DisableUnit /\ op'.pc = "restart" /\ op'.i = op.i
    <3>1. /\ op.pc = "disable" /\ enabled' = enabled \ {StartOrder[op.i]}
          /\ UNCHANGED <<files, manifest, mark, runs, paused>> /\ op'.errors = op.errors
      BY <2>7 DEF DisableUnit, MInv, TypeOK, Operation
    <3>2. \A u : MayStart(u, mark) <=> MayStart(u, mark)'
      BY <3>1 DEF MayStart, Runnable, Installed
    <3>3. op.i \in 1..3 /\ \A j \in 1..(op.i - 1) : StartOrder[j] # StartOrder[op.i]
      BY <2>3, <3>1, StartOrderDistinct
    <3> QED
      BY <2>2, <2>7, <3>1, <3>2, <3>3 DEF Restarting
  <2>8. CASE /\ RestartUnit \/ StartRefused \/ RestartFails
             /\ op.pc = "restart" /\ op'.pc = "disable" /\ op'.i = op.i + 1
    <3> DEFINE u == StartOrder[op.i]
    <3>1. /\ UNCHANGED <<files, manifest, mark, paused>>
          /\ \A v \in Unit : v # u => runs'[v] = runs[v]
          /\ runs'[u] # {} => MayStart(u, mark)
          /\ \A v \in Service : v # u => (v \in enabled' <=> v \in enabled)
          /\ ~op'.errors => /\ ~op.errors
                            /\ runs'[u] # {} <=> WasActive
                            /\ u \in enabled' <=> WasEnabled
      BY <2>8, RestartingUnit
    <3>2. \A v : MayStart(v, mark) <=> MayStart(v, mark)'
      BY <3>1 DEF MayStart, Runnable, Installed
    <3>3. op.i \in 1..3 /\ u \in Service /\ u \in Unit
      BY <2>3, <2>8, StartOrderDistinct
    <3>4. \A j \in 1..3 : StartOrder[j] \in Unit /\ StartOrder[j] \in Service
                        /\ (StartOrder[j] = u => j = op.i)
      BY <3>3, StartOrderDistinct
    <3>5. (WasActive <=> files["unit"] # 0 /\ u \in manifest[op.of].active)
          /\ (WasEnabled <=> files["unit"] # 0 /\ u \in manifest[op.of].enabled)
      BY DEF WasActive, WasEnabled, Prior
    <3> HIDE DEF u
    <3>6. \A j \in op'.i..3 : runs'[StartOrder[j]] = {}
      BY <2>8, <3>1, <3>3, <3>4 DEF Restarting
    <3>7. runs'["guard"] = {}
      BY <2>8, <3>1, <3>3 DEF Restarting, Unit, Service
    <3>8. \A v \in {"receiver", "agent"} : runs'[v] # {} => MayStart(v, mark)'
      BY <2>8, <3>1, <3>2 DEF Restarting, Unit, Service
    <3>9. ~op'.errors => \A j \in 1..(op'.i - 1) :
            /\ runs'[StartOrder[j]] # {} <=> files'["unit"] # 0 /\ StartOrder[j] \in manifest'[op'.of].active
            /\ StartOrder[j] \in enabled' <=> files'["unit"] # 0 /\ StartOrder[j] \in manifest'[op'.of].enabled
      <4> SUFFICES ASSUME ~op'.errors, NEW j \in 1..op.i
                   PROVE  /\ runs'[StartOrder[j]] # {} <=> files["unit"] # 0 /\ StartOrder[j] \in manifest[op.of].active
                          /\ StartOrder[j] \in enabled' <=> files["unit"] # 0 /\ StartOrder[j] \in manifest[op.of].enabled
        BY <2>2, <2>8, <3>1, <3>3
      <4>1. CASE j = op.i
        BY <3>1, <3>5, <4>1 DEF u
      <4>2. CASE j # op.i
        <5>1. j \in 1..3 /\ j \in 1..(op.i - 1)
          BY <3>3, <4>2
        <5>2. StartOrder[j] # u
          BY <3>4, <4>2, <5>1
        <5> QED
          BY <2>8, <3>1, <3>4, <5>1, <5>2 DEF Restarting
      <4> QED
        BY <4>1, <4>2
    <3>10. op'.pc = "disable" /\ (manifest'[op'.of].controls # "none" =>
                                  paused' = (manifest'[op'.of].controls = "paused"))
      BY <2>2, <2>8, <3>1 DEF Restarting
    <3> QED
      BY <3>6, <3>7, <3>8, <3>9, <3>10 DEF Restarting
  <2>9. CASE DisableFails /\ op.pc = "disable" /\ op'.pc = "disable" /\ op'.i = op.i + 1
    <3>1. UNCHANGED <<files, manifest, mark, runs, paused>> /\ op'.errors
      BY <2>9, GoesOnFields DEF DisableFails, MInv
    <3>2. \A u : MayStart(u, mark) <=> MayStart(u, mark)'
      BY <3>1 DEF MayStart, Runnable, Installed
    <3> QED
      BY <2>2, <2>3, <2>9, <3>1, <3>2 DEF Restarting
  <2> QED
    BY <2>1, <2>4, <2>5, <2>6, <2>7, <2>8, <2>9
<1> QED
  BY <1>1, <1>2, <1>3, Steps

LEMMA Restarts == Spec => []RInv
<1>1. Init => RInv
  BY MInvInit, RestartingInit DEF RInv
<1>2. RInv /\ [Next]_vars => RInv'
  BY MInvStep, RestartingStep DEF RInv
<1> QED
  BY <1>1, <1>2, PTL DEF Spec

\* A rollback that ends without an error has undone its install or uninstall: the files
\* are back, what was enabled is enabled, what was active runs, and nothing else does.
THEOREM RollbackComplete == Spec => RollbackRestores
<1> DEFINE A == RestartUnit /\ op'.pc = "end" /\ ~op'.errors => Undone(op.of)'
<1>1. RInv /\ [Next]_vars => A
  <2> SUFFICES ASSUME RInv, [Next]_vars, RestartUnit, op'.pc = "end", ~op'.errors
               PROVE  Undone(op.of)'
    OBVIOUS
  <2> DEFINE m == manifest[op.of]
  <2>1. op.pc = "restart" /\ MInv /\ MInv' /\ Restarting /\ op.of \in Install /\ m \in Manifest
    BY MInvStep, Busy DEF RestartUnit, RInv, MInv
  <2>2. op.i = 3 /\ op'.of = op.of
    <3>1. op.i \in 1..3
      BY <2>1 DEF MInv, Located, TypeOK, Operation
    <3>2. op'.of = op.of /\ (op.i < 3 => op'.pc = "disable")
      BY <2>1, GoesOnFields, NextUnitFields DEF MInv
    <3> QED
      BY <3>1, <3>2
  <2>3. /\ UNCHANGED <<files, manifest, mark, paused>>
        /\ \A v \in Unit : v # "timer" => runs'[v] = runs[v]
        /\ \A v \in Service : v # "timer" => (v \in enabled' <=> v \in enabled)
        /\ ~op.errors
        /\ runs'["timer"] # {} <=> WasActive
        /\ "timer" \in enabled' <=> WasEnabled
    BY <2>1, <2>2, RestartingUnit, Orders
  <2>4. \A j \in 1..2 :
          /\ runs[StartOrder[j]] # {} <=> files["unit"] # 0 /\ StartOrder[j] \in m.active
          /\ StartOrder[j] \in enabled <=> files["unit"] # 0 /\ StartOrder[j] \in m.enabled
    BY <2>1, <2>2, <2>3 DEF Restarting
  <2>5. \A v \in {"receiver", "agent"} :
          /\ runs'[v] # {} <=> files["unit"] # 0 /\ v \in m.active
          /\ v \in enabled' <=> files["unit"] # 0 /\ v \in m.enabled
    BY <2>3, <2>4, Orders DEF Unit, Service
  <2>6. /\ runs'["timer"] # {} <=> files["unit"] # 0 /\ "timer" \in m.active
        /\ "timer" \in enabled' <=> files["unit"] # 0 /\ "timer" \in m.enabled
    BY <2>2, <2>3, Orders DEF WasActive, WasEnabled, Prior
  <2>7. m.active \subseteq Service /\ m.enabled \subseteq Service /\ enabled' \subseteq Service
    BY <2>1 DEF Manifest, MInv, TypeOK
  <2>8. files["unit"] # 0 => enabled' = m.enabled /\ Active' = m.active
    <3>1. \A v \in Service : (v \in Active' <=> files["unit"] # 0 /\ v \in m.active)
                            /\ (v \in enabled' <=> files["unit"] # 0 /\ v \in m.enabled)
      BY <2>5, <2>6 DEF Active, Service
    <3>2. Active' \subseteq Service
      BY DEF Active
    <3> HIDE DEF m
    <3> QED
      BY <2>7, <3>1, <3>2
  <2>9. \A f \in Covered(op.of) : files[f] = m.backup[f]
    BY <2>1 DEF MInv, Copied
  <2>10. m.controls # "none" => paused = (m.controls = "paused")
    BY <2>1 DEF Restarting
  <2>11. Covered(op.of)' = Covered(op.of)
    BY <2>2, <2>3 DEF Covered, AllFiles
  <2> QED
    BY <2>2, <2>3, <2>8, <2>9, <2>10, <2>11 DEF Undone
<1>2. RInv /\ [Next]_vars => [A]_vars
  BY <1>1
<1> HIDE DEF A
<1>3. Spec => [][A]_vars
  BY <1>2, Restarts, PTL DEF Spec
<1> QED
  BY <1>3 DEF A, RollbackRestores

===============================================================================
