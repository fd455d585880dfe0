-------------------------- MODULE ArchiveRetention --------------------------
(***************************************************************************)
(* The archives of one source directory (app/syslog_storage.py,            *)
(* prune_archives and its helpers): the receiver appends to <day>.log,     *)
(* logrotate renames it, the receiver goes on writing the renamed file     *)
(* until it closes it, and the guard deletes or compresses what it takes   *)
(* for closed.  The guard may be killed between any two of its steps.      *)
(*                                                                         *)
(* A slot is one file of log lines and the names that lead to it: the      *)
(* <day>.log that becomes an archive, the temporary file of a compression  *)
(* and the published .gz.  Slots are numbered in the order os.scandir      *)
(* returns them.  Days are ages: 0 is the current day of the server.       *)
(***************************************************************************)
EXTENDS Integers, FiniteSets

CONSTANTS
  Files,       \* number of slots, in directory order
  KeepAge,     \* syslog_days + 1: an older file is expired
  MaxLines,    \* bound on the lines of a file (a line stands for a chunk)
  Budget,      \* lines the guard compresses before max_seconds have passed
  MaxKills     \* bound on the kills of the guard

ASSUME FilesAssumption == Files \in Nat \ {0}
ASSUME AgeAssumption == KeepAge \in Nat /\ KeepAge >= 2
ASSUME BoundsAssumption == MaxLines \in Nat \ {0} /\ Budget \in Nat /\ MaxKills \in Nat

VARIABLES
  file,        \* slot -> its file: kind, age, lines, open, temp, gz
  guard,       \* the pass: step, slot and name it is at, the scan, the time left
  kills

vars == <<file, guard, kills>>

Slots == 1 .. Files
None == -1
Expired == KeepAge + 1
Oldest == KeepAge + 2      \* ages stop here: expired for a day and longer

\* "log": named <day>.log; "original": rotated, not compressed away;
\* "gone": the original is unlinked but its .gz or its temporary is there.
Kinds == {"free", "log", "original", "gone"}
Steps == {"idle", "scan", "clean", "visit", "copy", "publish", "linked", "unlinked"}

Free == [kind |-> "free", age |-> 0, lines |-> 0, open |-> FALSE,
         temp |-> None, gz |-> None]

\* slipped: midnight has fallen into this pass.
Idle == [step |-> "idle", at |-> 1, name |-> "original", opened |-> {},
         left |-> 0, size |-> 0, slipped |-> FALSE]

File == [kind : Kinds, age : 0 .. Oldest, lines : 0 .. MaxLines, open : BOOLEAN,
         temp : None .. MaxLines, gz : None .. MaxLines]
Guard == [step : Steps, at : 1 .. Files + 1, name : {"original", "gz"},
          opened : SUBSET Slots, left : 0 .. Budget, size : 0 .. MaxLines,
          slipped : BOOLEAN]

TypeOK == file \in [Slots -> File] /\ guard \in Guard /\ kills \in 0 .. MaxKills

Init == file = [s \in Slots |-> Free] /\ guard = Idle /\ kills = 0

-----------------------------------------------------------------------------
(* The receiver: one open file per day, named by the day of the message     *)

Exists(s) == file[s].kind \in {"log", "original"}
DayOpen(d) == \E s \in Slots : file[s].open /\ file[s].age = d

\* A message of the current day, or one queued since yesterday, goes to the
\* file the receiver holds open for that day, under whatever name it has now.
Append(s) ==
  /\ file[s].open
  /\ file[s].age <= 1
  /\ file[s].lines < MaxLines
  /\ file' = [file EXCEPT ![s].lines = @ + 1]
  /\ UNCHANGED <<guard, kills>>

\* With no file open for the day the template opens <day>.log or creates it.
OpenLog(s) ==
  /\ \/ /\ file[s].kind = "log" /\ file[s].age <= 1 /\ ~DayOpen(file[s].age)
        /\ file[s].lines < MaxLines
        /\ file' = [file EXCEPT ![s].lines = @ + 1, ![s].open = TRUE]
     \/ /\ file[s].kind = "free"
        /\ \E d \in 0 .. 1 :
             /\ ~DayOpen(d)
             /\ \A t \in Slots : file[t].kind = "log" => file[t].age # d
             /\ file' = [file EXCEPT ![s] = [Free EXCEPT !.kind = "log", !.age = d,
                                                         !.lines = 1, !.open = TRUE]]
  /\ UNCHANGED <<guard, kills>>

\* HUP after a rotation, the idle time-out of a dynafile, a stop of the receiver.
Close(s) ==
  /\ file[s].open
  /\ file' = [file EXCEPT ![s].open = FALSE]
  /\ UNCHANGED <<guard, kills>>

\* Midnight: a pass runs for at most a minute and keeps the day it started in.
NewDay ==
  /\ ~guard.slipped
  /\ \E s \in Slots : file[s].kind # "free" /\ file[s].age < Oldest
  /\ file' = [s \in Slots |->
       IF file[s].kind = "free" \/ file[s].age = Oldest
       THEN file[s] ELSE [file[s] EXCEPT !.age = @ + 1]]
  /\ guard' = [guard EXCEPT !.slipped = guard.step # "idle"]
  /\ UNCHANGED kills

-----------------------------------------------------------------------------
(* The guard, one step at a time                                            *)

AgeInPass(s) == IF guard.slipped THEN file[s].age - 1 ELSE file[s].age
OriginalNext == guard.name = "original"

\* logrotate renames the .log files that are due; its HUP is the Close above
\* and may never come when the guard is killed first.
Begin(due) ==
  /\ guard.step = "idle"
  /\ file' = [s \in Slots |-> IF s \in due THEN [file[s] EXCEPT !.kind = "original"]
                                           ELSE file[s]]
  /\ guard' = [Idle EXCEPT !.step = "scan"]
  /\ UNCHANGED kills

\* Mutant of Scan: only the descriptors of .log files count as open.
ScanLogs ==
  /\ guard.step = "scan"
  /\ guard' = [guard EXCEPT !.step = "clean", !.left = Budget,
                            !.opened = {s \in Slots : file[s].open /\ file[s].kind = "log"}]
  /\ UNCHANGED <<file, kills>>

\* open_inodes: once, before anything is listed; None when /proc is not readable.
Scan ==
  /\ guard.step = "scan"
  /\ guard' = [guard EXCEPT !.step = "clean", !.left = Budget,
                            !.opened = {s \in Slots : file[s].open}]
  /\ UNCHANGED <<file, kills>>

ScanFails ==
  /\ guard.step = "scan"
  /\ guard' = Idle
  /\ UNCHANGED <<file, kills>>

\* Mutant of Cleanable: a temporary is tied to its original only.
CleanableByOriginal(s) == file[s].temp # None /\ Exists(s)

\* A temporary goes only while the original or the published .gz is there.  (One
\* that is open would stay: none is, its only writer is the guard of a past pass.)
Cleanable(s) == file[s].temp # None /\ (Exists(s) \/ file[s].gz # None)

CleanTemp(s) ==
  /\ guard.step = "clean"
  /\ Cleanable(s)
  /\ file' = [file EXCEPT ![s].temp = None]
  /\ UNCHANGED <<guard, kills>>

EndClean ==
  /\ guard.step = "clean"
  /\ ~ \E s \in Slots : Cleanable(s)
  /\ guard' = [guard EXCEPT !.step = "visit"]
  /\ UNCHANGED <<file, kills>>

\* The time is up among the temporaries: the loop over the archives breaks at once.
CleanOutOfTime ==
  /\ guard.step = "clean"
  /\ guard' = Idle
  /\ UNCHANGED <<file, kills>>

\* managed_files: a regular file of one link.  The .gz shares its inode with
\* the temporary it was linked from.
Managed(s, original) ==
  IF original THEN file[s].kind = "original"
              ELSE file[s].gz # None /\ file[s].temp = None

\* Mutant of MayDelete: the extra day is forgotten.
MayDeleteOnTheDay(s) == /\ Managed(s, OriginalNext)
                        /\ OriginalNext => s \notin guard.opened
                        /\ AgeInPass(s) >= KeepAge

MayDelete(s) == /\ Managed(s, OriginalNext)
                /\ OriginalNext => s \notin guard.opened
                /\ AgeInPass(s) > KeepAge

MayCompress(s) == /\ OriginalNext /\ Managed(s, TRUE) /\ s \notin guard.opened
                  /\ file[s].gz = None
                  /\ AgeInPass(s) \in 2 .. KeepAge

Visiting == guard.step = "visit" /\ guard.at <= Files
Advance == guard' = [guard EXCEPT !.step = "visit", !.size = 0,
                                  !.at = IF OriginalNext THEN @ ELSE @ + 1,
                                  !.name = IF OriginalNext THEN "gz" ELSE "original"]

\* Under pressure, or without the room for it, nothing is compressed.
Skip ==
  /\ Visiting /\ ~MayDelete(guard.at)
  /\ Advance
  /\ UNCHANGED <<file, kills>>

\* With its last name an expired file leaves the slot; one that is not expired
\* stays on record, with no name.
Without(f, kind, gz) ==
  IF kind = "gone" /\ gz = None /\ f.temp = None /\ f.age > KeepAge THEN Free
  ELSE [f EXCEPT !.kind = kind, !.gz = gz]

Delete ==
  LET s == guard.at  f == file[s] IN
  /\ Visiting /\ MayDelete(s)
  /\ file' = [file EXCEPT ![s] = IF OriginalNext THEN Without(f, "gone", f.gz)
                                                 ELSE Without(f, f.kind, None)]
  /\ Advance
  /\ UNCHANGED kills

StartCompression ==
  /\ Visiting /\ MayCompress(guard.at)
  /\ file' = [file EXCEPT ![guard.at].temp = 0]
  /\ guard' = [guard EXCEPT !.step = "copy", !.size = file[guard.at].lines]
  /\ UNCHANGED kills

\* Mutant of CopyWhole: what was compressed in time is published.
CopyInTime ==
  LET f == file[guard.at]
      n == IF f.lines <= guard.left THEN f.lines ELSE guard.left IN
  /\ guard.step = "copy"
  /\ file' = [file EXCEPT ![guard.at].temp = n]
  /\ guard' = [guard EXCEPT !.step = "publish", !.left = @ - n]
  /\ UNCHANGED kills

CopyWhole ==
  LET f == file[guard.at] IN
  /\ guard.step = "copy" /\ f.lines <= guard.left
  /\ file' = [file EXCEPT ![guard.at].temp = f.lines]
  /\ guard' = [guard EXCEPT !.step = "publish", !.left = @ - f.lines]
  /\ UNCHANGED kills

\* The time is up in the middle of a file: the temporary is discarded and the
\* loop breaks at the next name ("deferred").
OutOfTime ==
  /\ guard.step = "copy" /\ file[guard.at].lines > guard.left
  /\ file' = [file EXCEPT ![guard.at].temp = None]
  /\ guard' = Idle
  /\ UNCHANGED kills

EndPass ==
  /\ guard.step = "visit"
  /\ guard.at > Files \/ guard.left = 0
  /\ guard' = Idle
  /\ UNCHANGED <<file, kills>>

\* Published by a link that clobbers nothing, if the original has kept its size.
Link ==
  LET f == file[guard.at] IN
  /\ guard.step = "publish"
  /\ IF f.lines = guard.size
     THEN /\ file' = [file EXCEPT ![guard.at].gz = f.temp]
          /\ guard' = [guard EXCEPT !.step = "linked", !.size = 0]
     ELSE /\ file' = [file EXCEPT ![guard.at].temp = None]
          /\ Advance
  /\ UNCHANGED kills

UnlinkOriginal ==
  /\ guard.step = "linked"
  /\ file' = [file EXCEPT ![guard.at].kind = "gone"]
  /\ guard' = [guard EXCEPT !.step = "unlinked"]
  /\ UNCHANGED kills

UnlinkTemp ==
  /\ guard.step = "unlinked"
  /\ file' = [file EXCEPT ![guard.at].temp = None]
  /\ Advance
  /\ UNCHANGED kills

\* TimeoutStartSec, MemoryMax or a power cut: the files stay as they are.
Kill ==
  /\ guard.step # "idle"
  /\ kills < MaxKills
  /\ guard' = Idle
  /\ kills' = kills + 1
  /\ UNCHANGED file

Logs == {s \in Slots : file[s].kind = "log"}

GuardStep ==
  \/ \E due \in SUBSET Logs : Begin(due)
  \/ \E s \in Slots : CleanTemp(s)
  \/ Scan \/ EndClean \/ Skip \/ Delete \/ EndPass
  \/ StartCompression \/ CopyWhole \/ OutOfTime
  \/ Link \/ UnlinkOriginal \/ UnlinkTemp

Next ==
  \/ \E s \in Slots : Append(s) \/ OpenLog(s) \/ Close(s)
  \/ NewDay
  \/ GuardStep
  \/ ScanFails \/ CleanOutOfTime \/ Kill

Spec == Init /\ [][Next]_vars

\* The timer starts the guard for ever and its steps complete; the descriptors
\* can be read again and again; ten seconds suffice again and again for one more
\* temporary, or to see that none is left; rotation reaches a log that stays due;
\* the receiver closes a file it no longer writes.
Fairness ==
  /\ WF_vars(GuardStep)
  /\ SF_vars(Scan)
  /\ SF_vars(EndClean \/ \E s \in Slots : CleanTemp(s))
  /\ SF_vars(\E due \in SUBSET Logs : Begin(due) /\ due = Logs)
  /\ \A s \in Slots : WF_vars(Close(s) /\ file[s].age >= 2)

FairSpec == Spec /\ Fairness

-----------------------------------------------------------------------------
(* Properties                                                               *)

\* No line of a day that is still kept is lost: until a file expires, its lines
\* are under the name of the log, of the archive or of the published .gz,
\* whatever the guard was doing when it was killed.
NothingLost ==
  \A s \in Slots :
    file[s].kind # "free" /\ file[s].age <= KeepAge =>
      Exists(s) \/ file[s].gz = file[s].lines

\* A published .gz is the whole archive, also while the original stands beside
\* it; and a temporary without the file it was made from could never be removed.
PublishedWhole ==
  \A s \in Slots :
    /\ file[s].gz # None => file[s].gz = file[s].lines /\ ~file[s].open
    /\ file[s].temp # None => Exists(s) \/ file[s].gz # None

\* "Unrotated .log files are NEVER unlinked/compressed", nor is an archive the
\* receiver still writes to.
OpenFilesSurvive ==
  [][\A s \in Slots :
       file[s].kind = "log" \/ (file[s].kind = "original" /\ file[s].open) =>
         /\ file'[s].kind \in {"log", "original"}
         /\ file'[s].lines >= file[s].lines
         /\ file'[s].temp = file[s].temp]_vars

\* An expired file leaves with all its names: the archive, the .gz and what an
\* interrupted compression left.
ExpiredGo ==
  \A s \in Slots : file[s].age >= Expired ~> file[s].kind = "free"

-----------------------------------------------------------------------------
(* What the steps rely on                                                   *)

\* Only a log or an archive is open; only an archive has other names.
Named ==
  \A s \in Slots :
    /\ file[s].kind = "free" => file[s] = Free
    /\ file[s].open => Exists(s)
    /\ file[s].temp # None \/ file[s].gz # None =>
         file[s].kind \in {"original", "gone"} /\ ~file[s].open

\* An archive that is closed when the descriptors are read stays closed: nobody
\* opens an archive, and nothing becomes one during the pass.
SeenOpen ==
  guard.step \notin {"idle", "scan"} =>
    \A s \in Slots : file[s].kind = "original" /\ file[s].open => s \in guard.opened

\* The pass looks at archives after the temporaries are gone, and makes one
\* temporary at a time.
AtWork ==
  LET f == file[guard.at] IN
  /\ guard.step = "visit" => \A s \in Slots : file[s].temp = None
  /\ guard.step \in {"copy", "publish", "linked", "unlinked"} =>
       /\ guard.at \in Slots /\ OriginalNext
       /\ \A s \in Slots \ {guard.at} : file[s].temp = None
  /\ guard.step \in {"copy", "publish"} =>
       /\ f.kind = "original" /\ guard.at \notin guard.opened
       /\ f.gz = None /\ f.lines = guard.size
  /\ guard.step = "publish" => f.temp = f.lines
  /\ guard.step = "linked" => f.kind = "original" /\ f.gz = f.lines
  /\ guard.step = "unlinked" => f.kind = "gone" /\ f.gz = f.lines

Inductive == TypeOK /\ Named /\ SeenOpen /\ AtWork /\ NothingLost /\ PublishedWhole
=============================================================================
