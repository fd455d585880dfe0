----------------------- MODULE ArchiveRetention_proofs -----------------------
(***************************************************************************)
(* For any number of files, any retention time, any size of file and any   *)
(* number of kills: the inductive invariant of ArchiveRetention and what   *)
(* follows from it.                                                        *)
(***************************************************************************)
EXTENDS ArchiveRetention, TLAPS

USE FilesAssumption, AgeAssumption, BoundsAssumption
    DEF None, Kinds, Steps, Expired, Oldest, Exists, OriginalNext

\* Nothing is there at first.
LEMMA InitInductive == Init => Inductive
BY DEF Init, Inductive, TypeOK, File, Guard, Named, SeenOpen, AtWork, NothingLost,
   PublishedWhole, Free, Idle, Slots

\* The receiver writes to what it holds open, which no pass takes for closed.
LEMMA ReceiverInductive ==
  ASSUME Inductive, NEW s \in Slots, Append(s) \/ OpenLog(s) \/ Close(s)
  PROVE  Inductive'
<1> DEFINE f == file[s]
           g == file'[s]
<1>0. /\ f \in File /\ file \in [Slots -> File] /\ guard \in Guard
      /\ f.open \/ f.kind \in {"log", "free"} => f.temp = None /\ f.gz = None
      /\ f.open => f.kind \in {"log", "original"}
  BY DEF Inductive, TypeOK, Named, File, Free
<1>1. /\ g \in File /\ file' = [file EXCEPT ![s] = g]
      /\ guard' = guard /\ kills' = kills
      /\ g.kind \in {"log", "original"} /\ g.temp = None /\ g.gz = None
      /\ g.kind = f.kind \/ (g.kind = "log" /\ f.kind = "free")
      /\ g.open => f.open \/ g.kind = "log"
      /\ g.open \/ g.lines = f.lines
      /\ f.open \/ f.kind \in {"log", "free"}
  <2>1. CASE Append(s)
    <3>1. g = [f EXCEPT !.lines = f.lines + 1] /\ file' = [file EXCEPT ![s] = g]
      BY <1>0, <2>1 DEF Append
    <3> QED BY <1>0, <2>1, <3>1 DEF Append, File
  <2>2. CASE OpenLog(s)
    <3>1. CASE f.kind = "log"
      <4>1. /\ g = [f EXCEPT !.lines = f.lines + 1, !.open = TRUE]
            /\ file' = [file EXCEPT ![s] = g] /\ f.lines < MaxLines
        BY <1>0, <2>2, <3>1 DEF OpenLog
      <4> QED BY <1>0, <2>2, <3>1, <4>1 DEF OpenLog, File
    <3>2. CASE f.kind = "free"
      <4>1. PICK d \in 0 .. 1 :
              file' = [file EXCEPT ![s] = [Free EXCEPT !.kind = "log", !.age = d,
                                                       !.lines = 1, !.open = TRUE]]
        BY <2>2, <3>2 DEF OpenLog
      <4>2. /\ g = [kind |-> "log", age |-> d, lines |-> 1, open |-> TRUE,
                    temp |-> None, gz |-> None]
            /\ file' = [file EXCEPT ![s] = g]
        BY <1>0, <4>1 DEF Free
      <4>3. UNCHANGED <<guard, kills>>
        BY <2>2 DEF OpenLog
      <4> QED BY <1>0, <3>2, <4>2, <4>3 DEF File
    <3> QED BY <2>2, <3>1, <3>2 DEF OpenLog
  <2>3. CASE Close(s)
    <3>1. g = [f EXCEPT !.open = FALSE] /\ file' = [file EXCEPT ![s] = g]
      BY <1>0, <2>3 DEF Close
    <3> QED BY <1>0, <2>3, <3>1 DEF Close, File
  <2> QED BY <2>1, <2>2, <2>3
<1>3. TypeOK' BY <1>0, <1>1 DEF Inductive, TypeOK
<1>4. Named' BY <1>0, <1>1 DEF Inductive, Named
<1>5. SeenOpen' BY <1>0, <1>1 DEF Inductive, SeenOpen
<1>6. AtWork'
  <2>1. guard.step \in {"copy", "publish", "linked", "unlinked"} => s # guard.at
    BY <1>0, <1>1 DEF Inductive, AtWork, SeenOpen, PublishedWhole, File, Guard
  <2> QED BY <1>0, <1>1, <2>1 DEF Inductive, AtWork, Guard
<1>7. NothingLost' BY <1>0, <1>1 DEF Inductive, NothingLost
<1>8. PublishedWhole' BY <1>0, <1>1 DEF Inductive, PublishedWhole
<1> QED BY <1>3, <1>4, <1>5, <1>6, <1>7, <1>8 DEF Inductive

\* Midnight makes files older, so that less is promised of them.
LEMMA DayInductive ==
  ASSUME Inductive, NewDay
  PROVE  Inductive'
<1>1. \A s \in Slots : file[s] \in File /\ (file[s].kind = "free" => file[s] = Free)
  BY DEF Inductive, TypeOK, Named
<1>2. \A s \in Slots :
        \/ file'[s] = file[s]
        \/ /\ file[s].kind # "free" /\ file[s].age < Oldest
           /\ file'[s] = [file[s] EXCEPT !.age = file[s].age + 1]
  BY <1>1 DEF NewDay, File
<1>3. ASSUME NEW s \in Slots
      PROVE
        /\ file'[s] \in File /\ file'[s].age >= file[s].age
        /\ file'[s].kind = file[s].kind /\ file'[s].lines = file[s].lines
        /\ file'[s].open = file[s].open /\ file'[s].temp = file[s].temp
        /\ file'[s].gz = file[s].gz
        /\ file[s].kind = "free" => file'[s] = file[s]
  <2>1. CASE file'[s] = file[s]
    BY <1>1, <2>1 DEF File
  <2>2. CASE file[s].kind # "free" /\ file[s].age < Oldest
             /\ file'[s] = [file[s] EXCEPT !.age = file[s].age + 1]
    <3> DEFINE f == file[s]
    <3>1. f \in File BY <1>1
    <3> HIDE DEF f
    <3>2. f.age + 1 \in 0 .. Oldest BY <2>2, <3>1 DEF File, f
    <3>3. [f EXCEPT !.age = f.age + 1] \in File BY <3>1, <3>2 DEF File
    <3> QED BY <1>1, <2>2, <3>1, <3>3 DEF File, f
  <2> QED BY <1>2, <2>1, <2>2
<1>4. /\ guard \in Guard /\ guard' = [guard EXCEPT !.slipped = guard.step # "idle"]
      /\ kills' = kills /\ DOMAIN file' = Slots
  BY DEF NewDay, Inductive, TypeOK
<1>5. TypeOK'
  <2>1. file' = [s \in Slots |-> file'[s]] BY DEF NewDay
  <2> QED BY <1>3, <1>4, <2>1 DEF Inductive, TypeOK, Guard
<1>6. Named' BY <1>3 DEF Inductive, Named
<1>7. SeenOpen' BY <1>3, <1>4 DEF Inductive, SeenOpen, Guard
<1>8. AtWork' BY <1>3, <1>4 DEF Inductive, AtWork, Guard
<1>9. NothingLost' BY <1>1, <1>3 DEF Inductive, NothingLost, File
<1>10. PublishedWhole' BY <1>3 DEF Inductive, PublishedWhole
<1> QED BY <1>5, <1>6, <1>7, <1>8, <1>9, <1>10 DEF Inductive

\* Rotation makes archives only while no pass relies on a list of open files.
LEMMA RotationInductive ==
  ASSUME Inductive, NEW due \in SUBSET Logs, Begin(due)
  PROVE  Inductive'
<1>1. \A s \in Slots : file[s] \in File
  BY DEF Inductive, TypeOK
<1>2. \A s \in Slots :
        file'[s] = IF s \in due THEN [file[s] EXCEPT !.kind = "original"] ELSE file[s]
  BY DEF Begin
<1>3. ASSUME NEW s \in Slots
      PROVE
        /\ file'[s] \in File /\ file'[s].age = file[s].age
        /\ file'[s].kind = file[s].kind \/ (file[s].kind = "log" /\ file'[s].kind = "original")
        /\ file'[s].lines = file[s].lines
        /\ file'[s].open = file[s].open /\ file'[s].temp = file[s].temp
        /\ file'[s].gz = file[s].gz
        /\ file[s].kind = "free" => file'[s] = file[s]
  <2>1. CASE s \in due
    <3>1. file[s].kind = "log" BY <2>1 DEF Logs
    <3> QED BY <1>1, <1>2, <2>1, <3>1 DEF File
  <2>2. CASE s \notin due
    BY <1>1, <1>2, <2>2 DEF File
  <2> QED BY <2>1, <2>2
<1>4. /\ guard' = [Idle EXCEPT !.step = "scan"] /\ guard'.step = "scan"
      /\ kills' = kills
  BY DEF Begin, Idle
<1>5. TypeOK'
  <2>1. file' = [s \in Slots |-> file'[s]] BY DEF Begin
  <2>2. guard' = [step |-> "scan", at |-> 1, name |-> "original", opened |-> {},
                  left |-> 0, size |-> 0, slipped |-> FALSE]
    BY <1>4 DEF Idle
  <2>3. guard' \in Guard BY <2>2 DEF Guard, Slots
  <2> QED BY <1>3, <1>4, <2>1, <2>3 DEF Inductive, TypeOK
<1>6. Named' BY <1>3 DEF Inductive, Named
<1>7. SeenOpen' /\ AtWork' BY <1>4 DEF SeenOpen, AtWork
<1>8. NothingLost' BY <1>3 DEF Inductive, NothingLost
<1>9. PublishedWhole' BY <1>3 DEF Inductive, PublishedWhole
<1> QED BY <1>5, <1>6, <1>7, <1>8, <1>9 DEF Inductive

\* The next name of the directory.
LEMMA AdvanceType ==
  ASSUME guard \in Guard, guard.at <= Files, Advance
  PROVE  guard' \in Guard /\ guard'.step = "visit" /\ guard'.opened = guard.opened
<1> DEFINE at == IF OriginalNext THEN guard.at ELSE guard.at + 1
           name == IF OriginalNext THEN "gz" ELSE "original"
<1>1. at \in 1 .. Files + 1 /\ name \in {"original", "gz"}
  BY DEF Guard
<1>2. guard' = [step |-> "visit", at |-> at, name |-> name, opened |-> guard.opened,
                left |-> guard.left, size |-> 0, slipped |-> guard.slipped]
  BY DEF Advance, Guard
<1> HIDE DEF at, name
<1> QED BY <1>1, <1>2 DEF Guard

\* What the guard does without touching a file.
LEMMA PassInductive ==
  ASSUME Inductive, Scan \/ ScanFails \/ CleanOutOfTime \/ EndClean \/ Skip \/ EndPass \/ Kill
  PROVE  Inductive'
<1>1. /\ file' = file /\ guard \in Guard
      /\ \A s \in Slots : file[s] \in File
  BY DEF Scan, ScanFails, CleanOutOfTime, EndClean, Skip, EndPass, Kill, Inductive, TypeOK
<1>2. /\ guard' \in Guard /\ kills' \in 0 .. MaxKills
      /\ guard'.step \in {"idle", "clean", "visit"}
      /\ guard'.step = "clean" => guard'.opened = {s \in Slots : file[s].open}
      /\ guard'.step = "visit" => /\ guard.step \in {"clean", "visit"}
                                  /\ guard'.opened = guard.opened
                                  /\ guard.step = "clean" => ~ \E s \in Slots : Cleanable(s)
  <2>1. CASE Scan
    <3> DEFINE open == {s \in Slots : file[s].open}
    <3>1. open \in SUBSET Slots OBVIOUS
    <3> HIDE DEF open
    <3>2. /\ guard' = [step |-> "clean", at |-> guard.at, name |-> guard.name,
                       opened |-> open, left |-> Budget, size |-> guard.size,
                       slipped |-> guard.slipped]
          /\ kills' = kills
      BY <1>1, <2>1 DEF Scan, Guard, open
    <3>3. /\ guard' \in Guard /\ guard'.step = "clean" /\ guard'.opened = open
          /\ kills' \in 0 .. MaxKills
      BY <1>1, <3>1, <3>2 DEF Guard, Inductive, TypeOK
    <3> QED BY <3>3 DEF open
  <2>2. CASE EndClean
    BY <1>1, <2>2 DEF EndClean, Guard, Inductive, TypeOK
  <2>3. CASE Skip
    <3>1. /\ guard.step = "visit" /\ guard.at <= Files /\ Advance /\ kills' = kills
      BY <2>3 DEF Skip, Visiting
    <3>2. /\ guard' \in Guard /\ guard'.step = "visit" /\ guard'.opened = guard.opened
      BY <1>1, <3>1, AdvanceType
    <3> QED BY <1>1, <3>1, <3>2 DEF Inductive, TypeOK
  <2>4. CASE ScanFails \/ CleanOutOfTime \/ EndPass \/ Kill
    <3>1. guard' = Idle BY <2>4 DEF ScanFails, CleanOutOfTime, EndPass, Kill
    <3>2. kills' \in 0 .. MaxKills
      BY <2>4 DEF ScanFails, CleanOutOfTime, EndPass, Kill, Inductive, TypeOK
    <3>3. Idle \in Guard /\ Idle.step = "idle" BY DEF Idle, Guard, Slots
    <3> QED BY <3>1, <3>2, <3>3
  <2> QED BY <2>1, <2>2, <2>3, <2>4
<1>3. TypeOK' BY <1>1, <1>2 DEF Inductive, TypeOK
<1>4. SeenOpen' BY <1>1, <1>2 DEF Inductive, SeenOpen, Guard
<1>5. AtWork' BY <1>1, <1>2 DEF Inductive, AtWork, Cleanable, PublishedWhole, Guard
<1>6. Named' /\ NothingLost' /\ PublishedWhole'
  BY <1>1 DEF Inductive, Named, NothingLost, PublishedWhole
<1> QED BY <1>3, <1>4, <1>5, <1>6 DEF Inductive

\* A temporary goes before the pass looks at any archive.
LEMMA CleanInductive ==
  ASSUME Inductive, NEW s \in Slots, CleanTemp(s)
  PROVE  Inductive'
<1> DEFINE f == file[s]
           g == file'[s]
<1>1. /\ file \in [Slots -> File] /\ f \in File /\ f.kind # "free"
      /\ guard' = guard /\ kills' = kills /\ guard.step = "clean"
  BY DEF CleanTemp, Cleanable, Inductive, TypeOK, Named, Free
<1>2. file' = [file EXCEPT ![s] = g] /\ g = [f EXCEPT !.temp = None]
  BY <1>1 DEF CleanTemp
<1>3. TypeOK' BY <1>1, <1>2 DEF Inductive, TypeOK, File
<1>4. Named' /\ NothingLost' /\ PublishedWhole' /\ SeenOpen'
  BY <1>1, <1>2 DEF Inductive, Named, NothingLost, PublishedWhole, SeenOpen, File
<1>5. AtWork' BY <1>1 DEF AtWork
<1> QED BY <1>3, <1>4, <1>5 DEF Inductive

\* What is deleted has expired, also when midnight has fallen into the pass, and
\* was closed.
LEMMA DeleteInductive ==
  ASSUME Inductive, Delete
  PROVE  Inductive'
<1> DEFINE s == guard.at
           f == file[s]
           g == file'[s]
<1>1. /\ s \in Slots /\ file \in [Slots -> File] /\ f \in File /\ guard \in Guard
      /\ f.temp = None /\ f.age > KeepAge /\ guard.step = "visit"
      /\ guard.at <= Files /\ Advance /\ kills' = kills
      /\ f.kind \in {"original", "gone"} /\ ~f.open
  <2>1. /\ s \in Slots /\ file \in [Slots -> File] /\ f \in File /\ guard \in Guard
        /\ guard.step = "visit" /\ guard.at <= Files /\ Advance /\ kills' = kills
        /\ MayDelete(s)
    BY DEF Delete, Visiting, Inductive, TypeOK, Guard, Slots
  <2>2. f.age > KeepAge
    BY <2>1 DEF MayDelete, AgeInPass, File
  <2>3. f.temp = None BY <2>1 DEF Inductive, AtWork
  <2>4. f.kind \in {"original", "gone"} /\ ~f.open
    BY <2>1 DEF MayDelete, Managed, Inductive, Named, SeenOpen
  <2> QED BY <2>1, <2>2, <2>3, <2>4
<1>2. /\ file' = [file EXCEPT ![s] = g]
      /\ \/ g = Free
         \/ g = [f EXCEPT !.kind = "gone"] /\ f.gz # None
         \/ g = [f EXCEPT !.gz = None] /\ f.kind = "original"
  BY <1>1 DEF Delete, MayDelete, Managed, Without, File
<1> HIDE DEF g
<1>3. /\ g \in File /\ g.temp = None /\ ~g.open /\ g.kind \in {"free", "original", "gone"}
      /\ g.kind = "free" => g = Free
      /\ g.kind # "free" => g.age > KeepAge
      /\ g.gz # None => g.gz = f.gz /\ g.lines = f.lines /\ g.kind # "free"
  <2>1. CASE g = Free BY <2>1 DEF File, Free
  <2>2. CASE g = [f EXCEPT !.kind = "gone"] /\ f.gz # None
    BY <1>1, <2>2 DEF File
  <2>3. CASE g = [f EXCEPT !.gz = None] /\ f.kind = "original"
    BY <1>1, <2>3 DEF File
  <2> QED BY <1>2, <2>1, <2>2, <2>3
<1>4. /\ guard' \in Guard /\ guard'.step = "visit" /\ guard'.opened = guard.opened
  BY <1>1, AdvanceType
<1>5. TypeOK' BY <1>1, <1>2, <1>3, <1>4 DEF Inductive, TypeOK
<1>6. Named' BY <1>1, <1>2, <1>3 DEF Inductive, Named, File, g
<1>7. NothingLost' BY <1>1, <1>2, <1>3 DEF Inductive, NothingLost, File, g
<1>8. PublishedWhole' BY <1>1, <1>2, <1>3 DEF Inductive, PublishedWhole, File, g
<1>9. SeenOpen' /\ AtWork'
  BY <1>1, <1>2, <1>3, <1>4 DEF Inductive, SeenOpen, AtWork, File, g
<1> QED BY <1>5, <1>6, <1>7, <1>8, <1>9 DEF Inductive

\* A compression writes to a name of its own; the .gz appears when it is whole,
\* and only then the original goes.
LEMMA CompressionInductive ==
  ASSUME Inductive,
         \/ StartCompression \/ CopyWhole \/ OutOfTime
         \/ Link \/ UnlinkOriginal \/ UnlinkTemp
  PROVE  Inductive'
<1> DEFINE s == guard.at
           f == file[s]
           g == file'[s]
<1>1. /\ s \in Slots /\ file \in [Slots -> File] /\ f \in File /\ guard \in Guard
      /\ guard.name = "original" /\ s <= Files
      /\ guard.step \in {"visit", "copy", "publish", "linked", "unlinked"}
  <2>1. file \in [Slots -> File] /\ guard \in Guard BY DEF Inductive, TypeOK
  <2>2. CASE StartCompression
    BY <2>1, <2>2 DEF StartCompression, Visiting, MayCompress, Guard, Slots
  <2>3. CASE CopyWhole \/ OutOfTime \/ Link \/ UnlinkOriginal \/ UnlinkTemp
    <3>1. guard.step \in {"copy", "publish", "linked", "unlinked"}
      BY <2>3 DEF CopyWhole, OutOfTime, Link, UnlinkOriginal, UnlinkTemp
    <3> QED BY <2>1, <3>1 DEF Inductive, AtWork, Guard, Slots
  <2> QED BY <2>2, <2>3
<1>2. /\ f.kind \in {"original", "gone"}
      /\ \A t \in Slots \ {s} : file[t].temp = None
      /\ f.kind = "original" \/ f.gz = f.lines
  BY <1>1 DEF StartCompression, CopyWhole, OutOfTime, Link, UnlinkOriginal, UnlinkTemp, Visiting,
         MayCompress, Managed, Inductive, AtWork
<1>3. ~f.open
  <2>1. CASE guard.step = "visit"
    BY <1>1, <2>1 DEF StartCompression, CopyWhole, OutOfTime, Link, UnlinkOriginal, UnlinkTemp,
         MayCompress, Managed, Inductive, SeenOpen
  <2>2. CASE guard.step \in {"copy", "publish"}
    BY <1>1, <2>2 DEF Inductive, SeenOpen, AtWork
  <2>3. CASE guard.step \in {"linked", "unlinked"}
    BY <1>1, <2>3 DEF Inductive, PublishedWhole, AtWork, File
  <2> QED BY <1>1, <2>1, <2>2, <2>3
<1>4. f.gz # None => f.gz = f.lines
  BY <1>1 DEF Inductive, PublishedWhole
<1>5. /\ file' = [file EXCEPT ![s] = g] /\ kills' = kills
      /\ g \in File /\ g.age = f.age /\ g.lines = f.lines /\ ~g.open
      /\ g.kind \in {"original", "gone"}
      /\ g.kind = "original" \/ g.gz = g.lines
      /\ g.gz # None => g.gz = g.lines
      /\ guard' \in Guard
      /\ guard'.step \in {"copy", "publish", "linked", "unlinked", "visit"} =>
           guard'.opened = guard.opened
      /\ guard'.step \in {"copy", "publish", "linked", "unlinked"} =>
           guard'.at = s /\ guard'.name = "original"
      /\ guard'.step \in {"copy", "publish"} =>
           g.kind = "original" /\ g.gz = None /\ g.lines = guard'.size /\ s \notin guard'.opened
      /\ guard'.step = "publish" => g.temp = g.lines
      /\ guard'.step = "linked" => g.kind = "original" /\ g.gz = g.lines
      /\ guard'.step = "unlinked" => g.kind = "gone"
      /\ guard'.step = "visit" => g.temp = None
      /\ guard'.step \notin {"scan", "clean"}
  <2>1. CASE StartCompression
    <3>1. /\ g = [f EXCEPT !.temp = 0] /\ file' = [file EXCEPT ![s] = g] /\ kills' = kills
          /\ guard' = [guard EXCEPT !.step = "copy", !.size = f.lines]
          /\ f.kind = "original" /\ f.gz = None /\ s \notin guard.opened
      BY <1>1, <2>1 DEF StartCompression, MayCompress, Managed
    <3>2. g \in File BY <1>1, <3>1 DEF File
    <3> QED BY <1>1, <1>3, <3>1, <3>2 DEF File, Guard
  <2>2. CASE CopyWhole
    <3>1. /\ g = [f EXCEPT !.temp = f.lines] /\ file' = [file EXCEPT ![s] = g]
          /\ kills' = kills /\ f.lines <= guard.left
          /\ guard' = [guard EXCEPT !.step = "publish", !.left = guard.left - f.lines]
          /\ f.kind = "original" /\ f.gz = None /\ s \notin guard.opened
          /\ f.lines = guard.size
      BY <1>1, <2>2 DEF CopyWhole, Inductive, AtWork
    <3>2. g \in File /\ guard.left - f.lines \in 0 .. Budget
      BY <1>1, <3>1 DEF File, Guard
    <3>3. guard' \in Guard BY <1>1, <3>1, <3>2 DEF Guard
    <3> QED BY <1>1, <1>3, <3>1, <3>2, <3>3 DEF File, Guard
  <2>3. CASE OutOfTime
    <3>1. /\ g = [f EXCEPT !.temp = None] /\ file' = [file EXCEPT ![s] = g] /\ kills' = kills
          /\ guard' = Idle
      BY <1>1, <2>3 DEF OutOfTime
    <3>2. g \in File BY <1>1, <3>1 DEF File
    <3>3. Idle \in Guard /\ Idle.step = "idle" BY DEF Idle, Guard, Slots
    <3> QED BY <1>1, <1>2, <1>3, <1>4, <3>1, <3>2, <3>3 DEF File
  <2>4. CASE Link
    <3>1. /\ file' = [file EXCEPT ![s] = g] /\ kills' = kills
          /\ f.kind = "original" /\ f.gz = None /\ f.temp = f.lines
          /\ \/ /\ g = [f EXCEPT !.gz = f.temp]
                /\ guard' = [guard EXCEPT !.step = "linked", !.size = 0]
             \/ g = [f EXCEPT !.temp = None] /\ Advance
      BY <1>1, <2>4 DEF Link, Inductive, AtWork
    <3>2. g \in File BY <1>1, <3>1 DEF File
    <3>3. CASE g = [f EXCEPT !.gz = f.temp]
               /\ guard' = [guard EXCEPT !.step = "linked", !.size = 0]
      <4> DEFINE h == [step |-> "linked", at |-> s, name |-> guard.name,
                       opened |-> guard.opened, left |-> guard.left, size |-> 0,
                       slipped |-> guard.slipped]
      <4>0. h \in Guard BY <1>1 DEF Guard
      <4>1. guard' \in Guard BY <1>1, <3>3, <4>0 DEF Guard
      <4>2. g.gz = g.lines /\ g.lines = f.lines /\ g.age = f.age /\ g.kind = "original" /\ ~g.open
        BY <1>1, <1>3, <3>1, <3>3 DEF File
      <4> QED BY <1>1, <3>1, <3>2, <3>3, <4>1, <4>2 DEF Guard
    <3>4. CASE g = [f EXCEPT !.temp = None] /\ Advance
      BY <1>1, <1>3, <3>1, <3>2, <3>4, AdvanceType DEF File
    <3> QED BY <3>1, <3>3, <3>4
  <2>5. CASE UnlinkOriginal
    <3>1. /\ g = [f EXCEPT !.kind = "gone"] /\ file' = [file EXCEPT ![s] = g] /\ kills' = kills
          /\ guard' = [guard EXCEPT !.step = "unlinked"] /\ f.gz = f.lines
      BY <1>1, <2>5 DEF UnlinkOriginal, Inductive, AtWork
    <3>2. g \in File BY <1>1, <3>1 DEF File
    <3> QED BY <1>1, <1>3, <3>1, <3>2 DEF File, Guard
  <2>6. CASE UnlinkTemp
    <3>1. /\ g = [f EXCEPT !.temp = None] /\ file' = [file EXCEPT ![s] = g] /\ kills' = kills
          /\ Advance
      BY <1>1, <2>6 DEF UnlinkTemp
    <3>2. g \in File BY <1>1, <3>1 DEF File
    <3> QED BY <1>1, <1>2, <1>3, <1>4, <3>1, <3>2, AdvanceType DEF File
  <2> QED BY <2>1, <2>2, <2>3, <2>4, <2>5, <2>6
<1> HIDE DEF g
<1>6. TypeOK' BY <1>1, <1>5 DEF Inductive, TypeOK
<1>7. Named' BY <1>1, <1>5 DEF Inductive, Named, g
<1>8. NothingLost' BY <1>1, <1>5 DEF Inductive, NothingLost, g
<1>9. PublishedWhole' BY <1>1, <1>5 DEF Inductive, PublishedWhole, File, g
<1>10. SeenOpen' BY <1>1, <1>5 DEF Inductive, SeenOpen, Guard, g
<1>11. AtWork' BY <1>1, <1>2, <1>5 DEF AtWork, Guard, g
<1> QED BY <1>6, <1>7, <1>8, <1>9, <1>10, <1>11 DEF Inductive

\* Every step of receiver, calendar and guard keeps what the steps rely on.
LEMMA StepInductive ==
  ASSUME Inductive, [Next]_vars
  PROVE  Inductive'
<1>1. CASE \E s \in Slots : Append(s) \/ OpenLog(s) \/ Close(s)
  BY <1>1, ReceiverInductive
<1>2. CASE NewDay
  BY <1>2, DayInductive
<1>3. CASE \E due \in SUBSET Logs : Begin(due)
  BY <1>3, RotationInductive
<1>4. CASE Scan \/ ScanFails \/ CleanOutOfTime \/ EndClean \/ Skip \/ EndPass \/ Kill
  BY <1>4, PassInductive
<1>5. CASE \E s \in Slots : CleanTemp(s)
  BY <1>5, CleanInductive
<1>6. CASE Delete
  BY <1>6, DeleteInductive
<1>7. CASE \/ StartCompression \/ CopyWhole \/ OutOfTime
           \/ Link \/ UnlinkOriginal \/ UnlinkTemp
  BY <1>7, CompressionInductive
<1>8. CASE UNCHANGED vars
  BY <1>8 DEF vars, Inductive, TypeOK, Named, SeenOpen, AtWork, NothingLost, PublishedWhole,
     Cleanable
<1> QED BY <1>1, <1>2, <1>3, <1>4, <1>5, <1>6, <1>7, <1>8 DEF Next, GuardStep

\* For any number of files and kills: Inductive is an invariant of the archives.
THEOREM ArchivesInductive == Spec => []Inductive
<1>1. Init => Inductive BY InitInductive
<1>2. Inductive /\ [Next]_vars => Inductive' BY StepInductive
<1> QED BY <1>1, <1>2, PTL DEF Spec

\* No line of a day that is kept is lost, wherever the guard is killed.
THEOREM LinesKept == Spec => []NothingLost
<1>1. Inductive => NothingLost BY DEF Inductive
<1> QED BY <1>1, ArchivesInductive, PTL

\* A published .gz is whole, and every temporary can still be cleaned up.
THEOREM ArchivesWhole == Spec => []PublishedWhole
<1>1. Inductive => PublishedWhole BY DEF Inductive
<1> QED BY <1>1, ArchivesInductive, PTL

\* What is still being written is neither deleted nor compressed: the pass acts on
\* archives that were closed when it read the descriptors, and those stay closed.
THEOREM OpenFilesKept == Spec => OpenFilesSurvive
<1> DEFINE Kept(s) ==
      file[s].kind = "log" \/ (file[s].kind = "original" /\ file[s].open) =>
        /\ file'[s].kind \in {"log", "original"}
        /\ file'[s].lines >= file[s].lines
        /\ file'[s].temp = file[s].temp
<1>1. ASSUME Inductive, [Next]_vars, NEW s \in Slots
      PROVE  Kept(s)
  <2>1. file \in [Slots -> File] /\ file[s] \in File /\ guard \in Guard
    BY <1>1 DEF Inductive, TypeOK
  <2>2. SUFFICES ASSUME file[s].kind = "log" \/ (file[s].kind = "original" /\ file[s].open),
                        file'[s] # file[s]
                 PROVE  Kept(s)
    BY <2>1 DEF File
  <2>3. file[s].temp = None
    BY <2>2, <1>1 DEF Inductive, Named
  <2>4. \A t \in Slots : Append(t) \/ OpenLog(t) \/ Close(t) => Kept(s)
    <3> TAKE t \in Slots
    <3>1. CASE t # s
      BY <2>1, <2>2, <3>1 DEF Append, OpenLog, Close
    <3>2. CASE t = s
      BY <2>1, <2>2, <3>2 DEF Append, OpenLog, Close, File
    <3> QED BY <3>1, <3>2
  <2>5. CASE NewDay
    BY <2>1, <2>2, <2>5 DEF NewDay, File
  <2>6. \A due \in SUBSET Logs : Begin(due) => Kept(s)
    BY <2>1, <2>2 DEF Begin, File
  <2>7. \A t \in Slots : ~CleanTemp(t)
    BY <2>1, <2>2, <2>3 DEF CleanTemp, Cleanable, File
  <2>8. guard.step = "visit" /\ (Delete \/ StartCompression) => FALSE
    BY <2>1, <2>2, <1>1 DEF Delete, StartCompression, MayDelete, MayCompress, Managed,
       Inductive, SeenOpen, Named
  <2>9. ~(CopyWhole \/ OutOfTime \/ Link \/ UnlinkOriginal \/ UnlinkTemp)
    <3>1. guard.step \in {"copy", "publish", "linked", "unlinked"} => guard.at # s
      BY <2>1, <2>2, <1>1 DEF Inductive, SeenOpen, AtWork, PublishedWhole, File
    <3> QED BY <2>1, <2>2, <3>1 DEF CopyWhole, OutOfTime, Link, UnlinkOriginal, UnlinkTemp
  <2>10. Delete \/ StartCompression => guard.step = "visit"
    BY DEF Delete, StartCompression, Visiting
  <2>11. ~(Scan \/ ScanFails \/ CleanOutOfTime \/ EndClean \/ Skip \/ EndPass \/ Kill \/ UNCHANGED vars)
    BY <2>2 DEF Scan, ScanFails, CleanOutOfTime, EndClean, Skip, EndPass, Kill, vars
  <2> HIDE DEF Kept
  <2> QED BY <1>1, <2>4, <2>5, <2>6, <2>7, <2>8, <2>9, <2>10, <2>11 DEF Next, GuardStep
<1>2. Inductive /\ [Next]_vars => [\A s \in Slots : Kept(s)]_vars
  BY <1>1
<1> QED BY <1>2, ArchivesInductive, PTL DEF Spec, OpenFilesSurvive
==============================================================================
