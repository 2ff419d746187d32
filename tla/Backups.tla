------------------------------ MODULE Backups ------------------------------
(***************************************************************************)
(* The nightly archives (backup/index.ts): runs, the files they leave in   *)
(* the backup directory, the pruning of old ones and the monthly check.    *)
(*                                                                         *)
(* A run is synchronous from its first statement to its last, so nothing   *)
(* of this process comes in between; but it may die or fail at any point,  *)
(* and a run that fails takes nothing back: its files stay where they are, *)
(* with names that pruning cannot tell from those of good archives.        *)
(***************************************************************************)
EXTENDS Handlers, FiniteSets

CONSTANTS
  KeepDaily,      \* 30
  KeepMonthly,    \* 12
  DaysPerMonth,
  LastDate,       \* bound: the calendar
  MaxRuns         \* bound: runs, by timer or from the dashboard

ASSUME BackupAssumption ==
  /\ {KeepDaily, KeepMonthly, DaysPerMonth} \subseteq Nat \ {0}
  /\ {LastDate, MaxRuns} \subseteq Nat

VARIABLES
  date,      \* today
  status,    \* backup_runs.status of each run, in order of started_at
  month,     \* the month each run was made in
  disk       \* the archive files: of which run, and whole or torn

backupVars == <<date, status, month, disk>>

Run == 1..MaxRuns
Month(d) == d \div DaysPerMonth
File == [run : Run, whole : BOOLEAN]

BackupsTypeOK ==
  /\ date \in 0..LastDate
  /\ status \in [Run -> {"none", "running", "completed", "failed", "verified"}]
  /\ month \in [Run -> 0..Month(LastDate)]
  /\ disk \subseteq File

BackupsInit ==
  /\ date = 0
  /\ status = [n \in Run |-> "none"]
  /\ month = [n \in Run |-> 0]
  /\ disk = {}

-----------------------------------------------------------------------------

NextDate ==
  /\ date < LastDate
  /\ date' = date + 1
  /\ UNCHANGED <<handlerVars, status, month, disk>>

(* By mtime: of one run, a torn .aes is younger than the .tar it is of.    *)
Younger(f, g) == f.run > g.run \/ (f.run = g.run /\ ~f.whole /\ g.whole)

(* The youngest file of each month.                                        *)
MonthLast(fs, m) ==
  {f \in fs : m[f.run] \notin {m[g.run] : g \in {h \in fs : Younger(h, f)}}}

(* The n youngest of them.                                                 *)
Youngest(n, fs) == {f \in fs : Cardinality({g \in fs : Younger(g, f)}) < n}

(* pruneOldBackups: whatever carries an archive's name counts.             *)
Kept(fs, m) == Youngest(KeepDaily, fs) \cup Youngest(KeepMonthly, MonthLast(fs, m))

(* The next run takes its place in backup_runs.                            *)
Begins(n, st) ==
  /\ status[n] = "none"
  /\ \A k \in 1..(n - 1) : status[k] # "none"
  /\ status' = [status EXCEPT ![n] = st]
  /\ month' = [month EXCEPT ![n] = Month(date)]
  /\ UNCHANGED <<date, edits, hurt>>

Mishap == mishaps < MaxMishaps /\ mishaps' = mishaps + 1

Archive(n) == [run |-> n, whole |-> TRUE]
TornArchive(n) == [run |-> n, whole |-> FALSE]

(* runBackup to its end.                                                   *)
RunBackup(n) ==
  /\ Begins(n, "completed")
  /\ disk' = Kept(disk \cup {Archive(n)}, month')
  /\ UNCHANGED mishaps

(* Seeded fault: a failed run prunes too.                                  *)
RunFailsAndPrunes(n) ==
  /\ Begins(n, "failed")
  /\ Mishap
  /\ \E left \in SUBSET {Archive(n), TornArchive(n)} : disk' = Kept(disk \cup left, month')

(* The catch block: tar, the encryption or the copy failed, and what they  *)
(* had written stays; or the audit entry after the pruning did, and a run  *)
(* that was completed is marked failed.                                    *)
RunFails(n) ==
  /\ Begins(n, "failed")
  /\ Mishap
  /\ \/ \E left \in SUBSET {Archive(n), TornArchive(n)} : disk' = disk \cup left
     \/ disk' = Kept(disk \cup {Archive(n)}, month')

(* The process dies: while the archive is made, or after the run was       *)
(* marked completed and before the pruning was done.                       *)
RunIsCutOff(n) ==
  /\ Mishap
  /\ \/ /\ Begins(n, "running")
        /\ \E left \in SUBSET {Archive(n), TornArchive(n)} : disk' = disk \cup left
     \/ /\ Begins(n, "completed")
        /\ \E gone \in SUBSET disk :
             /\ gone \cap Kept(disk \cup {Archive(n)}, month') = {}
             /\ disk' = (disk \ gone) \cup {Archive(n)}

(* The newest run that is completed and not yet verified.                  *)
ToVerify(n) ==
  /\ status[n] = "completed"
  /\ \A k \in Run : k > n => status[k] # "completed"

(* verifyMostRecentBackup: an archive that is there, decrypts and lists.   *)
VerifyMostRecentBackup(n) ==
  /\ ToVerify(n)
  /\ Archive(n) \in disk
  /\ status' = [status EXCEPT ![n] = "verified"]
  /\ UNCHANGED <<handlerVars, date, month, disk>>

BackupsStep ==
  \/ NextDate
  \/ \E n \in Run :
       RunBackup(n) \/ RunFails(n) \/ RunIsCutOff(n) \/ VerifyMostRecentBackup(n)

-----------------------------------------------------------------------------

Good(n) == status[n] \in {"completed", "verified"}

(* Whatever runs failed, left their files or died since the newest backup  *)
(* that is called good, something as new can be restored: its archive, or  *)
(* a later whole one that pushed it out (index.ts:158-164, 194-215).       *)
LatestIsThere ==
  \A n \in Run :
    Good(n) /\ (\A k \in Run : k > n => ~Good(k)) =>
      \E k \in Run : k >= n /\ Archive(k) \in disk

(* "keep ... 12 monthly" (index.ts:10): when the last run of a month that  *)
(* left a file was good, its archive stays until as many later months as   *)
(* are kept have files of their own.                                       *)
MonthEndsAreKept ==
  \A n \in Run :
    LET later == {k \in Run : k > n /\ status[k] # "none"} IN
    /\ Good(n) /\ month[n] \notin {month[k] : k \in later}
    /\ Cardinality({month[k] : k \in later}) < KeepMonthly
    => Archive(n) \in disk

(* Pruning keeps what can be restored: the latest, and the months.         *)
ArchivesAreKept == LatestIsThere /\ MonthEndsAreKept

=============================================================================
