----------------------------- MODULE LegacyArchive -----------------------------
(***************************************************************************)
(* Backups of the Legacy journal. A backup is a file, named for the second *)
(* in which it was begun, and a row with its checksum. After each backup   *)
(* the oldest ones beyond max_backups go: first their files, then their    *)
(* rows. Restoring puts back the entries whose ids are free, importing an  *)
(* export adds copies under new ids.                                       *)
(*                                                                         *)
(* Requests run in threads, next to each other and to those that write the *)
(* journal. Nothing holds a file or a name.                                *)
(***************************************************************************)
EXTENDS Naturals, FiniteSets, FiniteSetsExt

CONSTANTS
  Desks,        \* requests under way
  KeptBackups,  \* max_backups
  MaxSeconds,   \* bound: seconds that pass
  MaxBirths,    \* bound: entries created or imported
  MaxTasks,     \* bound: backups, restores, imports
  MaxFailures   \* bound: failing steps, restarts

ASSUME ArchiveAssumption ==
  /\ KeptBackups \in Nat \ {0}
  /\ MaxSeconds \in Nat \ {0} /\ MaxBirths \in Nat /\ MaxTasks \in Nat /\ MaxFailures \in Nat

VARIABLES
  journal,   \* per id: which entry it is
  exported,  \* the export somebody keeps
  files,     \* per name: what is in it
  rows,      \* the backups table
  desk,      \* per request: what it is at
  clock,
  births,    \* entries so far
  gone,      \* history: entries that were deleted
  begun,     \* history: how many backups were begun, per second
  bared,     \* history: names whose file went while the row stayed
  overdue,   \* history: a rotation has not been finished
  tasks, failures

archiveVars == <<journal, exported, files, rows, desk, clock, births, gone, begun, bared,
                 overdue, tasks, failures>>

Torn == [whole |-> FALSE, saved |-> << >>]
Whole(table) == [whole |-> TRUE, saved |-> table]
AtEase == [pc |-> "idle", name |-> 0, sum |-> Torn, todo |-> {}, done |-> {}]

ArchiveInit ==
  /\ journal = << >> /\ exported = << >>
  /\ files = << >> /\ rows = << >>
  /\ desk = [d \in Desks |-> AtEase]
  /\ clock = 1 /\ births = 0
  /\ gone = {} /\ begun = [s \in 1 .. MaxSeconds |-> 0] /\ bared = {} /\ overdue = FALSE
  /\ tasks = 0 /\ failures = 0

Failure == failures < MaxFailures /\ failures' = failures + 1
Task == tasks < MaxTasks /\ tasks' = tasks + 1

With(table, key, value) ==
  [k \in DOMAIN table \cup {key} |-> IF k = key THEN value ELSE table[k]]

Without(table, keys) == [k \in DOMAIN table \ keys |-> table[k]]

(* SQLite gives a new row the largest id of the table plus one.              *)
NextId(table) == IF DOMAIN table = {} THEN 1 ELSE Max(DOMAIN table) + 1

HistoriesRest == UNCHANGED <<gone, begun, bared, overdue>>
JournalRest == UNCHANGED <<journal, exported, births>>

--------------------------------------------------------------------------------
(* The journal goes on.                                                      *)

WriteEntry ==
  /\ births < MaxBirths /\ births' = births + 1
  /\ journal' = With(journal, NextId(journal), births + 1)
  /\ HistoriesRest /\ UNCHANGED <<exported, files, rows, desk, clock, tasks, failures>>

EraseEntry(id) ==
  /\ journal' = Without(journal, {id})
  /\ gone' = gone \cup {journal[id]}
  /\ UNCHANGED <<exported, births, files, rows, desk, clock, begun, bared, overdue, tasks,
                 failures>>

Export ==
  /\ journal # exported /\ exported' = journal
  /\ HistoriesRest
  /\ UNCHANGED <<journal, births, files, rows, desk, clock, tasks, failures>>

SecondPasses ==
  /\ clock < MaxSeconds /\ clock' = clock + 1
  /\ HistoriesRest /\ JournalRest
  /\ UNCHANGED <<files, rows, desk, tasks, failures>>

--------------------------------------------------------------------------------
(* create_backup                                                             *)

At(d, pc) == desk[d].pc = pc
Sets(d, state) == desk' = [desk EXCEPT ![d] = state]
Moves(d, pc) == desk' = [desk EXCEPT ![d].pc = pc]

(* The file is emptied if there is one.                                      *)
OpenBackup(d) ==
  /\ At(d, "idle") /\ Task
  /\ Sets(d, [AtEase EXCEPT !.pc = "open", !.name = clock])
  /\ files' = With(files, clock, Torn)
  /\ begun' = [begun EXCEPT ![clock] = @ + 1]
  /\ JournalRest /\ UNCHANGED <<rows, clock, gone, bared, overdue, failures>>

Shared(name) == begun[name] > 1

(* What two have written into one file may be neither's.                     *)
CloseBackup(d) ==
  LET name == desk[d].name IN
  /\ At(d, "open")
  /\ \E written \in {Whole(journal)} \cup (IF Shared(name) THEN {Torn} ELSE {}) :
       files' = IF name \in DOMAIN files THEN With(files, name, written) ELSE files
  /\ Moves(d, "closed")
  /\ HistoriesRest /\ JournalRest /\ UNCHANGED <<rows, clock, tasks, failures>>

(* Variant: the checksum is taken while the file is still open.              *)
SumsOpen(d) == At(d, "open")

SumsClosed(d) == At(d, "closed")

SumBackup(d) ==
  LET name == desk[d].name IN
  /\ SumsClosed(d)
  /\ Sets(d, IF name \in DOMAIN files THEN [desk[d] EXCEPT !.pc = "summed", !.sum = files[name]]
             ELSE AtEase)
  /\ HistoriesRest /\ JournalRest /\ UNCHANGED <<files, rows, clock, tasks, failures>>

RecordBackup(d) ==
  /\ At(d, "summed")
  /\ rows' = With(rows, NextId(rows), [name |-> desk[d].name, sum |-> desk[d].sum, at |-> clock])
  /\ Moves(d, "recorded")
  /\ HistoriesRest /\ JournalRest /\ UNCHANGED <<files, clock, tasks, failures>>

(* _rotate_backups: rows of one second come in any order.                    *)
Surplus(old) ==
  /\ Cardinality(old) + KeptBackups = Cardinality(DOMAIN rows)
  /\ \A r \in old, k \in DOMAIN rows \ old : rows[r].at <= rows[k].at

ListBackups(d) ==
  /\ At(d, "recorded")
  /\ IF Cardinality(DOMAIN rows) > KeptBackups
     THEN \E old \in SUBSET DOMAIN rows :
            Surplus(old) /\ Sets(d, [desk[d] EXCEPT !.pc = "rotate", !.todo = {<<r, rows[r].name>> : r \in old}])
     ELSE Sets(d, AtEase)
  /\ overdue' = FALSE
  /\ JournalRest /\ UNCHANGED <<files, rows, clock, gone, begun, bared, tasks, failures>>

(* A file that cannot be removed stays.                                      *)
Unlink(d) ==
  /\ At(d, "rotate")
  /\ \E old \in desk[d].todo :
       /\ Sets(d, [desk[d] EXCEPT !.todo = @ \ {old}, !.done = @ \cup {old}])
       /\ \/ files' = Without(files, {old[2]}) /\ UNCHANGED failures
          \/ old[2] \in DOMAIN files /\ Failure /\ UNCHANGED files
  /\ HistoriesRest /\ JournalRest /\ UNCHANGED <<rows, clock, tasks>>

DropRows(d) ==
  /\ At(d, "rotate") /\ desk[d].todo = {}
  /\ rows' = Without(rows, {old[1] : old \in desk[d].done})
  /\ Sets(d, AtEase)
  /\ HistoriesRest /\ JournalRest /\ UNCHANGED <<files, clock, tasks, failures>>

--------------------------------------------------------------------------------
(* restore_backup, import_entries                                            *)

(* The file is there, and its checksum that of the first row with its name.  *)
Accepted(name) ==
  /\ name \in DOMAIN files
  /\ LET named == {r \in DOMAIN rows : rows[r].name = name} IN
     named # {} => rows[Min(named)].sum = files[name]

BeginRestore(d, name) ==
  /\ At(d, "idle") /\ Task
  /\ Accepted(name)
  /\ Sets(d, [AtEase EXCEPT !.pc = "accepted", !.name = name])
  /\ HistoriesRest /\ JournalRest /\ UNCHANGED <<files, rows, clock, failures>>

(* The archive is read behind the checksum. A torn one raises.               *)
ReadBackup(d) ==
  LET name == desk[d].name IN
  /\ At(d, "accepted")
  /\ Sets(d, IF name \notin DOMAIN files \/ ~files[name].whole THEN AtEase
             ELSE [desk[d] EXCEPT !.pc = "restore", !.sum = files[name],
                                  !.todo = DOMAIN files[name].saved])
  /\ HistoriesRest /\ JournalRest /\ UNCHANGED <<files, rows, clock, tasks, failures>>

(* The rows of a CSV are not looked up.                                      *)
BeginImport(d) ==
  /\ At(d, "idle") /\ exported # << >> /\ Task
  /\ \E csv \in BOOLEAN :
       Sets(d, [AtEase EXCEPT !.pc = "import", !.sum = Whole(exported),
                              !.todo = IF csv THEN {} ELSE DOMAIN exported,
                              !.done = IF csv THEN DOMAIN exported ELSE {}])
  /\ HistoriesRest /\ JournalRest /\ UNCHANGED <<files, rows, clock, failures>>

(* Item by item: is the id taken? Nothing is written before the last.        *)
LookUp(d) ==
  /\ desk[d].pc \in {"restore", "import"}
  /\ \E id \in desk[d].todo :
       Sets(d, [desk[d] EXCEPT !.todo = @ \ {id},
                               !.done = IF id \in DOMAIN journal THEN @ ELSE @ \cup {id}])
  /\ HistoriesRest /\ JournalRest /\ UNCHANGED <<files, rows, clock, tasks, failures>>

(* The database refuses an id that has been taken since: nothing is stored.  *)
FreeToInsert(d) == desk[d].done \cap DOMAIN journal = {}

CommitRestore(d) ==
  LET saved == desk[d].sum.saved  missing == desk[d].done IN
  /\ At(d, "restore") /\ desk[d].todo = {}
  /\ IF FreeToInsert(d)
     THEN /\ journal' = [id \in DOMAIN journal \cup missing |->
                           IF id \in missing THEN saved[id] ELSE journal[id]]
          /\ gone' = gone \ {saved[id] : id \in missing}
     ELSE UNCHANGED <<journal, gone>>
  /\ Sets(d, AtEase)
  /\ UNCHANGED <<exported, births, files, rows, clock, begun, bared, overdue, tasks, failures>>

CommitImport(d) ==
  LET first == NextId(journal)  n == Cardinality(desk[d].done) IN
  /\ At(d, "import") /\ desk[d].todo = {}
  /\ births + n <= MaxBirths /\ births' = births + n
  /\ journal' = [id \in DOMAIN journal \cup first .. first + n - 1 |->
                   IF id < first THEN journal[id] ELSE births + 1 + id - first]
  /\ Sets(d, AtEase)
  /\ HistoriesRest /\ UNCHANGED <<exported, files, rows, clock, tasks, failures>>

--------------------------------------------------------------------------------
(* A request ends where it is, or all do. What a backup has removed by then  *)
(* still has its row.                                                        *)
Stop(stopped) ==
  /\ Failure
  /\ desk' = [d \in Desks |-> IF d \in stopped THEN AtEase ELSE desk[d]]
  /\ overdue' = (overdue \/ \E d \in stopped : desk[d].pc \in {"recorded", "rotate"})
  /\ bared' = bared \cup UNION {{old[2] : old \in desk[d].done} :
                                  d \in {e \in stopped : desk[e].pc = "rotate"}}
  /\ JournalRest /\ UNCHANGED <<files, rows, clock, gone, begun, tasks>>

RequestFails(d) == desk[d].pc # "idle" /\ Stop({d})
ArchiveRestarts == (\E d \in Desks : desk[d].pc # "idle") /\ Stop(Desks)

ArchiveNext ==
  \/ WriteEntry \/ Export \/ SecondPasses \/ ArchiveRestarts
  \/ \E id \in DOMAIN journal : EraseEntry(id)
  \/ \E d \in Desks :
       \/ OpenBackup(d) \/ CloseBackup(d) \/ SumBackup(d) \/ RecordBackup(d)
       \/ ListBackups(d) \/ Unlink(d) \/ DropRows(d)
       \/ ReadBackup(d) \/ BeginImport(d) \/ LookUp(d)
       \/ CommitRestore(d) \/ CommitImport(d) \/ RequestFails(d)
  \/ \E d \in Desks, name \in DOMAIN files : BeginRestore(d, name)

--------------------------------------------------------------------------------
Rotating(r) == \E d \in Desks : desk[d].pc = "rotate" /\ \E old \in desk[d].done : old[1] = r

(* A backup the table lists can be restored: its file is there, whole, and   *)
(* with the checksum of its row, whatever other backups and rotations did    *)
(* meanwhile; unless two backups were begun in one second, or its rotation   *)
(* was cut off between file and row. When none is under way, there are no    *)
(* more than max_backups, unless the last rotation was cut off. And an entry *)
(* nobody has deleted is still there: restoring writes over nothing that has *)
(* been stored since it looked.                                              *)
BackupsStayWhole ==
  /\ \A r \in DOMAIN rows :
       Shared(rows[r].name) \/ rows[r].name \in bared \/ Rotating(r)
       \/ /\ rows[r].name \in DOMAIN files
          /\ files[rows[r].name] = rows[r].sum /\ rows[r].sum.whole
  /\ (\A d \in Desks : desk[d].pc = "idle") /\ ~overdue =>
       Cardinality(DOMAIN rows) <= KeptBackups
  /\ \A b \in 1 .. births \ gone : \E id \in DOMAIN journal : journal[id] = b
================================================================================
