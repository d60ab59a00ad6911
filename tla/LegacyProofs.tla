----------------------------- MODULE LegacyProofs -----------------------------
(***************************************************************************)
(* What holds of the Legacy journal's entities, backups and jobs for every *)
(* number of sessions, workers, requests, texts and entries, every         *)
(* max_backups, and every number of failures and restarts.                 *)
(***************************************************************************)
EXTENDS LegacyJobs, LegacyEntities, LegacyArchive, TLAPS, FiniteSetTheorems

-----------------------------------------------------------------------------
(* Ids.                                                                    *)

(* Ids of a table: it has a largest one, if it has any.                    *)
Small(S) == \E n \in Nat : S \subseteq 1 .. n

(* A set of numbers that is not empty has a least one.                     *)
LEMMA Least ==
    ASSUME NEW S \in SUBSET Nat, S # {}
    PROVE  \E x \in S : \A y \in S : x <= y
<1>. DEFINE R == OpToRel(<, Nat)
<1>1. IsWellFoundedOn(R, Nat)
  BY NatLessThanWellFounded
<1>2. PICK x \in S : \A y \in S : ~ (<<y, x>> \in R)
  BY <1>1, WFMin, Zenon
<1>3. \A y \in S : ~ (y < x)
  BY <1>2 DEF OpToRel
<1>. QED
  BY <1>3

(* The largest id of a table is one of them, and no other is larger.       *)
LEMMA LargestIsOne ==
    ASSUME NEW S, Small(S), S # {}
    PROVE  Max(S) \in S /\ \A x \in S : x <= Max(S)
<1>1. PICK n \in Nat : S \subseteq 1 .. n
  BY DEF Small
<1>. DEFINE Above == {m \in Nat : \A x \in S : x <= m}
<1>2. PICK m \in Above : \A k \in Above : m <= k
  <2>1. n \in Above
    BY <1>1
  <2>2. Above \in SUBSET Nat
    OBVIOUS
  <2>. HIDE DEF Above
  <2>. QED
    BY <2>1, <2>2, Least
<1>3. m \in S
  <2>. SUFFICES ASSUME m \notin S PROVE FALSE
    OBVIOUS
  <2>1. PICK x \in S : x <= m /\ x # m /\ x \in 1 .. n
    BY <1>1
  <2>2. m - 1 \in Above
    BY <1>1, <2>1
  <2>. QED
    BY <1>2, <2>2
<1>4. m \in S /\ \A x \in S : m >= x
  BY <1>1, <1>3
<1>5. PICK l : l = Max(S)
  OBVIOUS
<1>6. l \in S /\ \A x \in S : l >= x
  BY <1>4, <1>5, Zenon DEF Max
<1>. QED
  BY <1>1, <1>5, <1>6

(* A new id is a number, and is larger than any that is taken.             *)
LEMMA NewIdIsFree ==
    ASSUME NEW table, Small(DOMAIN table)
    PROVE  /\ NextId(table) \in Nat \ {0}
           /\ NextId(table) \notin DOMAIN table
           /\ \A id \in DOMAIN table : id \in Nat \ {0} /\ id < NextId(table)
           /\ Small(DOMAIN table \cup {NextId(table)})
<1>1. PICK n \in Nat : DOMAIN table \subseteq 1 .. n
  BY DEF Small
<1>2. CASE DOMAIN table = {}
  BY <1>2 DEF NextId, Small
<1>3. CASE DOMAIN table # {}
  <2>. DEFINE top == Max(DOMAIN table)
  <2>1. top \in DOMAIN table /\ \A x \in DOMAIN table : x <= top
    BY <1>3, LargestIsOne
  <2>2. NextId(table) = top + 1
    BY <1>3 DEF NextId
  <2>. HIDE DEF top
  <2>3. DOMAIN table \cup {top + 1} \subseteq 1 .. top + 1 /\ top + 1 \in Nat
    BY <1>1, <2>1
  <2>. QED
    BY <1>1, <2>1, <2>2, <2>3 DEF Small
<1>. QED
  BY <1>2, <1>3

LEMMA SmallIsFinite ==
    ASSUME NEW S, Small(S)
    PROVE  IsFiniteSet(S) /\ Cardinality(S) \in Nat
<1>1. PICK n \in Nat : S \subseteq 1 .. n
  BY DEF Small
<1>2. IsFiniteSet(1 .. n)
  BY FS_Interval
<1>3. IsFiniteSet(S)
  BY <1>1, <1>2, FS_Subset
<1>. QED
  BY <1>3, FS_CardinalityType

LEMMA SmallUnion ==
    ASSUME NEW S, NEW T, Small(S), Small(T)
    PROVE  Small(S \cup T)
<1>1. PICK n \in Nat : S \subseteq 1 .. n
  BY DEF Small
<1>2. PICK m \in Nat : T \subseteq 1 .. m
  BY DEF Small
<1>3. S \cup T \subseteq 1 .. n + m /\ n + m \in Nat
  BY <1>1, <1>2
<1>. QED
  BY <1>3 DEF Small

LEMMA SmallPart ==
    ASSUME NEW S, Small(S), NEW T, T \subseteq S
    PROVE  Small(T)
BY DEF Small

LEMMA NothingIsSmall == Small({}) /\ DOMAIN << >> = {}
BY DEF Small

(* Fewer rows of a table that has an end are no more rows.                 *)
LEMMA FewerRows ==
    ASSUME NEW S, Small(S), NEW T, T \subseteq S, NEW n \in Nat, Cardinality(S) <= n
    PROVE  Cardinality(T) <= n
<1>1. IsFiniteSet(S) /\ Cardinality(S) \in Nat
  BY SmallIsFinite
<1>2. IsFiniteSet(T) /\ Cardinality(T) <= Cardinality(S)
  BY <1>1, FS_Subset
<1>3. Cardinality(T) \in Nat
  BY <1>2, FS_CardinalityType
<1>. QED
  BY <1>1, <1>2, <1>3

-----------------------------------------------------------------------------
(* Backups. A name stands for a second; what is written, listed or rotated *)
(* under it is told apart as long as one backup was begun in that second.  *)

Fields == {"pc", "name", "sum", "todo", "done"}

Seconds == 1 .. MaxSeconds

Writing == {"open", "closed", "summed"}

Writes(d, n) == desk[d].pc \in Writing /\ desk[d].name = n

(* The rows and files a rotation is about, and those it is through with.   *)
Surplussed(d) == IF desk[d].pc = "rotate" THEN desk[d].todo \cup desk[d].done ELSE {}
Unlinked(d) == IF desk[d].pc = "rotate" THEN desk[d].done ELSE {}

DesksAre ==
    /\ DOMAIN desk = Desks
    /\ \A d \in Desks : DOMAIN desk[d] = Fields
    /\ \A d \in Desks : desk[d].pc \in Writing \cup {"recorded"} => desk[d].done = {}
    /\ clock \in Seconds /\ begun \in [Seconds -> Nat]
    /\ births \in Nat /\ tasks \in Nat /\ failures \in Nat

(* Ids do not run away: there is a largest one wherever one is looked for. *)
IdsAre ==
    /\ Small(DOMAIN journal) /\ Small(DOMAIN exported) /\ Small(DOMAIN rows)
    /\ \A n \in DOMAIN files : Small(DOMAIN files[n].saved)
    /\ \A d \in Desks : desk[d].pc \in {"accepted", "restore", "import"} =>
         Small(desk[d].todo) /\ Small(desk[d].done)

NamesAre ==
    /\ \A r \in DOMAIN rows : rows[r].name \in Seconds
    /\ \A d \in Desks : desk[d].pc \in Writing => desk[d].name \in Seconds
    /\ \A d \in Desks : \A old \in Surplussed(d) : old[2] \in Seconds

Good(r) ==
    /\ rows[r].name \in DOMAIN files
    /\ files[rows[r].name] = rows[r].sum /\ rows[r].sum.whole

(* Nobody has ever recorded a backup of that name.                         *)
Unknown(n) ==
    /\ \A r \in DOMAIN rows : rows[r].name # n
    /\ \A d \in Desks : \A old \in Surplussed(d) : old[2] # n

(* How far the one backup of a second has come.                            *)
WriterIs(d, n) ==
    /\ Unknown(n)
    /\ n \in DOMAIN files
    /\ desk[d].pc # "open" => files[n].whole
    /\ desk[d].pc = "summed" => files[n] = desk[d].sum

AloneIs(n) ==
    /\ \A d, e \in Desks : Writes(d, n) /\ Writes(e, n) => d = e
    /\ \A d \in Desks : Writes(d, n) => WriterIs(d, n)
    /\ \A r, s \in DOMAIN rows : rows[r].name = n /\ rows[s].name = n => r = s
    /\ \A r \in DOMAIN rows : rows[r].name = n =>
         /\ \A d \in Desks : \A old \in Surplussed(d) : old[2] = n => old[1] = r
         /\ \/ n \in bared
            \/ \E d \in Desks : \E old \in Unlinked(d) : old[1] = r /\ old[2] = n
            \/ Good(r)

NameIs(n) ==
    /\ begun[n] = 0 => Unknown(n) /\ \A d \in Desks : ~Writes(d, n)
    /\ ~Shared(n) => AloneIs(n)

(* What rotations have still to bring down is no more than one of them is  *)
(* about, unless another is to come or one was cut off.                    *)
RotationIs ==
    \/ overdue
    \/ \E d \in Desks : desk[d].pc = "recorded"
    \/ Cardinality(DOMAIN rows) <= KeptBackups
    \/ \E d \in Desks :
         /\ desk[d].pc = "rotate"
         /\ Cardinality(DOMAIN rows \ {old[1] : old \in Surplussed(d)}) <= KeptBackups

EntriesAre == \A b \in 1 .. births \ gone : \E id \in DOMAIN journal : journal[id] = b

ArchiveInv ==
    /\ DesksAre
    /\ IdsAre
    /\ NamesAre
    /\ \A n \in Seconds : NameIs(n)
    /\ RotationIs
    /\ EntriesAre

-----------------------------------------------------------------------------
(* One request moves.                                                      *)
Steps(d, state) ==
    /\ DOMAIN desk' = Desks
    /\ desk'[d] = state
    /\ \A e \in Desks : e # d => desk'[e] = desk[e]

LEMMA SetsSteps ==
    ASSUME DesksAre, NEW d \in Desks, NEW state, Sets(d, state)
    PROVE  Steps(d, state)
BY DEF DesksAre, Sets, Steps

LEMMA MovesSteps ==
    ASSUME DesksAre, NEW d \in Desks, NEW pc, Moves(d, pc)
    PROVE  /\ Steps(d, [desk[d] EXCEPT !.pc = pc])
           /\ DOMAIN desk'[d] = Fields /\ desk'[d].pc = pc
           /\ desk'[d].name = desk[d].name /\ desk'[d].sum = desk[d].sum
           /\ desk'[d].todo = desk[d].todo /\ desk'[d].done = desk[d].done
BY DEF DesksAre, Moves, Steps, Fields

LEMMA AtEaseIs == DOMAIN AtEase = Fields /\ AtEase.pc = "idle"
BY DEF AtEase, Fields

(* What keeps a name as it is: its file stays, its row is not touched or   *)
(* goes, no request begins to write under it, and none forgets that it has *)
(* removed the file while there is a row.                                  *)
LEMMA NameStays ==
    ASSUME NEW n \in Seconds, NameIs(n), begun'[n] = begun[n], bared \subseteq bared',
           n \in DOMAIN files => n \in DOMAIN files' /\ files'[n] = files[n],
           \A r \in DOMAIN rows' : rows'[r].name = n => r \in DOMAIN rows /\ rows'[r] = rows[r],
           \A e \in Desks : Writes(e, n)' =>
             Writes(e, n) /\ desk'[e].pc = desk[e].pc /\ desk'[e].sum = desk[e].sum,
           \A e \in Desks : \A old \in Surplussed(e)' : old[2] = n => old \in Surplussed(e),
           \A e \in Desks : \A old \in Unlinked(e) :
             old[2] = n => old \in Unlinked(e)' \/ n \in bared' \/ old[1] \notin DOMAIN rows'
    PROVE  NameIs(n)'
<1>1. Unknown(n) => Unknown(n)'
  BY DEF Unknown
<1>2. ASSUME AloneIs(n) PROVE AloneIs(n)'
  <2>1. \A d, e \in Desks : Writes(d, n)' /\ Writes(e, n)' => d = e
    BY <1>2 DEF AloneIs
  <2>2. ASSUME NEW d \in Desks, Writes(d, n)' PROVE WriterIs(d, n)'
    <3>1. WriterIs(d, n)
      BY <1>2, <2>2 DEF AloneIs
    <3>. QED
      BY <1>1, <2>2, <3>1 DEF WriterIs
  <2>3. \A r, s \in DOMAIN rows' : rows'[r].name = n /\ rows'[s].name = n => r = s
    BY <1>2 DEF AloneIs
  <2>4. ASSUME NEW r \in DOMAIN rows', rows'[r].name = n
        PROVE  /\ \A d \in Desks : \A old \in Surplussed(d)' : old[2] = n => old[1] = r
               /\ \/ n \in bared'
                  \/ \E d \in Desks : \E old \in Unlinked(d)' : old[1] = r /\ old[2] = n
                  \/ Good(r)'
    <3>1. r \in DOMAIN rows /\ rows[r] = rows'[r]
      BY <2>4
    <3>2. \A d \in Desks : \A old \in Surplussed(d) : old[2] = n => old[1] = r
      BY <1>2, <2>4, <3>1 DEF AloneIs
    <3>3. \/ n \in bared
          \/ \E d \in Desks : \E old \in Unlinked(d) : old[1] = r /\ old[2] = n
          \/ Good(r)
      BY <1>2, <2>4, <3>1 DEF AloneIs
    <3>4. Good(r) => Good(r)'
      BY <2>4, <3>1 DEF Good
    <3>. QED
      BY <3>2, <3>3, <3>4
  <2>. QED
    BY <2>1, <2>2, <2>3, <2>4 DEF AloneIs
<1>. QED
  BY <1>1, <1>2 DEF NameIs, Shared

(* What a request is at does not matter to the backups where it neither    *)
(* writes nor rotates.                                                     *)
LEMMA NamesStay ==
    ASSUME ArchiveInv, UNCHANGED <<files, rows, begun, bared>>,
           \A d \in Desks : \/ desk'[d] = desk[d]
                            \/ /\ desk[d].pc \notin Writing \cup {"rotate"}
                               /\ desk'[d].pc \notin Writing \cup {"rotate"}
    PROVE  NamesAre' /\ \A n \in Seconds : NameIs(n)'
<1>1. \A d \in Desks : Surplussed(d)' = Surplussed(d) /\ Unlinked(d)' = Unlinked(d)
  BY DEF Surplussed, Unlinked
<1>2. NamesAre'
  BY <1>1 DEF ArchiveInv, NamesAre
<1>3. ASSUME NEW n \in Seconds PROVE NameIs(n)'
  <2>1. NameIs(n)
    BY DEF ArchiveInv
  <2>2. \A d \in Desks : Writes(d, n)' => desk'[d] = desk[d]
    BY DEF Writes
  <2>3. \A d \in Desks : Writes(d, n)' =>
          Writes(d, n) /\ desk'[d].pc = desk[d].pc /\ desk'[d].sum = desk[d].sum
    BY <2>2 DEF Writes
  <2>. QED
    BY <1>1, <2>1, <2>3, NameStays
<1>. QED
  BY <1>2, <1>3

LEMMA RotationStays ==
    ASSUME ArchiveInv, UNCHANGED <<rows, overdue>>,
           \A d \in Desks : \/ desk'[d] = desk[d]
                            \/ desk[d].pc \notin {"recorded", "rotate"}
    PROVE  RotationIs'
<1>1. \A d \in Desks : desk[d].pc = "rotate" => desk'[d].pc = "rotate" /\ Surplussed(d)' = Surplussed(d)
  BY DEF Surplussed
<1>. QED
  BY <1>1 DEF ArchiveInv, RotationIs

-----------------------------------------------------------------------------
(* The journal goes on.                                                    *)

LEMMA WriteEntryStep == ASSUME ArchiveInv, WriteEntry PROVE ArchiveInv'
<1>. USE DEF WriteEntry, HistoriesRest
<1>1. PICK new : new = NextId(journal)
  OBVIOUS
<1>2. /\ new \notin DOMAIN journal
      /\ Small(DOMAIN journal \cup {new})
  BY <1>1, NewIdIsFree DEF ArchiveInv, IdsAre
<1>3. /\ DOMAIN journal' = DOMAIN journal \cup {new}
      /\ journal'[new] = births + 1
      /\ \A id \in DOMAIN journal : journal'[id] = journal[id]
  BY <1>1, <1>2 DEF With
<1>4. DesksAre'
  BY DEF ArchiveInv, DesksAre
<1>5. IdsAre'
  BY <1>2, <1>3 DEF ArchiveInv, IdsAre
<1>6. NamesAre' /\ \A n \in Seconds : NameIs(n)'
  BY NamesStay
<1>7. RotationIs'
  BY RotationStays
<1>8. EntriesAre'
  <2>1. births \in Nat /\ births' = births + 1
    BY DEF ArchiveInv, DesksAre
  <2>. QED
    BY <1>3, <2>1 DEF ArchiveInv, EntriesAre
<1>. QED
  BY <1>4, <1>5, <1>6, <1>7, <1>8 DEF ArchiveInv

LEMMA EraseEntryStep ==
    ASSUME ArchiveInv, NEW id \in DOMAIN journal, EraseEntry(id)
    PROVE  ArchiveInv'
<1>. USE DEF EraseEntry
<1>1. /\ DOMAIN journal' = DOMAIN journal \ {id}
      /\ \A i \in DOMAIN journal' : journal'[i] = journal[i]
  BY DEF Without
<1>2. DesksAre'
  BY DEF ArchiveInv, DesksAre
<1>3. IdsAre'
  <2>1. Small(DOMAIN journal')
    BY <1>1, SmallPart DEF ArchiveInv, IdsAre
  <2>. QED
    BY <2>1 DEF ArchiveInv, IdsAre
<1>4. NamesAre' /\ \A n \in Seconds : NameIs(n)'
  BY NamesStay
<1>5. RotationIs'
  BY RotationStays
<1>6. EntriesAre'
  BY <1>1 DEF ArchiveInv, EntriesAre
<1>. QED
  BY <1>2, <1>3, <1>4, <1>5, <1>6 DEF ArchiveInv

LEMMA ExportStep == ASSUME ArchiveInv, Export PROVE ArchiveInv'
<1>. USE DEF Export, HistoriesRest
<1>1. DesksAre' /\ IdsAre' /\ EntriesAre'
  BY DEF ArchiveInv, DesksAre, IdsAre, EntriesAre
<1>2. NamesAre' /\ \A n \in Seconds : NameIs(n)'
  BY NamesStay
<1>3. RotationIs'
  BY RotationStays
<1>. QED
  BY <1>1, <1>2, <1>3 DEF ArchiveInv

LEMMA SecondPassesStep == ASSUME ArchiveInv, SecondPasses PROVE ArchiveInv'
<1>. USE DEF SecondPasses, HistoriesRest, JournalRest
<1>1. DesksAre'
  <2>1. clock' \in Seconds
    BY ArchiveAssumption DEF ArchiveAssumption, ArchiveInv, DesksAre, Seconds
  <2>. QED
    BY <2>1 DEF ArchiveInv, DesksAre
<1>2. IdsAre' /\ EntriesAre'
  BY DEF ArchiveInv, IdsAre, EntriesAre
<1>3. NamesAre' /\ \A n \in Seconds : NameIs(n)'
  BY NamesStay
<1>4. RotationIs'
  BY RotationStays
<1>. QED
  BY <1>1, <1>2, <1>3, <1>4 DEF ArchiveInv

-----------------------------------------------------------------------------
(* Restores and imports.                                                   *)

(* What all of their steps leave alone.                                    *)
LEMMA RestoringStays ==
    ASSUME ArchiveInv, NEW d \in Desks, NEW state, Steps(d, state),
           DOMAIN state = Fields,
           desk[d].pc \in {"idle", "accepted", "restore", "import"},
           state.pc \in {"idle", "accepted", "restore", "import"},
           state.pc \in {"accepted", "restore", "import"} => Small(state.todo) /\ Small(state.done),
           UNCHANGED <<exported, files, rows, clock, begun, bared, overdue>>,
           Small(DOMAIN journal'), births' \in Nat, tasks' \in Nat, failures' \in Nat
    PROVE  DesksAre' /\ IdsAre' /\ NamesAre' /\ (\A n \in Seconds : NameIs(n)') /\ RotationIs'
<1>1. DesksAre'
  BY DEF ArchiveInv, DesksAre, Steps, Writing
<1>2. IdsAre'
  BY DEF ArchiveInv, IdsAre, Steps
<1>3. \A e \in Desks : desk'[e] = desk[e] \/ e = d
  BY DEF Steps
<1>4. desk'[d] = state
  BY DEF Steps
<1>5. NamesAre' /\ \A n \in Seconds : NameIs(n)'
  BY <1>3, <1>4, NamesStay DEF Writing
<1>6. RotationIs'
  BY <1>3, <1>4, RotationStays
<1>. QED
  BY <1>1, <1>2, <1>5, <1>6

(* The same, where the journal rests as well.                              *)
LEMMA ReadingStays ==
    ASSUME ArchiveInv, NEW d \in Desks, NEW state, Steps(d, state),
           DOMAIN state = Fields,
           desk[d].pc \in {"idle", "accepted", "restore", "import"},
           state.pc \in {"idle", "accepted", "restore", "import"},
           state.pc \in {"accepted", "restore", "import"} => Small(state.todo) /\ Small(state.done),
           HistoriesRest, JournalRest, UNCHANGED <<files, rows, clock, failures>>, tasks' \in Nat
    PROVE  ArchiveInv'
<1>1. DesksAre' /\ IdsAre' /\ NamesAre' /\ (\A n \in Seconds : NameIs(n)') /\ RotationIs'
  BY RestoringStays DEF HistoriesRest, JournalRest, ArchiveInv, IdsAre, DesksAre
<1>2. EntriesAre'
  BY DEF ArchiveInv, EntriesAre, HistoriesRest, JournalRest
<1>. QED
  BY <1>1, <1>2 DEF ArchiveInv

LEMMA TaskIs == ASSUME DesksAre, Task PROVE tasks' \in Nat
BY DEF DesksAre, Task

LEMMA BeginRestoreStep ==
    ASSUME ArchiveInv, NEW d \in Desks, NEW name \in DOMAIN files, BeginRestore(d, name)
    PROVE  ArchiveInv'
<1>1. PICK state : state = [AtEase EXCEPT !.pc = "accepted", !.name = name]
  OBVIOUS
<1>2. /\ DOMAIN state = Fields /\ state.pc = "accepted"
      /\ state.todo = {} /\ state.done = {}
  BY <1>1 DEF AtEase, Fields
<1>3. Steps(d, state)
  BY <1>1, SetsSteps DEF BeginRestore, ArchiveInv
<1>. QED
  BY <1>2, <1>3, ReadingStays, TaskIs, NothingIsSmall DEF BeginRestore, ArchiveInv, At

LEMMA ReadBackupStep ==
    ASSUME ArchiveInv, NEW d \in Desks, ReadBackup(d)
    PROVE  ArchiveInv'
<1>. DEFINE name == desk[d].name
<1>1. PICK state : state = IF name \notin DOMAIN files \/ ~files[name].whole THEN AtEase
                           ELSE [desk[d] EXCEPT !.pc = "restore", !.sum = files[name],
                                                !.todo = DOMAIN files[name].saved]
  OBVIOUS
<1>2. Steps(d, state)
  BY <1>1, SetsSteps DEF ReadBackup, ArchiveInv
<1>3. DOMAIN state = Fields /\ state.pc \in {"idle", "restore"}
      /\ (state.pc = "restore" => Small(state.todo) /\ state.done = desk[d].done)
  <2>1. CASE name \notin DOMAIN files \/ ~files[name].whole
    BY <1>1, <2>1, AtEaseIs
  <2>2. CASE name \in DOMAIN files /\ files[name].whole
    <3>1. state = [desk[d] EXCEPT !.pc = "restore", !.sum = files[name],
                                  !.todo = DOMAIN files[name].saved]
      BY <1>1, <2>2
    <3>2. DOMAIN desk[d] = Fields
      BY DEF ArchiveInv, DesksAre
    <3>3. Small(DOMAIN files[name].saved)
      BY <2>2 DEF ArchiveInv, IdsAre
    <3>. QED
      BY <3>1, <3>2, <3>3 DEF Fields
  <2>. QED
    BY <2>1, <2>2
<1>4. desk[d].pc = "accepted" /\ Small(desk[d].done)
  BY DEF ReadBackup, At, ArchiveInv, IdsAre
<1>5. tasks' \in Nat
  BY DEF ReadBackup, ArchiveInv, DesksAre
<1>. QED
  BY <1>2, <1>3, <1>4, <1>5, ReadingStays DEF ReadBackup

LEMMA BeginImportStep ==
    ASSUME ArchiveInv, NEW d \in Desks, BeginImport(d)
    PROVE  ArchiveInv'
<1>1. PICK csv \in BOOLEAN :
        Sets(d, [AtEase EXCEPT !.pc = "import", !.sum = Whole(exported),
                               !.todo = IF csv THEN {} ELSE DOMAIN exported,
                               !.done = IF csv THEN DOMAIN exported ELSE {}])
  BY DEF BeginImport
<1>2. PICK state :
        state = [AtEase EXCEPT !.pc = "import", !.sum = Whole(exported),
                               !.todo = IF csv THEN {} ELSE DOMAIN exported,
                               !.done = IF csv THEN DOMAIN exported ELSE {}]
  OBVIOUS
<1>3. Steps(d, state)
  BY <1>1, <1>2, SetsSteps DEF ArchiveInv
<1>4. DOMAIN state = Fields /\ state.pc = "import"
      /\ state.todo = (IF csv THEN {} ELSE DOMAIN exported)
      /\ state.done = (IF csv THEN DOMAIN exported ELSE {})
  BY <1>2 DEF AtEase, Fields
<1>5. Small(state.todo) /\ Small(state.done)
  BY <1>4, NothingIsSmall DEF ArchiveInv, IdsAre
<1>. QED
  BY <1>3, <1>4, <1>5, ReadingStays, TaskIs DEF BeginImport, ArchiveInv, At

LEMMA LookUpStep ==
    ASSUME ArchiveInv, NEW d \in Desks, LookUp(d)
    PROVE  ArchiveInv'
<1>1. PICK id \in desk[d].todo :
        Sets(d, [desk[d] EXCEPT !.todo = @ \ {id},
                                !.done = IF id \in DOMAIN journal THEN @ ELSE @ \cup {id}])
  BY DEF LookUp
<1>2. PICK state :
        state = [desk[d] EXCEPT !.todo = @ \ {id},
                                !.done = IF id \in DOMAIN journal THEN @ ELSE @ \cup {id}]
  OBVIOUS
<1>3. Steps(d, state)
  BY <1>1, <1>2, SetsSteps DEF ArchiveInv
<1>4. /\ DOMAIN state = Fields /\ state.pc = desk[d].pc
      /\ state.todo \subseteq desk[d].todo
      /\ state.done \subseteq desk[d].todo \cup desk[d].done
  <2>1. DOMAIN desk[d] = Fields
    BY DEF ArchiveInv, DesksAre
  <2>. QED
    BY <1>2, <2>1 DEF Fields
<1>5. desk[d].pc \in {"restore", "import"} /\ Small(desk[d].todo) /\ Small(desk[d].done)
  BY DEF LookUp, ArchiveInv, IdsAre
<1>6. Small(state.todo) /\ Small(state.done)
  BY <1>4, <1>5, SmallPart, SmallUnion
<1>7. tasks' \in Nat
  BY DEF LookUp, ArchiveInv, DesksAre
<1>. QED
  BY <1>3, <1>4, <1>5, <1>6, <1>7, ReadingStays DEF LookUp

(* Nothing that is in the journal is written over.                         *)
LEMMA CommitRestoreStep ==
    ASSUME ArchiveInv, NEW d \in Desks, CommitRestore(d)
    PROVE  ArchiveInv'
<1>. DEFINE saved == desk[d].sum.saved
            missing == desk[d].done
<1>1. Steps(d, AtEase) /\ DOMAIN AtEase = Fields /\ AtEase.pc = "idle"
  BY SetsSteps, AtEaseIs DEF CommitRestore, ArchiveInv
<1>2. desk[d].pc = "restore" /\ Small(missing)
  BY DEF CommitRestore, At, ArchiveInv, IdsAre
<1>3. CASE FreeToInsert(d)
  <2>1. /\ missing \cap DOMAIN journal = {}
        /\ DOMAIN journal' = DOMAIN journal \cup missing
        /\ \A id \in missing : journal'[id] = saved[id]
        /\ \A id \in DOMAIN journal : journal'[id] = journal[id]
        /\ gone' = gone \ {saved[id] : id \in missing}
    BY <1>3 DEF CommitRestore, FreeToInsert
  <2>2. Small(DOMAIN journal')
    BY <1>2, <2>1, SmallUnion DEF ArchiveInv, IdsAre
  <2>3. DesksAre' /\ IdsAre' /\ NamesAre' /\ (\A n \in Seconds : NameIs(n)') /\ RotationIs'
    BY <1>1, <1>2, <2>2, RestoringStays DEF CommitRestore, ArchiveInv, DesksAre
  <2>4. ASSUME NEW b \in 1 .. births \ gone' PROVE \E id \in DOMAIN journal' : journal'[id] = b
    <3>1. CASE b \in gone
      <4>1. PICK id \in missing : b = saved[id]
        BY <2>1, <2>4, <3>1
      <4>. QED
        BY <2>1, <4>1
    <3>2. CASE b \notin gone
      <4>1. PICK id \in DOMAIN journal : journal[id] = b
        BY <2>4, <3>2 DEF ArchiveInv, EntriesAre
      <4>. QED
        BY <2>1, <4>1
    <3>. QED
      BY <3>1, <3>2
  <2>5. EntriesAre'
    BY <2>4 DEF CommitRestore, EntriesAre
  <2>. QED
    BY <2>3, <2>5 DEF ArchiveInv
<1>4. CASE ~FreeToInsert(d)
  <2>1. UNCHANGED <<journal, gone>>
    BY <1>4 DEF CommitRestore
  <2>. QED
    BY <1>1, <1>2, <2>1, ReadingStays
       DEF CommitRestore, HistoriesRest, JournalRest, ArchiveInv, DesksAre
<1>. QED
  BY <1>3, <1>4

LEMMA CommitImportStep ==
    ASSUME ArchiveInv, NEW d \in Desks, CommitImport(d)
    PROVE  ArchiveInv'
<1>1. Steps(d, AtEase) /\ DOMAIN AtEase = Fields /\ AtEase.pc = "idle"
  BY SetsSteps, AtEaseIs DEF CommitImport, ArchiveInv
<1>2. desk[d].pc = "import" /\ Small(desk[d].done)
  BY DEF CommitImport, At, ArchiveInv, IdsAre
<1>3. PICK n \in Nat : n = Cardinality(desk[d].done)
  BY <1>2, SmallIsFinite
<1>4. PICK first \in Nat \ {0} :
        /\ first = NextId(journal)
        /\ \A id \in DOMAIN journal : id \in Nat \ {0} /\ id < first
  BY NewIdIsFree DEF ArchiveInv, IdsAre
<1>5. /\ births' = births + n
      /\ journal' = [id \in DOMAIN journal \cup first .. first + n - 1 |->
                       IF id < first THEN journal[id] ELSE births + 1 + id - first]
  BY <1>3, <1>4 DEF CommitImport
<1>6. births \in Nat /\ births' \in Nat
  BY <1>5 DEF ArchiveInv, DesksAre
<1>7. Small(DOMAIN journal')
  <2>1. DOMAIN journal' \subseteq 1 .. first + n /\ first + n \in Nat
    BY <1>4, <1>5
  <2>. QED
    BY <2>1 DEF Small
<1>8. DesksAre' /\ IdsAre' /\ NamesAre' /\ (\A m \in Seconds : NameIs(m)') /\ RotationIs'
  BY <1>1, <1>2, <1>6, <1>7, RestoringStays
     DEF CommitImport, HistoriesRest, ArchiveInv, DesksAre
<1>9. ASSUME NEW b \in 1 .. births' \ gone PROVE \E id \in DOMAIN journal' : journal'[id] = b
  <2>1. CASE b <= births
    <3>1. PICK id \in DOMAIN journal : journal[id] = b
      BY <2>1, <1>6, <1>9 DEF ArchiveInv, EntriesAre
    <3>. QED
      BY <3>1, <1>4, <1>5
  <2>2. CASE b > births
    <3>1. PICK id \in Nat : id = first + (b - births) - 1
      BY <2>2, <1>4, <1>6
    <3>2. id \in first .. first + n - 1 /\ ~(id < first) /\ births + 1 + id - first = b
      BY <3>1, <2>2, <1>4, <1>5, <1>6
    <3>. QED
      BY <3>2, <1>5
  <2>. QED
    BY <2>1, <2>2, <1>6
<1>10. EntriesAre'
  BY <1>9 DEF CommitImport, HistoriesRest, EntriesAre
<1>. QED
  BY <1>8, <1>10 DEF ArchiveInv

-----------------------------------------------------------------------------
(* Backups.                                                                *)

BackupPlaces == Writing \cup {"recorded", "rotate"}

(* Numbers and ids in a step of a backup that changes no row.              *)
LEMMA BackupTypes ==
    ASSUME ArchiveInv, NEW d \in Desks, NEW state, Steps(d, state), DOMAIN state = Fields,
           state.pc \in BackupPlaces \cup {"idle"},
           state.pc \in Writing \cup {"recorded"} => state.done = {},
           begun' \in [Seconds -> Nat], tasks' \in Nat, failures' \in Nat,
           JournalRest, UNCHANGED <<clock, gone>>,
           Small(DOMAIN rows'), \A n \in DOMAIN files' : Small(DOMAIN files'[n].saved)
    PROVE  DesksAre' /\ IdsAre' /\ EntriesAre'
<1>1. DesksAre'
  BY DEF ArchiveInv, DesksAre, Steps, JournalRest
<1>2. IdsAre'
  BY DEF ArchiveInv, IdsAre, Steps, JournalRest, BackupPlaces, Writing
<1>3. EntriesAre'
  BY DEF ArchiveInv, EntriesAre, JournalRest
<1>. QED
  BY <1>1, <1>2, <1>3

LEMMA OpenBackupStep ==
    ASSUME ArchiveInv, NEW d \in Desks, OpenBackup(d)
    PROVE  ArchiveInv'
<1>1. PICK state : state = [AtEase EXCEPT !.pc = "open", !.name = clock]
  OBVIOUS
<1>2. DOMAIN state = Fields /\ state.pc = "open" /\ state.name = clock /\ state.done = {}
  BY <1>1 DEF AtEase, Fields
<1>3. Steps(d, state)
  BY <1>1, SetsSteps DEF OpenBackup, ArchiveInv
<1>4. /\ DOMAIN files' = DOMAIN files \cup {clock}
      /\ files'[clock] = Torn
      /\ \A n \in DOMAIN files : n # clock => files'[n] = files[n]
  BY DEF OpenBackup, With
<1>5. /\ clock \in Seconds /\ begun \in [Seconds -> Nat]
      /\ begun' = [begun EXCEPT ![clock] = @ + 1]
      /\ desk[d].pc = "idle"
  BY DEF OpenBackup, At, ArchiveInv, DesksAre
<1>6. DesksAre' /\ IdsAre' /\ EntriesAre'
  <2>1. \A n \in DOMAIN files' : Small(DOMAIN files'[n].saved)
    BY <1>4, NothingIsSmall DEF Torn, ArchiveInv, IdsAre
  <2>2. tasks' \in Nat
    BY TaskIs DEF OpenBackup, ArchiveInv
  <2>3. begun' \in [Seconds -> Nat]
    BY <1>5
  <2>. QED
    BY <1>2, <1>3, <2>1, <2>2, <2>3, BackupTypes
       DEF OpenBackup, BackupPlaces, Writing, ArchiveInv, IdsAre, DesksAre
<1>7. \A e \in Desks : Surplussed(e)' = Surplussed(e) /\ Unlinked(e)' = Unlinked(e)
  BY <1>2, <1>3, <1>5 DEF Steps, Surplussed, Unlinked
<1>8. NamesAre'
  BY <1>2, <1>3, <1>5, <1>7 DEF OpenBackup, Steps, ArchiveInv, NamesAre
<1>9. ASSUME NEW n \in Seconds PROVE NameIs(n)'
  <2>1. CASE n # clock
    <3>1. \A e \in Desks : Writes(e, n)' => Writes(e, n) /\ desk'[e] = desk[e]
      BY <2>1, <1>2, <1>3 DEF Steps, Writes
    <3>2. NameIs(n) /\ begun'[n] = begun[n]
      BY <2>1, <1>5 DEF ArchiveInv
    <3>3. UNCHANGED <<rows, bared>>
      BY DEF OpenBackup
    <3>4. n \in DOMAIN files => n \in DOMAIN files' /\ files'[n] = files[n]
      BY <2>1, <1>4
    <3>. QED
      BY <1>7, <3>1, <3>2, <3>3, <3>4, NameStays
  <2>2. CASE n = clock /\ begun[n] = 0
    <3>1. Unknown(n) /\ \A e \in Desks : ~Writes(e, n)
      BY <2>2 DEF ArchiveInv, NameIs
    <3>2. \A e \in Desks : Writes(e, n)' => e = d
      BY <3>1, <1>3 DEF Steps, Writes
    <3>3. Unknown(n)'
      BY <3>1, <1>7 DEF Unknown, OpenBackup
    <3>4. WriterIs(d, n)'
      BY <3>3, <2>2, <1>2, <1>3, <1>4 DEF WriterIs, Steps
    <3>5. AloneIs(n)'
      BY <3>2, <3>3, <3>4 DEF AloneIs, Unknown
    <3>6. begun'[n] # 0
      BY <2>2, <1>5
    <3>. QED
      BY <3>5, <3>6 DEF NameIs
  <2>3. CASE n = clock /\ begun[n] # 0
    <3>1. begun'[n] # 0 /\ begun'[n] > 1
      BY <2>3, <1>5
    <3>. QED
      BY <3>1 DEF NameIs, Shared
  <2>. QED
    BY <2>1, <2>2, <2>3
<1>10. RotationIs'
  BY <1>3, <1>5, RotationStays DEF OpenBackup, Steps
<1>. QED
  BY <1>6, <1>8, <1>9, <1>10 DEF ArchiveInv

(* A step of the one that writes: everything but its own name stays.       *)
LEMMA OthersKeepTheirNames ==
    ASSUME ArchiveInv, NEW d \in Desks, NEW state, Steps(d, state),
           NEW n \in Seconds, desk[d].name # n, state.name = desk[d].name \/ state = AtEase,
           desk[d].pc \in BackupPlaces \ {"rotate"}, state.pc # "rotate",
           UNCHANGED <<begun, bared>>,
           n \in DOMAIN files => n \in DOMAIN files' /\ files'[n] = files[n],
           \A r \in DOMAIN rows' : rows'[r].name = n => r \in DOMAIN rows /\ rows'[r] = rows[r]
    PROVE  NameIs(n)'
<1>1. \A e \in Desks : Surplussed(e)' = Surplussed(e) /\ Unlinked(e)' = Unlinked(e)
  BY DEF Steps, Surplussed, Unlinked
<1>2. \A e \in Desks : Writes(e, n)' => Writes(e, n) /\ desk'[e] = desk[e]
  BY AtEaseIs DEF Steps, Writes, Writing
<1>3. NameIs(n)
  BY DEF ArchiveInv
<1>. QED
  BY <1>1, <1>2, <1>3, NameStays

(* Where it writes alone, it has the file and there is no row.             *)
LEMMA WritesAlone ==
    ASSUME ArchiveInv, NEW d \in Desks, desk[d].pc \in Writing
    PROVE  /\ desk[d].name \in Seconds
           /\ begun[desk[d].name] # 0
           /\ ~Shared(desk[d].name) =>
                 /\ WriterIs(d, desk[d].name)
                 /\ \A e \in Desks : Writes(e, desk[d].name) => e = d
<1>1. PICK n \in Seconds : n = desk[d].name
  BY DEF ArchiveInv, NamesAre
<1>2. NameIs(n) /\ Writes(d, n)
  BY <1>1 DEF ArchiveInv, Writes
<1>. QED
  BY <1>1, <1>2 DEF NameIs, AloneIs

LEMMA CloseBackupStep ==
    ASSUME ArchiveInv, NEW d \in Desks, CloseBackup(d)
    PROVE  ArchiveInv'
<1>1. PICK m \in Seconds : m = desk[d].name
  BY WritesAlone DEF CloseBackup, At, Writing
<1>2. PICK written \in {Whole(journal)} \cup (IF Shared(m) THEN {Torn} ELSE {}) :
        files' = IF m \in DOMAIN files THEN With(files, m, written) ELSE files
  BY <1>1 DEF CloseBackup
<1>3. PICK state : state = [desk[d] EXCEPT !.pc = "closed"]
  OBVIOUS
<1>4. /\ Steps(d, state) /\ DOMAIN state = Fields /\ state.pc = "closed"
      /\ state.name = m /\ state.done = desk[d].done
  BY <1>1, <1>3, MovesSteps DEF CloseBackup, ArchiveInv, Steps
<1>5. desk[d].pc = "open" /\ desk[d].done = {} /\ begun[m] # 0
      /\ (~Shared(m) => WriterIs(d, m) /\ \A e \in Desks : Writes(e, m) => e = d)
  BY <1>1, WritesAlone DEF CloseBackup, At, Writing, ArchiveInv, DesksAre
<1>6. /\ DOMAIN files' = DOMAIN files
      /\ \A n \in DOMAIN files : n # m => files'[n] = files[n]
      /\ m \in DOMAIN files => files'[m] = written
  BY <1>2 DEF With
<1>7. UNCHANGED <<begun, bared, rows, overdue>>
  BY DEF CloseBackup, HistoriesRest
<1>8. DesksAre' /\ IdsAre' /\ EntriesAre'
  <2>1. Small(DOMAIN written.saved)
    BY NothingIsSmall DEF Whole, Torn, ArchiveInv, IdsAre
  <2>2. \A n \in DOMAIN files' : Small(DOMAIN files'[n].saved)
    BY <1>6, <2>1 DEF ArchiveInv, IdsAre
  <2>. QED
    BY <1>4, <1>5, <1>7, <2>2, BackupTypes
       DEF CloseBackup, BackupPlaces, Writing, ArchiveInv, IdsAre, DesksAre, HistoriesRest
<1>9. \A e \in Desks : Surplussed(e)' = Surplussed(e)
  BY <1>4, <1>5 DEF Steps, Surplussed
<1>10. NamesAre'
  BY <1>4, <1>7, <1>9 DEF Steps, ArchiveInv, NamesAre
<1>11. ASSUME NEW n \in Seconds PROVE NameIs(n)'
  <2>1. CASE n # m
    BY <2>1, <1>1, <1>4, <1>5, <1>6, <1>7, OthersKeepTheirNames DEF BackupPlaces, Writing
  <2>2. CASE n = m /\ Shared(n)
    BY <2>2, <1>5, <1>7 DEF NameIs, Shared
  <2>3. CASE n = m /\ ~Shared(n)
    <3>1. Unknown(n) /\ n \in DOMAIN files
      BY <2>3, <1>5 DEF WriterIs
    <3>2. Unknown(n)'
      BY <3>1, <1>7, <1>9 DEF Unknown
    <3>3. files'[n] = Whole(journal) /\ n \in DOMAIN files'
      BY <2>3, <3>1, <1>2, <1>6
    <3>4. WriterIs(d, n)'
      BY <3>2, <3>3, <1>4 DEF WriterIs, Steps, Whole
    <3>5. \A e \in Desks : Writes(e, n)' => e = d
      BY <2>3, <1>4, <1>5 DEF Writes, Steps
    <3>6. AloneIs(n)'
      BY <3>2, <3>4, <3>5 DEF AloneIs, Unknown
    <3>. QED
      BY <2>3, <3>6, <1>5, <1>7 DEF NameIs
  <2>. QED
    BY <2>1, <2>2, <2>3
<1>12. RotationIs'
  BY <1>4, <1>5, <1>7, RotationStays DEF Steps
<1>. QED
  BY <1>8, <1>10, <1>11, <1>12 DEF ArchiveInv

LEMMA SumBackupStep ==
    ASSUME ArchiveInv, NEW d \in Desks, SumBackup(d)
    PROVE  ArchiveInv'
<1>1. PICK m \in Seconds : m = desk[d].name
  BY WritesAlone DEF SumBackup, SumsClosed, At, Writing
<1>2. PICK state : state = IF m \in DOMAIN files
                           THEN [desk[d] EXCEPT !.pc = "summed", !.sum = files[m]] ELSE AtEase
  OBVIOUS
<1>3. Steps(d, state)
  BY <1>1, <1>2, SetsSteps DEF SumBackup, ArchiveInv
<1>4. desk[d].pc = "closed" /\ desk[d].done = {} /\ begun[m] # 0 /\ DOMAIN desk[d] = Fields
      /\ (~Shared(m) => WriterIs(d, m) /\ \A e \in Desks : Writes(e, m) => e = d)
  BY <1>1, WritesAlone DEF SumBackup, SumsClosed, At, Writing, ArchiveInv, DesksAre
<1>5. /\ DOMAIN state = Fields
      /\ \/ m \notin DOMAIN files /\ state = AtEase /\ state.pc = "idle"
         \/ /\ m \in DOMAIN files /\ state.pc = "summed" /\ state.sum = files[m]
            /\ state.name = m /\ state.done = {}
  BY <1>1, <1>2, <1>4, AtEaseIs DEF Fields
<1>6. UNCHANGED <<begun, bared, rows, overdue, files>>
  BY DEF SumBackup, HistoriesRest
<1>7. DesksAre' /\ IdsAre' /\ EntriesAre'
  BY <1>3, <1>5, <1>6, BackupTypes
     DEF SumBackup, BackupPlaces, Writing, ArchiveInv, IdsAre, DesksAre, HistoriesRest
<1>8. \A e \in Desks : Surplussed(e)' = Surplussed(e)
  BY <1>3, <1>4, <1>5 DEF Steps, Surplussed
<1>9. NamesAre'
  BY <1>3, <1>5, <1>6, <1>8 DEF Steps, ArchiveInv, NamesAre, Writing
<1>10. ASSUME NEW n \in Seconds PROVE NameIs(n)'
  <2>1. CASE n # m
    BY <2>1, <1>1, <1>3, <1>4, <1>5, <1>6, OthersKeepTheirNames DEF BackupPlaces, Writing
  <2>2. CASE n = m /\ Shared(n)
    BY <2>2, <1>4, <1>6 DEF NameIs, Shared
  <2>3. CASE n = m /\ ~Shared(n)
    <3>1. Unknown(n) /\ n \in DOMAIN files /\ files[n].whole
      BY <2>3, <1>4 DEF WriterIs
    <3>2. Unknown(n)'
      BY <3>1, <1>6, <1>8 DEF Unknown
    <3>3. WriterIs(d, n)'
      BY <2>3, <3>1, <3>2, <1>3, <1>5, <1>6 DEF WriterIs, Steps
    <3>4. \A e \in Desks : Writes(e, n)' => e = d
      BY <2>3, <1>3, <1>4 DEF Writes, Steps
    <3>5. AloneIs(n)'
      BY <3>2, <3>3, <3>4 DEF AloneIs, Unknown
    <3>. QED
      BY <2>3, <3>5, <1>4, <1>6 DEF NameIs
  <2>. QED
    BY <2>1, <2>2, <2>3
<1>11. RotationIs'
  BY <1>3, <1>4, <1>6, RotationStays DEF Steps
<1>. QED
  BY <1>7, <1>9, <1>10, <1>11 DEF ArchiveInv

(* The first and only row of its name, if nobody else wrote under it.      *)
LEMMA RecordBackupStep ==
    ASSUME ArchiveInv, NEW d \in Desks, RecordBackup(d)
    PROVE  ArchiveInv'
<1>1. PICK m \in Seconds : m = desk[d].name
  BY WritesAlone DEF RecordBackup, At, Writing
<1>2. PICK state : state = [desk[d] EXCEPT !.pc = "recorded"]
  OBVIOUS
<1>3. /\ Steps(d, state) /\ DOMAIN state = Fields /\ state.pc = "recorded"
      /\ state.name = m /\ state.done = desk[d].done
  BY <1>1, <1>2, MovesSteps DEF RecordBackup, ArchiveInv, Steps
<1>4. desk[d].pc = "summed" /\ desk[d].done = {} /\ begun[m] # 0
      /\ (~Shared(m) => WriterIs(d, m) /\ \A e \in Desks : Writes(e, m) => e = d)
  BY <1>1, WritesAlone DEF RecordBackup, At, Writing, ArchiveInv, DesksAre
<1>5. PICK id : id = NextId(rows)
  OBVIOUS
<1>6. PICK row : row = [name |-> m, sum |-> desk[d].sum, at |-> clock]
  OBVIOUS
<1>7. row.name = m /\ row.sum = desk[d].sum
  BY <1>6
<1>8. /\ DOMAIN rows' = DOMAIN rows \cup {id}
      /\ rows'[id] = row
      /\ \A r \in DOMAIN rows : r # id => rows'[r] = rows[r]
  BY <1>1, <1>5, <1>6 DEF RecordBackup, With
<1>9. UNCHANGED <<begun, bared, files, overdue>>
  BY DEF RecordBackup, HistoriesRest
<1>10. DesksAre' /\ IdsAre' /\ EntriesAre'
  <2>1. Small(DOMAIN rows')
    BY <1>5, <1>8, NewIdIsFree DEF ArchiveInv, IdsAre
  <2>. QED
    BY <1>3, <1>4, <1>9, <2>1, BackupTypes
       DEF RecordBackup, BackupPlaces, ArchiveInv, IdsAre, DesksAre, HistoriesRest
<1>11. \A e \in Desks : Surplussed(e)' = Surplussed(e)
  BY <1>3, <1>4 DEF Steps, Surplussed
<1>12. NamesAre'
  BY <1>3, <1>7, <1>8, <1>11 DEF Steps, ArchiveInv, NamesAre, Writing
<1>13. ASSUME NEW n \in Seconds PROVE NameIs(n)'
  <2>1. CASE n # m
    BY <2>1, <1>1, <1>3, <1>4, <1>7, <1>8, <1>9, OthersKeepTheirNames DEF BackupPlaces, Writing
  <2>2. CASE n = m /\ Shared(n)
    BY <2>2, <1>4, <1>9 DEF NameIs, Shared
  <2>3. CASE n = m /\ ~Shared(n)
    <3>1. /\ Unknown(n) /\ n \in DOMAIN files
          /\ files[n].whole /\ files[n] = desk[d].sum
      BY <2>3, <1>4 DEF WriterIs
    <3>2. \A e \in Desks : ~Writes(e, n)'
      BY <2>3, <1>3, <1>4 DEF Writes, Steps, Writing
    <3>3. \A r \in DOMAIN rows' : rows'[r].name = n => r = id
      BY <3>1, <1>8 DEF Unknown
    <3>4. \A e \in Desks : \A old \in Surplussed(e)' : old[2] # n
      BY <3>1, <1>11 DEF Unknown
    <3>5. Good(id)'
      BY <2>3, <3>1, <1>7, <1>8, <1>9 DEF Good
    <3>6. AloneIs(n)'
      BY <3>2, <3>3, <3>4, <3>5 DEF AloneIs
    <3>. QED
      BY <2>3, <3>6, <1>4, <1>9 DEF NameIs
  <2>. QED
    BY <2>1, <2>2, <2>3
<1>14. RotationIs'
  BY <1>3 DEF Steps, RotationIs
<1>. QED
  BY <1>10, <1>12, <1>13, <1>14 DEF ArchiveInv

-----------------------------------------------------------------------------
(* Rotations.                                                              *)

LEMMA ListBackupsStep ==
    ASSUME ArchiveInv, NEW d \in Desks, ListBackups(d)
    PROVE  ArchiveInv'
<1>1. /\ desk[d].pc = "recorded" /\ desk[d].done = {} /\ DOMAIN desk[d] = Fields
      /\ Small(DOMAIN rows) /\ KeptBackups \in Nat
  BY ArchiveAssumption DEF ArchiveAssumption, ListBackups, At, ArchiveInv, DesksAre, IdsAre
<1>2. UNCHANGED <<begun, bared, files, rows>> /\ overdue' = FALSE
  BY DEF ListBackups
<1>3. CASE Cardinality(DOMAIN rows) > KeptBackups
  <2>1. PICK old \in SUBSET DOMAIN rows :
          /\ Surplus(old)
          /\ Sets(d, [desk[d] EXCEPT !.pc = "rotate", !.todo = {<<r, rows[r].name>> : r \in old}])
    BY <1>3 DEF ListBackups
  <2>2. PICK pairs : pairs = {<<r, rows[r].name>> : r \in old}
    OBVIOUS
  <2>3. /\ \A p \in pairs : p[1] \in old /\ p[2] = rows[p[1]].name
        /\ {p[1] : p \in pairs} = old
    <3>1. \A p \in pairs : p[1] \in old /\ p[2] = rows[p[1]].name
      BY <2>2
    <3>2. \A r \in old : <<r, rows[r].name>> \in pairs /\ <<r, rows[r].name>>[1] = r
      BY <2>2
    <3>. QED
      BY <3>1, <3>2
  <2>4. PICK state : state = [desk[d] EXCEPT !.pc = "rotate", !.todo = pairs]
    OBVIOUS
  <2>5. /\ Steps(d, state) /\ DOMAIN state = Fields /\ state.pc = "rotate"
        /\ state.todo = pairs /\ state.done = {}
    BY <1>1, <2>1, <2>2, <2>4, SetsSteps DEF ArchiveInv, Fields
  <2>6. /\ Surplussed(d)' = pairs /\ Unlinked(d)' = {} /\ Unlinked(d) = {} /\ Surplussed(d) = {}
        /\ \A e \in Desks : e # d => Surplussed(e)' = Surplussed(e) /\ Unlinked(e)' = Unlinked(e)
    BY <1>1, <2>5 DEF Steps, Surplussed, Unlinked
  <2>7. DesksAre' /\ IdsAre' /\ EntriesAre'
    BY <1>1, <1>2, <2>5, BackupTypes
       DEF ListBackups, BackupPlaces, Writing, ArchiveInv, IdsAre, DesksAre
  <2>8. NamesAre'
    BY <1>2, <2>3, <2>5, <2>6 DEF Steps, ArchiveInv, NamesAre, Writing
  <2>9. ASSUME NEW n \in Seconds PROVE NameIs(n)'
    <3>1. NameIs(n)
      BY DEF ArchiveInv
    <3>2. \A e \in Desks : Writes(e, n)' => Writes(e, n) /\ desk'[e] = desk[e]
      BY <2>5 DEF Steps, Writes, Writing
    <3>3. Unknown(n) => Unknown(n)'
      BY <1>2, <2>3, <2>6 DEF Unknown
    <3>4. ASSUME AloneIs(n) PROVE AloneIs(n)'
      <4>1. \A e \in Desks : Writes(e, n)' => WriterIs(e, n)'
        BY <1>2, <3>2, <3>3, <3>4 DEF AloneIs, WriterIs
      <4>2. ASSUME NEW r \in DOMAIN rows', rows'[r].name = n
            PROVE  /\ \A e \in Desks : \A p \in Surplussed(e)' : p[2] = n => p[1] = r
                   /\ \/ n \in bared'
                      \/ \E e \in Desks : \E p \in Unlinked(e)' : p[1] = r /\ p[2] = n
                      \/ Good(r)'
        <5>1. r \in DOMAIN rows /\ rows[r].name = n
          BY <4>2, <1>2
        <5>2. \A p \in pairs : p[2] = n => p[1] = r
          BY <5>1, <2>3, <3>4 DEF AloneIs
        <5>3. /\ \A e \in Desks : \A p \in Surplussed(e) : p[2] = n => p[1] = r
              /\ \/ n \in bared
                 \/ \E e \in Desks : \E p \in Unlinked(e) : p[1] = r /\ p[2] = n
                 \/ Good(r)
          BY <5>1, <3>4 DEF AloneIs
        <5>4. Good(r) => Good(r)'
          BY <1>2 DEF Good
        <5>5. \A e \in Desks : \A p \in Surplussed(e)' : p[2] = n => p[1] = r
          BY <5>2, <5>3, <2>6
        <5>6. (\E e \in Desks : \E p \in Unlinked(e) : p[1] = r /\ p[2] = n)
                => \E e \in Desks : \E p \in Unlinked(e)' : p[1] = r /\ p[2] = n
          BY <2>6
        <5>. QED
          BY <5>3, <5>4, <5>5, <5>6, <1>2
      <4>3. \A e, f \in Desks : Writes(e, n)' /\ Writes(f, n)' => e = f
        BY <3>2, <3>4 DEF AloneIs
      <4>4. \A r, s \in DOMAIN rows' : rows'[r].name = n /\ rows'[s].name = n => r = s
        BY <1>2, <3>4 DEF AloneIs
      <4>. QED
        BY <4>1, <4>2, <4>3, <4>4 DEF AloneIs
    <3>. QED
      BY <1>2, <3>1, <3>2, <3>3, <3>4 DEF NameIs, Shared
  <2>10. RotationIs'
    <3>1. IsFiniteSet(DOMAIN rows) /\ Cardinality(DOMAIN rows) \in Nat
      BY <1>1, SmallIsFinite
    <3>2. DOMAIN rows \cap old = old
      OBVIOUS
    <3>3. Cardinality(DOMAIN rows \ old) = Cardinality(DOMAIN rows) - Cardinality(old)
      BY <3>1, <3>2, FS_Difference
    <3>4. IsFiniteSet(old) /\ Cardinality(old) \in Nat
      BY <3>1, FS_Subset, FS_CardinalityType
    <3>5. Cardinality(DOMAIN rows \ old) = KeptBackups
      BY <1>1, <2>1, <3>1, <3>3, <3>4 DEF Surplus
    <3>6. {p[1] : p \in Surplussed(d)'} = old
      BY <2>3, <2>6
    <3>7. Cardinality(DOMAIN rows' \ {p[1] : p \in Surplussed(d)'}) <= KeptBackups
      BY <1>1, <1>2, <3>5, <3>6
    <3>8. desk'[d].pc = "rotate"
      BY <2>5 DEF Steps
    <3>. QED
      BY <3>7, <3>8 DEF RotationIs
  <2>. QED
    BY <2>7, <2>8, <2>9, <2>10 DEF ArchiveInv
<1>4. CASE ~(Cardinality(DOMAIN rows) > KeptBackups)
  <2>1. Steps(d, AtEase) /\ DOMAIN AtEase = Fields /\ AtEase.pc = "idle"
    BY <1>4, AtEaseIs, SetsSteps DEF ListBackups, ArchiveInv
  <2>2. DesksAre' /\ IdsAre' /\ EntriesAre'
    BY <1>1, <1>2, <2>1, BackupTypes
       DEF ListBackups, BackupPlaces, Writing, ArchiveInv, IdsAre, DesksAre
  <2>3. NamesAre' /\ \A n \in Seconds : NameIs(n)'
    BY <1>1, <1>2, <2>1, NamesStay DEF Steps, Writing
  <2>4. Cardinality(DOMAIN rows) \in Nat
    BY <1>1, SmallIsFinite
  <2>5. RotationIs'
    BY <1>1, <1>2, <1>4, <2>4 DEF RotationIs
  <2>. QED
    BY <2>2, <2>3, <2>5 DEF ArchiveInv
<1>. QED
  BY <1>3, <1>4

(* The file of a listed backup goes, and the rotation knows it.            *)
LEMMA UnlinkStep ==
    ASSUME ArchiveInv, NEW d \in Desks, Unlink(d)
    PROVE  ArchiveInv'
<1>1. PICK old \in desk[d].todo :
        /\ Sets(d, [desk[d] EXCEPT !.todo = @ \ {old}, !.done = @ \cup {old}])
        /\ \/ files' = Without(files, {old[2]}) /\ UNCHANGED failures
           \/ old[2] \in DOMAIN files /\ Failure /\ UNCHANGED files
  BY DEF Unlink
<1>2. PICK state : state = [desk[d] EXCEPT !.todo = @ \ {old}, !.done = @ \cup {old}]
  OBVIOUS
<1>3. desk[d].pc = "rotate" /\ DOMAIN desk[d] = Fields
  BY DEF Unlink, At, ArchiveInv, DesksAre
<1>4. /\ Steps(d, state) /\ DOMAIN state = Fields /\ state.pc = "rotate"
      /\ state.todo = desk[d].todo \ {old} /\ state.done = desk[d].done \cup {old}
  BY <1>1, <1>2, <1>3, SetsSteps DEF ArchiveInv, Fields
<1>5. UNCHANGED <<begun, bared, rows, overdue>>
  BY DEF Unlink, HistoriesRest
<1>6. /\ DOMAIN files' \subseteq DOMAIN files
      /\ \A n \in DOMAIN files : n # old[2] => n \in DOMAIN files'
      /\ \A n \in DOMAIN files' : files'[n] = files[n]
  BY <1>1 DEF Without
<1>7. /\ Surplussed(d)' = Surplussed(d) /\ old \in Surplussed(d) /\ old \in Unlinked(d)'
      /\ Unlinked(d) \subseteq Unlinked(d)'
      /\ \A e \in Desks : e # d => Surplussed(e)' = Surplussed(e) /\ Unlinked(e)' = Unlinked(e)
  BY <1>3, <1>4 DEF Steps, Surplussed, Unlinked
<1>8. DesksAre' /\ IdsAre' /\ EntriesAre'
  <2>1. failures' \in Nat
    BY <1>1 DEF Failure, ArchiveInv, DesksAre
  <2>2. \A n \in DOMAIN files' : Small(DOMAIN files'[n].saved)
    BY <1>6 DEF ArchiveInv, IdsAre
  <2>. QED
    BY <1>4, <1>5, <2>1, <2>2, BackupTypes
       DEF Unlink, BackupPlaces, Writing, ArchiveInv, IdsAre, DesksAre, HistoriesRest
<1>9. NamesAre'
  BY <1>3, <1>4, <1>5, <1>7 DEF Steps, ArchiveInv, NamesAre, Writing
<1>10. ASSUME NEW n \in Seconds PROVE NameIs(n)'
  <2>1. NameIs(n)
    BY DEF ArchiveInv
  <2>2. \A e \in Desks : Writes(e, n)' => Writes(e, n) /\ desk'[e] = desk[e]
    BY <1>4 DEF Steps, Writes, Writing
  <2>3. CASE n # old[2]
    <3>1. n \in DOMAIN files => n \in DOMAIN files' /\ files'[n] = files[n]
      BY <2>3, <1>6
    <3>2. \A e \in Desks : Surplussed(e)' = Surplussed(e) /\ Unlinked(e) \subseteq Unlinked(e)'
      BY <1>7
    <3>. QED
      BY <2>1, <2>2, <3>1, <3>2, <1>5, NameStays
  <2>4. CASE n = old[2]
    <3>1. ~Unknown(n) /\ begun[n] # 0
      BY <2>1, <2>4, <1>7 DEF Unknown, NameIs
    <3>2. ASSUME AloneIs(n) PROVE AloneIs(n)'
      <4>1. \A e \in Desks : ~Writes(e, n)'
        BY <2>2, <3>1, <3>2 DEF AloneIs, WriterIs
      <4>2. ASSUME NEW r \in DOMAIN rows', rows'[r].name = n
            PROVE  /\ \A e \in Desks : \A p \in Surplussed(e)' : p[2] = n => p[1] = r
                   /\ \E e \in Desks : \E p \in Unlinked(e)' : p[1] = r /\ p[2] = n
        <5>1. \A e \in Desks : \A p \in Surplussed(e) : p[2] = n => p[1] = r
          BY <3>2, <4>2, <1>5 DEF AloneIs
        <5>2. \A e \in Desks : Surplussed(e)' = Surplussed(e)
          BY <1>7
        <5>3. old[1] = r
          BY <5>1, <2>4, <1>7
        <5>. QED
          BY <5>1, <5>2, <5>3, <2>4, <1>7
      <4>3. \A r, s \in DOMAIN rows' : rows'[r].name = n /\ rows'[s].name = n => r = s
        BY <1>5, <3>2 DEF AloneIs
      <4>. QED
        BY <4>1, <4>2, <4>3 DEF AloneIs
    <3>. QED
      BY <1>5, <2>1, <3>1, <3>2 DEF NameIs, Shared
  <2>. QED
    BY <2>3, <2>4
<1>11. RotationIs'
  <2>1. \A e \in Desks : desk'[e].pc = desk[e].pc /\ Surplussed(e)' = Surplussed(e)
    BY <1>3, <1>4, <1>7 DEF Steps
  <2>. QED
    BY <2>1, <1>5 DEF ArchiveInv, RotationIs
<1>. QED
  BY <1>8, <1>9, <1>10, <1>11 DEF ArchiveInv

LEMMA DropRowsStep ==
    ASSUME ArchiveInv, NEW d \in Desks, DropRows(d)
    PROVE  ArchiveInv'
<1>1. desk[d].pc = "rotate" /\ desk[d].todo = {} /\ Small(DOMAIN rows) /\ KeptBackups \in Nat
  BY ArchiveAssumption DEF ArchiveAssumption, DropRows, At, ArchiveInv, IdsAre
<1>2. Steps(d, AtEase) /\ DOMAIN AtEase = Fields /\ AtEase.pc = "idle"
  BY AtEaseIs, SetsSteps DEF DropRows, ArchiveInv
<1>3. PICK ids : ids = {old[1] : old \in desk[d].done}
  OBVIOUS
<1>4. /\ DOMAIN rows' = DOMAIN rows \ ids
      /\ \A r \in DOMAIN rows' : rows'[r] = rows[r]
  BY <1>3 DEF DropRows, Without
<1>5. UNCHANGED <<begun, bared, files, overdue>>
  BY DEF DropRows, HistoriesRest
<1>6. /\ Surplussed(d) = desk[d].done /\ Unlinked(d) = desk[d].done
      /\ Surplussed(d)' = {} /\ Unlinked(d)' = {}
      /\ \A e \in Desks : e # d => Surplussed(e)' = Surplussed(e) /\ Unlinked(e)' = Unlinked(e)
  BY <1>1, <1>2 DEF Steps, Surplussed, Unlinked
<1>7. Small(DOMAIN rows')
  BY <1>1, <1>4, SmallPart
<1>8. DesksAre' /\ IdsAre' /\ EntriesAre'
  BY <1>2, <1>5, <1>7, BackupTypes
     DEF DropRows, BackupPlaces, Writing, ArchiveInv, IdsAre, DesksAre, HistoriesRest
<1>9. NamesAre'
  BY <1>2, <1>4, <1>5, <1>6 DEF Steps, ArchiveInv, NamesAre, Writing
<1>10. ASSUME NEW n \in Seconds PROVE NameIs(n)'
  <2>1. NameIs(n)
    BY DEF ArchiveInv
  <2>2. \A e \in Desks : Writes(e, n)' => Writes(e, n) /\ desk'[e] = desk[e]
    BY <1>2 DEF Steps, Writes, Writing
  <2>3. \A e \in Desks : \A old \in Surplussed(e)' : old \in Surplussed(e)
    BY <1>6
  <2>4. \A e \in Desks : \A old \in Unlinked(e) : old \in Unlinked(e)' \/ old[1] \notin DOMAIN rows'
    BY <1>3, <1>4, <1>6
  <2>. QED
    BY <2>1, <2>2, <2>3, <2>4, <1>4, <1>5, NameStays
<1>11. RotationIs'
  <2>1. CASE overdue
    BY <2>1, <1>5 DEF RotationIs
  <2>2. CASE \E e \in Desks : desk[e].pc = "recorded"
    BY <2>2, <1>1, <1>2 DEF Steps, RotationIs
  <2>3. CASE Cardinality(DOMAIN rows) <= KeptBackups
    <3>1. Cardinality(DOMAIN rows') <= KeptBackups
      BY <2>3, <1>1, <1>4, FewerRows
    <3>. QED
      BY <3>1 DEF RotationIs
  <2>4. ASSUME NEW e \in Desks, desk[e].pc = "rotate",
               Cardinality(DOMAIN rows \ {old[1] : old \in Surplussed(e)}) <= KeptBackups
        PROVE  RotationIs'
    <3>1. CASE e = d
      <4>1. DOMAIN rows' = DOMAIN rows \ {old[1] : old \in Surplussed(e)}
        BY <3>1, <1>3, <1>4, <1>6
      <4>. QED
        BY <4>1, <2>4 DEF RotationIs
    <3>2. CASE e # d
      <4>1. desk'[e].pc = "rotate" /\ Surplussed(e)' = Surplussed(e)
        BY <2>4, <3>2, <1>2, <1>6 DEF Steps
      <4>2. PICK theirs : theirs = {old[1] : old \in Surplussed(e)}
        OBVIOUS
      <4>3. /\ Small(DOMAIN rows \ theirs) /\ Cardinality(DOMAIN rows \ theirs) <= KeptBackups
            /\ DOMAIN rows' \ theirs \subseteq DOMAIN rows \ theirs
        BY <4>2, <2>4, <1>1, <1>4, SmallPart
      <4>4. Cardinality(DOMAIN rows' \ theirs) <= KeptBackups
        BY <4>3, <1>1, FewerRows
      <4>. QED
        BY <4>1, <4>2, <4>4 DEF RotationIs
    <3>. QED
      BY <3>1, <3>2
  <2>. QED
    BY <2>1, <2>2, <2>3, <2>4 DEF ArchiveInv, RotationIs
<1>. QED
  BY <1>8, <1>9, <1>10, <1>11 DEF ArchiveInv

(* What a rotation has unlinked before it is cut off is remembered.        *)
LEMMA StopStep ==
    ASSUME ArchiveInv, NEW stopped \in SUBSET Desks, Stop(stopped)
    PROVE  ArchiveInv'
<1>1. /\ DOMAIN desk' = Desks
      /\ \A d \in Desks : desk'[d] = IF d \in stopped THEN AtEase ELSE desk[d]
      /\ DOMAIN AtEase = Fields /\ AtEase.pc = "idle"
  BY AtEaseIs DEF Stop
<1>2. UNCHANGED <<files, rows, clock, gone, begun, tasks, journal, exported, births>>
  BY DEF Stop, JournalRest
<1>3. /\ bared \subseteq bared'
      /\ \A d \in stopped : \A old \in Unlinked(d) : old[2] \in bared'
  <2>1. bared' = bared \cup UNION {{old[2] : old \in desk[d].done} :
                                      d \in {e \in stopped : desk[e].pc = "rotate"}}
    BY DEF Stop
  <2>. QED
    BY <2>1 DEF Unlinked
<1>4. \A d \in Desks : IF d \in stopped THEN Surplussed(d)' = {} /\ Unlinked(d)' = {}
                       ELSE Surplussed(d)' = Surplussed(d) /\ Unlinked(d)' = Unlinked(d)
  BY <1>1 DEF Surplussed, Unlinked
<1>5. DesksAre' /\ IdsAre' /\ EntriesAre'
  <2>1. failures' \in Nat
    BY DEF Stop, Failure, ArchiveInv, DesksAre
  <2>. QED
    BY <1>1, <1>2, <2>1 DEF ArchiveInv, DesksAre, IdsAre, EntriesAre, Writing
<1>6. NamesAre'
  BY <1>1, <1>2, <1>4 DEF ArchiveInv, NamesAre, Writing
<1>7. ASSUME NEW n \in Seconds PROVE NameIs(n)'
  <2>1. NameIs(n)
    BY DEF ArchiveInv
  <2>2. \A e \in Desks : Writes(e, n)' => Writes(e, n) /\ desk'[e] = desk[e]
    BY <1>1 DEF Writes, Writing
  <2>3. \A e \in Desks : \A old \in Surplussed(e)' : old \in Surplussed(e)
    BY <1>4
  <2>4. \A e \in Desks : \A old \in Unlinked(e) : old \in Unlinked(e)' \/ old[2] \in bared'
    BY <1>3, <1>4
  <2>. QED
    BY <2>1, <2>2, <2>3, <2>4, <1>2, <1>3, NameStays
<1>8. RotationIs'
  <2>1. overdue' = (overdue \/ \E d \in stopped : desk[d].pc \in {"recorded", "rotate"})
    BY DEF Stop
  <2>2. CASE \E d \in stopped : desk[d].pc \in {"recorded", "rotate"}
    BY <2>1, <2>2 DEF RotationIs
  <2>3. CASE ~\E d \in stopped : desk[d].pc \in {"recorded", "rotate"}
    <3>1. overdue => overdue'
      BY <2>1
    <3>2. \A d \in Desks : desk[d].pc \in {"recorded", "rotate"} =>
            desk'[d] = desk[d] /\ Surplussed(d)' = Surplussed(d)
      BY <2>3, <1>1, <1>4
    <3>. QED
      BY <3>1, <3>2, <1>2 DEF ArchiveInv, RotationIs
  <2>. QED
    BY <2>2, <2>3
<1>. QED
  BY <1>5, <1>6, <1>7, <1>8 DEF ArchiveInv

-----------------------------------------------------------------------------
LEMMA ArchiveInvInit == ArchiveInit => ArchiveInv
<1>. SUFFICES ASSUME ArchiveInit PROVE ArchiveInv
  OBVIOUS
<1>1. \A d \in Desks : desk[d] = AtEase
  BY DEF ArchiveInit
<1>2. DesksAre
  BY <1>1, AtEaseIs, ArchiveAssumption DEF ArchiveAssumption, ArchiveInit, DesksAre, Seconds, Writing
<1>3. DOMAIN journal = {} /\ DOMAIN exported = {} /\ DOMAIN rows = {} /\ DOMAIN files = {}
  BY NothingIsSmall DEF ArchiveInit
<1>4. IdsAre
  BY <1>1, <1>3, AtEaseIs, NothingIsSmall DEF IdsAre
<1>5. \A d \in Desks : Surplussed(d) = {} /\ \A n \in Seconds : ~Writes(d, n)
  BY <1>1, AtEaseIs DEF Surplussed, Writes, Writing
<1>6. NamesAre
  BY <1>1, <1>3, <1>5, AtEaseIs DEF NamesAre, Writing
<1>7. \A n \in Seconds : Unknown(n)
  BY <1>3, <1>5 DEF Unknown
<1>8. \A n \in Seconds : NameIs(n)
  BY <1>3, <1>5, <1>7 DEF NameIs, AloneIs
<1>9. RotationIs
  <2>1. Cardinality(DOMAIN rows) = 0
    BY <1>3, FS_EmptySet
  <2>. QED
    BY <2>1, ArchiveAssumption DEF ArchiveAssumption, RotationIs
<1>10. EntriesAre
  BY DEF ArchiveInit, EntriesAre
<1>. QED
  BY <1>2, <1>4, <1>6, <1>8, <1>9, <1>10 DEF ArchiveInv

LEMMA ArchiveInvNext == ArchiveInv /\ [ArchiveNext]_archiveVars => ArchiveInv'
<1>. SUFFICES ASSUME ArchiveInv, [ArchiveNext]_archiveVars PROVE ArchiveInv'
  OBVIOUS
<1>1. CASE UNCHANGED archiveVars
  <2>. USE <1>1 DEF archiveVars
  <2>1. DesksAre' /\ IdsAre' /\ EntriesAre'
    BY DEF ArchiveInv, DesksAre, IdsAre, EntriesAre
  <2>2. NamesAre' /\ \A n \in Seconds : NameIs(n)'
    BY NamesStay
  <2>3. RotationIs'
    BY RotationStays
  <2>. QED
    BY <2>1, <2>2, <2>3 DEF ArchiveInv
<1>2. ASSUME NEW d \in Desks, RequestFails(d) PROVE ArchiveInv'
  BY <1>2, StopStep DEF RequestFails
<1>3. ArchiveRestarts => ArchiveInv'
  BY StopStep DEF ArchiveRestarts
<1>4. CASE ArchiveNext
  BY <1>2, <1>3, <1>4, WriteEntryStep, ExportStep, SecondPassesStep, EraseEntryStep,
     OpenBackupStep, CloseBackupStep, SumBackupStep, RecordBackupStep, ListBackupsStep,
     UnlinkStep, DropRowsStep, ReadBackupStep, BeginImportStep, LookUpStep,
     CommitRestoreStep, CommitImportStep, BeginRestoreStep
     DEF ArchiveNext
<1>. QED
  BY <1>1, <1>4

ArchiveSpec == ArchiveInit /\ [][ArchiveNext]_archiveVars

(* Backups that the table lists can be restored, no more of them are kept  *)
(* than asked for, and no entry is lost: for any number of requests next   *)
(* to each other, of entries, seconds, failures and restarts, and any      *)
(* max_backups (create_backup, _rotate_backups, restore_backup).           *)
THEOREM BackupsAreKept == ArchiveSpec => []BackupsStayWhole
<1>1. ArchiveInit => ArchiveInv
  BY ArchiveInvInit
<1>2. ArchiveInv /\ [ArchiveNext]_archiveVars => ArchiveInv'
  BY ArchiveInvNext
<1>3. ArchiveInv => BackupsStayWhole
  <2>. SUFFICES ASSUME ArchiveInv PROVE BackupsStayWhole
    OBVIOUS
  <2>1. ASSUME NEW r \in DOMAIN rows
        PROVE  \/ Shared(rows[r].name) \/ rows[r].name \in bared \/ Rotating(r)
               \/ Good(r)
    <3>1. PICK n \in Seconds : n = rows[r].name
      BY DEF ArchiveInv, NamesAre
    <3>2. CASE ~Shared(n)
      <4>1. \/ n \in bared
            \/ \E d \in Desks : \E old \in Unlinked(d) : old[1] = r /\ old[2] = n
            \/ Good(r)
        BY <3>1, <3>2 DEF ArchiveInv, NameIs, AloneIs
      <4>. QED
        BY <3>1, <4>1 DEF Rotating, Unlinked
    <3>. QED
      BY <3>1, <3>2
  <2>2. (\A d \in Desks : desk[d].pc = "idle") /\ ~overdue => Cardinality(DOMAIN rows) <= KeptBackups
    BY DEF ArchiveInv, RotationIs
  <2>. QED
    BY <2>1, <2>2 DEF ArchiveInv, EntriesAre, BackupsStayWhole, Good
<1>. QED
  BY <1>1, <1>2, <1>3, PTL DEF ArchiveSpec
-----------------------------------------------------------------------------
(* Entities. A session has looked up a text from its front; what it has    *)
(* gone through is linked, by itself or by what is committed.              *)

Pairs == STRING \X STRING

SessionFields == {"kind", "pc", "id", "text", "writes", "todo", "rows", "links"}

Looks == {"look", "insert"}

LinkedTo(id, name, rowsOf, linksOf) ==
    \E row \in rowsOf : row[1] = name /\ <<id, row>> \in linksOf

Through(id, words, left, rowsOf, linksOf) ==
    /\ Len(left) <= Len(Named(words))
    /\ \A i \in 1 .. Len(left) : left[i] = Named(words)[Len(Named(words)) - Len(left) + i]
    /\ \A i \in 1 .. Len(Named(words)) - Len(left) :
         LinkedTo(id, Named(words)[i][1], rowsOf, linksOf)

Advanced(s) ==
    Through(session[s].id, session[s].text, session[s].todo,
            entities \cup session[s].rows, linked \cup session[s].links)

Covered(id) ==
    \A i \in 1 .. Len(Named(entries[id])) :
      LinkedTo(id, Named(entries[id])[i][1], entities, linked)

SessionType(s) ==
    /\ DOMAIN session[s] = SessionFields
    /\ session[s].writes \in BOOLEAN
    /\ session[s].todo \in Seq(Pairs)
    /\ session[s].kind \in {"none", "memory", "reflection", "create", "update", "job", "entity"}
    /\ session[s].pc \in {"idle", "store", "reread", "flush", "look", "insert"}

EntityTypes ==
    /\ Small(DOMAIN entries) /\ \A id \in DOMAIN entries : entries[id] \in Texts
    /\ DOMAIN session = Sessions /\ \A s \in Sessions : SessionType(s)

(* A session that writes its entry holds the lock from there on: what it   *)
(* has seen is what is committed.                                          *)
HoldsLock(s) ==
    /\ writer = s
    /\ session[s].id \in Nat \ {0}
    /\ session[s].kind \in {"create", "update"}
    /\ session[s].kind = "update" => session[s].id \in DOMAIN entries
    /\ session[s].links \cap linked = {}
    /\ session[s].pc = "insert" => Head(session[s].todo) \notin entities
    /\ Advanced(s)

SessionIs(s) ==
    /\ session[s].pc \in {"idle", "store", "reread", "flush"} =>
         session[s].links = {} /\ session[s].rows = {}
    /\ session[s].pc \in {"idle", "store", "reread"} => ~ session[s].writes
    /\ session[s].pc = "store" /\ session[s].kind # "job" => session[s].text \in Texts
    /\ session[s].pc = "reread" => session[s].text \in Texts /\ session[s].kind \in Memories
    /\ session[s].pc = "flush" => session[s].text \in Texts /\ session[s].kind = "update"
    /\ session[s].pc \in Looks /\ session[s].kind # "entity" => session[s].text \in Texts
    /\ session[s].pc \in Looks /\ session[s].kind = "create" => session[s].writes
    /\ session[s].pc = "insert" => session[s].todo # << >>
    /\ session[s].pc \in Looks /\ session[s].writes => HoldsLock(s)
    /\ \A link \in session[s].links :
         link[1] = session[s].id /\ link[2] \in entities \cup session[s].rows

(* A memory's request or job that will link what the entry names, or raise.*)
AnswersFor(s, id) ==
    /\ session[s].id = id
    /\ \/ session[s].kind = "job" /\ session[s].pc = "store"
       \/ /\ session[s].kind \in Memories /\ session[s].pc = "reread"
          /\ session[s].text = entries[id]
       \/ /\ session[s].kind \in Memories \cup {"job"} /\ session[s].pc \in Looks
          /\ session[s].text = entries[id]
          /\ Advanced(s)

EntryIs(id) ==
    \/ id \in unlinked \cup extractions
    \/ Covered(id)
    \/ \E s \in Sessions : AnswersFor(s, id)

LinksAre == \A link \in linked : link[1] \in DOMAIN entries /\ link[2] \in entities

EntityInv ==
    /\ EntityTypes
    /\ LinksAre
    /\ \A s \in Sessions : SessionIs(s)
    /\ \A id \in DOMAIN entries : EntryIs(id)
    /\ \A clash \in clashed : ~ clash.writes

(* A row of entities is a name with a type, in the order of a text.        *)
LEMMA NamedIs ==
    ASSUME NEW words \in Texts
    PROVE  Named(words) \in Seq(Pairs) /\ Len(Named(words)) \in Nat
BY EntitiesAssumption DEF EntitiesAssumption, Named, Pairs

LEMMA ThroughNothing ==
    ASSUME NEW id, NEW words \in Texts, NEW rowsOf, NEW linksOf
    PROVE  Through(id, words, Named(words), rowsOf, linksOf)
<1>1. PICK names \in Seq(Pairs) : names = Named(words)
  BY NamedIs
<1>2. Len(names) \in Nat
  OBVIOUS
<1>. QED
  BY <1>1, <1>2 DEF Through

LEMMA LinkedToMore ==
    ASSUME NEW id, NEW name, NEW R, NEW L, NEW S, NEW M, LinkedTo(id, name, R, L),
           R \subseteq S, \A row \in R : <<id, row>> \in L => <<id, row>> \in M
    PROVE  LinkedTo(id, name, S, M)
BY DEF LinkedTo

LEMMA ThroughMore ==
    ASSUME NEW id, NEW words, NEW left, NEW R, NEW L, NEW S, NEW M,
           Through(id, words, left, R, L),
           R \subseteq S, \A row \in R : <<id, row>> \in L => <<id, row>> \in M
    PROVE  Through(id, words, left, S, M)
BY LinkedToMore DEF Through

LEMMA ThroughOneMore ==
    ASSUME NEW id, NEW words \in Texts, NEW left \in Seq(Pairs), left # << >>,
           NEW R, NEW L, NEW S, NEW M,
           Through(id, words, left, R, L),
           R \subseteq S, L \subseteq M,
           NEW row \in S, row[1] = Head(left)[1], <<id, row>> \in M
    PROVE  Through(id, words, Tail(left), S, M)
<1>1. PICK names \in Seq(Pairs) : names = Named(words)
  BY NamedIs
<1>2. PICK n \in Nat : n = Len(names)
  BY <1>1
<1>3. PICK k \in Nat, rest \in Seq(Pairs) :
        /\ rest = Tail(left) /\ Len(left) = k + 1 /\ Len(rest) = k
        /\ \A i \in 1 .. k : rest[i] = left[i + 1]
  <2>1. /\ Len(left) - 1 \in Nat /\ Tail(left) \in Seq(Pairs) /\ Len(left) = (Len(left) - 1) + 1
        /\ Len(Tail(left)) = Len(left) - 1
        /\ \A i \in 1 .. Len(left) - 1 : Tail(left)[i] = left[i + 1]
    OBVIOUS
  <2>. QED
    BY <2>1
<1>4. /\ k + 1 <= n
      /\ \A i \in 1 .. k + 1 : left[i] = names[n - (k + 1) + i]
      /\ \A i \in 1 .. n - (k + 1) : LinkedTo(id, names[i][1], R, L)
  BY <1>1, <1>2, <1>3 DEF Through
<1>5. ASSUME NEW i \in 1 .. k PROVE rest[i] = names[n - k + i]
  <2>1. rest[i] = left[i + 1] /\ i + 1 \in 1 .. k + 1
    BY <1>3
  <2>2. left[i + 1] = names[n - (k + 1) + (i + 1)]
    BY <2>1, <1>4
  <2>3. n - (k + 1) + (i + 1) = n - k + i
    OBVIOUS
  <2>. QED
    BY <2>1, <2>2, <2>3
<1>6. ASSUME NEW i \in 1 .. n - k PROVE LinkedTo(id, names[i][1], S, M)
  <2>1. CASE i \in 1 .. n - (k + 1)
    BY <2>1, <1>4, LinkedToMore
  <2>2. CASE i = n - k
    <3>1. Head(left) = left[1]
      OBVIOUS
    <3>2. left[1] = names[n - (k + 1) + 1] /\ n - (k + 1) + 1 = i
      BY <2>2, <1>4
    <3>. QED
      BY <3>1, <3>2 DEF LinkedTo
  <2>. QED
    BY <2>1, <2>2
<1>7. Through(id, words, rest, S, M)
  <2>1. Len(rest) = k /\ Named(words) = names /\ Len(names) = n /\ k <= n
    BY <1>1, <1>2, <1>3, <1>4
  <2>2. \A i \in 1 .. Len(rest) : rest[i] = Named(words)[Len(Named(words)) - Len(rest) + i]
    BY <2>1, <1>5
  <2>3. \A i \in 1 .. Len(Named(words)) - Len(rest) : LinkedTo(id, Named(words)[i][1], S, M)
    BY <2>1, <1>6
  <2>. QED
    BY <2>1, <2>2, <2>3 DEF Through
<1>. QED
  BY <1>3, <1>7

LEMMA ThroughAll ==
    ASSUME NEW id, NEW words \in Texts, NEW R, NEW L, Through(id, words, << >>, R, L)
    PROVE  \A i \in 1 .. Len(Named(words)) : LinkedTo(id, Named(words)[i][1], R, L)
<1>1. Len(Named(words)) \in Nat /\ Len(<< >>) = 0
  BY NamedIs
<1>. QED
  BY <1>1 DEF Through

-----------------------------------------------------------------------------
(* One session moves.                                                      *)
Turns(s, state) ==
    /\ DOMAIN session' = Sessions
    /\ session'[s] = state
    /\ \A t \in Sessions : t # s => session'[t] = session[t]

LEMMA NoSessionIs ==
    /\ DOMAIN NoSession = SessionFields
    /\ NoSession.kind = "none" /\ NoSession.pc = "idle" /\ NoSession.id = 0
    /\ NoSession.text = NoText /\ NoSession.writes = FALSE
    /\ NoSession.todo = << >> /\ NoSession.rows = {} /\ NoSession.links = {}
BY DEF NoSession, SessionFields

LEMMA EndsTurns ==
    ASSUME EntityTypes, NEW s \in Sessions, Ends(s)
    PROVE  Turns(s, NoSession)
BY DEF EntityTypes, SessionType, Ends, Turns

LEMMA GoesTurns ==
    ASSUME EntityTypes, NEW s \in Sessions, NEW kind, NEW id, NEW words, Goes(s, kind, id, words)
    PROVE  /\ DOMAIN session' = Sessions
           /\ \A t \in Sessions : t # s => session'[t] = session[t]
           /\ DOMAIN session'[s] = SessionFields
           /\ session'[s].kind = kind /\ session'[s].pc = "store" /\ session'[s].id = id
           /\ session'[s].text = words /\ session'[s].writes = FALSE /\ session'[s].todo = << >>
           /\ session'[s].rows = {} /\ session'[s].links = {}
<1>1. PICK state : state = [NoSession EXCEPT !.kind = kind, !.pc = "store",
                                             !.id = id, !.text = words]
  OBVIOUS
<1>2. Turns(s, state)
  BY <1>1 DEF EntityTypes, Goes, Turns
<1>3. /\ DOMAIN state = SessionFields
      /\ state.kind = kind /\ state.pc = "store" /\ state.id = id
      /\ state.text = words /\ state.writes = FALSE /\ state.todo = << >>
      /\ state.rows = {} /\ state.links = {}
  BY <1>1, NoSessionIs DEF SessionFields
<1>. QED
  BY <1>2, <1>3 DEF Turns

LEMMA LookingTurns ==
    ASSUME EntityTypes, NEW s \in Sessions, NEW id, NEW words, NEW writes,
           Looking(s, id, words, writes)
    PROVE  /\ DOMAIN session' = Sessions
           /\ \A t \in Sessions : t # s => session'[t] = session[t]
           /\ DOMAIN session'[s] = SessionFields
           /\ session'[s].kind = session[s].kind /\ session'[s].pc = "look"
           /\ session'[s].id = id /\ session'[s].text = words
           /\ session'[s].writes = writes /\ session'[s].todo = Named(words)
           /\ session'[s].rows = session[s].rows /\ session'[s].links = session[s].links
<1>1. DOMAIN session = Sessions /\ DOMAIN session[s] = SessionFields
  BY DEF EntityTypes, SessionType
<1>. QED
  BY <1>1 DEF Looking, SessionFields

(* The tables stay, and one session turns: what it answered for must stay  *)
(* answered for.                                                           *)
LEMMA TablesStay ==
    ASSUME EntityInv, NEW s \in Sessions, TablesRest,
           DOMAIN session' = Sessions,
           \A t \in Sessions : t # s => session'[t] = session[t],
           writer' = writer \/ (writer \in {Nobody, s} /\ writer' \in {Nobody, s}),
           \A clash \in clashed' : ~ clash.writes,
           SessionType(s)', SessionIs(s)',
           \A id \in DOMAIN entries :
             id \in unlinked \cup extractions \/ AnswersFor(s, id) => EntryIs(id)'
    PROVE  EntityInv'
<1>1. EntityTypes'
  BY DEF EntityInv, EntityTypes, SessionType, TablesRest
<1>2. LinksAre'
  BY DEF EntityInv, LinksAre, TablesRest
<1>3. ASSUME NEW t \in Sessions, t # s
      PROVE  SessionIs(t)' /\ \A id : AnswersFor(t, id) => AnswersFor(t, id)'
  <2>1. session'[t] = session[t]
    BY <1>3
  <2>2. entries' = entries /\ entities' = entities /\ linked' = linked
    BY DEF TablesRest
  <2>3. Advanced(t) => Advanced(t)'
    BY <2>1, <2>2 DEF Advanced, Through, LinkedTo
  <2>4. HoldsLock(t) => HoldsLock(t)'
    BY <2>1, <2>2, <2>3, <1>3, EntitiesAssumption DEF HoldsLock, EntitiesAssumption
  <2>5. SessionIs(t)
    BY DEF EntityInv
  <2>6. SessionIs(t)'
    BY <2>1, <2>2, <2>4, <2>5 DEF SessionIs
  <2>7. ASSUME NEW id, AnswersFor(t, id) PROVE AnswersFor(t, id)'
    BY <2>1, <2>2, <2>3, <2>7 DEF AnswersFor
  <2>. QED
    BY <2>6, <2>7
<1>4. \A t \in Sessions : SessionIs(t)'
  BY <1>3
<1>5. ASSUME NEW id \in DOMAIN entries PROVE EntryIs(id)'
  <2>1. CASE id \in unlinked \cup extractions
    BY <2>1
  <2>2. CASE Covered(id)
    <3>1. Covered(id)'
      BY <2>2 DEF TablesRest, Covered, LinkedTo
    <3>. QED
      BY <3>1 DEF EntryIs
  <2>3. CASE \E t \in Sessions : AnswersFor(t, id)
    <3>1. PICK t \in Sessions : AnswersFor(t, id)
      BY <2>3
    <3>2. CASE t = s
      BY <3>1, <3>2
    <3>3. CASE t # s
      <4>1. AnswersFor(t, id)'
        BY <1>3, <3>1, <3>3
      <4>. QED
        BY <4>1 DEF EntryIs
    <3>. QED
      BY <3>2, <3>3
  <2>. QED
    BY <2>1, <2>2, <2>3 DEF EntityInv, EntryIs
<1>6. DOMAIN entries' = DOMAIN entries
  BY DEF TablesRest
<1>. QED
  BY <1>1, <1>2, <1>4, <1>5, <1>6 DEF EntityInv

LEMMA NothingHeld ==
    ASSUME NEW s \in Sessions, session'[s] = NoSession
    PROVE  SessionType(s)' /\ SessionIs(s)'
<1>1. << >> \in Seq(Pairs)
  OBVIOUS
<1>2. SessionType(s)'
  BY <1>1, NoSessionIs DEF SessionType
<1>. QED
  BY <1>2, NoSessionIs DEF SessionIs, Looks

(* Ids of entries are numbers from 1.                                      *)
LEMMA EntryIds ==
    ASSUME EntityTypes
    PROVE  /\ DOMAIN entries \subseteq Nat \ {0}
           /\ NewId \in Nat \ {0} /\ NewId \notin DOMAIN entries
           /\ Small(DOMAIN entries \cup {NewId})
<1>1. NewId = NextId(entries)
  BY DEF NewId, NextId
<1>. QED
  BY <1>1, NewIdIsFree DEF EntityTypes

(* A session that ends with an error has told of the entry it answered for.*)
LEMMA RaisesStep ==
    ASSUME EntityInv, NEW s \in Sessions, Raises(s), \A clash \in clashed' : ~ clash.writes
    PROVE  EntityInv'
<1>1. Turns(s, NoSession)
  BY EndsTurns DEF EntityInv, Raises
<1>2. SessionType(s)' /\ SessionIs(s)'
  BY <1>1, NothingHeld DEF Turns
<1>3. ASSUME NEW id, id \in unlinked \cup extractions \/ AnswersFor(s, id)
      PROVE  EntryIs(id)'
  <2>1. id \in unlinked' \cup extractions'
    BY <1>3 DEF Raises, AnswersFor
  <2>. QED
    BY <2>1 DEF EntryIs
<1>. QED
  BY <1>1, <1>2, <1>3, TablesStay DEF Turns, Raises

(* Who writes its entry holds the lock, and finds nothing in its way.      *)
LEMMA NothingInTheWay ==
    ASSUME EntityInv, NEW s \in Sessions, session[s].pc \in Looks,
           \/ Refused(s)
           \/ session[s].pc = "insert" /\ Head(session[s].todo) \in entities
    PROVE  ~ session[s].writes
<1>1. SessionIs(s)
  BY DEF EntityInv
<1>. QED
  BY <1>1 DEF SessionIs, HoldsLock, Refused

LEMMA ClashesStep ==
    ASSUME EntityInv, NEW s \in Sessions, ~ session[s].writes, Clashes(s)
    PROVE  EntityInv'
<1>1. \A clash \in clashed' : ~ clash.writes
  <2>1. clashed' = clashed \cup {[kind |-> session[s].kind, writes |-> session[s].writes]}
    BY DEF Clashes
  <2>2. \A clash \in clashed : ~ clash.writes
    BY DEF EntityInv
  <2>. QED
    BY <2>1, <2>2
<1>. QED
  BY <1>1, RaisesStep DEF Clashes

LEMMA StatementFailsStep ==
    ASSUME EntityInv, NEW s \in Sessions, StatementFails(s)
    PROVE  EntityInv'
<1>1. \A clash \in clashed' : ~ clash.writes
  BY DEF EntityInv, StatementFails
<1>. QED
  BY <1>1, RaisesStep DEF StatementFails

-----------------------------------------------------------------------------
(* Requests, jobs, and what they store.                                    *)

(* A session that begins to store has looked at nothing.                   *)
LEMMA BeginsToStore ==
    ASSUME EntityInv, NEW s \in Sessions, NEW kind, NEW id, NEW words, Goes(s, kind, id, words),
           kind \in Memories \cup {"create", "entity", "update", "job"},
           kind # "job" => words \in Texts
    PROVE  /\ SessionType(s)' /\ SessionIs(s)' /\ DOMAIN session' = Sessions
           /\ \A t \in Sessions : t # s => session'[t] = session[t]
           /\ kind = "job" => AnswersFor(s, id)'
<1>1. /\ DOMAIN session' = Sessions
      /\ \A t \in Sessions : t # s => session'[t] = session[t]
      /\ DOMAIN session'[s] = SessionFields
      /\ session'[s].kind = kind /\ session'[s].pc = "store" /\ session'[s].id = id
      /\ session'[s].text = words /\ session'[s].writes = FALSE /\ session'[s].todo = << >>
      /\ session'[s].rows = {} /\ session'[s].links = {}
  BY GoesTurns DEF EntityInv
<1>2. << >> \in Seq(Pairs)
  OBVIOUS
<1>3. SessionType(s)'
  BY <1>1, <1>2 DEF SessionType, Memories
<1>4. SessionIs(s)'
  BY <1>1 DEF SessionIs, Looks
<1>5. kind = "job" => AnswersFor(s, id)'
  BY <1>1 DEF AnswersFor
<1>. QED
  BY <1>1, <1>3, <1>4, <1>5

LEMMA IdleAnswersForNothing ==
    ASSUME NEW s, NEW id, session[s].pc = "idle"
    PROVE  ~ AnswersFor(s, id)
BY DEF AnswersFor, Looks

LEMMA SubmitStep ==
    ASSUME EntityInv, NEW s \in Sessions, SubmitSome(s)
    PROVE  EntityInv'
<1>1. PICK kind \in Memories \cup {"create", "entity", "update"}, id \in DOMAIN entries \cup {0},
           words \in Texts : Submit(s, kind, id, words)
  BY DEF SubmitSome
<1>2. /\ SessionType(s)' /\ SessionIs(s)' /\ DOMAIN session' = Sessions
      /\ \A t \in Sessions : t # s => session'[t] = session[t]
  BY <1>1, BeginsToStore DEF Submit
<1>3. ASSUME NEW i, i \in unlinked \cup extractions \/ AnswersFor(s, i) PROVE EntryIs(i)'
  BY <1>1, <1>3, IdleAnswersForNothing DEF Submit, EntryIs
<1>. QED
  BY <1>1, <1>2, <1>3, TablesStay DEF Submit, EntityInv

LEMMA TakeExtractionStep ==
    ASSUME EntityInv, NEW s \in Sessions, TakeExtraction(s)
    PROVE  EntityInv'
<1>1. PICK id \in extractions :
        extractions' = extractions \ {id} /\ Goes(s, "job", id, NoText)
  BY DEF TakeExtraction
<1>2. /\ SessionType(s)' /\ SessionIs(s)' /\ DOMAIN session' = Sessions
      /\ \A t \in Sessions : t # s => session'[t] = session[t]
      /\ AnswersFor(s, id)'
  BY <1>1, BeginsToStore
<1>3. ASSUME NEW i, i \in unlinked \cup extractions \/ AnswersFor(s, i) PROVE EntryIs(i)'
  BY <1>1, <1>2, <1>3, IdleAnswersForNothing DEF TakeExtraction, EntryIs
<1>. QED
  BY <1>1, <1>2, <1>3, TablesStay DEF TakeExtraction, EntityInv

(* A session that begins to look has everything to look up before it.      *)
LEMMA BeginsToLook ==
    ASSUME EntityInv, NEW s \in Sessions, TablesRest,
           session[s].pc \in {"store", "reread", "flush"},
           session[s].kind \notin {"none", "entity"},
           NEW id, NEW words \in Texts, NEW writes \in BOOLEAN, Looking(s, id, words, writes),
           IF writes THEN Lockable(s) /\ writer' = s ELSE UNCHANGED writer,
           session[s].kind = "create" => writes,
           writes => /\ id \in Nat \ {0} /\ session[s].kind \in {"create", "update"}
                     /\ session[s].kind = "update" => id \in DOMAIN entries,
           UNCHANGED <<extractions, unlinked, clashed>>,
           \A i \in DOMAIN entries :
             AnswersFor(s, i) => i = id /\ words = entries[id]
    PROVE  EntityInv'
<1>1. /\ DOMAIN session' = Sessions
      /\ \A t \in Sessions : t # s => session'[t] = session[t]
      /\ DOMAIN session'[s] = SessionFields
      /\ session'[s].kind = session[s].kind /\ session'[s].pc = "look"
      /\ session'[s].id = id /\ session'[s].text = words
      /\ session'[s].writes = writes /\ session'[s].todo = Named(words)
      /\ session'[s].rows = session[s].rows /\ session'[s].links = session[s].links
  BY LookingTurns DEF EntityInv
<1>2. session'[s].rows = {} /\ session'[s].links = {}
  BY <1>1 DEF EntityInv, SessionIs
<1>3. SessionType(s)'
  BY <1>1, NamedIs DEF EntityInv, EntityTypes, SessionType
<1>4. Advanced(s)'
  BY <1>1, ThroughNothing DEF Advanced
<1>5. writes => HoldsLock(s)'
  BY <1>1, <1>2, <1>4 DEF HoldsLock, TablesRest
<1>6. SessionIs(s)'
  BY <1>1, <1>2, <1>5 DEF SessionIs
<1>7. ASSUME NEW i \in DOMAIN entries, i \in unlinked \cup extractions \/ AnswersFor(s, i)
      PROVE  EntryIs(i)'
  <2>1. CASE i \in unlinked \cup extractions
    BY <2>1 DEF EntryIs
  <2>2. CASE AnswersFor(s, i)
    <3>1. session[s].kind \in Memories \cup {"job"}
      BY <2>2 DEF AnswersFor
    <3>2. AnswersFor(s, i)'
      BY <1>1, <1>4, <2>2, <3>1 DEF AnswersFor, Looks, TablesRest
    <3>. QED
      BY <3>2 DEF EntryIs
  <2>. QED
    BY <1>7, <2>1, <2>2
<1>8. writer' = writer \/ (writer \in {Nobody, s} /\ writer' \in {Nobody, s})
  BY DEF Lockable
<1>9. \A clash \in clashed' : ~ clash.writes
  BY DEF EntityInv
<1>. QED
  BY <1>1, <1>3, <1>6, <1>7, <1>8, <1>9, TablesStay

LEMMA StoreEntryStep ==
    ASSUME EntityInv, NEW s \in Sessions, StoreEntry(s)
    PROVE  EntityInv'
<1>1. session[s].text \in Texts
  BY DEF StoreEntry, EntityInv, SessionIs
<1>2. NewId \in Nat \ {0}
  BY EntryIds DEF EntityInv
<1>3. \A i : ~ AnswersFor(s, i)
  BY DEF StoreEntry, AnswersFor, Looks, Memories
<1>. QED
  BY <1>1, <1>2, <1>3, BeginsToLook DEF StoreEntry, FlushesFirst

LEMMA ReadEntryStep ==
    ASSUME EntityInv, NEW s \in Sessions, ReadEntry(s)
    PROVE  EntityInv'
<1>. DEFINE id == session[s].id
<1>1. \A i : AnswersFor(s, i) => session[s].kind = "job" /\ i = id
  BY DEF ReadEntry, AnswersFor, Looks, Memories
<1>2. CASE id \notin DOMAIN entries /\ Ends(s)
  <2>1. Turns(s, NoSession) /\ UNCHANGED writer
    BY <1>2, EndsTurns DEF ReadEntry, EntityInv
  <2>2. SessionType(s)' /\ SessionIs(s)'
    BY <2>1, NothingHeld DEF Turns
  <2>3. ASSUME NEW i \in DOMAIN entries, i \in unlinked \cup extractions \/ AnswersFor(s, i)
        PROVE  EntryIs(i)'
    BY <1>1, <1>2, <2>3 DEF ReadEntry, EntryIs
  <2>. QED
    BY <2>1, <2>2, <2>3, TablesStay DEF Turns, ReadEntry, EntityInv
<1>3. CASE /\ id \in DOMAIN entries /\ session[s].kind = "job"
           /\ Looking(s, id, entries[id], FALSE)
  <2>1. entries[id] \in Texts
    BY <1>3 DEF EntityInv, EntityTypes
  <2>2. \A i \in DOMAIN entries : AnswersFor(s, i) => i = id /\ entries[id] = entries[id]
    BY <1>1
  <2>3. /\ session[s].pc \in {"store", "reread", "flush"}
        /\ session[s].kind \notin {"none", "entity", "create"}
        /\ TablesRest /\ UNCHANGED <<writer, extractions, unlinked, clashed>>
    BY <1>3 DEF ReadEntry
  <2>. HIDE DEF id
  <2>. QED
    BY <1>3, <2>1, <2>2, <2>3, BeginsToLook
<1>4. CASE /\ id \in DOMAIN entries /\ session[s].kind = "update"
           /\ session' = [session EXCEPT ![s].pc = "flush",
                                         ![s].writes = entries[id] # session[s].text]
  <2>1. PICK writes \in BOOLEAN : writes = (entries[id] # session[s].text)
    OBVIOUS
  <2>2. DOMAIN session = Sessions /\ SessionType(s) /\ SessionIs(s)
    BY DEF EntityInv, EntityTypes
  <2>3. session' = [session EXCEPT ![s].pc = "flush", ![s].writes = writes]
    BY <1>4, <2>1
  <2>4. /\ DOMAIN session' = Sessions
        /\ \A t \in Sessions : t # s => session'[t] = session[t]
        /\ DOMAIN session'[s] = SessionFields
        /\ session'[s].kind = session[s].kind /\ session'[s].pc = "flush"
        /\ session'[s].id = session[s].id /\ session'[s].text = session[s].text
        /\ session'[s].writes = writes /\ session'[s].todo = session[s].todo
        /\ session'[s].rows = session[s].rows /\ session'[s].links = session[s].links
    BY <2>2, <2>3 DEF SessionType, SessionFields
  <2>5. SessionType(s)'
    BY <2>1, <2>2, <2>4 DEF SessionType
  <2>6. session[s].pc = "store"
    BY DEF ReadEntry
  <2>7. SessionIs(s)'
    BY <1>4, <2>2, <2>4, <2>6 DEF SessionIs, Looks
  <2>8. ASSUME NEW i, i \in unlinked \cup extractions \/ AnswersFor(s, i) PROVE EntryIs(i)'
    BY <1>1, <1>4, <2>8 DEF ReadEntry, EntryIs
  <2>. QED
    BY <2>4, <2>5, <2>7, <2>8, TablesStay DEF ReadEntry, EntityInv
<1>. QED
  BY <1>2, <1>3, <1>4 DEF ReadEntry

(* A flush that finds its entry gone raises, with the lock in its hand or  *)
(* free; one that finds it has the lock before anything is looked up.      *)
LEMMA FlushUpdateStep ==
    ASSUME EntityInv, NEW s \in Sessions, FlushUpdate(s)
    PROVE  EntityInv'
<1>. DEFINE id == session[s].id
            writes == session[s].writes
<1>1. session[s].pc = "flush" /\ session[s].text \in Texts /\ session[s].kind = "update"
      /\ writes \in BOOLEAN
  BY DEF FlushUpdate, EntityInv, EntityTypes, SessionType, SessionIs
<1>2. CASE writes /\ id \notin DOMAIN entries
  <2>1. Raises(s) /\ UNCHANGED clashed
    BY <1>2 DEF FlushUpdate
  <2>. QED
    BY <2>1, RaisesStep DEF EntityInv
<1>3. CASE ~ (writes /\ id \notin DOMAIN entries)
  <2>1. /\ FlushesFirst(s, writes) /\ Looking(s, id, session[s].text, writes)
        /\ TablesRest /\ UNCHANGED <<extractions, unlinked, clashed>>
    BY <1>3 DEF FlushUpdate
  <2>2. writes => id \in DOMAIN entries /\ id \in Nat \ {0}
    BY <1>3, EntryIds DEF EntityInv
  <2>3. \A i \in DOMAIN entries : ~ AnswersFor(s, i)
    BY <1>1 DEF AnswersFor, Looks, Memories
  <2>4. IF writes THEN Lockable(s) /\ writer' = s ELSE UNCHANGED writer
    BY <2>1 DEF FlushesFirst
  <2>. HIDE DEF id, writes
  <2>. QED
    BY <1>1, <2>1, <2>2, <2>3, <2>4, BeginsToLook
<1>. QED
  BY <1>2, <1>3

LEMMA RereadMemoryStep ==
    ASSUME EntityInv, NEW s \in Sessions, RereadMemory(s)
    PROVE  EntityInv'
<1>. DEFINE id == session[s].id
<1>1. session[s].kind \in Memories /\ session[s].text \in Texts
  BY DEF RereadMemory, EntityInv, SessionIs
<1>2. \A i : AnswersFor(s, i) => i = id /\ session[s].text = entries[id]
  BY DEF RereadMemory, AnswersFor, Looks
<1>3. /\ session[s].pc \in {"store", "reread"}
      /\ session[s].kind \notin {"none", "entity", "create", "update"}
      /\ TablesRest /\ UNCHANGED <<writer, extractions, unlinked, clashed>>
  BY <1>1 DEF RereadMemory, Memories
<1>4. CASE Looking(s, id, session[s].text, FALSE)
  BY <1>1, <1>2, <1>3, <1>4, BeginsToLook
<1>5. CASE id \in DOMAIN entries /\ Looking(s, id, entries[id], FALSE)
  <2>1. entries[id] \in Texts
    BY <1>5 DEF EntityInv, EntityTypes
  <2>. QED
    BY <1>2, <1>3, <1>5, <2>1, BeginsToLook
<1>6. CASE id \notin DOMAIN entries /\ Ends(s)
  <2>1. Turns(s, NoSession)
    BY <1>6, EndsTurns DEF EntityInv
  <2>2. SessionType(s)' /\ SessionIs(s)'
    BY <2>1, NothingHeld DEF Turns
  <2>3. ASSUME NEW i \in DOMAIN entries, i \in unlinked \cup extractions \/ AnswersFor(s, i)
        PROVE  EntryIs(i)'
    BY <1>2, <1>3, <1>6, <2>3 DEF EntryIs
  <2>. QED
    BY <1>3, <2>1, <2>2, <2>3, TablesStay DEF Turns, EntityInv
<1>. QED
  BY <1>4, <1>5, <1>6 DEF RereadMemory

LEMMA NameEntityStep ==
    ASSUME EntityInv, NEW s \in Sessions, NameEntity(s)
    PROVE  EntityInv'
<1>1. session[s].text \in Texts /\ ~ session[s].writes
  BY DEF NameEntity, EntityInv, SessionIs
<1>2. PICK i \in DOMAIN Named(session[s].text) :
        session' = [session EXCEPT ![s].pc = "look", ![s].todo = <<Named(session[s].text)[i]>>]
  BY DEF NameEntity
<1>3. PICK mention : mention = Named(session[s].text)[i]
  OBVIOUS
<1>4. <<mention>> \in Seq(Pairs)
  <2>1. Named(session[s].text) \in Seq(Pairs)
    BY <1>1, NamedIs
  <2>2. mention \in Pairs
    BY <1>2, <1>3, <2>1
  <2>. QED
    BY <2>2
<1>5. DOMAIN session = Sessions /\ SessionType(s) /\ SessionIs(s)
  BY DEF EntityInv, EntityTypes
<1>6. /\ DOMAIN session' = Sessions
      /\ \A t \in Sessions : t # s => session'[t] = session[t]
      /\ DOMAIN session'[s] = SessionFields
      /\ session'[s].kind = session[s].kind /\ session'[s].pc = "look"
      /\ session'[s].id = session[s].id /\ session'[s].text = session[s].text
      /\ session'[s].writes = session[s].writes /\ session'[s].todo = <<mention>>
      /\ session'[s].rows = session[s].rows /\ session'[s].links = session[s].links
  BY <1>2, <1>3, <1>5 DEF SessionType, SessionFields
<1>7. SessionType(s)'
  BY <1>4, <1>5, <1>6 DEF SessionType
<1>8. SessionIs(s)'
  BY <1>1, <1>5, <1>6 DEF SessionIs, NameEntity, Looks
<1>9. ASSUME NEW j, j \in unlinked \cup extractions \/ AnswersFor(s, j) PROVE EntryIs(j)'
  <2>1. ~ AnswersFor(s, j)
    BY DEF NameEntity, AnswersFor, Memories
  <2>. QED
    BY <1>9, <2>1 DEF NameEntity, EntryIs
<1>. QED
  BY <1>6, <1>7, <1>8, <1>9, TablesStay DEF NameEntity, EntityInv

(* A memory answers for what its entry names as soon as the entry is there.*)
LEMMA StoreMemoryStep ==
    ASSUME EntityInv, NEW s \in Sessions, StoreMemory(s)
    PROVE  EntityInv'
<1>1. PICK n : n = NewId
  OBVIOUS
<1>2. n \in Nat \ {0} /\ n \notin DOMAIN entries /\ Small(DOMAIN entries \cup {n})
  BY <1>1, EntryIds DEF EntityInv
<1>3. /\ DOMAIN entries' = DOMAIN entries \cup {n} /\ entries'[n] = session[s].text
      /\ \A id \in DOMAIN entries : entries'[id] = entries[id]
  BY <1>1, <1>2 DEF StoreMemory
<1>4. DOMAIN session = Sessions /\ SessionType(s) /\ SessionIs(s)
  BY DEF EntityInv, EntityTypes
<1>5. /\ DOMAIN session' = Sessions
      /\ \A t \in Sessions : t # s => session'[t] = session[t]
      /\ DOMAIN session'[s] = SessionFields
      /\ session'[s].kind = session[s].kind /\ session'[s].pc = "reread"
      /\ session'[s].id = n /\ session'[s].text = session[s].text
      /\ session'[s].writes = session[s].writes /\ session'[s].todo = session[s].todo
      /\ session'[s].rows = session[s].rows /\ session'[s].links = session[s].links
  BY <1>1, <1>4 DEF StoreMemory, SessionType, SessionFields
<1>6. session[s].text \in Texts /\ session[s].kind \in Memories /\ session[s].pc = "store"
  BY <1>4 DEF StoreMemory, SessionIs, Memories
<1>7. SessionType(s)'
  BY <1>4, <1>5 DEF SessionType
<1>8. SessionIs(s)'
  BY <1>4, <1>5, <1>6 DEF SessionIs, Looks
<1>9. entities' = entities /\ linked' = linked /\ writer' = writer
  BY DEF StoreMemory
<1>10. EntityTypes'
  <2>1. \A t \in Sessions : SessionType(t)'
    BY <1>5, <1>7 DEF EntityInv, EntityTypes, SessionType
  <2>. QED
    BY <1>2, <1>3, <1>5, <1>6, <2>1 DEF EntityInv, EntityTypes
<1>11. LinksAre'
  BY <1>3, <1>9 DEF EntityInv, LinksAre
<1>12. ASSUME NEW t \in Sessions, t # s
       PROVE  SessionIs(t)' /\ \A id \in DOMAIN entries : AnswersFor(t, id) => AnswersFor(t, id)'
  <2>1. session'[t] = session[t]
    BY <1>5, <1>12
  <2>2. Advanced(t) => Advanced(t)'
    BY <2>1, <1>9 DEF Advanced, Through, LinkedTo
  <2>3. HoldsLock(t) => HoldsLock(t)'
    BY <2>1, <2>2, <1>3, <1>9 DEF HoldsLock
  <2>4. SessionIs(t)
    BY DEF EntityInv
  <2>5. SessionIs(t)'
    BY <2>1, <2>3, <2>4, <1>9 DEF SessionIs
  <2>6. ASSUME NEW id \in DOMAIN entries, AnswersFor(t, id) PROVE AnswersFor(t, id)'
    BY <2>1, <2>2, <2>6, <1>3 DEF AnswersFor
  <2>. QED
    BY <2>5, <2>6
<1>13. ASSUME NEW id \in DOMAIN entries PROVE EntryIs(id)'
  <2>1. CASE id \in unlinked \cup extractions
    BY <1>1, <1>2, <2>1 DEF StoreMemory, EntryIs
  <2>2. CASE Covered(id)
    <3>1. Covered(id)'
      BY <1>3, <1>9, <2>2 DEF Covered, LinkedTo
    <3>. QED
      BY <3>1 DEF EntryIs
  <2>3. CASE \E t \in Sessions : AnswersFor(t, id)
    <3>1. PICK t \in Sessions : AnswersFor(t, id)
      BY <2>3
    <3>2. t # s
      BY <3>1, <1>6 DEF AnswersFor, Memories, Looks
    <3>3. AnswersFor(t, id)'
      BY <3>1, <3>2, <1>12
    <3>. QED
      BY <3>3 DEF EntryIs
  <2>. QED
    BY <2>1, <2>2, <2>3 DEF EntityInv, EntryIs
<1>14. EntryIs(n)'
  <2>1. AnswersFor(s, n)'
    BY <1>3, <1>5, <1>6 DEF AnswersFor
  <2>. QED
    BY <2>1 DEF EntryIs
<1>15. \A clash \in clashed' : ~ clash.writes
  BY DEF StoreMemory, EntityInv
<1>16. \A t \in Sessions : SessionIs(t)'
  BY <1>8, <1>12
<1>17. \A id \in DOMAIN entries' : EntryIs(id)'
  BY <1>3, <1>13, <1>14
<1>. QED
  BY <1>10, <1>11, <1>15, <1>16, <1>17 DEF EntityInv

-----------------------------------------------------------------------------
(* Looking up, and committing.                                             *)

(* A session that goes through one more mention: it has, or will insert, a *)
(* row of that name, and links it.                                         *)
LEMMA GoesOn ==
    ASSUME EntityInv, NEW s \in Sessions, TablesRest,
           session[s].pc \in Looks, session[s].todo # << >>,
           NEW row, row[1] = Head(session[s].todo)[1],
           DOMAIN session' = Sessions,
           \A t \in Sessions : t # s => session'[t] = session[t],
           DOMAIN session'[s] = SessionFields,
           session'[s].kind = session[s].kind, session'[s].pc = "look",
           session'[s].id = session[s].id, session'[s].text = session[s].text,
           session'[s].writes = session[s].writes,
           session'[s].todo = Tail(session[s].todo),
           session[s].rows \subseteq session'[s].rows,
           row \in entities \cup session'[s].rows,
           session'[s].links = WithLink(s, row),
           writer' = writer \/ (Lockable(s) /\ writer' = s),
           UNCHANGED <<extractions, unlinked, clashed>>
    PROVE  EntityInv'
<1>1. SessionType(s) /\ SessionIs(s)
  BY DEF EntityInv, EntityTypes
<1>2. SessionType(s)'
  <2>1. Tail(session[s].todo) \in Seq(Pairs)
    BY <1>1 DEF SessionType
  <2>. QED
    BY <1>1, <2>1 DEF SessionType
<1>3. session[s].kind # "entity" =>
        /\ session[s].text \in Texts
        /\ session'[s].links = session[s].links \cup ({<<session[s].id, row>>} \ linked)
  BY <1>1 DEF SessionIs, WithLink
<1>4. session[s].kind # "entity" /\ Advanced(s) => Advanced(s)'
  <2>1. SUFFICES ASSUME session[s].kind # "entity", Advanced(s) PROVE Advanced(s)'
    OBVIOUS
  <2>2. PICK left \in Seq(Pairs) : left = session[s].todo
    BY <1>1 DEF SessionType
  <2>3. PICK R, L, S, M :
          /\ R = entities \cup session[s].rows /\ L = linked \cup session[s].links
          /\ S = entities' \cup session'[s].rows /\ M = linked' \cup session'[s].links
    OBVIOUS
  <2>4. R \subseteq S /\ L \subseteq M /\ row \in S /\ <<session[s].id, row>> \in M
    BY <1>3, <2>1, <2>3 DEF TablesRest
  <2>5. Through(session[s].id, session[s].text, left, R, L)
    BY <2>1, <2>2, <2>3 DEF Advanced
  <2>6. Through(session[s].id, session[s].text, Tail(left), S, M)
    BY <1>3, <2>1, <2>2, <2>4, <2>5, ThroughOneMore
  <2>. QED
    BY <2>2, <2>3, <2>6 DEF Advanced
<1>5. session[s].writes => HoldsLock(s)'
  <2>1. SUFFICES ASSUME session[s].writes PROVE HoldsLock(s)'
    OBVIOUS
  <2>2. HoldsLock(s)
    BY <1>1, <2>1 DEF SessionIs
  <2>3. Advanced(s)' /\ session'[s].links \cap linked = {}
    BY <1>3, <1>4, <2>2 DEF HoldsLock
  <2>. QED
    BY <2>2, <2>3 DEF HoldsLock, TablesRest
<1>6. \A link \in session'[s].links :
        link[1] = session[s].id /\ link[2] \in entities \cup session'[s].rows
  <2>1. CASE session[s].kind = "entity"
    BY <2>1 DEF WithLink
  <2>2. CASE session[s].kind # "entity"
    BY <1>1, <1>3, <2>2 DEF SessionIs
  <2>. QED
    BY <2>1, <2>2
<1>7. SessionIs(s)'
  BY <1>1, <1>5, <1>6 DEF SessionIs, Looks, TablesRest
<1>8. ASSUME NEW id \in DOMAIN entries, id \in unlinked \cup extractions \/ AnswersFor(s, id)
      PROVE  EntryIs(id)'
  <2>1. CASE id \in unlinked \cup extractions
    BY <2>1 DEF EntryIs
  <2>2. CASE AnswersFor(s, id)
    <3>1. /\ session[s].id = id /\ session[s].kind \in Memories \cup {"job"}
          /\ session[s].text = entries[id] /\ Advanced(s)
      BY <2>2 DEF AnswersFor, Looks
    <3>2. AnswersFor(s, id)'
      BY <1>4, <3>1 DEF AnswersFor, Looks, TablesRest, Memories
    <3>. QED
      BY <3>2 DEF EntryIs
  <2>. QED
    BY <1>8, <2>1, <2>2
<1>9. writer' = writer \/ (writer \in {Nobody, s} /\ writer' \in {Nobody, s})
  BY DEF Lockable
<1>10. \A clash \in clashed' : ~ clash.writes
  BY DEF EntityInv
<1>. QED
  BY <1>2, <1>7, <1>8, <1>9, <1>10, TablesStay

LEMMA LookStep ==
    ASSUME EntityInv, NEW s \in Sessions, Look(s)
    PROVE  EntityInv'
<1>1. PICK mention : mention = Head(session[s].todo)
  OBVIOUS
<1>2. DOMAIN session = Sessions /\ SessionType(s) /\ SessionIs(s)
  BY DEF EntityInv, EntityTypes
<1>3. session[s].pc = "look" /\ session[s].todo # << >> /\ TablesRest
      /\ UNCHANGED <<writer, extractions, unlinked, clashed>>
  BY DEF Look
<1>4. ASSUME NEW row \in Found(s, mention),
             session' = [session EXCEPT ![s].todo = Tail(@), ![s].links = WithLink(s, row)]
      PROVE  EntityInv'
  <2>1. PICK links : links = WithLink(s, row)
    OBVIOUS
  <2>2. /\ DOMAIN session' = Sessions
        /\ \A t \in Sessions : t # s => session'[t] = session[t]
        /\ DOMAIN session'[s] = SessionFields
        /\ session'[s].kind = session[s].kind /\ session'[s].pc = session[s].pc
        /\ session'[s].id = session[s].id /\ session'[s].text = session[s].text
        /\ session'[s].writes = session[s].writes /\ session'[s].todo = Tail(session[s].todo)
        /\ session'[s].rows = session[s].rows /\ session'[s].links = links
    BY <1>2, <1>4, <2>1 DEF SessionType, SessionFields
  <2>3. row \in entities \cup session'[s].rows /\ row[1] = mention[1]
    BY <2>2 DEF Found, Matches
  <2>. QED
    BY <1>1, <1>3, <2>1, <2>2, <2>3, GoesOn DEF Looks
<1>5. CASE Found(s, mention) = {} /\ session' = [session EXCEPT ![s].pc = "insert"]
  <2>1. /\ DOMAIN session' = Sessions
        /\ \A t \in Sessions : t # s => session'[t] = session[t]
        /\ DOMAIN session'[s] = SessionFields
        /\ session'[s].kind = session[s].kind /\ session'[s].pc = "insert"
        /\ session'[s].id = session[s].id /\ session'[s].text = session[s].text
        /\ session'[s].writes = session[s].writes /\ session'[s].todo = session[s].todo
        /\ session'[s].rows = session[s].rows /\ session'[s].links = session[s].links
    BY <1>2, <1>5 DEF SessionType, SessionFields
  <2>2. SessionType(s)'
    BY <1>2, <2>1 DEF SessionType
  <2>3. mention \notin entities
    BY <1>5 DEF Found, Matches
  <2>4. Advanced(s) => Advanced(s)'
    BY <1>3, <2>1 DEF Advanced, TablesRest
  <2>5. HoldsLock(s) => HoldsLock(s)'
    BY <1>1, <1>3, <2>1, <2>3, <2>4 DEF HoldsLock, TablesRest
  <2>6. SessionIs(s)'
    BY <1>2, <1>3, <2>1, <2>5 DEF SessionIs, Looks, TablesRest
  <2>7. ASSUME NEW id, AnswersFor(s, id) PROVE AnswersFor(s, id)'
    BY <1>3, <2>1, <2>4, <2>7 DEF AnswersFor, Looks, TablesRest
  <2>8. ASSUME NEW id, id \in unlinked \cup extractions \/ AnswersFor(s, id) PROVE EntryIs(id)'
    BY <1>3, <2>7, <2>8 DEF EntryIs
  <2>. QED
    BY <1>3, <2>1, <2>2, <2>6, <2>8, TablesStay DEF EntityInv
<1>. QED
  BY <1>1, <1>4, <1>5 DEF Look

LEMMA InsertStep ==
    ASSUME EntityInv, NEW s \in Sessions, Insert(s)
    PROVE  EntityInv'
<1>1. PICK mention : mention = Head(session[s].todo)
  OBVIOUS
<1>2. DOMAIN session = Sessions /\ SessionType(s) /\ SessionIs(s)
  BY DEF EntityInv, EntityTypes
<1>3. session[s].pc = "insert" /\ Lockable(s) /\ session[s].todo # << >>
  BY <1>2 DEF Insert, SessionIs
<1>4. CASE mention \in entities \/ Refused(s)
  BY <1>1, <1>3, <1>4, NothingInTheWay, ClashesStep DEF Insert, Looks
<1>5. CASE ~ (mention \in entities \/ Refused(s))
  <2>1. PICK links : links = WithLink(s, mention)
    OBVIOUS
  <2>2. /\ writer' = s /\ TablesRest /\ UNCHANGED <<extractions, unlinked, clashed>>
        /\ session' = [session EXCEPT ![s].pc = "look", ![s].todo = Tail(@),
                                      ![s].rows = @ \cup {mention}, ![s].links = links]
    BY <1>1, <1>5, <2>1 DEF Insert
  <2>3. /\ DOMAIN session' = Sessions
        /\ \A t \in Sessions : t # s => session'[t] = session[t]
        /\ DOMAIN session'[s] = SessionFields
        /\ session'[s].kind = session[s].kind /\ session'[s].pc = "look"
        /\ session'[s].id = session[s].id /\ session'[s].text = session[s].text
        /\ session'[s].writes = session[s].writes /\ session'[s].todo = Tail(session[s].todo)
        /\ session'[s].rows = session[s].rows \cup {mention} /\ session'[s].links = links
    BY <1>2, <2>2 DEF SessionType, SessionFields
  <2>4. /\ session[s].rows \subseteq session'[s].rows
        /\ mention \in entities \cup session'[s].rows
        /\ mention[1] = Head(session[s].todo)[1] /\ session'[s].links = WithLink(s, mention)
        /\ session[s].pc \in Looks /\ Lockable(s) /\ writer' = s
    BY <1>1, <1>3, <2>1, <2>2, <2>3 DEF Looks
  <2>. QED
    BY <1>3, <2>2, <2>3, <2>4, GoesOn, SMTT(30)
<1>. QED
  BY <1>4, <1>5

(* What a session has linked is all its text names, when it commits.       *)
LEMMA CommitStep ==
    ASSUME EntityInv, NEW s \in Sessions, CommitSession(s)
    PROVE  EntityInv'
<1>1. EntityTypes /\ DOMAIN session = Sessions /\ SessionType(s) /\ SessionIs(s)
  BY DEF EntityInv, EntityTypes
<1>2. session[s].pc = "look" /\ session[s].todo = << >> /\ Lockable(s)
  BY DEF CommitSession
<1>3. CASE Refused(s)
  BY <1>2, <1>3, NothingInTheWay, ClashesStep DEF CommitSession, Looks
<1>4. CASE ~ Refused(s)
  <2>. DEFINE n == session[s].id
  <2>1. /\ entries' = Stored(s) /\ entities' = entities \cup session[s].rows
        /\ linked' = linked \cup session[s].links
        /\ writer' = IF writer = s THEN Nobody ELSE writer
        /\ extractions \subseteq extractions'
        /\ unlinked' = IF session[s].writes THEN unlinked \ {n} ELSE unlinked
        /\ Ends(s) /\ UNCHANGED clashed
    BY <1>4 DEF CommitSession
  <2>2. Turns(s, NoSession)
    BY <1>1, <2>1, EndsTurns
  <2>3. SessionType(s)' /\ SessionIs(s)'
    BY <2>2, NothingHeld DEF Turns
  <2>4. session[s].writes => HoldsLock(s) /\ session[s].text \in Texts
    BY <1>1, <1>2 DEF SessionIs, HoldsLock, Looks
  <2>5. /\ session[s].writes => DOMAIN entries' = DOMAIN entries \cup {n} /\ entries'[n] = session[s].text
        /\ ~ session[s].writes => entries' = entries
        /\ \A id \in DOMAIN entries :
             ~ (session[s].writes /\ id = n) => id \in DOMAIN entries' /\ entries'[id] = entries[id]
    BY <2>1 DEF Stored
  <2>6. DOMAIN entries \subseteq DOMAIN entries'
    BY <2>5
  <2>7. Small(DOMAIN entries') /\ \A id \in DOMAIN entries' : entries'[id] \in Texts
    <3>1. CASE session[s].writes
      <4>1. n \in Nat \ {0}
        BY <2>4, <3>1 DEF HoldsLock
      <4>2. {n} \subseteq 1 .. n /\ n \in Nat
        BY <4>1
      <4>3. Small({n})
        BY <4>2 DEF Small
      <4>4. Small(DOMAIN entries \cup {n})
        BY <1>1, <4>3, SmallUnion DEF EntityTypes
      <4>. QED
        BY <1>1, <2>4, <2>5, <3>1, <4>4 DEF EntityTypes
    <3>2. CASE ~ session[s].writes
      BY <1>1, <2>5, <3>2 DEF EntityTypes
    <3>. QED
      BY <3>1, <3>2
  <2>8. EntityTypes'
    <3>1. \A t \in Sessions : SessionType(t)'
      BY <2>2, <2>3 DEF Turns, EntityInv, EntityTypes, SessionType
    <3>. QED
      BY <2>2, <2>7, <3>1 DEF Turns, EntityTypes
  <2>9. LinksAre'
    <3>1. session[s].links # {} => n \in DOMAIN entries'
      <4>1. session[s].kind = "create" => session[s].writes
        BY <1>1, <1>2 DEF SessionIs, Looks
      <4>. QED
        BY <1>4, <2>5, <2>6, <4>1 DEF Refused
    <3>2. \A link \in session[s].links : link[1] = n /\ link[2] \in entities'
      BY <1>1, <2>1 DEF SessionIs
    <3>. QED
      BY <2>1, <2>6, <3>1, <3>2 DEF EntityInv, LinksAre
  <2>10. Advanced(s) /\ session[s].text \in Texts =>
           \A i \in 1 .. Len(Named(session[s].text)) :
             LinkedTo(n, Named(session[s].text)[i][1], entities', linked')
    BY <1>2, <2>1, ThroughAll DEF Advanced
  <2>11. ASSUME NEW t \in Sessions, t # s
         PROVE  /\ SessionIs(t)'
                /\ \A id \in DOMAIN entries : ~ (session[s].writes /\ id = n) /\ AnswersFor(t, id) =>
                     AnswersFor(t, id)'
    <3>1. session'[t] = session[t]
      BY <2>2, <2>11 DEF Turns
    <3>2. Advanced(t) => Advanced(t)'
      <4>1. SUFFICES ASSUME Advanced(t) PROVE Advanced(t)'
        OBVIOUS
      <4>2. PICK R, L, S, M :
              /\ R = entities \cup session[t].rows /\ L = linked \cup session[t].links
              /\ S = entities' \cup session'[t].rows /\ M = linked' \cup session'[t].links
        OBVIOUS
      <4>3. R \subseteq S /\ L \subseteq M
        BY <2>1, <3>1, <4>2
      <4>4. Through(session[t].id, session[t].text, session[t].todo, R, L)
        BY <4>1, <4>2 DEF Advanced
      <4>5. Through(session[t].id, session[t].text, session[t].todo, S, M)
        BY <4>3, <4>4, ThroughMore
      <4>. QED
        BY <3>1, <4>2, <4>5 DEF Advanced
    <3>3. ~ HoldsLock(t)
      BY <1>2, <2>11, EntitiesAssumption DEF HoldsLock, Lockable, EntitiesAssumption
    <3>4. SessionIs(t)
      BY DEF EntityInv
    <3>5. SessionIs(t)'
      BY <2>1, <3>1, <3>3, <3>4 DEF SessionIs
    <3>6. ASSUME NEW id \in DOMAIN entries, ~ (session[s].writes /\ id = n), AnswersFor(t, id)
          PROVE  AnswersFor(t, id)'
      BY <2>5, <3>1, <3>2, <3>6 DEF AnswersFor
    <3>. QED
      BY <3>5, <3>6
  <2>12. ASSUME NEW id \in DOMAIN entries', session[s].writes, id = n PROVE EntryIs(id)'
    <3>1. Advanced(s) /\ session[s].text \in Texts /\ entries'[id] = session[s].text
      BY <2>4, <2>5, <2>12 DEF HoldsLock
    <3>2. Covered(id)'
      BY <2>10, <2>12, <3>1 DEF Covered
    <3>. QED
      BY <3>2 DEF EntryIs
  <2>13. ASSUME NEW id \in DOMAIN entries', ~ (session[s].writes /\ id = n) PROVE EntryIs(id)'
    <3>1. id \in DOMAIN entries /\ entries'[id] = entries[id]
      BY <2>5, <2>13
    <3>2. CASE id \in unlinked \cup extractions
      BY <2>1, <2>13, <3>2 DEF EntryIs
    <3>3. CASE Covered(id)
      <4>1. Covered(id)'
        BY <2>1, <3>1, <3>3, LinkedToMore DEF Covered
      <4>. QED
        BY <4>1 DEF EntryIs
    <3>4. ASSUME NEW t \in Sessions, AnswersFor(t, id) PROVE EntryIs(id)'
      <4>1. CASE t = s
        <5>1. /\ id = n /\ session[s].text = entries[id] /\ Advanced(s)
          BY <1>2, <3>4, <4>1 DEF AnswersFor, Looks
        <5>2. session[s].text \in Texts
          BY <1>1, <3>1, <5>1 DEF EntityTypes
        <5>3. Covered(id)'
          BY <2>10, <3>1, <5>1, <5>2 DEF Covered
        <5>. QED
          BY <5>3 DEF EntryIs
      <4>2. CASE t # s
        <5>1. AnswersFor(t, id)'
          BY <2>11, <2>13, <3>1, <3>4, <4>2
        <5>. QED
          BY <5>1 DEF EntryIs
      <4>. QED
        BY <4>1, <4>2
    <3>. QED
      BY <3>1, <3>2, <3>3, <3>4 DEF EntityInv, EntryIs
  <2>14. \A t \in Sessions : SessionIs(t)'
    BY <2>3, <2>11
  <2>15. \A id \in DOMAIN entries' : EntryIs(id)'
    BY <2>12, <2>13
  <2>16. \A clash \in clashed' : ~ clash.writes
    BY <2>1 DEF EntityInv
  <2>. QED
    BY <2>8, <2>9, <2>14, <2>15, <2>16 DEF EntityInv
<1>. QED
  BY <1>3, <1>4

(* An entry goes with its links, and only while nobody holds the lock.     *)
LEMMA DeleteEntryStep ==
    ASSUME EntityInv, NEW n \in DOMAIN entries, DeleteEntry(n)
    PROVE  EntityInv'
<1>1. /\ DOMAIN entries' = DOMAIN entries \ {n}
      /\ \A id \in DOMAIN entries' : entries'[id] = entries[id]
      /\ linked' = {link \in linked : link[1] # n}
      /\ unlinked' = unlinked \ {n} /\ writer = Nobody
      /\ UNCHANGED <<entities, writer, session, extractions, clashed>>
  BY DEF DeleteEntry
<1>2. EntityTypes'
  <2>1. Small(DOMAIN entries')
    BY <1>1, SmallPart DEF EntityInv, EntityTypes
  <2>. QED
    BY <1>1, <2>1 DEF EntityInv, EntityTypes, SessionType
<1>3. LinksAre'
  BY <1>1 DEF EntityInv, LinksAre
<1>4. ASSUME NEW t \in Sessions
      PROVE  /\ SessionIs(t)'
             /\ \A id \in DOMAIN entries' : AnswersFor(t, id) => AnswersFor(t, id)'
  <2>1. ~ HoldsLock(t)
    BY <1>1, EntitiesAssumption DEF HoldsLock, EntitiesAssumption
  <2>2. SessionIs(t)
    BY DEF EntityInv
  <2>3. SessionIs(t)'
    BY <1>1, <2>1, <2>2 DEF SessionIs
  <2>4. ASSUME NEW id \in DOMAIN entries', AnswersFor(t, id) PROVE AnswersFor(t, id)'
    <3>1. session[t].id = id /\ id # n /\ entries'[id] = entries[id]
      BY <1>1, <2>4 DEF AnswersFor
    <3>2. Advanced(t) => Advanced(t)'
      <4>1. SUFFICES ASSUME Advanced(t) PROVE Advanced(t)'
        OBVIOUS
      <4>2. PICK R, L, M :
              /\ R = entities \cup session[t].rows /\ L = linked \cup session[t].links
              /\ M = linked' \cup session'[t].links
        OBVIOUS
      <4>3. \A row \in R : <<id, row>> \in L => <<id, row>> \in M
        BY <1>1, <3>1, <4>2
      <4>4. Through(id, session[t].text, session[t].todo, R, L)
        BY <3>1, <4>1, <4>2 DEF Advanced
      <4>5. Through(id, session[t].text, session[t].todo, R, M)
        BY <4>3, <4>4, ThroughMore
      <4>. QED
        BY <1>1, <3>1, <4>2, <4>5 DEF Advanced
    <3>. QED
      BY <1>1, <2>4, <3>1, <3>2 DEF AnswersFor
  <2>. QED
    BY <2>3, <2>4
<1>5. ASSUME NEW id \in DOMAIN entries' PROVE EntryIs(id)'
  <2>1. id \in DOMAIN entries /\ id # n
    BY <1>1
  <2>2. CASE id \in unlinked \cup extractions
    BY <1>1, <2>1, <2>2 DEF EntryIs
  <2>3. CASE Covered(id)
    <3>1. \A row \in entities : <<id, row>> \in linked => <<id, row>> \in linked'
      BY <1>1, <2>1
    <3>2. Covered(id)'
      BY <1>1, <2>3, <3>1, LinkedToMore DEF Covered
    <3>. QED
      BY <3>2 DEF EntryIs
  <2>4. CASE \E t \in Sessions : AnswersFor(t, id)
    BY <1>4, <2>4 DEF EntryIs
  <2>. QED
    BY <2>1, <2>2, <2>3, <2>4 DEF EntityInv, EntryIs
<1>. QED
  BY <1>1, <1>2, <1>3, <1>4, <1>5 DEF EntityInv

LEMMA LegacyRestartsStep ==
    ASSUME EntityInv, LegacyRestarts
    PROVE  EntityInv'
<1>1. /\ DOMAIN session' = Sessions /\ \A s \in Sessions : session'[s] = NoSession
      /\ UNCHANGED <<entries, entities, linked, extractions, clashed>>
      /\ unlinked \subseteq unlinked'
      /\ \A s \in Sessions : session[s].kind \in Memories \cup {"job"} /\ session[s].id # 0 =>
           session[s].id \in unlinked'
  BY DEF LegacyRestarts, TablesRest
<1>2. \A s \in Sessions : SessionType(s)' /\ SessionIs(s)'
  BY <1>1, NothingHeld
<1>3. EntityTypes' /\ LinksAre'
  BY <1>1, <1>2 DEF EntityInv, EntityTypes, LinksAre
<1>4. ASSUME NEW id \in DOMAIN entries PROVE EntryIs(id)'
  <2>1. CASE id \in unlinked \cup extractions
    BY <1>1, <2>1 DEF EntryIs
  <2>2. CASE Covered(id)
    <3>1. Covered(id)'
      BY <1>1, <2>2 DEF Covered, LinkedTo
    <3>. QED
      BY <3>1 DEF EntryIs
  <2>3. CASE \E t \in Sessions : AnswersFor(t, id)
    <3>1. PICK t \in Sessions : AnswersFor(t, id)
      BY <2>3
    <3>2. id # 0
      BY EntryIds DEF EntityInv
    <3>3. id \in unlinked'
      BY <1>1, <3>1, <3>2 DEF AnswersFor
    <3>. QED
      BY <3>3 DEF EntryIs
  <2>. QED
    BY <2>1, <2>2, <2>3 DEF EntityInv, EntryIs
<1>. QED
  BY <1>1, <1>2, <1>3, <1>4 DEF EntityInv

-----------------------------------------------------------------------------
EntitiesSpec == EntitiesInit /\ [][EntitiesNext]_entityVars

LEMMA EntitiesBegin == EntitiesInit => EntityInv
<1>. SUFFICES ASSUME EntitiesInit PROVE EntityInv
  OBVIOUS
<1>1. Small(DOMAIN entries) /\ DOMAIN entries = {}
  BY NothingIsSmall DEF EntitiesInit
<1>2. DOMAIN session = Sessions /\ \A s \in Sessions : session[s] = NoSession
  BY DEF EntitiesInit
<1>3. << >> \in Seq(Pairs)
  OBVIOUS
<1>4. ASSUME NEW s \in Sessions PROVE SessionType(s) /\ SessionIs(s)
  <2>1. SessionType(s)
    BY <1>2, <1>3, NoSessionIs DEF SessionType
  <2>. QED
    BY <1>2, <2>1, NoSessionIs DEF SessionIs, Looks
<1>5. LinksAre /\ (\A clash \in clashed : ~ clash.writes)
  BY DEF EntitiesInit, LinksAre
<1>. QED
  BY <1>1, <1>2, <1>4, <1>5 DEF EntityInv, EntityTypes

LEMMA EntitiesStep == EntityInv /\ [EntitiesNext]_entityVars => EntityInv'
<1>. SUFFICES ASSUME EntityInv, [EntitiesNext]_entityVars PROVE EntityInv'
  OBVIOUS
<1>1. CASE UNCHANGED entityVars
  <2>1. UNCHANGED <<entries, entities, linked, writer, session, extractions, unlinked, clashed>>
    BY <1>1 DEF entityVars
  <2>2. EntityTypes' /\ LinksAre'
    BY <2>1 DEF EntityInv, EntityTypes, SessionType, LinksAre
  <2>3. ASSUME NEW s \in Sessions PROVE Advanced(s) = Advanced(s)'
    BY <2>1 DEF Advanced, Through, LinkedTo
  <2>4. ASSUME NEW s \in Sessions PROVE SessionIs(s)'
    BY <2>1, <2>3 DEF EntityInv, SessionIs, HoldsLock
  <2>5. ASSUME NEW s \in Sessions, NEW id, AnswersFor(s, id) PROVE AnswersFor(s, id)'
    BY <2>1, <2>3, <2>5 DEF AnswersFor
  <2>6. ASSUME NEW id, Covered(id) PROVE Covered(id)'
    BY <2>1, <2>6 DEF Covered, LinkedTo
  <2>7. ASSUME NEW id \in DOMAIN entries PROVE EntryIs(id)'
    BY <2>1, <2>5, <2>6 DEF EntityInv, EntryIs
  <2>. QED
    BY <2>1, <2>2, <2>4, <2>7 DEF EntityInv
<1>2. ASSUME NEW s \in Sessions,
             \/ SubmitSome(s) \/ TakeExtraction(s)
             \/ StoreEntry(s) \/ StoreMemory(s) \/ RereadMemory(s) \/ ReadEntry(s) \/ FlushUpdate(s)
             \/ NameEntity(s) \/ Look(s) \/ Insert(s) \/ CommitSession(s) \/ StatementFails(s)
      PROVE  EntityInv'
  BY <1>2, SubmitStep, TakeExtractionStep, StoreEntryStep, StoreMemoryStep, RereadMemoryStep,
     ReadEntryStep, FlushUpdateStep, NameEntityStep, LookStep, InsertStep, CommitStep, StatementFailsStep
<1>3. ASSUME NEW id \in DOMAIN entries, DeleteEntry(id) PROVE EntityInv'
  BY <1>3, DeleteEntryStep
<1>4. CASE LegacyRestarts
  BY <1>4, LegacyRestartsStep
<1>. QED
  BY <1>1, <1>2, <1>3, <1>4 DEF EntitiesNext

LEMMA EntityInvIsEnough == EntityInv => NamesAreLinked
<1>. SUFFICES ASSUME EntityInv PROVE NamesAreLinked
  OBVIOUS
<1>1. ASSUME \A s \in Sessions : session[s].pc = "idle",
             NEW id \in DOMAIN entries, id \notin unlinked \cup extractions,
             NEW i \in DOMAIN Named(entries[id])
      PROVE  \E row \in entities : row[1] = Named(entries[id])[i][1] /\ <<id, row>> \in linked
  <2>1. \A s \in Sessions : ~ AnswersFor(s, id)
    BY <1>1, IdleAnswersForNothing
  <2>2. Covered(id)
    BY <1>1, <2>1 DEF EntityInv, EntryIs
  <2>3. entries[id] \in Texts
    BY DEF EntityInv, EntityTypes
  <2>4. Named(entries[id]) \in Seq(Pairs)
    BY <2>3, NamedIs
  <2>5. i \in 1 .. Len(Named(entries[id]))
    BY <2>4
  <2>. QED
    BY <2>2, <2>5 DEF Covered, LinkedTo
<1>. QED
  BY <1>1 DEF EntityInv, LinksAre, NamesAreLinked

(* NamesAreLinked, for every number of sessions, texts and requests: once  *)
(* the requests and jobs of main.py are done, an entry is linked to a row  *)
(* for every name in its text, unless a memory's request or its job has    *)
(* raised; links lead to what is there; and create_entry and update_entry, *)
(* which flush what they write before they look up a name, are then never  *)
(* refused because of a row of somebody else.                              *)
THEOREM NamesStayLinked == EntitiesSpec => []NamesAreLinked
<1>1. EntitiesSpec => []EntityInv
  BY EntitiesBegin, EntitiesStep, PTL DEF EntitiesSpec
<1>. QED
  BY <1>1, EntityInvIsEnough, PTL

-----------------------------------------------------------------------------
(* Jobs. An entry whose embedding is old is served by a job: the last that *)
(* was enqueued for it, which whoever runs it runs with the latest text.   *)

JobRows == [kind : Requests \cup {"embedding"}, entry : Entries,
            status : {"pending", "queued", "running", "completed", "failed"},
            tries : Nat, due : BOOLEAN]

Engaged == {"taken", "running"}

JobTypes ==
    /\ content \in [Entries -> Nat] /\ embedding \in [Entries -> Nat]
    /\ jobs \in Seq(JobRows)
    /\ queue \in [Ids -> Nat]
    /\ hand \in [Workers -> Nat]
    /\ stage \in [Workers -> {"idle", "polled"} \cup Engaged]
    /\ DOMAIN polled = Workers
    /\ todo \in [Workers -> SUBSET Entries]
    /\ text \in [Workers -> [Entries -> Nat]]
    /\ edits \in Nat

(* What is queued, polled or in a worker's hand is a row of the table.     *)
Referred ==
    /\ \A j \in Ids : queue[j] > 0 => j \in DOMAIN jobs
    /\ \A w \in Workers : polled[w] \subseteq DOMAIN jobs
    /\ \A w \in Workers : stage[w] \in Engaged => hand[w] \in DOMAIN jobs
    /\ stuck \subseteq DOMAIN jobs

Runs(w, j) == stage[w] = "running" /\ hand[w] = j

Serves(j, e) ==
    /\ j \in DOMAIN jobs \ stuck
    /\ jobs[j].kind = "embedding" /\ jobs[j].entry = e
    /\ jobs[j].status \in Unfinished
    /\ jobs[j].status = "running" => \E w \in Workers : Runs(w, j)
    /\ \A w \in Workers : Runs(w, j) => todo[w] = {e} /\ text[w][e] = content[e]

EmbeddingIs(e) ==
    content[e] # 0 =>
      embedding[e] = content[e] \/ e \in behind \/ \E j \in DOMAIN jobs : Serves(j, e)

JobsInv == JobTypes /\ Referred /\ \A e \in Entries : EmbeddingIs(e)

LEMMA JobsAre ==
    ASSUME JobTypes
    PROVE  /\ Len(jobs) \in Nat /\ DOMAIN jobs = 1 .. Len(jobs)
           /\ \A j \in DOMAIN jobs : jobs[j] \in JobRows
BY DEF JobTypes

(* The next entry to embed is one of those to embed.                       *)
LEMMA NextToEmbed ==
    ASSUME NEW S \in SUBSET Entries, S # {}
    PROVE  Min(S) \in S
<1>1. S \in SUBSET Nat
  BY JobsAssumption DEF JobsAssumption
<1>2. PICK x \in S : \A y \in S : x <= y
  BY <1>1, Least
<1>. QED
  BY <1>2 DEF Min

(* Rows that are replaced are rows in the same places.                     *)
LEMMA RowsReplaced ==
    ASSUME NEW S, NEW old \in Seq(S), NEW new, DOMAIN new = DOMAIN old,
           \A j \in DOMAIN old : new[j] \in S, new = [j \in DOMAIN old |-> new[j]]
    PROVE  new \in Seq(S) /\ Len(new) = Len(old)
<1>1. PICK n \in Nat : n = Len(old) /\ DOMAIN old = 1 .. n
  OBVIOUS
<1>2. new \in [1 .. n -> S]
  BY <1>1
<1>3. new \in Seq(S)
  BY <1>2
<1>. QED
  BY <1>1, <1>2, <1>3

LEMMA EnqueueAppends ==
    ASSUME JobTypes, Referred, NEW kind \in Requests \cup {"embedding"}, NEW e \in Entries,
           Enqueue(kind, e)
    PROVE  /\ jobs' \in Seq(JobRows) /\ queue' \in [Ids -> Nat]
           /\ \A j \in Ids : queue'[j] > 0 => j \in DOMAIN jobs'
           /\ DOMAIN jobs' = DOMAIN jobs \cup {Len(jobs) + 1}
           /\ Len(jobs) + 1 \notin DOMAIN jobs
           /\ \A j \in DOMAIN jobs : jobs'[j] = jobs[j]
           /\ jobs'[Len(jobs) + 1].kind = kind /\ jobs'[Len(jobs) + 1].entry = e
           /\ jobs'[Len(jobs) + 1].status = "pending"
<1>. DEFINE row == [kind |-> kind, entry |-> e, status |-> "pending", tries |-> 0, due |-> TRUE]
<1>1. row \in JobRows /\ row.kind = kind /\ row.entry = e /\ row.status = "pending"
  BY DEF JobRows
<1>2. PICK n \in Nat : n = Len(jobs) /\ DOMAIN jobs = 1 .. n
  BY JobsAre
<1>3. jobs' = Append(jobs, row) /\ queue' = [queue EXCEPT ![n + 1] = @ + 1]
  BY <1>2 DEF Enqueue
<1>. HIDE DEF row
<1>4. jobs' \in Seq(JobRows) /\ DOMAIN jobs' = 1 .. n + 1 /\ jobs'[n + 1] = row
      /\ \A j \in DOMAIN jobs : jobs'[j] = jobs[j]
  BY <1>1, <1>2, <1>3 DEF JobTypes
<1>5. queue' \in [Ids -> Nat] /\ \A j \in Ids : queue'[j] > 0 => j \in 1 .. n + 1
  <2>1. queue \in [Ids -> Nat]
    BY DEF JobTypes
  <2>2. queue' \in [Ids -> Nat]
    <3>. PICK k : k = n + 1
      OBVIOUS
    <3>. PICK q : q = queue[k] + 1
      OBVIOUS
    <3>1. queue' = [queue EXCEPT ![k] = q]
      BY <1>3
    <3>2. k \in Ids => q \in Nat
      BY <2>1
    <3>. QED
      BY <2>1, <3>1, <3>2
  <2>3. ASSUME NEW j \in Ids, queue'[j] > 0 PROVE j \in 1 .. n + 1
    <3>1. CASE j = n + 1
      BY <1>2, <3>1
    <3>2. CASE j # n + 1
      <4>1. queue[j] > 0
        BY <1>3, <2>1, <2>3, <3>2
      <4>. QED
        BY <1>2, <4>1 DEF Referred
    <3>. QED
      BY <3>1, <3>2
  <2>. QED
    BY <2>2, <2>3
<1>. QED
  BY <1>1, <1>2, <1>4, <1>5

(* A job goes on serving an entry while nobody works on it.                *)
LEMMA ServesOn ==
    ASSUME NEW j, NEW e, Serves(j, e), j \in DOMAIN jobs', jobs'[j] = jobs[j], j \notin stuck',
           content'[e] = content[e],
           UNCHANGED <<hand, stage, todo, text>>
    PROVE  Serves(j, e)'
BY DEF Serves, Runs

LEMMA EditStep ==
    ASSUME JobsInv, NEW e \in Entries, Edit(e)
    PROVE  JobsInv'
<1>. PICK n : n = Len(jobs) + 1
  OBVIOUS
<1>1. /\ content' = [content EXCEPT ![e] = edits + 1] /\ edits' = edits + 1
      /\ UNCHANGED <<embedding, hand, stage, polled, todo, text, stuck>>
  BY DEF Edit, workers
<1>2. CASE Edited(e) /\ UNCHANGED behind
  <2>1. /\ jobs' \in Seq(JobRows) /\ queue' \in [Ids -> Nat]
        /\ \A j \in Ids : queue'[j] > 0 => j \in DOMAIN jobs'
        /\ DOMAIN jobs' = DOMAIN jobs \cup {n} /\ n \notin DOMAIN jobs
        /\ \A j \in DOMAIN jobs : jobs'[j] = jobs[j]
        /\ jobs'[n].kind = "embedding" /\ jobs'[n].entry = e /\ jobs'[n].status = "pending"
    BY <1>2, EnqueueAppends DEF JobsInv, Edited
  <2>2. JobTypes'
    BY <1>1, <2>1 DEF JobsInv, JobTypes
  <2>3. Referred'
    BY <1>1, <2>1 DEF JobsInv, Referred
  <2>4. Serves(n, e)'
    BY <1>1, <2>1 DEF JobsInv, Referred, Engaged, Serves, Runs, Unfinished
  <2>5. ASSUME NEW f \in Entries, f # e PROVE EmbeddingIs(f)'
    <3>1. content'[f] = content[f]
      BY <1>1, <2>5 DEF JobsInv, JobTypes
    <3>2. ASSUME NEW j \in DOMAIN jobs, Serves(j, f) PROVE Serves(j, f)'
      <4>1. j \notin stuck
        BY <3>2 DEF Serves
      <4>2. j \in DOMAIN jobs' /\ jobs'[j] = jobs[j]
        BY <2>1
      <4>. QED
        BY <1>1, <3>1, <3>2, <4>1, <4>2, ServesOn
    <3>. QED
      BY <1>1, <1>2, <2>1, <3>1, <3>2 DEF JobsInv, EmbeddingIs
  <2>6. EmbeddingIs(e)'
    BY <2>1, <2>4 DEF EmbeddingIs
  <2>. QED
    BY <2>2, <2>3, <2>5, <2>6 DEF JobsInv
<1>3. CASE behind' = behind \cup {e} /\ UNCHANGED <<jobs, queue>>
  <2>1. JobTypes' /\ Referred'
    BY <1>1, <1>3 DEF JobsInv, JobTypes, Referred
  <2>2. ASSUME NEW f \in Entries, f # e PROVE EmbeddingIs(f)'
    <3>1. content'[f] = content[f]
      BY <1>1, <2>2 DEF JobsInv, JobTypes
    <3>2. ASSUME NEW j \in DOMAIN jobs, Serves(j, f) PROVE Serves(j, f)'
      <4>1. j \notin stuck
        BY <3>2 DEF Serves
      <4>. QED
        BY <1>1, <1>3, <3>1, <3>2, <4>1, ServesOn
    <3>. QED
      BY <1>1, <1>3, <3>1, <3>2 DEF JobsInv, EmbeddingIs
  <2>3. EmbeddingIs(e)'
    BY <1>3 DEF EmbeddingIs
  <2>. QED
    BY <2>1, <2>2, <2>3 DEF JobsInv
<1>. QED
  BY <1>2, <1>3 DEF Edit

LEMMA DeleteStep ==
    ASSUME JobsInv, NEW e \in Entries, Delete(e)
    PROVE  JobsInv'
<1>1. /\ content' = [content EXCEPT ![e] = 0] /\ embedding' = [embedding EXCEPT ![e] = 0]
      /\ behind' = behind \ {e} /\ edits' = edits + 1
      /\ UNCHANGED <<jobs, queue, hand, stage, polled, todo, text, stuck>>
  BY DEF Delete, workers
<1>2. JobTypes' /\ Referred'
  BY <1>1 DEF JobsInv, JobTypes, Referred
<1>3. ASSUME NEW f \in Entries, f # e PROVE EmbeddingIs(f)'
  <2>1. content'[f] = content[f] /\ embedding'[f] = embedding[f]
    BY <1>1, <1>3 DEF JobsInv, JobTypes
  <2>2. ASSUME NEW j \in DOMAIN jobs, Serves(j, f) PROVE Serves(j, f)'
    <3>1. j \notin stuck
      BY <2>2 DEF Serves
    <3>. QED
      BY <1>1, <2>1, <2>2, <3>1, ServesOn
  <2>. QED
    BY <1>1, <1>3, <2>1, <2>2 DEF JobsInv, EmbeddingIs
<1>4. EmbeddingIs(e)'
  BY <1>1 DEF EmbeddingIs, JobsInv, JobTypes
<1>. QED
  BY <1>2, <1>3, <1>4 DEF JobsInv

LEMMA RequestStep ==
    ASSUME JobsInv, NEW kind \in Requests, Request(kind)
    PROVE  JobsInv'
<1>1. PICK e \in Entries : Enqueue(kind, e)
  BY DEF Request
<1>2. UNCHANGED <<content, embedding, hand, stage, polled, todo, text, stuck, behind, edits>>
  BY DEF Request, workers
<1>3. /\ jobs' \in Seq(JobRows) /\ queue' \in [Ids -> Nat]
      /\ \A j \in Ids : queue'[j] > 0 => j \in DOMAIN jobs'
      /\ DOMAIN jobs \subseteq DOMAIN jobs'
      /\ \A j \in DOMAIN jobs : jobs'[j] = jobs[j]
  BY <1>1, EnqueueAppends DEF JobsInv
<1>4. JobTypes' /\ Referred'
  BY <1>2, <1>3 DEF JobsInv, JobTypes, Referred
<1>5. ASSUME NEW f \in Entries PROVE EmbeddingIs(f)'
  <2>1. ASSUME NEW j \in DOMAIN jobs, Serves(j, f) PROVE Serves(j, f)'
    <3>1. j \notin stuck'
      BY <1>2, <2>1 DEF Serves
    <3>. QED
      BY <1>2, <1>3, <2>1, <3>1, ServesOn
  <2>. QED
    BY <1>2, <1>3, <2>1 DEF JobsInv, EmbeddingIs
<1>. QED
  BY <1>4, <1>5 DEF JobsInv

LEMMA TakeStep ==
    ASSUME JobsInv, NEW w \in Workers, NEW j \in Ids, Take(w, j)
    PROVE  JobsInv'
<1>1. /\ stage[w] = "idle" /\ queue[j] > 0 /\ queue' = [queue EXCEPT ![j] = @ - 1]
      /\ UNCHANGED <<content, embedding, jobs, polled, todo, text, stuck, behind, edits>>
  BY DEF Take, tables
<1>2. \/ UNCHANGED <<hand, stage>>
      \/ hand' = [hand EXCEPT ![w] = j] /\ stage' = [stage EXCEPT ![w] = "taken"]
  BY DEF Take
<1>3. JobTypes'
  <2>1. j \in Nat
    BY JobsAssumption DEF JobsAssumption, Ids
  <2>2. queue \in [Ids -> Nat]
    BY DEF JobsInv, JobTypes
  <2>3. queue' \in [Ids -> Nat]
    <3>1. queue[j] - 1 \in Nat
      BY <1>1, <2>2
    <3>. QED
      BY <1>1, <2>2, <3>1
  <2>4. hand' \in [Workers -> Nat]
    BY <1>2, <2>1 DEF JobsInv, JobTypes
  <2>5. stage' \in [Workers -> {"idle", "polled"} \cup Engaged]
    BY <1>2 DEF JobsInv, JobTypes, Engaged
  <2>. QED
    BY <1>1, <2>3, <2>4, <2>5 DEF JobsInv, JobTypes
<1>4. Referred'
  BY <1>1, <1>2 DEF JobsInv, JobTypes, Referred
<1>5. \A v \in Workers : \A i : Runs(v, i)' <=> Runs(v, i)
  BY <1>1, <1>2 DEF JobsInv, JobTypes, Runs
<1>6. ASSUME NEW f \in Entries PROVE EmbeddingIs(f)'
  <2>1. \A i : Serves(i, f) => Serves(i, f)'
    BY <1>1, <1>5 DEF Serves
  <2>. QED
    BY <1>1, <2>1 DEF JobsInv, EmbeddingIs
<1>. QED
  BY <1>3, <1>4, <1>6 DEF JobsInv

LEMMA PollStep ==
    ASSUME JobsInv, NEW w \in Workers, Poll(w)
    PROVE  JobsInv'
<1>1. /\ stage[w] = "idle" /\ stage' = [stage EXCEPT ![w] = "polled"]
      /\ polled' = [polled EXCEPT ![w] = {j \in DOMAIN jobs : Ready(j)}]
      /\ UNCHANGED <<content, embedding, jobs, hand, queue, todo, text, stuck, behind, edits>>
  BY DEF Poll, tables
<1>2. JobTypes' /\ Referred'
  BY <1>1 DEF JobsInv, JobTypes, Referred, Engaged
<1>3. \A v \in Workers : \A i : Runs(v, i)' <=> Runs(v, i)
  BY <1>1 DEF JobsInv, JobTypes, Runs
<1>4. ASSUME NEW f \in Entries PROVE EmbeddingIs(f)'
  <2>1. \A i : Serves(i, f) => Serves(i, f)'
    BY <1>1, <1>3 DEF Serves
  <2>. QED
    BY <1>1, <2>1 DEF JobsInv, EmbeddingIs
<1>. QED
  BY <1>2, <1>4 DEF JobsInv

(* One worker moves on: a job that it has not in its hand serves as before.*)
LEMMA OthersServe ==
    ASSUME NEW w \in Workers, NEW j, NEW e, Serves(j, e), hand[w] # j,
           \A v \in Workers : v # w => /\ hand'[v] = hand[v] /\ stage'[v] = stage[v]
                                       /\ todo'[v] = todo[v] /\ text'[v] = text[v],
           hand'[w] # j \/ stage'[w] # "running",
           j \in DOMAIN jobs', jobs'[j] = jobs[j], j \notin stuck', content' = content
    PROVE  Serves(j, e)'
<1>1. \A v \in Workers : Runs(v, j)' <=> v # w /\ Runs(v, j)
  BY DEF Runs
<1>2. \A v \in Workers : Runs(v, j) => v # w
  BY DEF Runs
<1>. QED
  BY <1>1, <1>2 DEF Serves

LEMMA ReleaseFrees ==
    ASSUME JobTypes, NEW w \in Workers, Release(w)
    PROVE  /\ hand' \in [Workers -> Nat] /\ stage' \in [Workers -> {"idle", "polled"} \cup Engaged]
           /\ todo' \in [Workers -> SUBSET Entries] /\ text' \in [Workers -> [Entries -> Nat]]
           /\ stage'[w] = "idle"
           /\ \A v \in Workers : v # w => /\ hand'[v] = hand[v] /\ stage'[v] = stage[v]
                                          /\ todo'[v] = todo[v] /\ text'[v] = text[v]
<1>1. NoTexts \in [Entries -> Nat]
  BY DEF NoTexts
<1>. QED
  BY <1>1 DEF JobTypes, Release

LEMMA RowChanges ==
    ASSUME JobTypes, NEW i \in DOMAIN jobs, NEW row \in JobRows, jobs' = [jobs EXCEPT ![i] = row]
    PROVE  /\ jobs' \in Seq(JobRows) /\ DOMAIN jobs' = DOMAIN jobs /\ jobs'[i] = row
           /\ \A j \in DOMAIN jobs : j # i => jobs'[j] = jobs[j]
BY DEF JobTypes

LEMMA RetriedIs ==
    ASSUME NEW row \in JobRows
    PROVE  Retried(row) \in JobRows
<1>. PICK tries \in Nat : tries = row.tries + 1
  BY DEF JobRows
<1>1. CASE row.tries + 1 >= MaxRetries
  <2>1. PICK new : new = [row EXCEPT !.tries = tries, !.status = "failed"]
    OBVIOUS
  <2>2. new \in JobRows
    BY <2>1 DEF JobRows
  <2>. QED
    BY <1>1, <2>1, <2>2 DEF Retried
<1>2. CASE ~(row.tries + 1 >= MaxRetries)
  <2>1. PICK new : new = [row EXCEPT !.tries = tries, !.status = "pending", !.due = FALSE]
    OBVIOUS
  <2>2. new \in JobRows
    BY <2>1 DEF JobRows
  <2>. QED
    BY <1>2, <2>1, <2>2 DEF Retried
<1>. QED
  BY <1>1, <1>2

LEMMA RaiseFrees ==
    ASSUME JobsInv, NEW w \in Workers, stage[w] \in Engaged, Raise(w)
    PROVE  /\ Release(w) /\ jobs' \in Seq(JobRows) /\ DOMAIN jobs' = DOMAIN jobs
           /\ \A j \in DOMAIN jobs : j # hand[w] => jobs'[j] = jobs[j]
<1>1. hand[w] \in DOMAIN jobs
  BY DEF JobsInv, Referred
<1>2. jobs[hand[w]] \in JobRows
  BY <1>1, JobsAre DEF JobsInv
<1>3. PICK row : row = Retried(jobs[hand[w]])
  OBVIOUS
<1>4. row \in JobRows /\ jobs' = [jobs EXCEPT ![hand[w]] = row]
  BY <1>2, <1>3, RetriedIs DEF Raise
<1>. QED
  BY <1>1, <1>4, RowChanges DEF Raise, JobsInv

LEMMA RequeueStep ==
    ASSUME JobsInv, NEW w \in Workers, Requeue(w)
    PROVE  JobsInv'
<1>1. /\ stage[w] = "polled" /\ stage' = [stage EXCEPT ![w] = "idle"]
      /\ polled' = [polled EXCEPT ![w] = {}]
      /\ queue' = [j \in Ids |-> IF j \in polled[w] THEN queue[j] + 1 ELSE queue[j]]
      /\ jobs' = [j \in DOMAIN jobs |->
                    IF j \in polled[w] THEN [jobs[j] EXCEPT !.status = "queued"] ELSE jobs[j]]
      /\ UNCHANGED <<content, embedding, hand, todo, text, stuck, behind, edits>>
  BY DEF Requeue
<1>2. DOMAIN jobs' = DOMAIN jobs
  BY <1>1
<1>3. ASSUME NEW j \in DOMAIN jobs
      PROVE  /\ jobs'[j] \in JobRows /\ jobs'[j].kind = jobs[j].kind /\ jobs'[j].entry = jobs[j].entry
             /\ jobs'[j].status \in {"queued", jobs[j].status}
  <2>1. jobs[j] \in JobRows
    BY JobsAre DEF JobsInv
  <2>. QED
    BY <1>1, <2>1 DEF JobRows
<1>4. jobs' \in Seq(JobRows)
  <2>1. PICK new : new = jobs'
    OBVIOUS
  <2>2. DOMAIN new = DOMAIN jobs /\ new = [j \in DOMAIN jobs |-> new[j]]
    BY <1>1, <2>1
  <2>3. \A j \in DOMAIN jobs : new[j] \in JobRows
    BY <1>3, <2>1
  <2>4. jobs \in Seq(JobRows)
    BY DEF JobsInv, JobTypes
  <2>. QED
    BY <2>1, <2>2, <2>3, <2>4, RowsReplaced
<1>5. queue' \in [Ids -> Nat]
  BY <1>1 DEF JobsInv, JobTypes
<1>6. JobTypes'
  BY <1>1, <1>4, <1>5 DEF JobsInv, JobTypes
<1>7. Referred'
  BY <1>1, <1>2 DEF JobsInv, JobTypes, Referred, Engaged
<1>8. \A v \in Workers : \A i : Runs(v, i)' <=> Runs(v, i)
  BY <1>1 DEF JobsInv, JobTypes, Runs
<1>9. ASSUME NEW f \in Entries PROVE EmbeddingIs(f)'
  <2>1. ASSUME NEW j \in DOMAIN jobs, Serves(j, f) PROVE Serves(j, f)'
    BY <1>1, <1>2, <1>3, <1>8, <2>1 DEF Serves, Unfinished
  <2>. QED
    BY <1>1, <1>2, <2>1 DEF JobsInv, EmbeddingIs
<1>. QED
  BY <1>6, <1>7, <1>9 DEF JobsInv

(* A job begins: it will embed the text that is there now.                 *)
LEMMA BeginStep ==
    ASSUME JobsInv, NEW w \in Workers, Begin(w)
    PROVE  JobsInv'
<1>1. /\ stage[w] = "taken"
      /\ UNCHANGED <<content, embedding, polled, queue, stuck, behind, edits>>
  BY DEF Begin
<1>2. PICK j \in DOMAIN jobs : j = hand[w]
  BY <1>1 DEF JobsInv, Referred, Engaged
<1>3. jobs[j] \in JobRows
  BY JobsAre DEF JobsInv
<1>4. ~ Runs(w, j)
  BY <1>1 DEF Runs
<1>5. CASE jobs[j].kind = "backup"
  <2>1. /\ Release(w) /\ jobs' \in Seq(JobRows) /\ DOMAIN jobs' = DOMAIN jobs
        /\ \A i \in DOMAIN jobs : i # j => jobs'[i] = jobs[i]
    BY <1>1, <1>2, <1>5, RaiseFrees DEF Begin, Engaged
  <2>2. JobTypes'
    BY <1>1, <2>1, ReleaseFrees DEF JobsInv, JobTypes
  <2>3. Referred'
    BY <1>1, <2>1, ReleaseFrees DEF JobsInv, Referred, Engaged
  <2>4. ASSUME NEW f \in Entries PROVE EmbeddingIs(f)'
    <3>1. ASSUME NEW i \in DOMAIN jobs, Serves(i, f) PROVE Serves(i, f)'
      <4>1. i # j /\ i \notin stuck
        BY <1>5, <3>1 DEF Serves
      <4>2. /\ stage'[w] = "idle"
            /\ \A v \in Workers : v # w => /\ hand'[v] = hand[v] /\ stage'[v] = stage[v]
                                           /\ todo'[v] = todo[v] /\ text'[v] = text[v]
        BY <2>1, ReleaseFrees DEF JobsInv
      <4>. QED
        BY <1>1, <1>2, <2>1, <3>1, <4>1, <4>2, OthersServe
    <3>. QED
      BY <1>1, <2>1, <3>1 DEF JobsInv, EmbeddingIs
  <2>. QED
    BY <2>2, <2>3, <2>4 DEF JobsInv
<1>6. CASE jobs[j].kind # "backup"
  <2>1. PICK row : row = [jobs[j] EXCEPT !.status = "running"]
    OBVIOUS
  <2>2. row \in JobRows /\ row.kind = jobs[j].kind /\ row.entry = jobs[j].entry
        /\ row.status = "running"
    BY <1>3, <2>1 DEF JobRows
  <2>3. PICK chosen \in SUBSET Entries : chosen = Chosen(jobs[j])
    BY DEF Chosen
  <2>4. /\ jobs' = [jobs EXCEPT ![j] = row] /\ UNCHANGED hand
        /\ todo' = [todo EXCEPT ![w] = chosen] /\ text' = [text EXCEPT ![w] = content]
        /\ stage' = [stage EXCEPT ![w] = "running"]
    BY <1>2, <1>6, <2>1, <2>3 DEF Begin
  <2>5. /\ jobs' \in Seq(JobRows) /\ DOMAIN jobs' = DOMAIN jobs /\ jobs'[j] = row
        /\ \A i \in DOMAIN jobs : i # j => jobs'[i] = jobs[i]
    BY <2>2, <2>4, RowChanges DEF JobsInv
  <2>6. JobTypes'
    BY <1>1, <2>4, <2>5 DEF JobsInv, JobTypes, Engaged
  <2>7. Referred'
    BY <1>1, <1>2, <2>4, <2>5 DEF JobsInv, JobTypes, Referred, Engaged
  <2>8. /\ \A v \in Workers : v # w => /\ hand'[v] = hand[v] /\ stage'[v] = stage[v]
                                       /\ todo'[v] = todo[v] /\ text'[v] = text[v]
        /\ hand'[w] = j /\ stage'[w] = "running" /\ todo'[w] = chosen /\ text'[w] = content
    BY <1>2, <2>4 DEF JobsInv, JobTypes
  <2>9. ASSUME NEW f \in Entries, content[f] # 0, NEW i \in DOMAIN jobs, Serves(i, f)
        PROVE  Serves(i, f)'
    <3>1. i \notin stuck
      BY <2>9 DEF Serves
    <3>2. CASE i # j
      BY <1>1, <1>2, <2>5, <2>8, <2>9, <3>1, <3>2, OthersServe
    <3>3. CASE i = j
      <4>1. chosen = {f}
        BY <2>3, <2>9, <3>3 DEF Serves, Chosen
      <4>2. Runs(w, j)' /\ \A v \in Workers : v # w => (Runs(v, j)' <=> Runs(v, j))
        BY <2>8 DEF Runs
      <4>. QED
        BY <1>1, <2>2, <2>5, <2>8, <2>9, <3>1, <3>3, <4>1, <4>2 DEF Serves, Unfinished
    <3>. QED
      BY <3>2, <3>3
  <2>10. ASSUME NEW f \in Entries PROVE EmbeddingIs(f)'
    BY <1>1, <2>5, <2>9 DEF JobsInv, EmbeddingIs
  <2>. QED
    BY <2>6, <2>7, <2>10 DEF JobsInv
<1>. QED
  BY <1>5, <1>6

(* An embedding is stored: of the latest text, or of an older one, which   *)
(* is told if it takes the place of the latest, and is made good by the    *)
(* job that serves the entry if not.                                       *)
LEMMA StoreStep ==
    ASSUME JobsInv, NEW w \in Workers, stage[w] = "running", todo[w] # {}, Store(w),
           UNCHANGED <<polled, queue, edits>>
    PROVE  JobsInv'
<1>1. PICK e : e = Min(todo[w])
  OBVIOUS
<1>2. e \in Entries /\ e \in todo[w]
  BY <1>1, NextToEmbed DEF JobsInv, JobTypes
<1>3. /\ content[e] # 0 /\ embedding' = [embedding EXCEPT ![e] = text[w][e]]
      /\ UNCHANGED <<content, stuck>>
      /\ behind' = CASE text[w][e] = content[e] -> behind \ {e}
                     [] Late(w, e) -> behind \cup {e}
                     [] OTHER -> behind
      /\ \/ Raise(w)
         \/ /\ todo' = [todo EXCEPT ![w] = todo[w] \ {e}] /\ text' = [text EXCEPT ![w] = content]
            /\ UNCHANGED <<jobs, hand, stage>>
  BY <1>1 DEF Store
<1>4. embedding'[e] = text[w][e] /\ \A f \in Entries : f # e => embedding'[f] = embedding[f]
  BY <1>2, <1>3 DEF JobsInv, JobTypes
<1>5. /\ hand' \in [Workers -> Nat] /\ stage' \in [Workers -> {"idle", "polled"} \cup Engaged]
      /\ todo' \in [Workers -> SUBSET Entries] /\ text' \in [Workers -> [Entries -> Nat]]
      /\ \A v \in Workers : v # w => /\ hand'[v] = hand[v] /\ stage'[v] = stage[v]
                                     /\ todo'[v] = todo[v] /\ text'[v] = text[v]
      /\ hand'[w] = hand[w] \/ stage'[w] = "idle"
      /\ jobs' \in Seq(JobRows) /\ DOMAIN jobs' = DOMAIN jobs
      /\ \A j \in DOMAIN jobs : j # hand[w] => jobs'[j] = jobs[j]
  <2>1. CASE Raise(w)
    BY <2>1, RaiseFrees, ReleaseFrees DEF JobsInv, Engaged
  <2>2. CASE /\ todo' = [todo EXCEPT ![w] = todo[w] \ {e}] /\ text' = [text EXCEPT ![w] = content]
             /\ UNCHANGED <<jobs, hand, stage>>
    BY <2>2 DEF JobsInv, JobTypes
  <2>. QED
    BY <1>3, <2>1, <2>2
<1>6. JobTypes'
  <2>1. embedding' \in [Entries -> Nat]
    BY <1>2, <1>3 DEF JobsInv, JobTypes
  <2>. QED
    BY <1>3, <1>5, <2>1 DEF JobsInv, JobTypes
<1>7. Referred'
  <2>1. ASSUME NEW v \in Workers, stage'[v] \in Engaged PROVE hand'[v] \in DOMAIN jobs
    <3>1. hand[w] \in DOMAIN jobs
      BY DEF JobsInv, Referred, Engaged
    <3>2. CASE v = w
      BY <1>5, <2>1, <3>1, <3>2 DEF Engaged
    <3>3. CASE v # w
      BY <1>5, <2>1, <3>3 DEF JobsInv, Referred
    <3>. QED
      BY <3>2, <3>3
  <2>. QED
    BY <1>3, <1>5, <2>1 DEF JobsInv, Referred
<1>8. ASSUME NEW f \in Entries, NEW j \in DOMAIN jobs, Serves(j, f), f # e \/ text[w][e] # content[e]
      PROVE  Serves(j, f)'
  <2>1. hand[w] # j
    BY <1>2, <1>8 DEF Serves, Runs
  <2>2. hand'[w] # j \/ stage'[w] # "running"
    BY <1>5, <2>1
  <2>3. j \notin stuck /\ jobs'[j] = jobs[j]
    BY <1>5, <1>8, <2>1 DEF Serves
  <2>. QED
    BY <1>3, <1>5, <1>8, <2>1, <2>2, <2>3, OthersServe
<1>9. ASSUME NEW f \in Entries, f # e PROVE EmbeddingIs(f)'
  <2>1. f \in behind => f \in behind'
    BY <1>3, <1>9
  <2>. QED
    BY <1>3, <1>4, <1>5, <1>8, <1>9, <2>1 DEF JobsInv, EmbeddingIs
<1>10. EmbeddingIs(e)'
  <2>1. CASE text[w][e] = content[e]
    BY <1>3, <1>4, <2>1 DEF EmbeddingIs
  <2>2. CASE text[w][e] # content[e] /\ embedding[e] = content[e]
    BY <1>3, <2>2 DEF EmbeddingIs, Late
  <2>3. CASE text[w][e] # content[e] /\ embedding[e] # content[e]
    <3>1. behind' = behind
      BY <1>3, <2>3 DEF Late
    <3>. QED
      BY <1>2, <1>3, <1>5, <1>8, <2>3, <3>1 DEF JobsInv, EmbeddingIs
  <2>. QED
    BY <2>1, <2>2, <2>3
<1>. QED
  BY <1>6, <1>7, <1>9, <1>10 DEF JobsInv

LEMMA NoEmbeddingStep ==
    ASSUME JobsInv, NEW w \in Workers, stage[w] = "running", todo[w] # {}, NoEmbedding(w),
           UNCHANGED <<polled, queue, edits>>
    PROVE  JobsInv'
<1>1. PICK e : e = Min(todo[w])
  OBVIOUS
<1>2. e \in Entries /\ e \in todo[w]
  BY <1>1, NextToEmbed DEF JobsInv, JobTypes
<1>3. /\ todo' = [todo EXCEPT ![w] = todo[w] \ {e}] /\ behind' = behind \cup {e}
      /\ UNCHANGED <<content, embedding, jobs, hand, stage, text, stuck>>
  BY <1>1 DEF NoEmbedding, tables
<1>4. JobTypes' /\ Referred'
  BY <1>3 DEF JobsInv, JobTypes, Referred
<1>5. ASSUME NEW f \in Entries, f # e PROVE EmbeddingIs(f)'
  <2>1. ASSUME NEW j \in DOMAIN jobs, Serves(j, f) PROVE Serves(j, f)'
    <3>1. hand[w] # j /\ j \notin stuck
      BY <1>2, <1>5, <2>1 DEF Serves, Runs
    <3>2. \A v \in Workers : v # w => todo'[v] = todo[v]
      BY <1>3 DEF JobsInv, JobTypes
    <3>. QED
      BY <1>3, <2>1, <3>1, <3>2, OthersServe
  <2>. QED
    BY <1>3, <2>1 DEF JobsInv, EmbeddingIs
<1>6. EmbeddingIs(e)'
  BY <1>3 DEF EmbeddingIs
<1>. QED
  BY <1>4, <1>5, <1>6 DEF JobsInv

LEMMA BreakStep ==
    ASSUME JobsInv, NEW w \in Workers, stage[w] = "running", Break(w),
           UNCHANGED <<polled, queue, edits>>
    PROVE  JobsInv'
<1>1. /\ Release(w) /\ stuck' = stuck \cup {hand[w]} /\ behind' = behind \cup todo[w]
      /\ UNCHANGED <<content, embedding, jobs>>
  BY DEF Break, tables
<1>2. /\ hand' \in [Workers -> Nat] /\ stage' \in [Workers -> {"idle", "polled"} \cup Engaged]
      /\ todo' \in [Workers -> SUBSET Entries] /\ text' \in [Workers -> [Entries -> Nat]]
      /\ stage'[w] = "idle"
      /\ \A v \in Workers : v # w => /\ hand'[v] = hand[v] /\ stage'[v] = stage[v]
                                     /\ todo'[v] = todo[v] /\ text'[v] = text[v]
  BY <1>1, ReleaseFrees DEF JobsInv
<1>3. JobTypes'
  BY <1>1, <1>2 DEF JobsInv, JobTypes
<1>4. Referred'
  BY <1>1, <1>2 DEF JobsInv, Referred, Engaged
<1>5. ASSUME NEW f \in Entries PROVE EmbeddingIs(f)'
  <2>1. ASSUME NEW j \in DOMAIN jobs, Serves(j, f) PROVE f \in behind' \/ Serves(j, f)'
    <3>1. CASE hand[w] = j
      BY <1>1, <2>1, <3>1 DEF Serves, Runs
    <3>2. CASE hand[w] # j
      <4>1. j \notin stuck'
        BY <1>1, <2>1, <3>2 DEF Serves
      <4>. QED
        BY <1>1, <1>2, <2>1, <3>2, <4>1, OthersServe
    <3>. QED
      BY <3>1, <3>2
  <2>. QED
    BY <1>1, <2>1 DEF JobsInv, EmbeddingIs
<1>. QED
  BY <1>3, <1>4, <1>5 DEF JobsInv

LEMMA EmbedStep ==
    ASSUME JobsInv, NEW w \in Workers, Embed(w)
    PROVE  JobsInv'
<1>1. stage[w] = "running" /\ todo[w] # {} /\ UNCHANGED <<polled, queue, edits>>
  BY DEF Embed
<1>. QED
  BY <1>1, StoreStep, NoEmbeddingStep, BreakStep DEF Embed

LEMMA CompleteStep ==
    ASSUME JobsInv, NEW w \in Workers, Complete(w)
    PROVE  JobsInv'
<1>1. stage[w] = "running" /\ todo[w] = {} /\ UNCHANGED <<polled, queue, edits>>
  BY DEF Complete
<1>2. CASE Break(w)
  BY <1>1, <1>2, BreakStep
<1>3. CASE /\ Release(w) /\ jobs' = [jobs EXCEPT ![hand[w]].status = "completed"]
           /\ UNCHANGED <<content, embedding, stuck, behind>>
  <2>1. PICK j \in DOMAIN jobs : j = hand[w]
    BY <1>1 DEF JobsInv, Referred, Engaged
  <2>2. PICK row : row = [jobs[j] EXCEPT !.status = "completed"]
    OBVIOUS
  <2>8. row \in JobRows
    <3>1. jobs[j] \in JobRows
      BY JobsAre DEF JobsInv
    <3>. QED
      BY <2>2, <3>1 DEF JobRows
  <2>3. /\ jobs' \in Seq(JobRows) /\ DOMAIN jobs' = DOMAIN jobs
        /\ \A i \in DOMAIN jobs : i # j => jobs'[i] = jobs[i]
    <3>1. jobs' = [jobs EXCEPT ![j] = row]
      BY <1>3, <2>1, <2>2
    <3>. QED
      BY <2>8, <3>1, RowChanges DEF JobsInv
  <2>4. /\ hand' \in [Workers -> Nat] /\ stage' \in [Workers -> {"idle", "polled"} \cup Engaged]
        /\ todo' \in [Workers -> SUBSET Entries] /\ text' \in [Workers -> [Entries -> Nat]]
        /\ stage'[w] = "idle"
        /\ \A v \in Workers : v # w => /\ hand'[v] = hand[v] /\ stage'[v] = stage[v]
                                       /\ todo'[v] = todo[v] /\ text'[v] = text[v]
    BY <1>3, ReleaseFrees DEF JobsInv
  <2>5. JobTypes'
    BY <1>1, <1>3, <2>3, <2>4 DEF JobsInv, JobTypes
  <2>6. Referred'
    BY <1>1, <1>3, <2>3, <2>4 DEF JobsInv, Referred, Engaged
  <2>7. ASSUME NEW f \in Entries PROVE EmbeddingIs(f)'
    <3>1. ASSUME NEW i \in DOMAIN jobs, Serves(i, f) PROVE Serves(i, f)'
      <4>1. i # j /\ i \notin stuck
        BY <1>1, <2>1, <3>1 DEF Serves, Runs
      <4>. QED
        BY <1>3, <2>1, <2>3, <2>4, <3>1, <4>1, OthersServe
    <3>. QED
      BY <1>3, <2>3, <3>1 DEF JobsInv, EmbeddingIs
  <2>. QED
    BY <2>5, <2>6, <2>7 DEF JobsInv
<1>. QED
  BY <1>2, <1>3 DEF Complete

LEMMA ComesDueStep ==
    ASSUME JobsInv, NEW j \in Ids, ComesDue(j)
    PROVE  JobsInv'
<1>1. /\ j \in DOMAIN jobs /\ jobs' = [jobs EXCEPT ![j].due = TRUE]
      /\ UNCHANGED <<content, embedding, hand, stage, polled, todo, text, queue, stuck, behind, edits>>
  BY DEF ComesDue, workers
<1>0. PICK row : row = [jobs[j] EXCEPT !.due = TRUE]
  OBVIOUS
<1>2. /\ row \in JobRows /\ row.kind = jobs[j].kind /\ row.entry = jobs[j].entry
      /\ row.status = jobs[j].status
  <2>1. jobs[j] \in JobRows
    BY <1>1, JobsAre DEF JobsInv
  <2>. QED
    BY <1>0, <2>1 DEF JobRows
<1>3. /\ jobs' \in Seq(JobRows) /\ DOMAIN jobs' = DOMAIN jobs /\ jobs'[j] = row
      /\ \A i \in DOMAIN jobs : i # j => jobs'[i] = jobs[i]
  <2>1. jobs' = [jobs EXCEPT ![j] = row]
    BY <1>0, <1>1
  <2>. QED
    BY <1>1, <1>2, <2>1, RowChanges DEF JobsInv
<1>4. JobTypes' /\ Referred'
  BY <1>1, <1>3 DEF JobsInv, JobTypes, Referred
<1>5. ASSUME NEW f \in Entries PROVE EmbeddingIs(f)'
  <2>1. ASSUME NEW i \in DOMAIN jobs, Serves(i, f) PROVE Serves(i, f)'
    BY <1>1, <1>2, <1>3, <2>1 DEF Serves, Runs
  <2>. QED
    BY <1>1, <1>3, <2>1 DEF JobsInv, EmbeddingIs
<1>. QED
  BY <1>4, <1>5 DEF JobsInv

(* After a restart the jobs that were queued or running are cut off, and   *)
(* those that were pending serve on.                                       *)
LEMMA RestartJobsStep ==
    ASSUME JobsInv, Restart
    PROVE  JobsInv'
<1>1. /\ queue' = [j \in Ids |-> 0]
      /\ hand' = [w \in Workers |-> 0] /\ stage' = [w \in Workers |-> "idle"]
      /\ polled' = [w \in Workers |-> {}] /\ todo' = [w \in Workers |-> {}]
      /\ text' = [w \in Workers |-> NoTexts] /\ stuck' = stuck \cup CutOff
      /\ behind' = behind \cup {e \in Entries : content[e] # 0 /\
                                  \E j \in CutOff : jobs[j].kind = "reindex" \/ jobs[j].entry = e}
      /\ UNCHANGED <<content, embedding, jobs, edits>>
  BY DEF Restart, tables
<1>2. NoTexts \in [Entries -> Nat]
  BY DEF NoTexts
<1>3. JobTypes'
  BY <1>1, <1>2 DEF JobsInv, JobTypes
<1>4. Referred'
  BY <1>1 DEF JobsInv, Referred, Engaged, CutOff
<1>5. ASSUME NEW f \in Entries PROVE EmbeddingIs(f)'
  <2>1. ASSUME NEW j \in DOMAIN jobs, content[f] # 0, Serves(j, f) PROVE f \in behind' \/ Serves(j, f)'
    <3>1. CASE j \in CutOff
      BY <1>1, <2>1, <3>1 DEF Serves
    <3>2. CASE j \notin CutOff
      BY <1>1, <2>1, <3>2 DEF Serves, CutOff, Unfinished, Runs
    <3>. QED
      BY <3>1, <3>2
  <2>. QED
    BY <1>1, <2>1 DEF JobsInv, EmbeddingIs
<1>. QED
  BY <1>3, <1>4, <1>5 DEF JobsInv

LEMMA JobsBegin == Init => JobsInv
<1>. SUFFICES ASSUME Init PROVE JobsInv
  OBVIOUS
<1>1. NoTexts \in [Entries -> Nat]
  BY DEF NoTexts
<1>2. << >> \in Seq(JobRows)
  OBVIOUS
<1>3. JobTypes
  BY <1>1, <1>2 DEF Init, JobTypes
<1>4. Referred
  BY DEF Init, Referred, Engaged
<1>5. \A e \in Entries : EmbeddingIs(e)
  BY DEF Init, EmbeddingIs, NoTexts
<1>. QED
  BY <1>3, <1>4, <1>5 DEF JobsInv

LEMMA JobsStep == JobsInv /\ [Next]_vars => JobsInv'
<1>. SUFFICES ASSUME JobsInv, [Next]_vars PROVE JobsInv'
  OBVIOUS
<1>1. CASE UNCHANGED vars
  <2>1. UNCHANGED <<content, embedding, jobs, queue, hand, stage, polled, todo, text, stuck,
                    behind, edits>>
    BY <1>1 DEF vars, tables, workers
  <2>2. JobTypes'
    BY <2>1 DEF JobsInv, JobTypes
  <2>3. Referred'
    BY <2>1 DEF JobsInv, Referred
  <2>4. ASSUME NEW f \in Entries PROVE EmbeddingIs(f)'
    <3>1. ASSUME NEW j, Serves(j, f) PROVE Serves(j, f)'
      BY <2>1, <3>1 DEF Serves, Runs
    <3>. QED
      BY <2>1, <3>1 DEF JobsInv, EmbeddingIs
  <2>. QED
    BY <2>2, <2>3, <2>4 DEF JobsInv
<1>2. ASSUME NEW e \in Entries, Edit(e) \/ Delete(e) PROVE JobsInv'
  BY <1>2, EditStep, DeleteStep
<1>3. ASSUME NEW kind \in Requests, Request(kind) PROVE JobsInv'
  BY <1>3, RequestStep
<1>4. ASSUME NEW w \in Workers, WorkerStep(w) PROVE JobsInv'
  BY <1>4, TakeStep, PollStep, RequeueStep, BeginStep, EmbedStep, CompleteStep DEF WorkerStep
<1>5. ASSUME NEW j \in Ids, ComesDue(j) PROVE JobsInv'
  BY <1>5, ComesDueStep
<1>6. CASE Restart
  BY <1>6, RestartJobsStep
<1>. QED
  BY <1>1, <1>2, <1>3, <1>4, <1>5, <1>6 DEF Next

(* EmbeddingsCatchUp, for any number of workers, entries, edits, requests, *)
(* retries, failing writes and restarts: when no job of queue_service.py   *)
(* is left to do, the embedding of an entry is that of its latest text,    *)
(* but for what `behind' tells of.                                         *)
THEOREM EmbeddingsFollow == Spec => []EmbeddingsCatchUp
<1>1. JobsInv => EmbeddingsCatchUp
  <2>. SUFFICES ASSUME JobsInv, Quiet PROVE \A e \in Entries :
                  content[e] # 0 => embedding[e] = content[e] \/ e \in behind
    BY DEF EmbeddingsCatchUp
  <2>1. \A j \in DOMAIN jobs, e \in Entries : ~ Serves(j, e)
    BY DEF Quiet, Serves
  <2>. QED
    BY <2>1 DEF JobsInv, EmbeddingIs
<1>2. Spec => []JobsInv
  BY JobsBegin, JobsStep, PTL DEF Spec
<1>. QED
  BY <1>1, <1>2, PTL
=============================================================================
