------------------------------ MODULE ArgusProofs ------------------------------
(***************************************************************************)
(* What holds of Argus' investigations for every web, every list Oracle    *)
(* may plan and suggest, and any number of runs, rounds and faults; of     *)
(* what it makes of evidence, for every set of collectors and contents and *)
(* every way their passes interleave; and of research sessions, for every  *)
(* number of them, of angles, and of what else is done with the runs.      *)
(***************************************************************************)
EXTENDS ArgusInvestigation, ArgusKnowledge, ArgusResearch, TLAPS, FiniteSetTheorems, SequenceTheorems

InquirySpec == InquiryInit /\ [][InquiryNext]_inquiryVars

-----------------------------------------------------------------------------
(* Types.                                                                  *)

InquiryPlaces ==
    {"idle", "plan", "boundary", "search", "read", "match", "batch", "save", "write",
     "complete", "tell"}

InquiryRow == [status : {"running", "cancelled", "failed", "completed"}, kept : Nat, done : Nat]

(* Pages of rounds, reports and announcements are stored.                  *)
RoundRow == [run : Nat, iteration : Nat \ {0}, queries : Seq(Queries),
             items : SUBSET archive, kept : SUBSET archive]

WriteupRow == [run : Nat, dots : SUBSET archive]

TablesAre ==
    /\ inquiries \in Seq(InquiryRow) /\ rounds \in Seq(RoundRow)
    /\ writeups \in Seq(WriteupRow) /\ told \in Seq(SUBSET archive)
    /\ revoking # NotRevoking => revoking.run \in Nat /\ revoking.row \in InquiryRow

InquiryIs ==
    /\ inquiry = [pc |-> inquiry.pc, iteration |-> inquiry.iteration, queries |-> inquiry.queries,
                  asked |-> inquiry.asked, seen |-> inquiry.seen, reading |-> inquiry.reading,
                  items |-> inquiry.items, dots |-> inquiry.dots, kept |-> inquiry.kept]
    /\ inquiry.pc \in InquiryPlaces /\ inquiry.iteration \in Nat
    /\ inquiry.queries \in Seq(Queries)
    /\ inquiry.items \subseteq archive /\ IsFiniteSet(inquiry.items)
    /\ inquiry.dots \subseteq archive /\ IsFiniteSet(inquiry.dots)
    /\ inquiry.kept \subseteq archive /\ IsFiniteSet(inquiry.kept)
    /\ inquiry.pc = "idle" => inquiry = NoInquiry
    /\ inquiry.pc = "plan" => inquiry.iteration = 0
    /\ inquiry.pc \notin {"idle", "plan"} => inquiry.iteration # 0
    /\ inquiry.pc # "idle" => Current # 0

(* A round goes by queries that no round of its run has used.              *)
InRound == {"search", "read", "match", "batch"}

KeysOf(queries) == {LowerCase[q] : q \in ToSet(queries)}

QueriesAreNew ==
    /\ inquiry.pc \in InRound \/ (inquiry.pc = "boundary" /\ inquiry.iteration = 1) =>
         KeysOf(inquiry.queries) \subseteq inquiry.asked
    /\ inquiry.pc \in InRound =>
         \A i \in RoundsOf(Current) : KeysOf(inquiry.queries) \cap KeysOf(rounds[i].queries) = {}

(* What the run in progress knows of its rounds.                           *)
RoundsAreKnown ==
    inquiry.pc # "idle" =>
      /\ inquiry.dots = KeptIn(Current) \cup (IF inquiry.pc = "batch" THEN inquiry.kept ELSE {})
      /\ \A i \in RoundsOf(Current) :
           /\ \/ rounds[i].iteration < inquiry.iteration
              \/ inquiry.pc = "save" /\ rounds[i].iteration = inquiry.iteration
           /\ KeysOf(rounds[i].queries) \subseteq inquiry.asked

(* What a round brings was not kept before, and what is being added for it.*)
ItemsAreNew ==
    /\ inquiry.pc \in {"read", "match", "batch"} =>
         \A i \in DOMAIN rounds : inquiry.items \cap rounds[i].kept = {}
    /\ inquiry.pc \in {"read", "match"} => inquiry.kept = {}
    /\ inquiry.pc = "batch" => inquiry.kept \subseteq inquiry.items

AddsAreNew ==
    \A add \in adding :
      /\ add.run \in Nat /\ add.run <= Current
      /\ add.run = Current /\ inquiry.pc # "idle" =>
           inquiry.pc = "read" /\ \A i \in DOMAIN rounds : add.page \notin rounds[i].kept

(* The tables agree.                                                       *)
RoundsDiffer ==
    /\ \A i \in DOMAIN rounds : rounds[i].run <= Current
    /\ \A i \in DOMAIN rounds, j \in DOMAIN rounds : i # j =>
         /\ rounds[i].kept \cap rounds[j].kept = {}
         /\ rounds[i].run = rounds[j].run =>
              /\ rounds[i].iteration # rounds[j].iteration
              /\ KeysOf(rounds[i].queries) \cap KeysOf(rounds[j].queries) = {}

WriteupsTell ==
    \A i \in DOMAIN writeups :
      /\ writeups[i].run <= Current /\ writeups[i].dots = KeptIn(writeups[i].run)
      /\ writeups[i].run = Current => inquiry.pc \in {"complete", "tell", "idle"}

CompletedCount ==
    \A r \in DOMAIN inquiries : inquiries[r].status = "completed" =>
      /\ inquiries[r].kept = Cardinality(KeptIn(r))
      /\ r = Current => inquiry.pc \in {"tell", "idle"}

(* What a watch was told is of runs that are over.                         *)
ToldAreOver ==
    /\ \A i \in DOMAIN told : \A page \in told[i] : \E k \in DOMAIN rounds :
         page \in rounds[k].kept /\ (rounds[k].run # Current \/ inquiry.pc = "idle")
    /\ \A i \in DOMAIN told, j \in DOMAIN told : i # j => told[i] \cap told[j] = {}

InquiryInv ==
    /\ TablesAre /\ InquiryIs
    /\ QueriesAreNew /\ RoundsAreKnown /\ ItemsAreNew /\ AddsAreNew
    /\ RoundsDiffer /\ WriteupsTell /\ CompletedCount /\ ToldAreOver

LEMMA TablesShape ==
    ASSUME TablesAre
    PROVE  /\ Current \in Nat /\ DOMAIN inquiries = 1 .. Current
           /\ \A r \in DOMAIN inquiries : inquiries[r] \in InquiryRow
           /\ \A i \in DOMAIN rounds : rounds[i] \in RoundRow
           /\ \A i \in DOMAIN writeups : writeups[i] \in WriteupRow
           /\ Current # 0 => Current \in DOMAIN inquiries
BY DEF TablesAre, Current

(* More pages are stored; the other tables stay.                           *)
LEMMA ArchiveGrows ==
    ASSUME TablesAre, archive \subseteq archive'
    PROVE  /\ rounds \in Seq(RoundRow') /\ writeups \in Seq(WriteupRow')
           /\ told \in Seq(SUBSET archive')
<1>1. RoundRow \subseteq RoundRow' /\ WriteupRow \subseteq WriteupRow'
      /\ SUBSET archive \subseteq SUBSET archive'
  BY DEF RoundRow, WriteupRow
<1>. QED
  BY <1>1, SeqMonotonic DEF TablesAre

LEMMA RoundsStay ==
    ASSUME rounds' = rounds, Len(inquiries') = Len(inquiries)
    PROVE  /\ Current' = Current
           /\ \A r : RoundsOf(r)' = RoundsOf(r) /\ KeptIn(r)' = KeptIn(r)
           /\ RoundsOf(Current)' = RoundsOf(Current) /\ KeptIn(Current)' = KeptIn(Current)
<1>1. Current' = Current
  BY DEF Current
<1>2. ASSUME NEW r PROVE RoundsOf(r)' = RoundsOf(r) /\ KeptIn(r)' = KeptIn(r)
  BY DEF RoundsOf, KeptIn
<1>3. RoundsOf(Current)' = RoundsOf(Current)
  BY <1>1 DEF RoundsOf
<1>4. KeptIn(Current)' = KeptIn(Current)
  BY <1>3 DEF KeptIn
<1>. QED
  BY <1>1, <1>2, <1>3, <1>4

LEMMA RoundsRemain ==
    ASSUME InquiryInv, rounds' = rounds, \A i \in DOMAIN rounds : rounds[i].run <= Current'
    PROVE  RoundsDiffer'
<1>1. \A i \in DOMAIN rounds : KeysOf(rounds[i].queries)' = KeysOf(rounds[i].queries)
  BY DEF KeysOf
<1>2. \A i \in DOMAIN rounds, j \in DOMAIN rounds : i # j =>
         /\ rounds[i].kept \cap rounds[j].kept = {}
         /\ rounds[i].run = rounds[j].run =>
              /\ rounds[i].iteration # rounds[j].iteration
              /\ KeysOf(rounds[i].queries) \cap KeysOf(rounds[j].queries) = {}
  BY DEF InquiryInv, RoundsDiffer
<1>. QED
  BY <1>1, <1>2 DEF RoundsDiffer

(* What is said of finished runs stays, as long as no round or report is   *)
(* added.                                                                  *)
LEMMA PastStays ==
    ASSUME InquiryInv, UNCHANGED <<rounds, writeups>>, Len(inquiries') = Len(inquiries),
           inquiry.pc \in {"complete", "tell", "idle"} => inquiry'.pc \in {"complete", "tell", "idle"}
    PROVE  RoundsDiffer' /\ WriteupsTell'
<1>1. /\ Current' = Current
      /\ \A r : KeptIn(r)' = KeptIn(r)
  BY RoundsStay
<1>2. RoundsDiffer'
  <2>. \A i \in DOMAIN rounds : rounds[i].run <= Current'
    BY <1>1 DEF InquiryInv, RoundsDiffer
  <2>. QED
    BY RoundsRemain
<1>3. ASSUME NEW i \in DOMAIN writeups PROVE KeptIn(writeups[i].run)' = KeptIn(writeups[i].run)
  <2>. PICK run : run = writeups[i].run /\ run = writeups'[i].run
    OBVIOUS
  <2>1. RoundsOf(writeups[i].run)' = RoundsOf(writeups[i].run)
    BY DEF RoundsOf
  <2>. QED
    BY <2>1 DEF KeptIn
<1>4. WriteupsTell'
  BY <1>1, <1>3 DEF InquiryInv, WriteupsTell
<1>. QED
  BY <1>2, <1>4

LEMMA ToldStay ==
    ASSUME InquiryInv, UNCHANGED <<rounds, told>>, Len(inquiries') = Len(inquiries),
           inquiry.pc = "idle" => inquiry'.pc = "idle"
    PROVE  ToldAreOver'
BY DEF InquiryInv, ToldAreOver, Current

LEMMA TablesStay ==
    ASSUME TablesAre, UNCHANGED <<rounds, writeups, told>>, archive \subseteq archive',
           inquiries' \in Seq(InquiryRow),
           revoking' = revoking \/ revoking' = NotRevoking
    PROVE  TablesAre'
BY ArchiveGrows DEF TablesAre

(* No row of a run becomes completed.                                      *)
RowsStay ==
    /\ inquiries' \in Seq(InquiryRow) /\ Len(inquiries') = Len(inquiries)
    /\ \A r \in DOMAIN inquiries' : inquiries'[r].status = "completed" =>
         r \in DOMAIN inquiries /\ inquiries'[r] = inquiries[r]

LEMMA CompletedStay ==
    ASSUME InquiryInv, RowsStay, rounds' = rounds,
           inquiry.pc \in {"tell", "idle"} => inquiry'.pc \in {"tell", "idle"}
    PROVE  CompletedCount'
<1>1. Current' = Current /\ \A r : KeptIn(r)' = KeptIn(r)
  BY RoundsStay DEF RowsStay
<1>. QED
  BY <1>1 DEF InquiryInv, CompletedCount, RowsStay

LEMMA RowsRemain ==
    ASSUME TablesAre, UNCHANGED inquiries
    PROVE  RowsStay
BY DEF TablesAre, RowsStay

LEMMA RowIsSaved ==
    ASSUME TablesAre, NEW r \in DOMAIN inquiries, NEW row \in InquiryRow, row.status # "completed",
           inquiries' = [inquiries EXCEPT ![r] = row]
    PROVE  RowsStay
<1>1. inquiries \in Seq(InquiryRow)
  BY DEF TablesAre
<1>2. /\ inquiries' \in Seq(InquiryRow) /\ Len(inquiries') = Len(inquiries)
      /\ DOMAIN inquiries' = DOMAIN inquiries
      /\ inquiries'[r] = row /\ \A s \in DOMAIN inquiries : s # r => inquiries'[s] = inquiries[s]
  BY <1>1
<1>. QED
  BY <1>2 DEF RowsStay

(* Without a run in progress there is nothing to remember.                 *)
LEMMA NothingToRemember ==
    ASSUME InquiryInv, inquiry' = NoInquiry, Len(inquiries') = Len(inquiries),
           \A add \in adding' : add.run \in Nat /\ add.run <= Current
    PROVE  InquiryIs' /\ QueriesAreNew' /\ RoundsAreKnown' /\ ItemsAreNew' /\ AddsAreNew'
<1>1. /\ inquiry'.pc = "idle" /\ inquiry'.iteration = 0 /\ inquiry'.queries = << >>
      /\ inquiry'.items = {} /\ inquiry'.dots = {} /\ inquiry'.kept = {}
      /\ inquiry' = [pc |-> inquiry'.pc, iteration |-> inquiry'.iteration, queries |-> inquiry'.queries,
                  asked |-> inquiry'.asked, seen |-> inquiry'.seen, reading |-> inquiry'.reading,
                  items |-> inquiry'.items, dots |-> inquiry'.dots, kept |-> inquiry'.kept]
  BY DEF NoInquiry
<1>2. IsFiniteSet({})
  BY FS_EmptySet
<1>3. InquiryIs'
  BY <1>1, <1>2 DEF InquiryIs, InquiryPlaces
<1>4. QueriesAreNew' /\ RoundsAreKnown' /\ ItemsAreNew'
  BY <1>1 DEF QueriesAreNew, InRound, RoundsAreKnown, ItemsAreNew
<1>5. AddsAreNew'
  <2>. Current' = Current
    BY DEF Current
  <2>. QED
    BY <1>1 DEF AddsAreNew
<1>. QED
  BY <1>3, <1>4, <1>5

(* The run in progress is over, one way or another.                        *)
LEMMA InquiryEnds ==
    ASSUME InquiryInv, inquiry' = NoInquiry, UNCHANGED <<archive, rounds, writeups, told>>,
           RowsStay, revoking' = revoking \/ revoking' = NotRevoking,
           \A add \in adding' : add.run \in Nat /\ add.run <= Current
    PROVE  InquiryInv'
<1>1. inquiry'.pc = "idle" /\ Len(inquiries') = Len(inquiries)
  BY DEF NoInquiry, RowsStay
<1>2. TablesAre'
  BY TablesStay DEF InquiryInv, RowsStay
<1>3. InquiryIs' /\ QueriesAreNew' /\ RoundsAreKnown' /\ ItemsAreNew' /\ AddsAreNew'
  BY <1>1, NothingToRemember
<1>4. RoundsDiffer' /\ WriteupsTell' /\ ToldAreOver' /\ CompletedCount'
  BY <1>1, PastStays, ToldStay, CompletedStay
<1>. QED
  BY <1>2, <1>3, <1>4 DEF InquiryInv

(* The run in progress goes on.                                            *)
LEMMA InquiryGoesOn ==
    ASSUME InquiryInv, archive \subseteq archive',
           UNCHANGED <<rounds, writeups, told>>, RowsStay,
           revoking' = revoking \/ revoking' = NotRevoking,
           inquiry.pc = "idle" => inquiry'.pc = "idle",
           inquiry.pc \in {"complete", "tell"} => inquiry'.pc \in {"complete", "tell"},
           inquiry.pc = "tell" => inquiry'.pc = "tell",
           InquiryIs', QueriesAreNew', RoundsAreKnown', ItemsAreNew', AddsAreNew'
    PROVE  InquiryInv'
<1>1. TablesAre'
  BY TablesStay DEF InquiryInv, RowsStay
<1>2. Len(inquiries') = Len(inquiries)
  BY DEF RowsStay
<1>3. RoundsDiffer' /\ WriteupsTell' /\ ToldAreOver' /\ CompletedCount'
  BY <1>2, PastStays, ToldStay, CompletedStay
<1>. QED
  BY <1>1, <1>3 DEF InquiryInv

(* What it remembers stays, whoever stores pages meanwhile.                *)
LEMMA MemoryStays ==
    ASSUME InquiryInv, UNCHANGED <<inquiry, rounds, adding>>, archive \subseteq archive',
           Len(inquiries') = Len(inquiries)
    PROVE  InquiryIs' /\ QueriesAreNew' /\ RoundsAreKnown' /\ ItemsAreNew' /\ AddsAreNew'
<1>1. /\ Current' = Current
      /\ RoundsOf(Current)' = RoundsOf(Current) /\ KeptIn(Current)' = KeptIn(Current)
  BY RoundsStay
<1>2. InquiryIs'
  BY <1>1 DEF InquiryInv, InquiryIs
<1>3. QueriesAreNew'
  BY <1>1 DEF InquiryInv, QueriesAreNew
<1>4. RoundsAreKnown'
  BY <1>1 DEF InquiryInv, RoundsAreKnown
<1>5. ItemsAreNew' /\ AddsAreNew'
  BY <1>1 DEF InquiryInv, ItemsAreNew, AddsAreNew
<1>. QED
  BY <1>2, <1>3, <1>4, <1>5

-----------------------------------------------------------------------------
(* Planning, and between rounds.                                           *)

LEMMA BeginsWell ==
    ASSUME InvestigationAssumption, InquiryInv, BeginInquiry
    PROVE  InquiryInv'
<1>1. inquiry = NoInquiry /\ inquiry' = [NoInquiry EXCEPT !.pc = "plan"]
  BY DEF InquiryInv, InquiryIs, BeginInquiry, Proceed
<1>2. /\ inquiry'.pc = "plan" /\ inquiry'.iteration = 0 /\ inquiry'.queries = << >>
      /\ inquiry'.items = {} /\ inquiry'.dots = {} /\ inquiry'.kept = {}
      /\ inquiry' = [pc |-> inquiry'.pc, iteration |-> inquiry'.iteration, queries |-> inquiry'.queries,
                  asked |-> inquiry'.asked, seen |-> inquiry'.seen, reading |-> inquiry'.reading,
                  items |-> inquiry'.items, dots |-> inquiry'.dots, kept |-> inquiry'.kept]
  BY <1>1 DEF NoInquiry
<1>3. UNCHANGED <<archive, adding, rounds, writeups, revoking, told>>
  BY DEF BeginInquiry, TablesRest
<1>. PICK row : row = [status |-> "running", kept |-> 0, done |-> 0]
  OBVIOUS
<1>4. inquiries' = Append(inquiries, row) /\ row \in InquiryRow /\ row.status = "running"
  BY DEF BeginInquiry, InquiryRow
<1>5. inquiries \in Seq(InquiryRow) /\ Current = Len(inquiries)
  BY DEF InquiryInv, TablesAre, Current
<1>6. /\ inquiries' \in Seq(InquiryRow) /\ Current' = Current + 1 /\ Current \in Nat
      /\ inquiries'[Current + 1] = row
      /\ \A r \in DOMAIN inquiries : inquiries'[r] = inquiries[r]
      /\ \A r \in DOMAIN inquiries' : r = Current + 1 \/ r \in DOMAIN inquiries
      /\ \A r \in DOMAIN inquiries : r # Current + 1
  BY <1>4, <1>5 DEF Current
<1>7. \A i \in DOMAIN rounds : rounds[i].run \in Nat /\ rounds[i].run <= Current
  BY TablesShape DEF InquiryInv, RoundsDiffer, RoundRow
<1>8. \A r : RoundsOf(r)' = RoundsOf(r) /\ KeptIn(r)' = KeptIn(r)
  <2>. TAKE r
  <2>1. RoundsOf(r)' = RoundsOf(r)
    BY <1>3 DEF RoundsOf
  <2>. QED
    BY <1>3, <2>1 DEF KeptIn
<1>9. RoundsOf(Current)' = {} /\ KeptIn(Current)' = {}
  <2>1. RoundsOf(Current)' = {}
    BY <1>3, <1>6, <1>7 DEF RoundsOf
  <2>. QED
    BY <2>1 DEF KeptIn
<1>10. TablesAre'
  BY <1>3, <1>6 DEF InquiryInv, TablesAre, RoundRow, WriteupRow
<1>11. InquiryIs'
  <2>. IsFiniteSet({})
    BY FS_EmptySet
  <2>1. << >> \in Seq(Queries)
    OBVIOUS
  <2>. QED
    BY <1>2, <1>6, <2>1 DEF InquiryIs, InquiryPlaces
<1>12. QueriesAreNew' /\ RoundsAreKnown' /\ ItemsAreNew'
  <2>1. QueriesAreNew'
    BY <1>2 DEF QueriesAreNew, InRound
  <2>2. RoundsAreKnown'
    BY <1>2, <1>9 DEF RoundsAreKnown
  <2>3. ItemsAreNew'
    BY <1>2 DEF ItemsAreNew
  <2>. QED
    BY <2>1, <2>2, <2>3
<1>13. AddsAreNew'
  BY <1>3, <1>6 DEF InquiryInv, AddsAreNew
<1>14. RoundsDiffer'
  <2>1. \A i \in DOMAIN rounds : rounds[i].run <= Current'
    BY <1>6, <1>7
  <2>. QED
    BY <1>3, <2>1, RoundsRemain
<1>15. WriteupsTell'
  <2>1. ASSUME NEW i \in DOMAIN writeups
        PROVE  /\ writeups[i].run \in Nat /\ writeups[i].run <= Current
               /\ writeups'[i].dots = KeptIn(writeups[i].run)' /\ writeups'[i] = writeups[i]
    <3>1. KeptIn(writeups[i].run)' = KeptIn(writeups[i].run)
      <4>1. RoundsOf(writeups[i].run)' = RoundsOf(writeups[i].run)
        BY <1>3 DEF RoundsOf
      <4>. QED
        BY <1>3, <4>1 DEF KeptIn
    <3>. QED
      BY <1>3, <3>1, TablesShape DEF InquiryInv, WriteupsTell, WriteupRow
  <2>. QED
    BY <1>3, <1>6, <2>1 DEF WriteupsTell
<1>16. CompletedCount'
  BY <1>4, <1>6, <1>8 DEF InquiryInv, CompletedCount
<1>17. ToldAreOver'
  BY <1>3, <1>6, <1>7 DEF InquiryInv, ToldAreOver
<1>. QED
  BY <1>10, <1>11, <1>12, <1>13, <1>14, <1>15, <1>16, <1>17 DEF InquiryInv

(* The run in progress goes on, and nothing but what it remembers changes. *)
LEMMA OnlyMemory ==
    ASSUME InquiryInv, inquiry.pc # "idle", inquiry'.pc # "idle", RowsRest, adding' = adding,
           inquiry.pc \in {"complete", "tell"} => inquiry'.pc \in {"complete", "tell"},
           inquiry.pc = "tell" => inquiry'.pc = "tell",
           inquiry.pc = "read" => inquiry'.pc = "read" \/ \A add \in adding : add.run # Current,
           InquiryIs', QueriesAreNew', RoundsAreKnown', ItemsAreNew'
    PROVE  InquiryInv'
<1>1. /\ UNCHANGED <<inquiries, archive, adding, rounds, writeups, revoking, lastDots, told>>
      /\ Current' = Current
  BY DEF RowsRest, TablesRest, Current
<1>2. RowsStay
  BY <1>1, RowsRemain DEF InquiryInv
<1>3. AddsAreNew'
  BY <1>1 DEF InquiryInv, AddsAreNew
<1>. QED
  BY <1>1, <1>2, <1>3, InquiryGoesOn

LEMMA PlansWell ==
    ASSUME InvestigationAssumption, InquiryInv, NEW plan \in Plans, PlanQueries(plan)
    PROVE  InquiryInv'
<1>1. /\ inquiry.pc = "plan" /\ inquiry.iteration = 0
      /\ inquiry' = [inquiry EXCEPT !.pc = "boundary", !.iteration = 1, !.queries = plan,
                                !.asked = {LowerCase[q] : q \in ToSet(plan)}]
      /\ RowsRest /\ plan \in Seq(Queries)
  BY DEF InquiryInv, InquiryIs, PlanQueries, InvestigationAssumption
<1>2. /\ inquiry'.pc = "boundary" /\ inquiry'.iteration = 1 /\ inquiry'.queries = plan
      /\ inquiry'.asked = KeysOf(plan) /\ inquiry'.items = inquiry.items
      /\ inquiry'.dots = inquiry.dots /\ inquiry'.kept = inquiry.kept
      /\ inquiry' = [pc |-> inquiry'.pc, iteration |-> inquiry'.iteration, queries |-> inquiry'.queries,
                  asked |-> inquiry'.asked, seen |-> inquiry'.seen, reading |-> inquiry'.reading,
                  items |-> inquiry'.items, dots |-> inquiry'.dots, kept |-> inquiry'.kept]
  BY <1>1 DEF InquiryInv, InquiryIs, KeysOf
<1>3. /\ UNCHANGED <<inquiries, archive, adding, rounds, writeups, revoking, lastDots, told>>
      /\ Current' = Current /\ adding' = adding
  BY <1>1 DEF RowsRest, TablesRest, Current
<1>4. RoundsOf(Current)' = RoundsOf(Current) /\ KeptIn(Current)' = KeptIn(Current)
  BY <1>3, RoundsStay
<1>5. RoundsOf(Current) = {}
  BY <1>1, TablesShape DEF InquiryInv, RoundsAreKnown, RoundsOf, RoundRow
<1>6. InquiryIs'
  BY <1>1, <1>2, <1>3 DEF InquiryInv, InquiryIs, InquiryPlaces
<1>7. QueriesAreNew'
  BY <1>2 DEF QueriesAreNew, InRound, KeysOf
<1>8. RoundsAreKnown'
  BY <1>1, <1>2, <1>4, <1>5 DEF InquiryInv, RoundsAreKnown
<1>9. ItemsAreNew'
  BY <1>2 DEF ItemsAreNew
<1>. QED
  BY <1>1, <1>2, <1>3, <1>6, <1>7, <1>8, <1>9, OnlyMemory

LEMMA StopsWell ==
    ASSUME InquiryInv, StopLooking
    PROVE  InquiryInv'
<1>1. inquiry.pc = "boundary" /\ inquiry' = [inquiry EXCEPT !.pc = "write"] /\ RowsRest
  BY DEF StopLooking, Proceed
<1>2. /\ inquiry'.pc = "write" /\ inquiry'.iteration = inquiry.iteration
      /\ inquiry'.queries = inquiry.queries /\ inquiry'.asked = inquiry.asked
      /\ inquiry'.items = inquiry.items
      /\ inquiry'.dots = inquiry.dots /\ inquiry'.kept = inquiry.kept
      /\ inquiry' = [pc |-> inquiry'.pc, iteration |-> inquiry'.iteration, queries |-> inquiry'.queries,
                  asked |-> inquiry'.asked, seen |-> inquiry'.seen, reading |-> inquiry'.reading,
                  items |-> inquiry'.items, dots |-> inquiry'.dots, kept |-> inquiry'.kept]
  BY <1>1 DEF InquiryInv, InquiryIs
<1>3. /\ UNCHANGED <<inquiries, archive, adding, rounds, writeups, revoking, lastDots, told>>
      /\ Current' = Current /\ adding' = adding
  BY <1>1 DEF RowsRest, TablesRest, Current
<1>4. RoundsOf(Current)' = RoundsOf(Current) /\ KeptIn(Current)' = KeptIn(Current)
  BY <1>3, RoundsStay
<1>5. InquiryIs'
  BY <1>1, <1>2, <1>3 DEF InquiryInv, InquiryIs, InquiryPlaces
<1>6. QueriesAreNew'
  BY <1>2 DEF QueriesAreNew, InRound
<1>7. RoundsAreKnown'
  BY <1>1, <1>2, <1>3, <1>4 DEF InquiryInv, RoundsAreKnown
<1>8. ItemsAreNew'
  BY <1>2 DEF ItemsAreNew
<1>. QED
  BY <1>1, <1>2, <1>3, <1>5, <1>6, <1>7, <1>8, OnlyMemory

LEMMA FirstWell ==
    ASSUME InquiryInv, FirstQueries
    PROVE  InquiryInv'
<1>1. /\ inquiry.pc = "boundary" /\ inquiry.iteration = 1
      /\ inquiry' = [inquiry EXCEPT !.pc = "search"] /\ RowsRest
  BY DEF FirstQueries, Proceed
<1>2. /\ inquiry'.pc = "search" /\ inquiry'.iteration = inquiry.iteration
      /\ inquiry'.queries = inquiry.queries /\ inquiry'.asked = inquiry.asked
      /\ inquiry'.items = inquiry.items
      /\ inquiry'.dots = inquiry.dots /\ inquiry'.kept = inquiry.kept
      /\ inquiry' = [pc |-> inquiry'.pc, iteration |-> inquiry'.iteration, queries |-> inquiry'.queries,
                  asked |-> inquiry'.asked, seen |-> inquiry'.seen, reading |-> inquiry'.reading,
                  items |-> inquiry'.items, dots |-> inquiry'.dots, kept |-> inquiry'.kept]
  BY <1>1 DEF InquiryInv, InquiryIs
<1>3. /\ UNCHANGED <<inquiries, archive, adding, rounds, writeups, revoking, lastDots, told>>
      /\ Current' = Current /\ adding' = adding
  BY <1>1 DEF RowsRest, TablesRest, Current
<1>4. RoundsOf(Current)' = RoundsOf(Current) /\ KeptIn(Current)' = KeptIn(Current)
  BY <1>3, RoundsStay
<1>5. RoundsOf(Current) = {}
  <2>. SUFFICES ASSUME NEW i \in RoundsOf(Current) PROVE FALSE
    OBVIOUS
  <2>1. rounds[i].iteration < 1
    BY <1>1 DEF InquiryInv, RoundsAreKnown
  <2>2. rounds[i].iteration \in Nat \ {0}
    BY TablesShape DEF InquiryInv, RoundsOf, RoundRow
  <2>. QED
    BY <2>1, <2>2
<1>6. InquiryIs'
  BY <1>1, <1>2, <1>3 DEF InquiryInv, InquiryIs, InquiryPlaces
<1>7. QueriesAreNew'
  BY <1>1, <1>2, <1>4, <1>5 DEF InquiryInv, QueriesAreNew, InRound
<1>8. RoundsAreKnown'
  BY <1>1, <1>2, <1>3, <1>4 DEF InquiryInv, RoundsAreKnown
<1>9. ItemsAreNew'
  BY <1>2 DEF ItemsAreNew
<1>. QED
  BY <1>1, <1>2, <1>3, <1>6, <1>7, <1>8, <1>9, OnlyMemory

(* The front of a list.                                                    *)
LEMMA FrontOfList ==
    ASSUME NEW S, NEW s \in Seq(S), NEW m \in Nat, m <= Len(s)
    PROVE  SubSeq(s, 1, m) \in Seq(S) /\ ToSet(SubSeq(s, 1, m)) \subseteq ToSet(s)
<1>1. \A i \in 1 .. m : s[i] \in S
  OBVIOUS
<1>. PICK front : front = SubSeq(s, 1, m)
  OBVIOUS
<1>2. /\ front \in Seq(S) /\ Len(front) = m
      /\ \A i \in 1 .. m : front[i] = s[i]
  OBVIOUS
<1>. QED
  BY <1>2 DEF ToSet

(* What is left of a suggestion was not asked before.                      *)
LEMMA FreshQueries ==
    ASSUME InvestigationAssumption, NEW suggested \in Suggestions, NEW fresh \in NewQueries(suggested)
    PROVE  /\ fresh \in Seq(Queries)
           /\ \A q \in ToSet(fresh) : Key(q) \notin inquiry.asked
<1>. DEFINE isNew(i) == /\ Key(suggested[i]) \notin inquiry.asked
                        /\ \A j \in 1 .. i - 1 : Key(suggested[j]) # Key(suggested[i])
            P == {i \in DOMAIN suggested : isNew(i)}
<1>1. suggested \in Seq(Queries)
  BY DEF InvestigationAssumption
<1>2. PICK places \in InOrder(P) : fresh = [k \in DOMAIN places |-> suggested[places[k]]]
  BY DEF NewQueries
<1>3. places \in [1 .. Cardinality(P) -> P]
  BY <1>2 DEF InOrder
<1>4. Cardinality(P) \in Nat
  <2>. PICK n \in Nat : n = Len(suggested)
    BY <1>1
  <2>1. IsFiniteSet(1 .. n)
    BY FS_Interval
  <2>2. P \subseteq 1 .. n
    BY <1>1
  <2>3. IsFiniteSet(P)
    BY <2>1, <2>2, FS_Subset
  <2>. QED
    BY <2>3, FS_CardinalityType
<1>5. \A k \in 1 .. Cardinality(P) :
        suggested[places[k]] \in Queries /\ Key(suggested[places[k]]) \notin inquiry.asked
  <2>1. \A i \in P : suggested[i] \in Queries /\ Key(suggested[i]) \notin inquiry.asked
    BY <1>1
  <2>. HIDE DEF P
  <2>2. \A k \in 1 .. Cardinality(P) : places[k] \in P
    BY <1>3
  <2>. QED
    BY <2>1, <2>2
<1>. HIDE DEF P
<1>6. fresh = [k \in 1 .. Cardinality(P) |-> suggested[places[k]]]
  BY <1>2, <1>3
<1>. PICK n \in Nat : n = Cardinality(P)
  BY <1>4
<1>7. fresh \in Seq(Queries)
  BY <1>5, <1>6
<1>. QED
  BY <1>5, <1>6, <1>7 DEF ToSet

LEMMA AsksNext ==
    ASSUME InvestigationAssumption, InquiryInv, NEW suggested \in Suggestions, NextQueries(suggested)
    PROVE  InquiryInv'
<1>1. PICK fresh \in NewQueries(suggested) :
        inquiry' = [inquiry EXCEPT
         !.pc = IF fresh = << >> THEN "write" ELSE "search",
         !.queries = SubSeq(fresh, 1, IF Len(fresh) < PerRound THEN Len(fresh) ELSE PerRound),
         !.asked = @ \cup {Key(q) : q \in ToSet(fresh)}]
  BY DEF NextQueries
<1>2. inquiry.pc = "boundary" /\ RowsRest /\ inquiry.iteration # 0
  BY DEF NextQueries, InquiryInv, InquiryIs
<1>3. fresh \in Seq(Queries) /\ \A q \in ToSet(fresh) : Key(q) \notin inquiry.asked
  BY FreshQueries
<1>. PICK now : now = SubSeq(fresh, 1, IF Len(fresh) < PerRound THEN Len(fresh) ELSE PerRound)
  OBVIOUS
<1>4. now \in Seq(Queries) /\ ToSet(now) \subseteq ToSet(fresh)
  <2>1. PerRound \in Nat
    BY DEF InvestigationAssumption
  <2>2. PICK m \in Nat : m = (IF Len(fresh) < PerRound THEN Len(fresh) ELSE PerRound) /\ m <= Len(fresh)
    BY <1>3, <2>1
  <2>3. now = SubSeq(fresh, 1, m)
    BY <2>2
  <2>. QED
    BY <1>3, <2>2, <2>3, FrontOfList
<1>5. /\ inquiry'.pc \in {"write", "search"} /\ inquiry'.iteration = inquiry.iteration
      /\ inquiry'.queries = now /\ inquiry'.asked = inquiry.asked \cup {Key(q) : q \in ToSet(fresh)}
      /\ inquiry'.items = inquiry.items
      /\ inquiry'.dots = inquiry.dots /\ inquiry'.kept = inquiry.kept
      /\ inquiry' = [pc |-> inquiry'.pc, iteration |-> inquiry'.iteration, queries |-> inquiry'.queries,
                  asked |-> inquiry'.asked, seen |-> inquiry'.seen, reading |-> inquiry'.reading,
                  items |-> inquiry'.items, dots |-> inquiry'.dots, kept |-> inquiry'.kept]
  BY <1>1 DEF InquiryInv, InquiryIs
<1>6. /\ UNCHANGED <<inquiries, archive, adding, rounds, writeups, revoking, lastDots, told>>
      /\ Current' = Current /\ adding' = adding
  BY <1>2 DEF RowsRest, TablesRest, Current
<1>7. RoundsOf(Current)' = RoundsOf(Current) /\ KeptIn(Current)' = KeptIn(Current)
  BY <1>6, RoundsStay
<1>8. InquiryIs'
  BY <1>2, <1>4, <1>5, <1>6 DEF InquiryInv, InquiryIs, InquiryPlaces
<1>9. KeysOf(now) \subseteq inquiry'.asked /\ KeysOf(now) \cap inquiry.asked = {}
  BY <1>3, <1>4, <1>5 DEF KeysOf, Key
<1>10. \A i \in RoundsOf(Current) : KeysOf(rounds[i].queries) \subseteq inquiry.asked
  BY <1>2 DEF InquiryInv, RoundsAreKnown
<1>11. QueriesAreNew'
  <2>1. KeysOf(inquiry.queries)' = KeysOf(now)
    BY <1>5 DEF KeysOf
  <2>2. \A i \in RoundsOf(Current)' : KeysOf(rounds[i].queries)' = KeysOf(rounds[i].queries)
    BY <1>6 DEF KeysOf
  <2>3. \A i \in RoundsOf(Current)' : KeysOf(now) \cap KeysOf(rounds[i].queries)' = {}
    BY <1>7, <1>9, <1>10, <2>2
  <2>. QED
    BY <1>9, <2>1, <2>3 DEF QueriesAreNew
<1>12. RoundsAreKnown'
  <2>1. inquiry.asked \subseteq inquiry'.asked
    BY <1>5
  <2>2. \A i \in RoundsOf(Current)' : KeysOf(rounds[i].queries)' = KeysOf(rounds[i].queries)
    BY <1>6 DEF KeysOf
  <2>3. inquiry'.dots = KeptIn(Current)'
    BY <1>2, <1>5, <1>7 DEF InquiryInv, RoundsAreKnown
  <2>4. \A i \in RoundsOf(Current)' : rounds'[i].iteration < inquiry'.iteration
    BY <1>2, <1>5, <1>6, <1>7 DEF InquiryInv, RoundsAreKnown
  <2>5. \A i \in RoundsOf(Current)' : KeysOf(rounds[i].queries)' \subseteq inquiry'.asked
    BY <1>7, <1>10, <2>1, <2>2
  <2>. QED
    BY <1>5, <2>3, <2>4, <2>5 DEF RoundsAreKnown
<1>13. ItemsAreNew'
  BY <1>5 DEF ItemsAreNew
<1>. QED
  BY <1>2, <1>5, <1>6, <1>8, <1>11, <1>12, <1>13, OnlyMemory

-----------------------------------------------------------------------------
(* A round.                                                                *)

LEMMA SearchesWell ==
    ASSUME InquiryInv, NEW answering, Search(answering)
    PROVE  InquiryInv'
<1>1. /\ inquiry.pc = "search" /\ RowsRest
      /\ \E seen, reading : inquiry' = [inquiry EXCEPT !.pc = "read", !.seen = seen,
                                          !.reading = reading, !.items = {}, !.kept = {}]
  BY DEF Search
<1>2. /\ inquiry'.pc = "read" /\ inquiry'.iteration = inquiry.iteration
      /\ inquiry'.queries = inquiry.queries /\ inquiry'.asked = inquiry.asked
      /\ inquiry'.items = {} /\ inquiry'.dots = inquiry.dots /\ inquiry'.kept = {}
      /\ inquiry' = [pc |-> inquiry'.pc, iteration |-> inquiry'.iteration, queries |-> inquiry'.queries,
                  asked |-> inquiry'.asked, seen |-> inquiry'.seen, reading |-> inquiry'.reading,
                  items |-> inquiry'.items, dots |-> inquiry'.dots, kept |-> inquiry'.kept]
  BY <1>1 DEF InquiryInv, InquiryIs
<1>3. /\ UNCHANGED <<inquiries, archive, adding, rounds, writeups, revoking, lastDots, told>>
      /\ Current' = Current /\ adding' = adding
  BY <1>1 DEF RowsRest, TablesRest, Current
<1>4. RoundsOf(Current)' = RoundsOf(Current) /\ KeptIn(Current)' = KeptIn(Current)
  BY <1>3, RoundsStay
<1>5. InquiryIs'
  <2>. IsFiniteSet({})
    BY FS_EmptySet
  <2>. QED
    BY <1>1, <1>2, <1>3 DEF InquiryInv, InquiryIs, InquiryPlaces
<1>6. QueriesAreNew'
  BY <1>1, <1>2, <1>3, <1>4 DEF InquiryInv, QueriesAreNew, InRound
<1>7. RoundsAreKnown'
  BY <1>1, <1>2, <1>3, <1>4 DEF InquiryInv, RoundsAreKnown
<1>8. ItemsAreNew'
  BY <1>2 DEF ItemsAreNew
<1>. QED
  BY <1>1, <1>2, <1>3, <1>5, <1>6, <1>7, <1>8, OnlyMemory

LEMMA ReadsWell ==
    ASSUME InquiryInv, NEW page, Read(page)
    PROVE  InquiryInv'
<1>1. /\ inquiry.pc = "read"
      /\ inquiry' = [inquiry EXCEPT !.reading = @ \ {page}]
  BY DEF Read
<1>2. /\ inquiry'.pc = inquiry.pc /\ inquiry'.iteration = inquiry.iteration
      /\ inquiry'.queries = inquiry.queries /\ inquiry'.asked = inquiry.asked
      /\ inquiry'.items = inquiry.items /\ inquiry'.dots = inquiry.dots
      /\ inquiry'.kept = inquiry.kept
      /\ inquiry' = [pc |-> inquiry'.pc, iteration |-> inquiry'.iteration, queries |-> inquiry'.queries,
                  asked |-> inquiry'.asked, seen |-> inquiry'.seen, reading |-> inquiry'.reading,
                  items |-> inquiry'.items, dots |-> inquiry'.dots, kept |-> inquiry'.kept]
  BY <1>1 DEF InquiryInv, InquiryIs
<1>3. /\ UNCHANGED <<inquiries, archive, rounds, writeups, revoking, told>>
      /\ Current' = Current
  BY DEF Read, Current
<1>4. RoundsOf(Current)' = RoundsOf(Current) /\ KeptIn(Current)' = KeptIn(Current)
  BY <1>3, RoundsStay
<1>5. InquiryIs'
  BY <1>1, <1>2, <1>3 DEF InquiryInv, InquiryIs
<1>6. QueriesAreNew'
  BY <1>1, <1>2, <1>3, <1>4 DEF InquiryInv, QueriesAreNew, InRound
<1>7. RoundsAreKnown'
  BY <1>1, <1>2, <1>3, <1>4 DEF InquiryInv, RoundsAreKnown
<1>8. ItemsAreNew'
  BY <1>1, <1>2, <1>3 DEF InquiryInv, ItemsAreNew
<1>9. AddsAreNew'
  <2>1. \A i \in DOMAIN rounds : rounds[i].kept \subseteq archive
    BY TablesShape DEF InquiryInv, RoundRow
  <2>. PICK add : add = [run |-> Current, page |-> page]
    OBVIOUS
  <2>2. adding' = adding \/ (page \notin archive /\ adding' = adding \cup {add})
    BY DEF Read, InStore
  <2>3. Current \in Nat
    BY TablesShape DEF InquiryInv
  <2>. QED
    BY <1>1, <1>2, <1>3, <2>1, <2>2, <2>3 DEF InquiryInv, AddsAreNew
<1>10. RowsStay
  BY <1>3, RowsRemain DEF InquiryInv
<1>. QED
  BY <1>1, <1>2, <1>3, <1>5, <1>6, <1>7, <1>8, <1>9, <1>10, InquiryGoesOn

LEMMA StoresWell ==
    ASSUME InquiryInv, NEW add \in adding, StorePage(add)
    PROVE  InquiryInv'
<1>1. /\ archive' = archive \cup {add.page} /\ adding' = adding \ {add}
      /\ UNCHANGED <<inquiries, rounds, writeups, revoking, told>> /\ Current' = Current
  BY DEF StorePage, Current
<1>2. RoundsOf(Current)' = RoundsOf(Current) /\ KeptIn(Current)' = KeptIn(Current)
  BY <1>1, RoundsStay
<1>3. PICK items : /\ \/ items = inquiry.items /\ inquiry' = inquiry
                      \/ /\ add.run = Current /\ inquiry.pc = "read"
                         /\ items = inquiry.items \cup {add.page}
                         /\ inquiry' = [inquiry EXCEPT !.items = items]
  BY DEF StorePage
<1>4. /\ inquiry'.pc = inquiry.pc /\ inquiry'.iteration = inquiry.iteration
      /\ inquiry'.queries = inquiry.queries /\ inquiry'.asked = inquiry.asked
      /\ inquiry'.items = items /\ inquiry'.dots = inquiry.dots
      /\ inquiry'.kept = inquiry.kept
      /\ inquiry' = [pc |-> inquiry'.pc, iteration |-> inquiry'.iteration, queries |-> inquiry'.queries,
                  asked |-> inquiry'.asked, seen |-> inquiry'.seen, reading |-> inquiry'.reading,
                  items |-> inquiry'.items, dots |-> inquiry'.dots, kept |-> inquiry'.kept]
      /\ inquiry'.pc = "idle" => inquiry' = inquiry
  BY <1>3 DEF InquiryInv, InquiryIs
<1>5. items \subseteq archive' /\ IsFiniteSet(items)
  <2>1. inquiry.items \subseteq archive /\ IsFiniteSet(inquiry.items)
    BY DEF InquiryInv, InquiryIs
  <2>. PICK I, page : I = inquiry.items /\ page = add.page
    OBVIOUS
  <2>2. IsFiniteSet(I \cup {page})
    BY <2>1, FS_AddElement
  <2>. QED
    BY <1>1, <1>3, <2>1, <2>2
<1>6. InquiryIs'
  BY <1>1, <1>4, <1>5 DEF InquiryInv, InquiryIs
<1>7. QueriesAreNew'
  BY <1>1, <1>2, <1>4 DEF InquiryInv, QueriesAreNew, InRound
<1>8. RoundsAreKnown'
  BY <1>1, <1>2, <1>4 DEF InquiryInv, RoundsAreKnown
<1>9. ItemsAreNew'
  <2>1. \A i \in DOMAIN rounds : inquiry.pc \in {"read", "match", "batch"} => items \cap rounds[i].kept = {}
    <3>1. inquiry.pc = "read" /\ add.run = Current => \A i \in DOMAIN rounds : add.page \notin rounds[i].kept
      BY DEF InquiryInv, AddsAreNew
    <3>2. inquiry.pc \in {"read", "match", "batch"} => \A i \in DOMAIN rounds : inquiry.items \cap rounds[i].kept = {}
      BY DEF InquiryInv, ItemsAreNew
    <3>. QED
      BY <1>3, <3>1, <3>2
  <2>2. inquiry.pc = "batch" => items = inquiry.items
    BY <1>3
  <2>. QED
    BY <1>1, <1>4, <2>1, <2>2 DEF InquiryInv, ItemsAreNew
<1>10. AddsAreNew'
  BY <1>1, <1>4 DEF InquiryInv, AddsAreNew
<1>11. RowsStay
  BY <1>1, RowsRemain DEF InquiryInv
<1>. QED
  BY <1>1, <1>4, <1>6, <1>7, <1>8, <1>9, <1>10, <1>11, InquiryGoesOn

LEMMA ReadingEnds ==
    ASSUME InquiryInv, AllRead
    PROVE  InquiryInv'
<1>1. /\ inquiry.pc = "read" /\ RowsRest /\ inquiry.kept = {}
      /\ \A add \in adding : add.run # Current
      /\ inquiry' = [inquiry EXCEPT !.pc = IF inquiry.items = {} THEN "batch" ELSE "match"]
  BY DEF AllRead, Proceed, InquiryInv, ItemsAreNew
<1>2. /\ inquiry'.pc \in {"batch", "match"} /\ inquiry'.iteration = inquiry.iteration
      /\ inquiry'.queries = inquiry.queries /\ inquiry'.asked = inquiry.asked
      /\ inquiry'.items = inquiry.items /\ inquiry'.dots = inquiry.dots
      /\ inquiry'.kept = inquiry.kept
      /\ inquiry' = [pc |-> inquiry'.pc, iteration |-> inquiry'.iteration, queries |-> inquiry'.queries,
                  asked |-> inquiry'.asked, seen |-> inquiry'.seen, reading |-> inquiry'.reading,
                  items |-> inquiry'.items, dots |-> inquiry'.dots, kept |-> inquiry'.kept]
  BY <1>1 DEF InquiryInv, InquiryIs
<1>3. /\ UNCHANGED <<inquiries, archive, adding, rounds, writeups, revoking, lastDots, told>>
      /\ Current' = Current /\ adding' = adding
  BY <1>1 DEF RowsRest, TablesRest, Current
<1>4. RoundsOf(Current)' = RoundsOf(Current) /\ KeptIn(Current)' = KeptIn(Current)
  BY <1>3, RoundsStay
<1>5. InquiryIs'
  BY <1>1, <1>2, <1>3 DEF InquiryInv, InquiryIs, InquiryPlaces
<1>6. QueriesAreNew'
  BY <1>1, <1>2, <1>3, <1>4 DEF InquiryInv, QueriesAreNew, InRound
<1>7. RoundsAreKnown'
  BY <1>1, <1>2, <1>3, <1>4 DEF InquiryInv, RoundsAreKnown
<1>8. ItemsAreNew'
  BY <1>1, <1>2, <1>3 DEF InquiryInv, ItemsAreNew
<1>. QED
  BY <1>1, <1>2, <1>3, <1>5, <1>6, <1>7, <1>8, OnlyMemory

(* What Oracle calls a dot, and is kept, is an item of the round.          *)
LEMMA PartsOfItems ==
    ASSUME NEW S, IsFiniteSet(S)
    PROVE  \A k \in DOMAIN Chunks(S) : Chunks(S)[k] \subseteq S
<1>. DEFINE n == Cardinality(S)
            s == SetToSeq(S)
<1>1. n \in Nat /\ ExistsBijection(1 .. n, S)
  BY FS_CardinalityType
<1>2. s \in [1 .. n -> S]
  BY <1>1 DEF SetToSeq, ExistsBijection, Bijection, Injection
<1>3. \A i \in DOMAIN s : s[i] \in S
  BY <1>2
<1>. HIDE DEF s
<1>. DEFINE parts == Min({SubBatches, Len(s)})
<1>4. Chunks(S) = [k \in 1 .. parts |-> {s[i] : i \in {j \in DOMAIN s : j % parts = k % parts}}]
  BY DEF Chunks, s
<1>. HIDE DEF parts
<1>. QED
  BY <1>3, <1>4

LEMMA AppliedAreItems ==
    ASSUME InquiryInv, NEW answer, NEW unjudged
    PROVE  Applied(answer, unjudged) \subseteq inquiry.items
<1>. PICK items : items = inquiry.items
  OBVIOUS
<1>1. IsFiniteSet(items)
  BY DEF InquiryInv, InquiryIs
<1>2. \A k \in DOMAIN Chunks(items) : Chunks(items)[k] \subseteq items
  BY <1>1, PartsOfItems
<1>. QED
  BY <1>2 DEF Applied, Kept

LEMMA MatchesWell ==
    ASSUME InquiryInv, NEW answer, NEW unjudged, Match(answer, unjudged)
    PROVE  InquiryInv'
<1>. PICK found : found = Applied(answer, unjudged)
  OBVIOUS
<1>1. /\ inquiry.pc = "match" /\ RowsRest /\ inquiry.kept = {}
      /\ inquiry' = [inquiry EXCEPT !.pc = "batch", !.kept = found, !.dots = @ \cup found]
  BY DEF Match, InquiryInv, ItemsAreNew
<1>2. /\ inquiry'.pc = "batch" /\ inquiry'.iteration = inquiry.iteration
      /\ inquiry'.queries = inquiry.queries /\ inquiry'.asked = inquiry.asked
      /\ inquiry'.items = inquiry.items /\ inquiry'.dots = inquiry.dots \cup found
      /\ inquiry'.kept = found
      /\ inquiry' = [pc |-> inquiry'.pc, iteration |-> inquiry'.iteration, queries |-> inquiry'.queries,
                  asked |-> inquiry'.asked, seen |-> inquiry'.seen, reading |-> inquiry'.reading,
                  items |-> inquiry'.items, dots |-> inquiry'.dots, kept |-> inquiry'.kept]
  BY <1>1 DEF InquiryInv, InquiryIs
<1>3. /\ UNCHANGED <<inquiries, archive, adding, rounds, writeups, revoking, lastDots, told>>
      /\ Current' = Current /\ adding' = adding
  BY <1>1 DEF RowsRest, TablesRest, Current
<1>4. RoundsOf(Current)' = RoundsOf(Current) /\ KeptIn(Current)' = KeptIn(Current)
  BY <1>3, RoundsStay
<1>5. found \subseteq inquiry.items
  BY AppliedAreItems
<1>6. IsFiniteSet(found) /\ IsFiniteSet(inquiry.dots \cup found)
  <2>. PICK I, D : I = inquiry.items /\ D = inquiry.dots
    OBVIOUS
  <2>1. IsFiniteSet(I) /\ IsFiniteSet(D) /\ found \subseteq I
    BY <1>5 DEF InquiryInv, InquiryIs
  <2>2. IsFiniteSet(found)
    BY <2>1, FS_Subset
  <2>3. IsFiniteSet(D \cup found)
    BY <2>1, <2>2, FS_Union
  <2>. QED
    BY <2>2, <2>3
<1>7. InquiryIs'
  BY <1>1, <1>2, <1>3, <1>5, <1>6 DEF InquiryInv, InquiryIs, InquiryPlaces
<1>8. QueriesAreNew'
  BY <1>1, <1>2, <1>3, <1>4 DEF InquiryInv, QueriesAreNew, InRound
<1>9. RoundsAreKnown'
  BY <1>1, <1>2, <1>3, <1>4 DEF InquiryInv, RoundsAreKnown
<1>10. ItemsAreNew'
  BY <1>1, <1>2, <1>3, <1>5 DEF InquiryInv, ItemsAreNew
<1>. QED
  BY <1>1, <1>2, <1>3, <1>7, <1>8, <1>9, <1>10, OnlyMemory

-----------------------------------------------------------------------------
(* The save of a round.                                                    *)

LEMMA RoundIsAdded ==
    ASSUME rounds \in Seq(RoundRow), NEW round, rounds' = Append(rounds, round)
    PROVE  /\ \A i \in DOMAIN rounds : rounds'[i] = rounds[i]
           /\ DOMAIN rounds' = DOMAIN rounds \cup {Len(rounds) + 1}
           /\ Len(rounds) + 1 \notin DOMAIN rounds
           /\ rounds'[Len(rounds) + 1] = round
BY DEF RoundRow

LEMMA SavesBatchWell ==
    ASSUME InquiryInv, SaveBatch
    PROVE  InquiryInv'
<1>. PICK round : round = [run |-> Current, iteration |-> inquiry.iteration,
                           queries |-> inquiry.queries, items |-> inquiry.items,
                           kept |-> inquiry.kept]
  OBVIOUS
<1>. PICK place : place = Len(rounds) + 1
  OBVIOUS
<1>1. /\ inquiry.pc = "batch" /\ inquiry' = [inquiry EXCEPT !.pc = "save"]
      /\ rounds' = Append(rounds, round)
      /\ UNCHANGED <<archive, adding, inquiries, writeups, revoking, told>> /\ Current' = Current
  BY DEF SaveBatch, Proceed, Current
<1>2. /\ inquiry'.pc = "save" /\ inquiry'.iteration = inquiry.iteration
      /\ inquiry'.queries = inquiry.queries /\ inquiry'.asked = inquiry.asked
      /\ inquiry'.items = inquiry.items /\ inquiry'.dots = inquiry.dots
      /\ inquiry'.kept = inquiry.kept
      /\ inquiry' = [pc |-> inquiry'.pc, iteration |-> inquiry'.iteration, queries |-> inquiry'.queries,
                  asked |-> inquiry'.asked, seen |-> inquiry'.seen, reading |-> inquiry'.reading,
                  items |-> inquiry'.items, dots |-> inquiry'.dots, kept |-> inquiry'.kept]
  BY <1>1 DEF InquiryInv, InquiryIs
<1>3. /\ \A i \in DOMAIN rounds : rounds'[i] = rounds[i]
      /\ DOMAIN rounds' = DOMAIN rounds \cup {place} /\ place \notin DOMAIN rounds
      /\ rounds'[place] = round
  BY <1>1, RoundIsAdded DEF InquiryInv, TablesAre
<1>4. /\ round.run = Current /\ round.iteration = inquiry.iteration
      /\ round.queries = inquiry.queries /\ round.kept = inquiry.kept
      /\ round \in RoundRow /\ Current \in Nat
  <2>1. Current \in Nat
    BY TablesShape DEF InquiryInv
  <2>. QED
    BY <1>1, <2>1 DEF InquiryInv, InquiryIs, RoundRow
<1>5. /\ RoundsOf(Current)' = RoundsOf(Current) \cup {place}
      /\ KeptIn(Current)' = KeptIn(Current) \cup round.kept
  <2>1. RoundsOf(Current)' = RoundsOf(Current) \cup {place}
    BY <1>1, <1>3, <1>4 DEF RoundsOf
  <2>. QED
    BY <1>3, <2>1 DEF KeptIn, RoundsOf
<1>6. \A r : r # Current => RoundsOf(r)' = RoundsOf(r) /\ KeptIn(r)' = KeptIn(r)
  <2>. SUFFICES ASSUME NEW r, r # Current PROVE RoundsOf(r)' = RoundsOf(r) /\ KeptIn(r)' = KeptIn(r)
    OBVIOUS
  <2>1. RoundsOf(r)' = RoundsOf(r)
    BY <1>1, <1>3, <1>4 DEF RoundsOf
  <2>. QED
    BY <1>3, <2>1 DEF KeptIn, RoundsOf
<1>7. /\ \A i \in DOMAIN rounds : round.kept \cap rounds[i].kept = {}
      /\ \A i \in RoundsOf(Current) : /\ rounds[i].iteration < inquiry.iteration
                                      /\ KeysOf(round.queries) \cap KeysOf(rounds[i].queries) = {}
                                      /\ KeysOf(rounds[i].queries) \subseteq inquiry.asked
      /\ KeysOf(round.queries) \subseteq inquiry.asked
  <2>1. \A i \in DOMAIN rounds : round.kept \cap rounds[i].kept = {}
    BY <1>1, <1>4 DEF InquiryInv, ItemsAreNew
  <2>2. KeysOf(round.queries) = KeysOf(inquiry.queries)
    BY <1>4 DEF KeysOf
  <2>. QED
    BY <1>1, <2>1, <2>2 DEF InquiryInv, QueriesAreNew, RoundsAreKnown, InRound
<1>8. TablesAre'
  BY <1>1, <1>4 DEF InquiryInv, TablesAre, RoundRow, WriteupRow
<1>9. InquiryIs'
  BY <1>1, <1>2 DEF InquiryInv, InquiryIs, InquiryPlaces
<1>10. QueriesAreNew'
  BY <1>2 DEF QueriesAreNew, InRound
<1>11. RoundsAreKnown'
  <2>1. inquiry'.dots = KeptIn(Current)'
    BY <1>1, <1>2, <1>4, <1>5 DEF InquiryInv, RoundsAreKnown
  <2>2. ASSUME NEW i \in RoundsOf(Current)'
        PROVE  /\ \/ rounds'[i].iteration < inquiry'.iteration
                  \/ rounds'[i].iteration = inquiry'.iteration
               /\ KeysOf(rounds'[i].queries) \subseteq inquiry'.asked
    BY <1>2, <1>3, <1>4, <1>5, <1>7 DEF RoundsOf
  <2>3. \A i \in RoundsOf(Current)' : KeysOf(rounds[i].queries)' = KeysOf(rounds'[i].queries)
    BY DEF KeysOf
  <2>. QED
    BY <1>2, <2>1, <2>2, <2>3 DEF RoundsAreKnown
<1>12. ItemsAreNew'
  BY <1>2 DEF ItemsAreNew
<1>13. AddsAreNew'
  BY <1>1, <1>2 DEF InquiryInv, AddsAreNew
<1>14. RoundsDiffer'
  <2>1. \A i \in DOMAIN rounds' : rounds'[i].run <= Current'
    BY <1>1, <1>3, <1>4 DEF InquiryInv, RoundsDiffer
  <2>2. ASSUME NEW i \in DOMAIN rounds', NEW j \in DOMAIN rounds', i # j
        PROVE  /\ rounds'[i].kept \cap rounds'[j].kept = {}
               /\ rounds'[i].run = rounds'[j].run =>
                    /\ rounds'[i].iteration # rounds'[j].iteration
                    /\ KeysOf(rounds'[i].queries) \cap KeysOf(rounds'[j].queries) = {}
    <3>1. \A k \in RoundsOf(Current) : rounds[k].iteration # inquiry.iteration
      <4>1. \A k \in RoundsOf(Current) : rounds[k].iteration \in Nat
        BY TablesShape DEF InquiryInv, RoundsOf, RoundRow
      <4>2. inquiry.iteration \in Nat
        BY DEF InquiryInv, InquiryIs
      <4>. QED
        BY <1>7, <4>1, <4>2
    <3>2. CASE i \in DOMAIN rounds /\ j \in DOMAIN rounds
      BY <1>3, <2>2, <3>2 DEF InquiryInv, RoundsDiffer
    <3>3. CASE i = place /\ j \in DOMAIN rounds
      BY <1>3, <1>4, <1>7, <3>1, <3>3 DEF RoundsOf
    <3>4. CASE j = place /\ i \in DOMAIN rounds
      BY <1>3, <1>4, <1>7, <3>1, <3>4 DEF RoundsOf
    <3>. QED
      BY <1>3, <2>2, <3>2, <3>3, <3>4
  <2>3. \A i \in DOMAIN rounds' : KeysOf(rounds[i].queries)' = KeysOf(rounds'[i].queries)
    BY DEF KeysOf
  <2>. QED
    BY <2>1, <2>2, <2>3 DEF RoundsDiffer
<1>15. WriteupsTell'
  <2>1. ASSUME NEW i \in DOMAIN writeups
        PROVE  /\ writeups[i].run # Current
               /\ KeptIn(writeups[i].run)' = KeptIn(writeups[i].run)
    <3>1. writeups[i].run # Current
      BY <1>1 DEF InquiryInv, WriteupsTell
    <3>. PICK run : run = writeups[i].run /\ run = writeups'[i].run
      BY <1>1
    <3>2. RoundsOf(run)' = RoundsOf(run) /\ KeptIn(run)' = KeptIn(run)
      BY <1>6, <3>1
    <3>3. RoundsOf(writeups[i].run)' = RoundsOf(run)'
      BY DEF RoundsOf
    <3>4. KeptIn(writeups[i].run)' = KeptIn(run)'
      BY <3>3 DEF KeptIn
    <3>. QED
      BY <3>1, <3>2, <3>4
  <2>. QED
    BY <1>1, <1>2, <2>1 DEF InquiryInv, WriteupsTell
<1>16. CompletedCount'
  BY <1>1, <1>2, <1>6 DEF InquiryInv, CompletedCount
<1>17. ToldAreOver'
  <2>1. ASSUME NEW i \in DOMAIN told, NEW page \in told[i]
        PROVE  \E k \in DOMAIN rounds' : page \in rounds'[k].kept /\ rounds'[k].run # Current'
    <3>1. PICK k \in DOMAIN rounds : page \in rounds[k].kept /\ rounds[k].run # Current
      BY <1>1 DEF InquiryInv, ToldAreOver
    <3>. QED
      BY <1>1, <1>3, <3>1
  <2>. QED
    BY <1>1, <2>1 DEF InquiryInv, ToldAreOver
<1>. QED
  BY <1>8, <1>9, <1>10, <1>11, <1>12, <1>13, <1>14, <1>15, <1>16, <1>17 DEF InquiryInv

LEMMA SavesRunWell ==
    ASSUME InquiryInv, SaveRun
    PROVE  InquiryInv'
<1>. PICK row : row = [status |-> "running", kept |-> Cardinality(inquiry.dots), done |-> inquiry.iteration]
  OBVIOUS
<1>1. /\ inquiry.pc = "save" /\ inquiry' = [inquiry EXCEPT !.pc = "boundary", !.iteration = @ + 1]
      /\ inquiries' = [inquiries EXCEPT ![Current] = row]
      /\ UNCHANGED <<archive, adding, rounds, writeups, revoking, lastDots, told>>
  BY DEF SaveRun, SaveInquiry, TablesRest
<1>2. inquiry.iteration \in Nat \ {0} /\ Current # 0
  BY <1>1 DEF InquiryInv, InquiryIs
<1>3. /\ inquiry'.pc = "boundary" /\ inquiry'.iteration = inquiry.iteration + 1
      /\ inquiry'.queries = inquiry.queries /\ inquiry'.asked = inquiry.asked
      /\ inquiry'.items = inquiry.items /\ inquiry'.dots = inquiry.dots
      /\ inquiry'.kept = inquiry.kept
      /\ inquiry' = [pc |-> inquiry'.pc, iteration |-> inquiry'.iteration, queries |-> inquiry'.queries,
                  asked |-> inquiry'.asked, seen |-> inquiry'.seen, reading |-> inquiry'.reading,
                  items |-> inquiry'.items, dots |-> inquiry'.dots, kept |-> inquiry'.kept]
  BY <1>1 DEF InquiryInv, InquiryIs
<1>4. row \in InquiryRow /\ row.status = "running"
  <2>. PICK D : D = inquiry.dots
    OBVIOUS
  <2>1. Cardinality(D) \in Nat
    BY FS_CardinalityType DEF InquiryInv, InquiryIs
  <2>. QED
    BY <1>2, <2>1 DEF InquiryRow
<1>5. RowsStay
  <2>1. Current \in DOMAIN inquiries
    BY <1>2, TablesShape DEF InquiryInv
  <2>. PICK c : c = Current
    OBVIOUS
  <2>2. /\ c \in DOMAIN inquiries /\ inquiries' = [inquiries EXCEPT ![c] = row] /\ TablesAre
        /\ row.status # "completed"
    BY <1>1, <1>4, <2>1 DEF InquiryInv
  <2>. QED
    BY <1>4, <2>2, RowIsSaved
<1>6. Len(inquiries') = Len(inquiries) /\ Current' = Current
  BY <1>5 DEF RowsStay, Current
<1>7. RoundsOf(Current)' = RoundsOf(Current) /\ KeptIn(Current)' = KeptIn(Current)
  BY <1>1, <1>6, RoundsStay
<1>8. InquiryIs'
  BY <1>1, <1>2, <1>3, <1>6 DEF InquiryInv, InquiryIs, InquiryPlaces
<1>9. QueriesAreNew'
  BY <1>2, <1>3 DEF QueriesAreNew, InRound
<1>10. RoundsAreKnown'
  <2>1. inquiry'.dots = KeptIn(Current)'
    BY <1>1, <1>3, <1>7 DEF InquiryInv, RoundsAreKnown
  <2>2. \A i \in RoundsOf(Current)' :
          /\ rounds'[i].iteration < inquiry'.iteration
          /\ KeysOf(rounds[i].queries)' = KeysOf(rounds[i].queries)
          /\ KeysOf(rounds[i].queries) \subseteq inquiry'.asked
    <3>1. \A i \in RoundsOf(Current) : rounds[i].iteration \in Nat
      BY TablesShape DEF InquiryInv, RoundsOf, RoundRow
    <3>2. \A i \in RoundsOf(Current) :
            rounds[i].iteration < inquiry.iteration \/ rounds[i].iteration = inquiry.iteration
      BY <1>1 DEF InquiryInv, RoundsAreKnown
    <3>3. \A i \in RoundsOf(Current) : rounds[i].iteration < inquiry.iteration + 1
      BY <1>2, <3>1, <3>2
    <3>4. \A i \in RoundsOf(Current) : KeysOf(rounds[i].queries) \subseteq inquiry.asked
      BY <1>1 DEF InquiryInv, RoundsAreKnown
    <3>5. \A i \in RoundsOf(Current) : KeysOf(rounds[i].queries)' = KeysOf(rounds[i].queries)
      BY <1>1 DEF KeysOf
    <3>. QED
      BY <1>1, <1>3, <1>7, <3>3, <3>4, <3>5
  <2>. QED
    BY <1>3, <2>1, <2>2 DEF RoundsAreKnown
<1>11. ItemsAreNew'
  BY <1>3 DEF ItemsAreNew
<1>12. AddsAreNew'
  BY <1>1, <1>3, <1>6 DEF InquiryInv, AddsAreNew
<1>. QED
  BY <1>1, <1>3, <1>5, <1>8, <1>9, <1>10, <1>11, <1>12, InquiryGoesOn

-----------------------------------------------------------------------------
(* The write-up.                                                           *)

LEMMA WritesWell ==
    ASSUME InquiryInv, Write
    PROVE  InquiryInv'
<1>. PICK writeup : writeup = [run |-> Current, dots |-> inquiry.dots]
  OBVIOUS
<1>1. /\ inquiry.pc = "write" /\ inquiry' = [inquiry EXCEPT !.pc = "complete"]
      /\ writeups' = Append(writeups, writeup)
      /\ UNCHANGED <<archive, adding, inquiries, rounds, revoking, told>>
  BY DEF Write, Written, Proceed
<1>2. /\ inquiry'.pc = "complete" /\ inquiry'.iteration = inquiry.iteration
      /\ inquiry'.queries = inquiry.queries /\ inquiry'.asked = inquiry.asked
      /\ inquiry'.items = inquiry.items /\ inquiry'.dots = inquiry.dots
      /\ inquiry'.kept = inquiry.kept
      /\ inquiry' = [pc |-> inquiry'.pc, iteration |-> inquiry'.iteration, queries |-> inquiry'.queries,
                  asked |-> inquiry'.asked, seen |-> inquiry'.seen, reading |-> inquiry'.reading,
                  items |-> inquiry'.items, dots |-> inquiry'.dots, kept |-> inquiry'.kept]
  BY <1>1 DEF InquiryInv, InquiryIs
<1>3. /\ Len(inquiries') = Len(inquiries) /\ Current' = Current
      /\ \A r : KeptIn(r)' = KeptIn(r)
      /\ RoundsOf(Current)' = RoundsOf(Current) /\ KeptIn(Current)' = KeptIn(Current)
  <2>. Len(inquiries') = Len(inquiries)
    BY <1>1
  <2>. QED
    BY <1>1, RoundsStay
<1>4. /\ writeup.run = Current /\ writeup.dots = KeptIn(Current) /\ writeup \in WriteupRow
      /\ Current \in Nat
  <2>1. Current \in Nat
    BY TablesShape DEF InquiryInv
  <2>. QED
    BY <1>1, <2>1 DEF InquiryInv, RoundsAreKnown, InquiryIs, WriteupRow
<1>5. TablesAre'
  BY <1>1, <1>4 DEF InquiryInv, TablesAre, RoundRow, WriteupRow
<1>6. InquiryIs'
  BY <1>1, <1>2, <1>3 DEF InquiryInv, InquiryIs, InquiryPlaces
<1>7. QueriesAreNew' /\ ItemsAreNew'
  BY <1>2 DEF QueriesAreNew, InRound, ItemsAreNew
<1>8. RoundsAreKnown'
  BY <1>1, <1>2, <1>3 DEF InquiryInv, RoundsAreKnown
<1>9. AddsAreNew'
  BY <1>1, <1>2, <1>3 DEF InquiryInv, AddsAreNew
<1>10. RoundsDiffer'
  <2>. \A i \in DOMAIN rounds : rounds[i].run <= Current'
    BY <1>3 DEF InquiryInv, RoundsDiffer
  <2>. QED
    BY <1>1, RoundsRemain
<1>11. WriteupsTell'
  <2>1. ASSUME NEW i \in DOMAIN writeups'
        PROVE  writeups'[i] = writeup \/ (i \in DOMAIN writeups /\ writeups'[i] = writeups[i])
    BY <1>1, <1>4 DEF InquiryInv, TablesAre, WriteupRow
  <2>2. ASSUME NEW i \in DOMAIN writeups'
        PROVE  writeups'[i].run <= Current' /\ writeups'[i].dots = KeptIn(writeups[i].run)'
    <3>. PICK run : run = writeups'[i].run
      OBVIOUS
    <3>1. KeptIn(writeups[i].run)' = KeptIn(run)'
      <4>. RoundsOf(writeups[i].run)' = RoundsOf(run)'
        BY DEF RoundsOf
      <4>. QED
        BY DEF KeptIn
    <3>2. CASE writeups'[i] = writeup
      <4>1. KeptIn(run)' = KeptIn(run) /\ run = Current
        BY <1>3, <1>4, <3>2
      <4>2. KeptIn(run) = KeptIn(Current)
        BY <4>1
      <4>. QED
        BY <1>3, <1>4, <3>1, <3>2, <4>1, <4>2
    <3>3. CASE i \in DOMAIN writeups /\ writeups'[i] = writeups[i]
      <4>1. writeups[i].run <= Current /\ writeups[i].dots = KeptIn(writeups[i].run)
        BY <3>3 DEF InquiryInv, WriteupsTell
      <4>2. KeptIn(writeups[i].run) = KeptIn(run)
        BY <3>3
      <4>. QED
        BY <1>3, <3>1, <3>3, <4>1, <4>2
    <3>. QED
      BY <2>1, <3>2, <3>3
  <2>. QED
    BY <1>2, <2>2 DEF WriteupsTell
<1>12. CompletedCount'
  BY <1>1, <1>2, <1>3 DEF InquiryInv, CompletedCount
<1>13. ToldAreOver'
  BY <1>1, <1>3, ToldStay
<1>. QED
  BY <1>5, <1>6, <1>7, <1>8, <1>9, <1>10, <1>11, <1>12, <1>13 DEF InquiryInv

(* The row of the engine.                                                  *)
LEMMA OwnRowIs ==
    ASSUME InquiryInv, inquiry.iteration # 0, NEW status \in {"cancelled", "completed"}
    PROVE  /\ OwnRow(status) \in InquiryRow
           /\ OwnRow(status).status = status
           /\ OwnRow(status).kept = Cardinality(inquiry.dots)
<1>. PICK D, n : D = inquiry.dots /\ n = inquiry.iteration
  OBVIOUS
<1>1. Cardinality(D) \in Nat
  BY FS_CardinalityType DEF InquiryInv, InquiryIs
<1>2. n - 1 \in Nat
  BY DEF InquiryInv, InquiryIs
<1>. QED
  BY <1>1, <1>2 DEF OwnRow, InquiryRow

LEMMA CompletesWell ==
    ASSUME InquiryInv, CompleteInquiry
    PROVE  InquiryInv'
<1>. PICK row : row = OwnRow("completed")
  OBVIOUS
<1>1. /\ inquiry.pc = "complete" /\ inquiry' = [inquiry EXCEPT !.pc = "tell"]
      /\ inquiries' = [inquiries EXCEPT ![Current] = row]
      /\ UNCHANGED <<archive, adding, rounds, writeups, revoking, told>>
  BY DEF CompleteInquiry, SaveInquiry, Proceed, TablesRest
<1>2. inquiry.iteration # 0 /\ Current # 0
  BY <1>1 DEF InquiryInv, InquiryIs
<1>3. /\ inquiry'.pc = "tell" /\ inquiry'.iteration = inquiry.iteration
      /\ inquiry'.queries = inquiry.queries /\ inquiry'.asked = inquiry.asked
      /\ inquiry'.items = inquiry.items /\ inquiry'.dots = inquiry.dots
      /\ inquiry'.kept = inquiry.kept
      /\ inquiry' = [pc |-> inquiry'.pc, iteration |-> inquiry'.iteration, queries |-> inquiry'.queries,
                  asked |-> inquiry'.asked, seen |-> inquiry'.seen, reading |-> inquiry'.reading,
                  items |-> inquiry'.items, dots |-> inquiry'.dots, kept |-> inquiry'.kept]
  BY <1>1 DEF InquiryInv, InquiryIs
<1>4. row \in InquiryRow /\ row.kept = Cardinality(KeptIn(Current))
  <2>1. inquiry.dots = KeptIn(Current)
    BY <1>1 DEF InquiryInv, RoundsAreKnown
  <2>. QED
    BY <1>2, <2>1, OwnRowIs
<1>5. /\ inquiries' \in Seq(InquiryRow) /\ Len(inquiries') = Len(inquiries)
      /\ DOMAIN inquiries' = DOMAIN inquiries
      /\ inquiries'[Current] = row
      /\ \A s \in DOMAIN inquiries : s # Current => inquiries'[s] = inquiries[s]
  <2>1. Current \in DOMAIN inquiries /\ inquiries \in Seq(InquiryRow)
    BY <1>2, TablesShape DEF InquiryInv, TablesAre
  <2>. QED
    BY <1>1, <1>4, <2>1
<1>6. /\ Current' = Current
      /\ \A r : KeptIn(r)' = KeptIn(r)
      /\ RoundsOf(Current)' = RoundsOf(Current) /\ KeptIn(Current)' = KeptIn(Current)
  BY <1>1, <1>5, RoundsStay
<1>7. TablesAre'
  BY <1>1, <1>5, TablesStay DEF InquiryInv
<1>8. InquiryIs'
  BY <1>1, <1>3, <1>6 DEF InquiryInv, InquiryIs, InquiryPlaces
<1>9. QueriesAreNew' /\ ItemsAreNew'
  BY <1>3 DEF QueriesAreNew, InRound, ItemsAreNew
<1>10. RoundsAreKnown'
  BY <1>1, <1>3, <1>6 DEF InquiryInv, RoundsAreKnown
<1>11. AddsAreNew'
  BY <1>1, <1>3, <1>6 DEF InquiryInv, AddsAreNew
<1>12. RoundsDiffer' /\ WriteupsTell' /\ ToldAreOver'
  BY <1>1, <1>3, <1>5, PastStays, ToldStay
<1>13. CompletedCount'
  <2>1. \A r : Cardinality(KeptIn(r))' = Cardinality(KeptIn(r))
    BY <1>6
  <2>. SUFFICES ASSUME NEW r \in DOMAIN inquiries', inquiries'[r].status = "completed"
                PROVE  inquiries'[r].kept = Cardinality(KeptIn(r))
    BY <1>3, <2>1 DEF CompletedCount
  <2>2. CASE r = Current
    BY <1>4, <1>5, <2>2
  <2>3. CASE r # Current
    BY <1>5, <2>3 DEF InquiryInv, CompletedCount
  <2>. QED
    BY <2>2, <2>3
<1>. QED
  BY <1>7, <1>8, <1>9, <1>10, <1>11, <1>12, <1>13 DEF InquiryInv

LEMMA TellsWell ==
    ASSUME InquiryInv, TellWatch
    PROVE  InquiryInv'
<1>. PICK news : news = inquiry.dots \ lastDots
  OBVIOUS
<1>1. /\ inquiry.pc = "tell" /\ inquiry' = NoInquiry
      /\ told' = Append(told, news)
      /\ UNCHANGED <<archive, adding, inquiries, rounds, writeups, revoking>>
  BY DEF TellWatch
<1>2. inquiry'.pc = "idle" /\ Len(inquiries') = Len(inquiries)
  BY <1>1 DEF NoInquiry
<1>3. news \subseteq KeptIn(Current) /\ news \subseteq archive
  BY <1>1 DEF InquiryInv, RoundsAreKnown, InquiryIs
<1>4. TablesAre'
  BY <1>1, <1>3 DEF InquiryInv, TablesAre, RoundRow, WriteupRow
<1>5. InquiryIs' /\ QueriesAreNew' /\ RoundsAreKnown' /\ ItemsAreNew' /\ AddsAreNew'
  <2>. \A add \in adding' : add.run \in Nat /\ add.run <= Current
    BY <1>1 DEF InquiryInv, AddsAreNew
  <2>. QED
    BY <1>1, <1>2, NothingToRemember
<1>6. RoundsDiffer' /\ WriteupsTell' /\ CompletedCount'
  <2>. RowsStay
    BY <1>1, RowsRemain DEF InquiryInv
  <2>. QED
    BY <1>1, <1>2, PastStays, CompletedStay
<1>7. ToldAreOver'
  <2>1. \A i \in DOMAIN told : \A page \in told[i] :
          \E k \in DOMAIN rounds : page \in rounds[k].kept /\ rounds[k].run # Current
    BY <1>1 DEF InquiryInv, ToldAreOver
  <2>2. \A page \in news : \E k \in DOMAIN rounds : page \in rounds[k].kept /\ rounds[k].run = Current
    BY <1>3 DEF KeptIn, RoundsOf
  <2>3. \A i \in DOMAIN told : told[i] \cap news = {}
    BY <2>1, <2>2 DEF InquiryInv, RoundsDiffer
  <2>4. /\ \A i \in DOMAIN told : told'[i] = told[i]
        /\ \A i \in DOMAIN told' : i \in DOMAIN told \/ (i = Len(told) + 1 /\ told'[i] = news)
    BY <1>1 DEF InquiryInv, TablesAre
  <2>5. \A i \in DOMAIN told' : \A page \in told'[i] : \E k \in DOMAIN rounds' : page \in rounds'[k].kept
    BY <1>1, <2>1, <2>2, <2>4
  <2>6. \A i \in DOMAIN told', j \in DOMAIN told' : i # j => told'[i] \cap told'[j] = {}
    BY <2>3, <2>4 DEF InquiryInv, ToldAreOver
  <2>. QED
    BY <1>2, <2>5, <2>6 DEF ToldAreOver
<1>. QED
  BY <1>4, <1>5, <1>6, <1>7 DEF InquiryInv

-----------------------------------------------------------------------------
(* What can go wrong.                                                      *)

LEMMA RevocationObeyed ==
    ASSUME InquiryInv, ObeyRevocation
    PROVE  InquiryInv'
<1>. PICK row : row = OwnRow("cancelled")
  OBVIOUS
<1>1. /\ inquiry.pc = "boundary" /\ inquiry' = NoInquiry
      /\ inquiries' = [inquiries EXCEPT ![Current] = row]
      /\ UNCHANGED <<archive, adding, rounds, writeups, revoking, told>>
  BY DEF ObeyRevocation, SaveInquiry, TablesRest
<1>2. inquiry.iteration # 0 /\ Current # 0
  BY <1>1 DEF InquiryInv, InquiryIs
<1>3. row \in InquiryRow /\ row.status = "cancelled"
  BY <1>2, OwnRowIs
<1>4. RowsStay
  <2>. PICK c : c = Current
    OBVIOUS
  <2>1. /\ c \in DOMAIN inquiries /\ inquiries' = [inquiries EXCEPT ![c] = row] /\ TablesAre
        /\ row.status # "completed"
    BY <1>1, <1>2, <1>3, TablesShape DEF InquiryInv
  <2>. QED
    BY <1>3, <2>1, RowIsSaved
<1>5. \A add \in adding' : add.run \in Nat /\ add.run <= Current
  BY <1>1 DEF InquiryInv, AddsAreNew
<1>. QED
  BY <1>1, <1>4, <1>5, InquiryEnds

LEMMA FailsWell ==
    ASSUME InquiryInv, FailInquiry
    PROVE  InquiryInv'
<1>. PICK c : c = Current
  OBVIOUS
<1>1. /\ inquiry.pc # "idle" /\ inquiry' = NoInquiry
      /\ inquiries' = [inquiries EXCEPT ![c] = [inquiries[c] EXCEPT !.status = "failed"]]
      /\ UNCHANGED <<archive, rounds, writeups, revoking, told>>
      /\ \A add \in adding' : add \in adding \/ add.run = Current
  BY DEF FailInquiry, SaveInquiry
<1>2. Current # 0
  BY <1>1 DEF InquiryInv, InquiryIs
<1>3. c \in DOMAIN inquiries /\ inquiries[c] \in InquiryRow /\ Current \in Nat
  BY <1>2, TablesShape DEF InquiryInv
<1>4. RowsStay
  <2>. PICK row : row = [inquiries[c] EXCEPT !.status = "failed"]
    OBVIOUS
  <2>1. row \in InquiryRow /\ row.status # "completed"
    BY <1>3 DEF InquiryRow
  <2>2. inquiries' = [inquiries EXCEPT ![c] = row] /\ TablesAre
    BY <1>1 DEF InquiryInv
  <2>. QED
    BY <1>3, <2>1, <2>2, RowIsSaved
<1>5. \A add \in adding' : add.run \in Nat /\ add.run <= Current
  BY <1>1, <1>3 DEF InquiryInv, AddsAreNew
<1>. QED
  BY <1>1, <1>4, <1>5, InquiryEnds

LEMMA NoWatchFound ==
    ASSUME InquiryInv, WatchNotFound
    PROVE  InquiryInv'
<1>1. /\ inquiry' = NoInquiry
      /\ UNCHANGED <<inquiries, archive, adding, rounds, writeups, revoking, told>>
  BY DEF WatchNotFound, RowsRest, TablesRest
<1>2. RowsStay
  BY <1>1, RowsRemain DEF InquiryInv
<1>3. \A add \in adding' : add.run \in Nat /\ add.run <= Current
  BY <1>1 DEF InquiryInv, AddsAreNew
<1>. QED
  BY <1>1, <1>2, <1>3, InquiryEnds

LEMMA RestartsWell ==
    ASSUME InquiryInv, InquiryRestart
    PROVE  InquiryInv'
<1>1. /\ inquiry' = NoInquiry /\ revoking' = NotRevoking /\ adding' = {}
      /\ UNCHANGED <<archive, rounds, writeups, told>>
      /\ inquiries' = [r \in DOMAIN inquiries |-> IF inquiries[r].status = "running"
                     THEN [inquiries[r] EXCEPT !.status = "failed"] ELSE inquiries[r]]
  BY DEF InquiryRestart
<1>2. \A r \in DOMAIN inquiries :
        /\ inquiries'[r] \in InquiryRow
        /\ inquiries'[r] = inquiries[r] \/ inquiries'[r].status = "failed"
  <2>. SUFFICES ASSUME NEW r \in DOMAIN inquiries
                PROVE  /\ inquiries'[r] \in InquiryRow
                       /\ inquiries'[r] = inquiries[r] \/ inquiries'[r].status = "failed"
    OBVIOUS
  <2>. PICK row : row = inquiries[r]
    OBVIOUS
  <2>1. row \in InquiryRow
    BY TablesShape DEF InquiryInv
  <2>2. [row EXCEPT !.status = "failed"] \in InquiryRow /\ [row EXCEPT !.status = "failed"].status = "failed"
    BY <2>1 DEF InquiryRow
  <2>3. inquiries'[r] = row \/ inquiries'[r] = [row EXCEPT !.status = "failed"]
    BY <1>1
  <2>. QED
    BY <2>1, <2>2, <2>3
<1>3. DOMAIN inquiries' = DOMAIN inquiries
  BY <1>1
<1>4. inquiries' \in Seq(InquiryRow) /\ Len(inquiries') = Len(inquiries)
  <2>. PICK n \in Nat : DOMAIN inquiries = 1 .. n /\ Len(inquiries) = n
    BY DEF InquiryInv, TablesAre
  <2>1. inquiries' = [r \in 1 .. n |-> inquiries'[r]]
    BY <1>1
  <2>2. \A r \in 1 .. n : inquiries'[r] \in InquiryRow
    BY <1>2
  <2>. QED
    BY <2>1, <2>2
<1>5. RowsStay
  BY <1>2, <1>3, <1>4 DEF RowsStay
<1>6. \A add \in adding' : add.run \in Nat /\ add.run <= Current
  BY <1>1
<1>. QED
  BY <1>1, <1>5, <1>6, InquiryEnds

LEMMA RevokesWell ==
    ASSUME InquiryInv, Revoke
    PROVE  InquiryInv'
<1>. PICK run, row : run = revoking.run /\ row = [revoking.row EXCEPT !.status = "cancelled"]
  OBVIOUS
<1>1. /\ inquiries' = [inquiries EXCEPT ![run] = row] /\ revoking' = NotRevoking
      /\ UNCHANGED <<archive, adding, rounds, writeups, inquiry, told>>
  BY DEF Revoke
<1>2. row \in InquiryRow /\ row.status = "cancelled"
  BY DEF Revoke, InquiryInv, TablesAre, InquiryRow
<1>3. RowsStay
  <2>1. CASE run \in DOMAIN inquiries
    <3>. TablesAre /\ row.status # "completed"
      BY <1>2 DEF InquiryInv
    <3>. QED
      BY <1>1, <1>2, <2>1, RowIsSaved
  <2>2. CASE run \notin DOMAIN inquiries
    <3>1. inquiries \in Seq(InquiryRow)
      BY DEF InquiryInv, TablesAre
    <3>2. inquiries' = inquiries
      BY <1>1, <2>2, <3>1
    <3>. QED
      BY <3>2, RowsRemain DEF InquiryInv
  <2>. QED
    BY <2>1, <2>2
<1>4. Len(inquiries') = Len(inquiries)
  BY <1>3 DEF RowsStay
<1>5. InquiryIs' /\ QueriesAreNew' /\ RoundsAreKnown' /\ ItemsAreNew' /\ AddsAreNew'
  BY <1>1, <1>4, MemoryStays
<1>. QED
  BY <1>1, <1>3, <1>5, InquiryGoesOn

(* Only pages are stored, or a row is read.                                *)
LEMMA OthersStay ==
    ASSUME InquiryInv, archive \subseteq archive', TablesAre',
           UNCHANGED <<adding, inquiries, rounds, writeups, inquiry, told>>
    PROVE  InquiryInv'
<1>1. Len(inquiries') = Len(inquiries) /\ RowsStay
  BY RowsRemain DEF InquiryInv
<1>2. InquiryIs' /\ QueriesAreNew' /\ RoundsAreKnown' /\ ItemsAreNew' /\ AddsAreNew'
  BY <1>1, MemoryStays
<1>3. RoundsDiffer' /\ WriteupsTell' /\ ToldAreOver' /\ CompletedCount'
  BY <1>1, PastStays, ToldStay, CompletedStay
<1>. QED
  BY <1>2, <1>3 DEF InquiryInv

LEMMA ReadsToRevoke ==
    ASSUME InquiryInv, ReadToRevoke
    PROVE  InquiryInv'
<1>. PICK run, row : run = Current /\ row = inquiries[Current]
  OBVIOUS
<1>1. /\ inquiry.pc # "idle" /\ revoking' = [run |-> run, row |-> row]
      /\ UNCHANGED <<archive, adding, inquiries, rounds, writeups, inquiry, told>>
  BY DEF ReadToRevoke
<1>2. run \in Nat /\ row \in InquiryRow
  BY <1>1, TablesShape DEF InquiryInv, InquiryIs
<1>3. TablesAre'
  BY <1>1, <1>2 DEF InquiryInv, TablesAre, RoundRow, WriteupRow
<1>. QED
  BY <1>1, <1>3, OthersStay

LEMMA CollectorsStore ==
    ASSUME InquiryInv, NEW page, CollectorStores(page)
    PROVE  InquiryInv'
<1>1. /\ archive \subseteq archive'
      /\ UNCHANGED <<adding, inquiries, rounds, writeups, inquiry, told, revoking>>
  BY DEF CollectorStores
<1>2. TablesAre'
  BY <1>1, TablesStay DEF InquiryInv, TablesAre
<1>. QED
  BY <1>1, <1>2, OthersStay

-----------------------------------------------------------------------------
(* The specification.                                                      *)

LEMMA InquiryStarts ==
    ASSUME InquiryInit
    PROVE  InquiryInv
<1>. USE DEF InquiryInit
<1>1. inquiry.pc = "idle" /\ Current = 0
  BY DEF NoInquiry, Current
<1>2. TablesAre
  BY DEF TablesAre
<1>3. InquiryIs
  <2>1. IsFiniteSet({})
    BY FS_EmptySet
  <2>. QED
    BY <2>1 DEF InquiryIs, InquiryPlaces, NoInquiry
<1>4. QueriesAreNew /\ RoundsAreKnown /\ ItemsAreNew /\ AddsAreNew
  BY <1>1 DEF QueriesAreNew, InRound, RoundsAreKnown, ItemsAreNew, AddsAreNew, NoInquiry
<1>5. RoundsDiffer /\ WriteupsTell /\ CompletedCount /\ ToldAreOver
  BY DEF RoundsDiffer, WriteupsTell, CompletedCount, ToldAreOver
<1>. QED
  BY <1>2, <1>3, <1>4, <1>5 DEF InquiryInv

LEMMA InquiryStep ==
    ASSUME InvestigationAssumption, InquiryInv, [InquiryNext]_inquiryVars
    PROVE  InquiryInv'
<1>1. CASE BeginInquiry
  BY <1>1, BeginsWell
<1>2. ASSUME NEW plan \in Plans, PlanQueries(plan) PROVE InquiryInv'
  BY <1>2, PlansWell
<1>3. CASE ObeyRevocation
  BY <1>3, RevocationObeyed
<1>4. CASE StopLooking
  BY <1>4, StopsWell
<1>5. CASE FirstQueries
  BY <1>5, FirstWell
<1>6. ASSUME NEW suggested \in Suggestions, NextQueries(suggested) PROVE InquiryInv'
  BY <1>6, AsksNext
<1>7. ASSUME NEW answering \in SUBSET Providers, Search(answering) PROVE InquiryInv'
  BY <1>7, SearchesWell
<1>8. ASSUME NEW page \in Pages, Read(page) PROVE InquiryInv'
  BY <1>8, ReadsWell
<1>9. ASSUME NEW page \in Pages, CollectorStores(page) PROVE InquiryInv'
  BY <1>9, CollectorsStore
<1>10. ASSUME NEW add \in adding, StorePage(add) PROVE InquiryInv'
  BY <1>10, StoresWell
<1>11. CASE AllRead
  BY <1>11, ReadingEnds
<1>12. ASSUME NEW answer \in SUBSET Pages, NEW unjudged \in SUBSET (1 .. SubBatches), Match(answer, unjudged)
       PROVE  InquiryInv'
  BY <1>12, MatchesWell
<1>13. CASE SaveBatch
  BY <1>13, SavesBatchWell
<1>14. CASE SaveRun
  BY <1>14, SavesRunWell
<1>15. CASE Write
  BY <1>15, WritesWell
<1>16. CASE CompleteInquiry
  BY <1>16, CompletesWell
<1>17. CASE TellWatch
  BY <1>17, TellsWell
<1>18. CASE FailInquiry
  BY <1>18, FailsWell
<1>19. CASE WatchNotFound
  BY <1>19, NoWatchFound
<1>20. CASE ReadToRevoke
  BY <1>20, ReadsToRevoke
<1>21. CASE Revoke
  BY <1>21, RevokesWell
<1>22. CASE InquiryRestart
  BY <1>22, RestartsWell
<1>23. CASE UNCHANGED inquiryVars
  <2>1. UNCHANGED <<archive, adding, inquiries, rounds, writeups, inquiry, told, revoking>>
    BY <1>23 DEF inquiryVars
  <2>2. archive \subseteq archive' /\ TablesAre'
    BY <2>1 DEF InquiryInv, TablesAre, RoundRow, WriteupRow
  <2>. QED
    BY <2>1, <2>2, OthersStay
<1>. QED
  BY <1>1, <1>2, <1>3, <1>4, <1>5, <1>6, <1>7, <1>8, <1>9, <1>10, <1>11, <1>12, <1>13, <1>14,
     <1>15, <1>16, <1>17, <1>18, <1>19, <1>20, <1>21, <1>22, <1>23 DEF InquiryNext

LEMMA InquiriesAreSound == InquirySpec => []InquiryInv
<1>. USE InvestigationAssumption
<1>1. InquiryInit => InquiryInv
  BY InquiryStarts
<1>2. InquiryInv /\ [InquiryNext]_inquiryVars => InquiryInv'
  BY InquiryStep
<1>. QED
  BY <1>1, <1>2, PTL DEF InquirySpec

(* A report names exactly the dots that the saved batches of its run have, *)
(* a run has one batch per iteration, and the count of a completed run is  *)
(* that of its batches: whatever Oracle plans, suggests and keeps, and     *)
(* wherever failures, cancellations and restarts come in                   *)
(* (dots/engine.py: _save_round, _finish).                                 *)
THEOREM ReportsAreOfRounds == InquirySpec => []ReportsTellRounds
<1>1. InquiryInv => ReportsTellRounds
  BY DEF InquiryInv, WriteupsTell, RoundsDiffer, CompletedCount, ReportsTellRounds
<1>. QED
  BY <1>1, InquiriesAreSound, PTL

(* No page is a dot of two rounds, no watch is told of a dot twice, and no *)
(* round asks a query another round of its run has asked: whatever Oracle  *)
(* repeats, and whoever stores pages meanwhile                             *)
(* (dots/researcher.py: suggest_queries, _fetch_and_store).                *)
THEOREM NothingIsDoneTwice == InquirySpec => []NothingTwice
<1>1. InquiryInv => NothingTwice
  <2>. SUFFICES ASSUME InquiryInv PROVE NothingTwice
    OBVIOUS
  <2>1. \A i \in DOMAIN rounds, j \in DOMAIN rounds : i # j =>
          /\ rounds[i].kept \cap rounds[j].kept = {}
          /\ rounds[i].run = rounds[j].run =>
               KeysOf(rounds[i].queries) \cap KeysOf(rounds[j].queries) = {}
    BY DEF InquiryInv, RoundsDiffer
  <2>2. \A i, j \in DOMAIN told : i # j => told[i] \cap told[j] = {}
    BY DEF InquiryInv, ToldAreOver
  <2>. QED
    BY <2>1, <2>2 DEF NothingTwice, KeysOf
<1>. QED
  BY <1>1, InquiriesAreSound, PTL

-----------------------------------------------------------------------------
(* What Argus knows: types.                                                *)

LoopPlaces ==
    {"setup", "collect", "exists", "add", "extract", "lookup", "save", "relate", "detect",
     "propose", "report", "over"}

(* Before a pass there is nothing of it; after detection its changes are   *)
(* in the table.                                                           *)
Unstarted == {"setup", "collect", "exists", "add", "extract", "over"}
Detected == {"propose", "report"}

LoopRow == [pc : LoopPlaces, batch : Seq(Contents), new : Seq(Nat), at : Nat]

PassRow == [item : Nat, mention : Nat, read : Nat, created : SUBSET [row : Nat, key : Keys],
            saved : SUBSET Nat]

Change == [type : {"content_changed"}, row : Nat] \cup [type : {"new_entity"}, key : Keys]
          \cup [type : {"new_relation"}, pair : SUBSET Keys]

HypothesisRow == [confidence : Nat, rows : SUBSET Nat, fresh : BOOLEAN, reports : Nat]

KnowledgeTypes ==
    /\ evidence \in Seq(Row) /\ clock \in Nat
    /\ loop \in [Collectors -> LoopRow] /\ pass \in [Collectors -> PassRow]
    /\ dots \in [seen : SUBSET Contents, adding : SUBSET Row]
    /\ entities \in [Keys -> Nat]
    /\ changes \in Seq(Change) /\ hypotheses \in Seq(HypothesisRow)

(* What a loop holds is of rows it has stored itself.                      *)
LoopIs(c) ==
    /\ loop[c].pc \in {"exists", "add"} => loop[c].batch # << >>
    /\ IsInjective(loop[c].new)
    /\ \A i \in DOMAIN loop[c].new :
         loop[c].new[i] \in DOMAIN evidence /\ evidence[loop[c].new[i]].source = c
    /\ loop[c].pc \in {"setup", "collect", "over"} => loop[c].new = << >>

(* Where a pass is.                                                        *)
PassIs(c) ==
    /\ loop[c].pc \in Unstarted => pass[c] = NoPass
    /\ loop[c].pc \in {"lookup", "save"} =>
         /\ pass[c].item \in DOMAIN loop[c].new
         /\ pass[c].mention \in DOMAIN MentionsIn(ItemOf(c))
    /\ loop[c].pc # "report" => pass[c].saved = {}
    /\ IsFiniteSet(pass[c].created)

(* A sighting is counted once: rows that are still to be resolved are not. *)
Unresolved(c, k) ==
    {loop[c].new[i] : i \in {n \in DOMAIN loop[c].new :
       \/ n > pass[c].item
       \/ /\ n = pass[c].item
          /\ \E j \in DOMAIN MentionsIn(loop[c].new[n]) :
               j >= pass[c].mention /\ MentionsIn(loop[c].new[n])[j] = k}}

Counted(k) ==
    {row \in DOMAIN evidence : /\ k \in ToSet(MentionsIn(row))
                               /\ \A c \in Collectors : row \notin Unresolved(c, k)}

SightingsAreCounted ==
    /\ \A k \in Keys : entities[k] <= Cardinality(Counted(k))
    /\ \A c \in Collectors : loop[c].pc = "save" => pass[c].read <= Cardinality(Counted(KeyOf(c)))

(* A name is new to one pass only.                                         *)
KeysCreated(c) == {m.key : m \in pass[c].created}

CreatedOnce ==
    /\ \A c \in Collectors : \A k \in KeysCreated(c) : entities[k] > 0
    /\ \A c, d \in Collectors : c # d => KeysCreated(c) \cap KeysCreated(d) = {}
    /\ \A p \in DOMAIN relations : p # {}

(* What the table of changes says of a pass, it says once that has looked  *)
(* for changes.                                                            *)
Subjects(change) ==
    CASE change.type = "new_entity" -> {change.key}
      [] change.type = "new_relation" -> change.pair
      [] OTHER -> {}

ChangesAreOver ==
    /\ IsInjective(changes)
    /\ \A i \in DOMAIN changes :
         /\ changes[i].type = "content_changed" =>
              /\ changes[i].row \in DOMAIN evidence
              /\ \A c \in Collectors : loop[c].pc \notin Detected => changes[i].row \notin ToSet(loop[c].new)
         /\ changes[i].type = "new_relation" => changes[i].pair # {}
         /\ \A k \in Subjects(changes[i]) : entities[k] > 0
         /\ \A c \in Collectors : loop[c].pc \notin Detected => Subjects(changes[i]) \cap KeysCreated(c) = {}

(* Who will still report a hypothesis.                                     *)
OwnReport(h) == \E c \in Collectors : h \in pass[c].saved
TickReport(h) == reporter.pc = "generate" /\ h \in reporter.confirmed

ReportsAreFew ==
    /\ \A c \in Collectors : pass[c].saved \subseteq DOMAIN hypotheses
    /\ \A c, d \in Collectors : c # d => pass[c].saved \cap pass[d].saved = {}
    /\ reporter.confirmed \subseteq DOMAIN hypotheses
    /\ \A h \in DOMAIN hypotheses :
         /\ hypotheses[h].reports <= 2
         /\ OwnReport(h) => hypotheses[h].reports <= 1
         /\ TickReport(h) => hypotheses[h].reports <= 1
         /\ OwnReport(h) /\ TickReport(h) => hypotheses[h].reports = 0
         /\ hypotheses[h].fresh => hypotheses[h].reports = 0

(* Nobody stores a content twice.                                          *)
SourcesDiffer ==
    /\ \A i, j \in DOMAIN evidence :
         i # j /\ evidence[i].content = evidence[j].content => evidence[i].source # evidence[j].source
    /\ \A c \in Collectors : loop[c].pc = "add" =>
         \A i \in DOMAIN evidence : evidence[i].content = Head(loop[c].batch) => evidence[i].source # c
    /\ \A page \in dots.adding :
         /\ page.source = "dots" /\ page.content \in dots.seen
         /\ \A i \in DOMAIN evidence : evidence[i].content = page.content => evidence[i].source # "dots"
    /\ \A p, q \in dots.adding : p # q => p.content # q.content

KnowledgeInv ==
    /\ KnowledgeTypes
    /\ \A c \in Collectors : LoopIs(c) /\ PassIs(c)
    /\ SightingsAreCounted /\ CreatedOnce /\ ChangesAreOver /\ ReportsAreFew /\ SourcesDiffer

LEMMA KnowledgeShape ==
    ASSUME KnowledgeTypes
    PROVE  /\ Len(evidence) \in Nat /\ DOMAIN evidence = 1 .. Len(evidence)
           /\ \A i \in DOMAIN evidence : evidence[i] \in Row
           /\ \A c \in Collectors : loop[c] \in LoopRow /\ pass[c] \in PassRow
           /\ \A c \in Collectors : /\ loop[c].new \in Seq(Nat) /\ loop[c].batch \in Seq(Contents)
                                    /\ DOMAIN loop[c].new = 1 .. Len(loop[c].new)
                                    /\ Len(loop[c].new) \in Nat
           /\ \A k \in Keys : entities[k] \in Nat
BY DEF KnowledgeTypes, LoopRow

LEMMA MentionsAre ==
    ASSUME KnowledgeAssumption, KnowledgeTypes, NEW row \in DOMAIN evidence
    PROVE  /\ MentionsIn(row) \in Seq(Keys) /\ IsInjective(MentionsIn(row))
           /\ Len(MentionsIn(row)) \in Nat
           /\ DOMAIN MentionsIn(row) = 1 .. Len(MentionsIn(row))
           /\ \A j \in DOMAIN MentionsIn(row) : MentionsIn(row)[j] \in Keys
<1>1. evidence[row].content \in Contents
  BY KnowledgeShape DEF Row
<1>. PICK list : list = MentionsIn(row)
  OBVIOUS
<1>2. list \in Seq(Keys) /\ IsInjective(list)
  BY <1>1 DEF KnowledgeAssumption, MentionsIn
<1>3. Len(list) \in Nat /\ DOMAIN list = 1 .. Len(list) /\ \A j \in DOMAIN list : list[j] \in Keys
  BY <1>2
<1>. QED
  BY <1>2, <1>3

(* Rows never change.                                                      *)
RowsGrow ==
    /\ DOMAIN evidence \subseteq DOMAIN evidence'
    /\ \A i \in DOMAIN evidence : evidence'[i] = evidence[i]

LEMMA MentionsStay ==
    ASSUME RowsGrow, NEW row \in DOMAIN evidence
    PROVE  MentionsIn(row)' = MentionsIn(row)
BY DEF RowsGrow, MentionsIn

LEMMA CountedIsFinite ==
    ASSUME KnowledgeTypes, NEW k
    PROVE  IsFiniteSet(Counted(k)) /\ Cardinality(Counted(k)) \in Nat
<1>. PICK C, n : C = Counted(k) /\ n = Len(evidence)
  OBVIOUS
<1>1. n \in Nat /\ C \subseteq 1 .. n
  BY KnowledgeShape DEF Counted
<1>2. IsFiniteSet(1 .. n)
  BY <1>1, FS_Interval
<1>3. IsFiniteSet(C)
  BY <1>1, <1>2, FS_Subset
<1>. QED
  BY <1>3, FS_CardinalityType

LEMMA CountedNext ==
    ASSUME KnowledgeTypes', NEW k
    PROVE  IsFiniteSet(Counted(k)') /\ Cardinality(Counted(k)') \in Nat
<1>. PICK D, n : D = Counted(k)' /\ n = Len(evidence')
  OBVIOUS
<1>1. n \in Nat /\ D \subseteq 1 .. n
  BY DEF Counted, KnowledgeTypes
<1>2. IsFiniteSet(1 .. n)
  BY <1>1, FS_Interval
<1>3. IsFiniteSet(D)
  BY <1>1, <1>2, FS_Subset
<1>. QED
  BY <1>3, FS_CardinalityType

(* What was counted stays counted, as long as nobody has it to resolve     *)
(* again.                                                                  *)
LEMMA CountedGrows ==
    ASSUME KnowledgeTypes, KnowledgeTypes', RowsGrow, NEW k,
           \A c \in Collectors : Unresolved(c, k)' \cap DOMAIN evidence \subseteq Unresolved(c, k)
    PROVE  Counted(k) \subseteq Counted(k)' /\ Cardinality(Counted(k)) <= Cardinality(Counted(k)')
<1>1. Counted(k) \subseteq Counted(k)'
  <2>. SUFFICES ASSUME NEW row \in Counted(k) PROVE row \in Counted(k)'
    OBVIOUS
  <2>1. row \in DOMAIN evidence /\ k \in ToSet(MentionsIn(row))
    BY DEF Counted
  <2>2. row \in DOMAIN evidence' /\ MentionsIn(row)' = MentionsIn(row)
    BY <2>1, MentionsStay DEF RowsGrow
  <2>3. \A c \in Collectors : row \notin Unresolved(c, k)'
    BY <2>1 DEF Counted
  <2>. QED
    BY <2>1, <2>2, <2>3 DEF Counted
<1>2. IsFiniteSet(Counted(k)')
  BY CountedNext
<1>. PICK C, D : C = Counted(k) /\ D = Counted(k)'
  OBVIOUS
<1>3. C \subseteq D /\ IsFiniteSet(D)
  BY <1>1, <1>2
<1>4. Cardinality(C) <= Cardinality(D)
  BY <1>3, FS_Subset
<1>. QED
  BY <1>1, <1>4

(* A loop that is over or begins anew has nothing to resolve; one whose    *)
(* batch and pass stay has the same.                                       *)
LEMMA UnresolvedStay ==
    ASSUME KnowledgeTypes, RowsGrow, NEW c \in Collectors, LoopIs(c), NEW k,
           \/ loop'[c].new = << >>
           \/ loop'[c].new = loop[c].new /\ pass'[c].item = pass[c].item /\ pass'[c].mention = pass[c].mention
    PROVE  Unresolved(c, k)' \subseteq Unresolved(c, k)
<1>1. CASE loop'[c].new = << >>
  BY <1>1 DEF Unresolved
<1>2. CASE loop'[c].new = loop[c].new /\ pass'[c].item = pass[c].item /\ pass'[c].mention = pass[c].mention
  <2>1. \A n \in DOMAIN loop[c].new : MentionsIn(loop[c].new[n])' = MentionsIn(loop[c].new[n])
    <3>. SUFFICES ASSUME NEW n \in DOMAIN loop[c].new
                  PROVE  MentionsIn(loop[c].new[n])' = MentionsIn(loop[c].new[n])
      OBVIOUS
    <3>. PICK row : row = loop[c].new[n]
      OBVIOUS
    <3>1. row \in DOMAIN evidence /\ loop'[c].new[n] = row
      BY <1>2 DEF LoopIs
    <3>. QED
      BY <1>2, <3>1 DEF MentionsIn, RowsGrow
  <2>. QED
    BY <1>2, <2>1 DEF Unresolved
<1>. QED
  BY <1>1, <1>2

(* What a step leaves as it is, invariant by invariant.                    *)
LEMMA SightingsStay ==
    ASSUME KnowledgeAssumption, KnowledgeInv, KnowledgeTypes', RowsGrow,
           \A k \in Keys : entities'[k] = entities[k] \/ entities'[k] <= Cardinality(Counted(k)'),
           \A c \in Collectors : \A k \in Keys :
             Unresolved(c, k)' \cap DOMAIN evidence \subseteq Unresolved(c, k),
           \A c \in Collectors : loop'[c].pc = "save" =>
             \/ loop[c].pc = "save" /\ loop'[c].new = loop[c].new /\ pass'[c] = pass[c]
             \/ pass'[c].read <= Cardinality(Counted(KeyOf(c)))'
    PROVE  SightingsAreCounted'
<1>1. \A k \in Keys : /\ Cardinality(Counted(k)) <= Cardinality(Counted(k)')
                      /\ Cardinality(Counted(k)) \in Nat
  BY CountedGrows, CountedIsFinite DEF KnowledgeInv
<1>2. \A k \in Keys : Cardinality(Counted(k)') \in Nat
  BY CountedNext
<1>3. \A k \in Keys : entities'[k] <= Cardinality(Counted(k)')
  <2>. TAKE k \in Keys
  <2>1. entities[k] \in Nat /\ entities[k] <= Cardinality(Counted(k))
    BY DEF KnowledgeInv, KnowledgeTypes, SightingsAreCounted
  <2>. QED
    BY <1>1, <1>2, <2>1
<1>4. ASSUME NEW c \in Collectors,
             loop[c].pc = "save" /\ loop'[c].new = loop[c].new /\ pass'[c] = pass[c]
      PROVE  pass'[c].read <= Cardinality(Counted(KeyOf(c)))'
  <2>. PICK row, key, read : row = ItemOf(c) /\ key = KeyOf(c) /\ read = pass[c].read
    OBVIOUS
  <2>1. loop[c].pc = "save" /\ loop'[c].new = loop[c].new /\ pass'[c] = pass[c]
    BY <1>4
  <2>2. row \in DOMAIN evidence /\ pass[c].mention \in DOMAIN MentionsIn(row) /\ ItemOf(c)' = row
    BY <2>1 DEF KnowledgeInv, LoopIs, PassIs, ItemOf
  <2>3. key = MentionsIn(row)[pass[c].mention] /\ key \in Keys
    BY <2>2, MentionsAre DEF KnowledgeInv, KeyOf
  <2>4. KeyOf(c)' = key
    BY <2>1, <2>2, <2>3 DEF KeyOf, MentionsIn, RowsGrow
  <2>5. Counted(KeyOf(c))' = Counted(key)'
    BY <2>4 DEF Counted
  <2>6. read \in Nat /\ read <= Cardinality(Counted(key))
    BY <2>1 DEF KnowledgeInv, SightingsAreCounted, KnowledgeTypes, PassRow
  <2>7. read <= Cardinality(Counted(key)')
    BY <1>1, <1>2, <2>3, <2>6
  <2>. QED
    BY <2>1, <2>5, <2>7
<1>. QED
  BY <1>3, <1>4 DEF SightingsAreCounted

LEMMA CreatedStay ==
    ASSUME KnowledgeInv, entities' = entities, relations' = relations,
           \A c \in Collectors : pass'[c].created \subseteq pass[c].created
    PROVE  CreatedOnce'
<1>1. \A c \in Collectors : KeysCreated(c)' \subseteq KeysCreated(c)
  BY DEF KeysCreated
<1>. QED
  BY <1>1 DEF KnowledgeInv, CreatedOnce

LEMMA ChangesStay ==
    ASSUME KnowledgeInv, RowsGrow, changes' = changes,
           \A k \in Keys : entities[k] > 0 => entities'[k] > 0,
           \A c \in Collectors : loop'[c].pc \notin Detected =>
             /\ \A row \in ToSet(loop'[c].new) :
                  row \notin DOMAIN evidence \/ (row \in ToSet(loop[c].new) /\ loop[c].pc \notin Detected)
             /\ \A k \in KeysCreated(c)' :
                  entities[k] = 0 \/ (k \in KeysCreated(c) /\ loop[c].pc \notin Detected)
    PROVE  ChangesAreOver'
<1>1. \A i \in DOMAIN changes : Subjects(changes[i]) \subseteq Keys
  BY DEF KnowledgeInv, KnowledgeTypes, Change, Subjects
<1>2. \A i \in DOMAIN changes :
        /\ \A k \in Subjects(changes[i]) : entities'[k] > 0
        /\ \A c \in Collectors : loop'[c].pc \notin Detected => Subjects(changes[i]) \cap KeysCreated(c)' = {}
  <2>. TAKE i \in DOMAIN changes
  <2>1. \A k \in Subjects(changes[i]) : entities[k] > 0 /\ entities[k] # 0 /\ entities'[k] > 0
    <3>1. \A k \in Subjects(changes[i]) : entities[k] > 0 /\ entities[k] \in Nat
      BY <1>1 DEF KnowledgeInv, KnowledgeTypes, ChangesAreOver
    <3>. QED
      BY <1>1, <3>1
  <2>2. \A c \in Collectors : loop[c].pc \notin Detected => Subjects(changes[i]) \cap KeysCreated(c) = {}
    BY DEF KnowledgeInv, ChangesAreOver
  <2>. QED
    BY <2>1, <2>2
<1>3. \A i \in DOMAIN changes : Subjects(changes[i])' = Subjects(changes[i])
  BY DEF Subjects
<1>4. \A i \in DOMAIN changes : changes[i].type = "content_changed" =>
        /\ changes[i].row \in DOMAIN evidence'
        /\ \A c \in Collectors : loop'[c].pc \notin Detected => changes[i].row \notin ToSet(loop'[c].new)
  BY DEF KnowledgeInv, ChangesAreOver, RowsGrow
<1>5. IsInjective(changes') /\ \A i \in DOMAIN changes : changes[i].type = "new_relation" => changes[i].pair # {}
  BY DEF KnowledgeInv, ChangesAreOver
<1>6. \A c \in Collectors : ToSet(loop[c].new)' = ToSet(loop'[c].new)
  BY DEF ToSet
<1>. QED
  BY <1>2, <1>3, <1>4, <1>5, <1>6 DEF ChangesAreOver

LEMMA ReportsStay ==
    ASSUME KnowledgeInv, hypotheses' = hypotheses,
           \A c \in Collectors : pass'[c].saved \subseteq pass[c].saved,
           reporter' = reporter \/ (reporter'.pc # "generate" /\ reporter'.confirmed \subseteq DOMAIN hypotheses)
    PROVE  ReportsAreFew'
<1>1. \A h : (OwnReport(h)' => OwnReport(h)) /\ (TickReport(h)' => TickReport(h))
  BY DEF OwnReport, TickReport
<1>. QED
  BY <1>1 DEF KnowledgeInv, ReportsAreFew

LEMMA SourcesStay ==
    ASSUME KnowledgeInv, UNCHANGED evidence, UNCHANGED dots \/ dots'.adding = {},
           \A c \in Collectors : loop'[c].pc = "add" => loop[c].pc = "add" /\ loop'[c].batch = loop[c].batch
    PROVE  SourcesDiffer'
BY DEF KnowledgeInv, SourcesDiffer

(* Loops move on, begin anew or end, and nothing else changes.             *)
LEMMA OnlyLoops ==
    ASSUME KnowledgeAssumption, KnowledgeInv, KnowledgeTypes',
           UNCHANGED <<evidence, entities, relations, changes>>,
           \A c \in Collectors :
             \/ /\ loop'[c].new = << >> /\ pass'[c] = NoPass /\ loop'[c].pc # "save"
             \/ /\ loop'[c].new = loop[c].new /\ pass'[c] = pass[c]
                /\ loop'[c].pc = "save" => loop[c].pc = "save"
                /\ loop'[c].pc \notin Detected => loop[c].pc \notin Detected,
           \A c \in Collectors : LoopIs(c)' /\ PassIs(c)',
           SourcesDiffer', ReportsAreFew'
    PROVE  KnowledgeInv'
<1>1. RowsGrow
  BY DEF RowsGrow
<1>2. \A c \in Collectors : \A k \in Keys : Unresolved(c, k)' \cap DOMAIN evidence \subseteq Unresolved(c, k)
  BY <1>1, UnresolvedStay DEF KnowledgeInv
<1>3. SightingsAreCounted'
  BY <1>1, <1>2, SightingsStay
<1>4. \A c \in Collectors : pass'[c].created \subseteq pass[c].created
  BY DEF NoPass
<1>5. CreatedOnce'
  BY <1>4, CreatedStay
<1>6. ChangesAreOver'
  <2>1. ASSUME NEW c \in Collectors, loop'[c].pc \notin Detected
        PROVE  /\ \A row \in ToSet(loop'[c].new) : row \in ToSet(loop[c].new) /\ loop[c].pc \notin Detected
               /\ \A k \in KeysCreated(c)' : k \in KeysCreated(c) /\ loop[c].pc \notin Detected
    <3>1. CASE loop'[c].new = << >> /\ pass'[c] = NoPass
      BY <3>1 DEF ToSet, KeysCreated, NoPass
    <3>2. CASE loop'[c].new = loop[c].new /\ pass'[c] = pass[c] /\ loop[c].pc \notin Detected
      BY <3>2 DEF ToSet, KeysCreated
    <3>. QED
      BY <2>1, <3>1, <3>2
  <2>. QED
    BY <1>1, <2>1, ChangesStay
<1>. QED
  BY <1>3, <1>5, <1>6 DEF KnowledgeInv

LEMMA LoopStays ==
    ASSUME KnowledgeInv, RowsGrow, NEW c \in Collectors, loop'[c] = loop[c], pass'[c] = pass[c]
    PROVE  LoopIs(c)' /\ PassIs(c)'
<1>1. LoopIs(c) /\ PassIs(c)
  BY DEF KnowledgeInv
<1>2. LoopIs(c)'
  BY <1>1 DEF LoopIs, IsInjective, RowsGrow
<1>3. PassIs(c)'
  <2>1. ASSUME loop[c].pc \in {"lookup", "save"}
        PROVE  DOMAIN MentionsIn(ItemOf(c))' = DOMAIN MentionsIn(ItemOf(c))
    <3>. PICK row : row = ItemOf(c)
      OBVIOUS
    <3>1. row \in DOMAIN evidence /\ ItemOf(c)' = row
      BY <1>1, <2>1 DEF LoopIs, PassIs, ItemOf
    <3>. QED
      BY <3>1 DEF MentionsIn, RowsGrow
  <2>. QED
    BY <1>1, <2>1 DEF PassIs
<1>. QED
  BY <1>2, <1>3

(* One loop moves on before its pass, begins anew or ends.                 *)
LEMMA LoopMoves ==
    ASSUME KnowledgeAssumption, KnowledgeInv, NEW c \in Collectors, NEW row \in LoopRow,
           loop' = [loop EXCEPT ![c] = row], pass' = [pass EXCEPT ![c] = NoPass],
           UNCHANGED <<evidence, entities, relations, changes, hypotheses, reporter, dots>>,
           clock' \in Nat,
           row.pc \in Unstarted,
           \/ row.new = << >>
           \/ row.new = loop[c].new /\ loop[c].pc = "exists" /\ row.pc \in {"exists", "add", "extract"},
           row.pc \in {"exists", "add"} => row.batch # << >>,
           row.pc = "add" => ~Stored(Head(row.batch))
    PROVE  KnowledgeInv'
<1>1. /\ \A d \in Collectors : d # c => loop'[d] = loop[d] /\ pass'[d] = pass[d]
      /\ loop'[c] = row /\ pass'[c] = NoPass
      /\ loop' \in [Collectors -> LoopRow] /\ pass' \in [Collectors -> PassRow]
  <2>1. NoPass \in PassRow
    BY DEF NoPass, PassRow
  <2>. QED
    BY <2>1 DEF KnowledgeInv, KnowledgeTypes
<1>2. KnowledgeTypes'
  BY <1>1 DEF KnowledgeInv, KnowledgeTypes
<1>3. row.pc # "save" /\ row.pc # "report" /\ row.pc \notin {"lookup", "save"}
  BY DEF Unstarted
<1>4. row.new = loop[c].new => pass[c] = NoPass \/ row.new = << >>
  BY DEF KnowledgeInv, PassIs, Unstarted
<1>5. LoopIs(c)'
  <2>1. row.pc \in {"setup", "collect", "over"} => row.new = << >>
    OBVIOUS
  <2>2. IsInjective(row.new) /\ \A i \in DOMAIN row.new : row.new[i] \in DOMAIN evidence /\ evidence[row.new[i]].source = c
    BY DEF KnowledgeInv, LoopIs, IsInjective
  <2>. QED
    BY <1>1, <2>1, <2>2 DEF LoopIs, IsInjective
<1>6. PassIs(c)'
  <2>. IsFiniteSet({})
    BY FS_EmptySet
  <2>. QED
    BY <1>1, <1>3 DEF PassIs, NoPass
<1>7. ASSUME NEW d \in Collectors, d # c PROVE LoopIs(d)' /\ PassIs(d)'
  <2>1. loop'[d] = loop[d] /\ pass'[d] = pass[d]
    BY <1>1, <1>7
  <2>2. RowsGrow
    BY DEF RowsGrow
  <2>. QED
    BY <2>1, <2>2, LoopStays
<1>8. SourcesDiffer'
  BY <1>1 DEF KnowledgeInv, SourcesDiffer, Stored
<1>9. \A d \in Collectors :
        \/ /\ loop'[d].new = << >> /\ pass'[d] = NoPass /\ loop'[d].pc # "save"
        \/ /\ loop'[d].new = loop[d].new /\ pass'[d] = pass[d]
           /\ loop'[d].pc = "save" => loop[d].pc = "save"
           /\ loop'[d].pc \notin Detected => loop[d].pc \notin Detected
  BY <1>1, <1>3, <1>4 DEF Detected
<1>10. \A d \in Collectors : LoopIs(d)' /\ PassIs(d)'
  BY <1>5, <1>6, <1>7
<1>11. ReportsAreFew'
  <2>. \A d \in Collectors : pass'[d].saved \subseteq pass[d].saved
    BY <1>1 DEF NoPass
  <2>. QED
    BY ReportsStay
<1>. QED
  BY <1>2, <1>8, <1>9, <1>10, <1>11, OnlyLoops

LEMMA PassUntouched ==
    ASSUME KnowledgeInv, NEW c \in Collectors, loop[c].pc \in Unstarted, pass' = pass
    PROVE  pass' = [pass EXCEPT ![c] = NoPass]
BY DEF KnowledgeInv, KnowledgeTypes, PassIs

LEMMA AtRestIs ==
    /\ AtRest \in LoopRow /\ AtRest.pc = "collect" /\ AtRest.new = << >>
    /\ [AtRest EXCEPT !.pc = "over"] \in LoopRow
    /\ [AtRest EXCEPT !.pc = "over"].pc = "over" /\ [AtRest EXCEPT !.pc = "over"].new = << >>
    /\ [AtRest EXCEPT !.pc = "setup"] \in LoopRow
    /\ [AtRest EXCEPT !.pc = "setup"].pc = "setup" /\ [AtRest EXCEPT !.pc = "setup"].new = << >>
<1>1. << >> \in Seq(Contents) /\ << >> \in Seq(Nat) /\ 0 \in Nat
  OBVIOUS
<1>2. ASSUME NEW pc \in LoopPlaces
      PROVE  /\ [AtRest EXCEPT !.pc = pc] \in LoopRow
             /\ [AtRest EXCEPT !.pc = pc].pc = pc /\ [AtRest EXCEPT !.pc = pc].new = << >>
  <2>1. [AtRest EXCEPT !.pc = pc] = [pc |-> pc, batch |-> << >>, new |-> << >>, at |-> 0]
    BY DEF AtRest
  <2>. QED
    BY <1>1, <2>1 DEF LoopRow
<1>3. AtRest \in LoopRow /\ AtRest.pc = "collect" /\ AtRest.new = << >>
  BY <1>1 DEF AtRest, LoopRow, LoopPlaces
<1>4. "over" \in LoopPlaces /\ "setup" \in LoopPlaces
  BY DEF LoopPlaces
<1>. QED
  BY <1>2, <1>3, <1>4

LEMMA LoopEnds ==
    ASSUME KnowledgeAssumption, KnowledgeInv, NEW c \in Collectors, Ends(c),
           \/ pass' = [pass EXCEPT ![c] = NoPass]
           \/ pass' = pass /\ loop[c].pc \in Unstarted,
           UNCHANGED <<evidence, entities, relations, changes, hypotheses, reporter, dots>>,
           clock' \in Nat
    PROVE  KnowledgeInv'
<1>. PICK row : row = [AtRest EXCEPT !.pc = "over"]
  OBVIOUS
<1>1. row \in LoopRow /\ row.pc = "over" /\ row.new = << >>
  BY AtRestIs
<1>2. loop' = [loop EXCEPT ![c] = row]
  BY DEF Ends
<1>3. pass' = [pass EXCEPT ![c] = NoPass]
  BY PassUntouched
<1>. QED
  BY <1>1, <1>2, <1>3, LoopMoves DEF Unstarted

LEMMA SetsUp ==
    ASSUME KnowledgeAssumption, KnowledgeInv, NEW c \in Collectors, Setup(c), UNCHANGED knowledgeVars
    PROVE  KnowledgeInv'
<1>1. /\ loop[c].pc = "setup" /\ loop[c].pc \in Unstarted /\ pass' = pass
      /\ UNCHANGED <<evidence, entities, relations, changes, hypotheses, reporter, dots>>
      /\ clock' \in Nat
  BY DEF Setup, knowledgeVars, Unstarted, KnowledgeInv, KnowledgeTypes
<1>2. CASE Ends(c)
  BY <1>1, <1>2, LoopEnds
<1>3. CASE Goto(c, "collect")
  <2>. PICK row : row = [loop[c] EXCEPT !.pc = "collect"]
    OBVIOUS
  <2>1. loop[c] \in LoopRow /\ loop[c].new = << >>
    BY <1>1 DEF KnowledgeInv, KnowledgeTypes, LoopIs
  <2>2. row \in LoopRow /\ row.pc = "collect" /\ row.new = << >>
    BY <2>1 DEF LoopRow, LoopPlaces
  <2>3. loop' = [loop EXCEPT ![c] = row]
    BY <1>3 DEF Goto
  <2>. QED
    BY <1>1, <2>2, <2>3, PassUntouched, LoopMoves DEF Unstarted
<1>. QED
  BY <1>2, <1>3 DEF Setup

LEMMA Collects ==
    ASSUME KnowledgeAssumption, CollectorsAssumption, KnowledgeInv, NEW c \in Collectors, Collect(c),
           UNCHANGED knowledgeVars
    PROVE  KnowledgeInv'
<1>1. /\ loop[c].pc = "collect" /\ loop[c].pc \in Unstarted /\ pass' = pass
      /\ UNCHANGED <<evidence, entities, relations, changes, hypotheses, reporter, dots>>
      /\ clock' \in Nat /\ clock \in Nat
  BY DEF Collect, knowledgeVars, Unstarted, KnowledgeInv, KnowledgeTypes
<1>2. PICK batch \in Batches[c] :
        loop' = [loop EXCEPT
          ![c] = [AtRest EXCEPT !.pc = IF batch = << >> THEN "collect" ELSE "exists",
                                !.batch = batch, !.at = clock]]
  BY DEF Collect
<1>3. PICK pc : pc = IF batch = << >> THEN "collect" ELSE "exists"
  OBVIOUS
<1>4. PICK row : /\ loop' = [loop EXCEPT ![c] = row]
                 /\ row = [pc |-> pc, batch |-> batch, new |-> << >>, at |-> clock]
  <2>1. PICK next : next = [AtRest EXCEPT !.pc = IF batch = << >> THEN "collect" ELSE "exists",
                                          !.batch = batch, !.at = clock]
    OBVIOUS
  <2>2. next = [pc |-> pc, batch |-> batch, new |-> << >>, at |-> clock]
    BY <1>3, <2>1 DEF AtRest
  <2>3. loop' = [loop EXCEPT ![c] = next]
    BY <1>2, <2>1
  <2>. QED
    BY <2>2, <2>3
<1>5. loop' = [loop EXCEPT ![c] = row]
  BY <1>4
<1>6. pc \in {"collect", "exists"} /\ (pc = "exists" => batch # << >>)
  BY <1>3
<1>7. row \in LoopRow
  <2>1. batch \in Seq(Contents) /\ << >> \in Seq(Nat) /\ clock \in Nat
    BY <1>1 DEF CollectorsAssumption
  <2>2. pc \in LoopPlaces
    BY <1>6 DEF LoopPlaces
  <2>. QED
    BY <1>4, <2>1, <2>2 DEF LoopRow
<1>8. row.pc = pc /\ row.new = << >> /\ row.batch = batch
  BY <1>4
<1>9. pass' = [pass EXCEPT ![c] = NoPass]
  BY <1>1, PassUntouched
<1>10. row.pc \in Unstarted /\ row.pc # "add"
  BY <1>6, <1>8 DEF Unstarted
<1>11. row.pc \in {"exists", "add"} => row.batch # << >>
  BY <1>6, <1>8
<1>. QED
  BY <1>1, <1>5, <1>7, <1>8, <1>9, <1>10, <1>11, LoopMoves

LEMMA CollectingFails ==
    ASSUME KnowledgeAssumption, KnowledgeInv, NEW c \in Collectors, CollectFails(c),
           UNCHANGED knowledgeVars
    PROVE  KnowledgeInv'
<1>1. /\ loop[c].pc = "collect" /\ loop[c].pc \in Unstarted /\ pass' = pass
      /\ UNCHANGED <<evidence, entities, relations, changes, hypotheses, reporter, dots>>
      /\ clock' \in Nat
  BY DEF CollectFails, knowledgeVars, Unstarted, KnowledgeInv, KnowledgeTypes
<1>2. CASE Ends(c)
  BY <1>1, <1>2, LoopEnds
<1>3. CASE UNCHANGED loop
  <2>. PICK row : row = loop[c]
    OBVIOUS
  <2>1. row \in LoopRow /\ row.pc = "collect" /\ row.new = << >>
    BY <1>1 DEF KnowledgeInv, KnowledgeTypes, LoopIs
  <2>2. loop' = [loop EXCEPT ![c] = row]
    BY <1>3 DEF KnowledgeInv, KnowledgeTypes
  <2>. QED
    BY <1>1, <2>1, <2>2, PassUntouched, LoopMoves DEF Unstarted
<1>. QED
  BY <1>2, <1>3 DEF CollectFails

(* What follows an item.                                                   *)
LEMMA AfterItem ==
    ASSUME NEW work \in LoopRow
    PROVE  /\ After(work) \in LoopRow
           /\ \/ After(work) = AtRest
              \/ /\ After(work).new = work.new /\ After(work).batch = work.batch
                 /\ After(work).pc \in {"exists", "extract"}
                 /\ After(work).pc = "exists" => work.batch # << >>
<1>1. CASE work.batch # << >>
  <2>1. After(work) = [work EXCEPT !.pc = "exists"]
    BY <1>1 DEF After
  <2>. QED
    BY <1>1, <2>1 DEF LoopRow, LoopPlaces
<1>2. CASE work.batch = << >> /\ work.new # << >>
  <2>1. After(work) = [work EXCEPT !.pc = "extract"]
    BY <1>2 DEF After
  <2>. QED
    BY <2>1 DEF LoopRow, LoopPlaces
<1>3. CASE work.batch = << >> /\ work.new = << >>
  <2>1. After(work) = AtRest
    BY <1>3 DEF After
  <2>. QED
    BY <2>1, AtRestIs
<1>. QED
  BY <1>1, <1>2, <1>3

LEMMA AsksWhetherStored ==
    ASSUME KnowledgeAssumption, KnowledgeInv, NEW c \in Collectors, Exists(c), UNCHANGED knowledgeVars
    PROVE  KnowledgeInv'
<1>1. /\ loop[c].pc = "exists" /\ loop[c].pc \in Unstarted /\ pass' = pass
      /\ UNCHANGED <<evidence, entities, relations, changes, hypotheses, reporter, dots>>
      /\ clock' \in Nat /\ loop[c] \in LoopRow /\ loop[c].batch # << >>
  BY DEF Exists, knowledgeVars, Unstarted, KnowledgeInv, KnowledgeTypes, LoopIs
<1>. PICK work, content : work = loop[c] /\ content = Head(loop[c].batch)
  OBVIOUS
<1>2. pass' = [pass EXCEPT ![c] = NoPass]
  BY <1>1, PassUntouched
<1>3. CASE Stored(content)
  <2>. PICK known, row : known = [work EXCEPT !.batch = Tail(@)] /\ row = After(known)
    OBVIOUS
  <2>1. loop' = [loop EXCEPT ![c] = row]
    BY <1>3 DEF Exists, Known
  <2>2. known \in LoopRow /\ known.new = work.new
    <3>1. work.batch \in Seq(Contents) /\ work.batch # << >>
      BY <1>1 DEF LoopRow
    <3>2. Tail(work.batch) \in Seq(Contents)
      BY <3>1
    <3>. QED
      BY <1>1, <3>2 DEF LoopRow
  <2>3. /\ row \in LoopRow
        /\ \/ row = AtRest
           \/ /\ row.new = work.new /\ row.pc \in {"exists", "extract"}
              /\ row.pc = "exists" => row.batch # << >>
    BY <2>2, AfterItem
  <2>4. row.pc \in Unstarted /\ row.pc # "add"
    BY <2>3, AtRestIs DEF Unstarted
  <2>5. \/ row.new = << >>
        \/ row.new = loop[c].new /\ loop[c].pc = "exists" /\ row.pc \in {"exists", "add", "extract"}
    BY <1>1, <2>3, AtRestIs
  <2>6. row.pc \in {"exists", "add"} => row.batch # << >>
    BY <2>3, <2>4, AtRestIs
  <2>. QED
    BY <1>1, <1>2, <2>1, <2>3, <2>4, <2>5, <2>6, LoopMoves
<1>4. CASE ~Stored(content)
  <2>. PICK row : row = [work EXCEPT !.pc = "add"]
    OBVIOUS
  <2>1. loop' = [loop EXCEPT ![c] = row]
    BY <1>4 DEF Exists
  <2>2. row \in LoopRow /\ row.pc = "add" /\ row.new = loop[c].new /\ row.batch = loop[c].batch
    BY <1>1 DEF LoopRow, LoopPlaces
  <2>3. ~Stored(Head(row.batch))
    BY <1>4, <2>2
  <2>. QED
    BY <1>1, <1>2, <2>1, <2>2, <2>3, LoopMoves DEF Unstarted
<1>. QED
  BY <1>3, <1>4

LEMMA IngestEnds ==
    ASSUME KnowledgeAssumption, KnowledgeInv, NEW c \in Collectors, IngestFails(c)
    PROVE  KnowledgeInv'
<1>1. /\ Ends(c) /\ pass' = [pass EXCEPT ![c] = NoPass]
      /\ UNCHANGED <<evidence, entities, relations, changes, hypotheses, reporter, dots>>
      /\ clock' \in Nat
  BY DEF IngestFails, KnowledgeInv, KnowledgeTypes
<1>. QED
  BY <1>1, LoopEnds

-----------------------------------------------------------------------------
(* The dots worker, and the reports.                                       *)

(* Loops and passes stay where they are.                                   *)
LEMMA LoopsRest ==
    ASSUME KnowledgeAssumption, KnowledgeInv, KnowledgeTypes',
           UNCHANGED <<evidence, entities, relations, changes, loop, pass>>,
           SourcesDiffer', ReportsAreFew'
    PROVE  KnowledgeInv'
<1>1. RowsGrow
  BY DEF RowsGrow
<1>2. \A c \in Collectors : LoopIs(c)' /\ PassIs(c)'
  BY <1>1, LoopStays
<1>. QED
  BY <1>2, OnlyLoops

LEMMA KnowledgeRests ==
    ASSUME KnowledgeAssumption, KnowledgeInv, UNCHANGED vars
    PROVE  KnowledgeInv'
<1>1. UNCHANGED <<evidence, entities, relations, changes, loop, pass, dots, clock, hypotheses, reporter>>
  BY DEF vars, evidenceVars, knowledgeVars
<1>2. KnowledgeTypes'
  BY <1>1 DEF KnowledgeInv, KnowledgeTypes
<1>. QED
  BY <1>1, <1>2, SourcesStay, ReportsStay, LoopsRest

LEMMA Visits ==
    ASSUME KnowledgeAssumption, CollectorsAssumption, KnowledgeInv, NEW content, Visit(content),
           UNCHANGED knowledgeVars
    PROVE  KnowledgeInv'
<1>1. /\ content \in Contents /\ content \notin dots.seen
      /\ UNCHANGED <<evidence, entities, relations, changes, loop, pass, hypotheses, reporter>>
      /\ clock \in Nat /\ clock' = clock + 1
  BY DEF Visit, CollectorsAssumption, knowledgeVars, KnowledgeInv, KnowledgeTypes
<1>. PICK page : page = [content |-> content, source |-> "dots", at |-> clock]
  OBVIOUS
<1>2. /\ dots' = [seen |-> dots.seen \cup {content}, adding |-> dots'.adding]
      /\ dots'.seen = dots.seen \cup {content}
      /\ \/ dots'.adding = dots.adding
         \/ dots'.adding = dots.adding \cup {page} /\ ~Stored(content)
  BY DEF Visit, Noted
<1>3. page \in Row /\ page.content = content /\ page.source = "dots"
  BY <1>1 DEF Row
<1>4. KnowledgeTypes'
  BY <1>1, <1>2, <1>3 DEF KnowledgeInv, KnowledgeTypes
<1>5. SourcesDiffer'
  <2>1. \A p \in dots.adding : p.content # content
    BY <1>1 DEF KnowledgeInv, SourcesDiffer
  <2>2. ~Stored(content) => \A i \in DOMAIN evidence : evidence[i].content # content
    BY DEF Stored
  <2>. QED
    BY <1>1, <1>2, <1>3, <2>1, <2>2 DEF KnowledgeInv, SourcesDiffer
<1>. QED
  BY <1>1, <1>4, <1>5, ReportsStay, LoopsRest

LEMMA DotsRunEnds ==
    ASSUME KnowledgeAssumption, KnowledgeInv, RunEnds, UNCHANGED knowledgeVars
    PROVE  KnowledgeInv'
<1>1. /\ UNCHANGED <<evidence, entities, relations, changes, loop, pass, clock, hypotheses, reporter>>
      /\ dots' = NoPages /\ dots'.adding = {}
  BY DEF RunEnds, knowledgeVars, NoPages
<1>2. KnowledgeTypes'
  BY <1>1 DEF KnowledgeInv, KnowledgeTypes, NoPages
<1>. QED
  BY <1>1, <1>2, SourcesStay, ReportsStay, LoopsRest

LEMMA ReadsConfirmed ==
    ASSUME KnowledgeAssumption, KnowledgeInv, ReadConfirmed
    PROVE  KnowledgeInv'
<1>1. /\ UNCHANGED <<evidence, entities, relations, changes, loop, pass, dots, clock, hypotheses>>
      /\ reporter'.pc # "generate" /\ reporter'.confirmed \subseteq DOMAIN hypotheses
  BY DEF ReadConfirmed, evidenceVars
<1>2. KnowledgeTypes'
  BY <1>1 DEF KnowledgeInv, KnowledgeTypes
<1>. QED
  BY <1>1, <1>2, SourcesStay, ReportsStay, LoopsRest

LEMMA ComparesTimes ==
    ASSUME KnowledgeAssumption, KnowledgeInv, CompareWithLatest
    PROVE  KnowledgeInv'
<1>1. /\ UNCHANGED <<evidence, entities, relations, changes, loop, pass, dots, clock, hypotheses>>
      /\ \/ reporter' = NoTick
         \/ reporter' = [pc |-> "generate", confirmed |-> Uncovered(reporter.confirmed)]
  BY DEF CompareWithLatest, evidenceVars
<1>2. KnowledgeTypes'
  BY <1>1 DEF KnowledgeInv, KnowledgeTypes
<1>3. ReportsAreFew'
  <2>1. /\ reporter'.confirmed \subseteq DOMAIN hypotheses
        /\ \A h \in reporter'.confirmed : hypotheses[h].fresh
    BY <1>1 DEF KnowledgeInv, ReportsAreFew, Uncovered, NoTick
  <2>2. \A h : OwnReport(h)' => OwnReport(h)
    BY <1>1 DEF OwnReport
  <2>3. \A h : TickReport(h)' => h \in DOMAIN hypotheses /\ hypotheses[h].fresh
    BY <2>1 DEF TickReport
  <2>4. \A h \in DOMAIN hypotheses : TickReport(h)' => hypotheses[h].reports = 0
    BY <2>3 DEF KnowledgeInv, ReportsAreFew
  <2>. QED
    BY <1>1, <2>1, <2>2, <2>4 DEF KnowledgeInv, ReportsAreFew
<1>. QED
  BY <1>1, <1>2, <1>3, SourcesStay, LoopsRest

LEMMA TickIsOver ==
    ASSUME KnowledgeAssumption, KnowledgeInv, TickFails
    PROVE  KnowledgeInv'
<1>1. /\ UNCHANGED <<evidence, entities, relations, changes, loop, pass, dots, clock, hypotheses>>
      /\ reporter'.pc # "generate" /\ reporter'.confirmed \subseteq DOMAIN hypotheses
  BY DEF TickFails, NoTick
<1>2. KnowledgeTypes'
  BY <1>1 DEF KnowledgeInv, KnowledgeTypes
<1>. QED
  BY <1>1, <1>2, SourcesStay, ReportsStay, LoopsRest

(* What a report makes of the hypotheses.                                  *)
HypothesesReported(ids) ==
    /\ hypotheses' \in Seq(HypothesisRow) /\ DOMAIN hypotheses' = DOMAIN hypotheses
    /\ \A h \in DOMAIN hypotheses :
         \/ hypotheses'[h] = hypotheses[h]
         \/ /\ hypotheses'[h].fresh = FALSE
            /\ hypotheses'[h].reports = hypotheses[h].reports
         \/ /\ h \in ids /\ hypotheses'[h].fresh = FALSE
            /\ hypotheses'[h].reports = hypotheses[h].reports + 1

LEMMA HypothesisReported ==
    ASSUME NEW old \in HypothesisRow, NEW new, NEW n \in Nat,
           new = [old EXCEPT !.fresh = FALSE, !.reports = n]
    PROVE  new \in HypothesisRow /\ new.fresh = FALSE /\ new.reports = n
<1>1. /\ old = [confidence |-> old.confidence, rows |-> old.rows, fresh |-> old.fresh, reports |-> old.reports]
      /\ old.confidence \in Nat /\ old.rows \in SUBSET Nat
  BY DEF HypothesisRow
<1>2. new = [confidence |-> old.confidence, rows |-> old.rows, fresh |-> FALSE, reports |-> n]
  BY <1>1
<1>3. FALSE \in BOOLEAN
  OBVIOUS
<1>. QED
  BY <1>1, <1>2, <1>3 DEF HypothesisRow

LEMMA ReportedIs ==
    ASSUME KnowledgeTypes, NEW ids, Reported(ids)
    PROVE  HypothesesReported(ids)
<1>. PICK n \in Nat : n = Len(hypotheses) /\ DOMAIN hypotheses = 1 .. n
  BY DEF KnowledgeTypes
<1>1. /\ hypotheses' = [h \in 1 .. n |-> hypotheses'[h]]
      /\ \A h \in 1 .. n : hypotheses'[h] = [hypotheses[h] EXCEPT !.fresh = FALSE,
                              !.reports = IF h \in ids THEN @ + 1 ELSE @]
  BY DEF Reported
<1>2. ASSUME NEW h \in 1 .. n
      PROVE  /\ hypotheses'[h] \in HypothesisRow
             /\ hypotheses'[h].fresh = FALSE
             /\ \/ hypotheses'[h].reports = hypotheses[h].reports
                \/ h \in ids /\ hypotheses'[h].reports = hypotheses[h].reports + 1
  <2>1. PICK old : old = hypotheses[h] /\ old \in HypothesisRow
    BY DEF KnowledgeTypes
  <2>2. old.reports \in Nat /\ old.reports + 1 \in Nat
    BY <2>1 DEF HypothesisRow
  <2>3. PICK new : new = hypotheses'[h]
    OBVIOUS
  <2>4. new = [old EXCEPT !.fresh = FALSE, !.reports = IF h \in ids THEN old.reports + 1 ELSE old.reports]
    BY <1>1, <2>1, <2>3
  <2>5. CASE h \in ids
    <3>. PICK m : m = old.reports + 1
      OBVIOUS
    <3>0. old \in HypothesisRow /\ m \in Nat
      BY <2>1, <2>2
    <3>1. new = [old EXCEPT !.fresh = FALSE, !.reports = m]
      BY <2>4, <2>5
    <3>2. new \in HypothesisRow /\ new.fresh = FALSE /\ new.reports = m
      BY <3>0, <3>1, HypothesisReported, Zenon
    <3>. QED
      BY <2>1, <2>3, <2>5, <3>2
  <2>6. CASE h \notin ids
    <3>. PICK m : m = old.reports
      OBVIOUS
    <3>0. old \in HypothesisRow /\ m \in Nat
      BY <2>1, <2>2
    <3>1. new = [old EXCEPT !.fresh = FALSE, !.reports = m]
      BY <2>4, <2>6
    <3>2. new \in HypothesisRow /\ new.fresh = FALSE /\ new.reports = m
      BY <3>0, <3>1, HypothesisReported, Zenon
    <3>. QED
      BY <2>1, <2>3, <3>2
  <2>. QED
    BY <2>5, <2>6
<1>3. hypotheses' \in [1 .. n -> HypothesisRow]
  <2>1. PICK f : f = hypotheses'
    OBVIOUS
  <2>2. f = [h \in 1 .. n |-> f[h]] /\ \A h \in 1 .. n : f[h] \in HypothesisRow
    BY <1>1, <1>2, <2>1
  <2>3. f \in [1 .. n -> HypothesisRow]
    BY <2>2, Zenon
  <2>. QED
    BY <2>1, <2>3
<1>4. hypotheses' \in Seq(HypothesisRow) /\ DOMAIN hypotheses' = 1 .. n
  BY <1>3
<1>. QED
  BY <1>2, <1>4 DEF HypothesesReported

LEMMA GenerateIs ==
    ASSUME KnowledgeTypes, NEW ids, Generate(ids)
    PROVE  HypothesesReported(ids)
<1>. PICK covered : covered = Reportable(ids)
  OBVIOUS
<1>1. covered \subseteq ids
  BY DEF Reportable
<1>2. CASE UNCHANGED hypotheses
  BY <1>2 DEF HypothesesReported, KnowledgeTypes
<1>3. CASE Reported(covered)
  <2>1. HypothesesReported(covered)
    BY <1>3, ReportedIs
  <2>. QED
    BY <1>1, <2>1 DEF HypothesesReported
<1>. QED
  BY <1>2, <1>3 DEF Generate

(* Reports stay few when those that are reported now owed a report, which  *)
(* they do no longer.                                                      *)
LEMMA ReportMade ==
    ASSUME KnowledgeInv, NEW ids, HypothesesReported(ids),
           \A c \in Collectors : pass'[c].saved \subseteq pass[c].saved,
           reporter' = reporter \/ reporter' = NoTick,
           \/ ids = {}
           \/ \A h \in ids : OwnReport(h) /\ ~OwnReport(h)'
           \/ \A h \in ids : TickReport(h) /\ ~TickReport(h)'
    PROVE  ReportsAreFew'
<1>1. \A h : (OwnReport(h)' => OwnReport(h)) /\ (TickReport(h)' => TickReport(h))
  BY DEF OwnReport, TickReport, NoTick
<1>2. /\ \A c \in Collectors : pass'[c].saved \subseteq DOMAIN hypotheses'
      /\ \A c, d \in Collectors : c # d => pass'[c].saved \cap pass'[d].saved = {}
      /\ reporter'.confirmed \subseteq DOMAIN hypotheses'
  BY DEF KnowledgeInv, ReportsAreFew, HypothesesReported, NoTick
<1>3. ASSUME NEW h \in DOMAIN hypotheses
      PROVE  /\ hypotheses'[h].reports <= 2
             /\ OwnReport(h)' => hypotheses'[h].reports <= 1
             /\ TickReport(h)' => hypotheses'[h].reports <= 1
             /\ OwnReport(h)' /\ TickReport(h)' => hypotheses'[h].reports = 0
             /\ hypotheses'[h].fresh => hypotheses'[h].reports = 0
  <2>. PICK n, m : n = hypotheses[h].reports /\ m = hypotheses'[h].reports
    OBVIOUS
  <2>0. hypotheses[h] \in HypothesisRow
    BY DEF KnowledgeInv, KnowledgeTypes
  <2>1. n \in Nat
    BY <2>0 DEF HypothesisRow
  <2>2. /\ n <= 2 /\ (OwnReport(h) => n <= 1) /\ (TickReport(h) => n <= 1)
        /\ OwnReport(h) /\ TickReport(h) => n = 0
        /\ hypotheses[h].fresh => n = 0
    BY DEF KnowledgeInv, ReportsAreFew
  <2>3. CASE h \in ids /\ m = n + 1 /\ hypotheses'[h].fresh = FALSE
    <3>1. \/ OwnReport(h) /\ ~OwnReport(h)'
          \/ TickReport(h) /\ ~TickReport(h)'
      BY <2>3
    <3>. QED
      BY <1>1, <2>1, <2>2, <2>3, <3>1
  <2>4. CASE m = n /\ (hypotheses'[h].fresh => hypotheses[h].fresh)
    BY <1>1, <2>2, <2>4
  <2>. QED
    BY <2>3, <2>4 DEF HypothesesReported
<1>4. DOMAIN hypotheses' = DOMAIN hypotheses
  BY DEF HypothesesReported
<1>. QED
  BY <1>2, <1>3, <1>4 DEF ReportsAreFew

LEMMA TickReports ==
    ASSUME KnowledgeAssumption, KnowledgeInv, ReportTick
    PROVE  KnowledgeInv'
<1>. PICK ids : ids = reporter.confirmed
  OBVIOUS
<1>1. /\ UNCHANGED <<evidence, entities, relations, changes, loop, pass, dots, clock>>
      /\ reporter.pc = "generate" /\ reporter' = NoTick
      /\ HypothesesReported(ids)
  BY GenerateIs DEF ReportTick, evidenceVars, KnowledgeInv
<1>2. KnowledgeTypes'
  BY <1>1 DEF KnowledgeInv, KnowledgeTypes, HypothesesReported
<1>3. \A h \in ids : TickReport(h) /\ ~TickReport(h)'
  BY <1>1 DEF TickReport, NoTick
<1>4. ReportsAreFew'
  BY <1>1, <1>3, ReportMade
<1>. QED
  BY <1>1, <1>2, <1>4, SourcesStay, LoopsRest

LEMMA DotsAreReported ==
    ASSUME KnowledgeAssumption, KnowledgeInv, DotsReport
    PROVE  KnowledgeInv'
<1>. PICK ids : ids = {}
  OBVIOUS
<1>1. /\ UNCHANGED <<evidence, entities, relations, changes, loop, pass, dots, clock, reporter>>
      /\ HypothesesReported(ids)
  BY ReportedIs DEF DotsReport, evidenceVars, KnowledgeInv
<1>2. KnowledgeTypes'
  BY <1>1 DEF KnowledgeInv, KnowledgeTypes, HypothesesReported
<1>3. ReportsAreFew'
  BY <1>1, ReportMade
<1>. QED
  BY <1>1, <1>2, <1>3, SourcesStay, LoopsRest

LEMMA PassReported ==
    ASSUME KnowledgeAssumption, KnowledgeInv, NEW c \in Collectors, ReportPass(c)
    PROVE  KnowledgeInv'
<1>. PICK ids : ids = pass[c].saved
  OBVIOUS
<1>1. /\ UNCHANGED <<evidence, entities, relations, changes, dots, clock, reporter>>
      /\ loop[c].pc = "report" /\ HypothesesReported(ids)
  BY GenerateIs DEF ReportPass, Storing, KnowledgeInv
<1>2. /\ \A d \in Collectors : d # c => loop'[d] = loop[d] /\ pass'[d] = pass[d]
      /\ loop'[c] = AtRest /\ pass'[c] = NoPass
      /\ loop' \in [Collectors -> LoopRow] /\ pass' \in [Collectors -> PassRow]
  <2>1. NoPass \in PassRow
    BY DEF NoPass, PassRow
  <2>. QED
    BY <2>1, AtRestIs DEF KnowledgeInv, KnowledgeTypes, ReportPass
<1>3. KnowledgeTypes'
  BY <1>1, <1>2 DEF KnowledgeInv, KnowledgeTypes, HypothesesReported
<1>4. \A h \in ids : OwnReport(h) /\ ~OwnReport(h)'
  <2>1. \A d \in Collectors : d # c => pass[d].saved \cap ids = {}
    BY DEF KnowledgeInv, ReportsAreFew
  <2>. QED
    BY <1>2, <2>1 DEF OwnReport, NoPass
<1>5. ReportsAreFew'
  <2>1. \A d \in Collectors : pass'[d].saved \subseteq pass[d].saved
    BY <1>2 DEF NoPass
  <2>2. reporter' = reporter
    BY <1>1
  <2>. QED
    BY <1>1, <1>4, <2>1, <2>2, ReportMade
<1>6. LoopIs(c)' /\ PassIs(c)'
  <2>1. AtRest.pc = "collect" /\ AtRest.new = << >> /\ IsFiniteSet({})
    BY AtRestIs, FS_EmptySet
  <2>. QED
    BY <1>2, <2>1 DEF LoopIs, PassIs, NoPass, IsInjective
<1>7. ASSUME NEW d \in Collectors, d # c PROVE LoopIs(d)' /\ PassIs(d)'
  <2>1. loop'[d] = loop[d] /\ pass'[d] = pass[d] /\ RowsGrow
    BY <1>1, <1>2, <1>7 DEF RowsGrow
  <2>. QED
    BY <2>1, LoopStays
<1>8. SourcesDiffer'
  BY <1>1, <1>2, AtRestIs, SourcesStay
<1>9. \A d \in Collectors :
        \/ /\ loop'[d].new = << >> /\ pass'[d] = NoPass /\ loop'[d].pc # "save"
        \/ /\ loop'[d].new = loop[d].new /\ pass'[d] = pass[d]
           /\ loop'[d].pc = "save" => loop[d].pc = "save"
           /\ loop'[d].pc \notin Detected => loop[d].pc \notin Detected
  BY <1>2, AtRestIs
<1>10. \A d \in Collectors : LoopIs(d)' /\ PassIs(d)'
  BY <1>6, <1>7
<1>. QED
  BY <1>1, <1>3, <1>5, <1>8, <1>9, <1>10, OnlyLoops

LEMMA AllBeginAgain ==
    ASSUME KnowledgeAssumption, KnowledgeInv, Restart
    PROVE  KnowledgeInv'
<1>1. /\ UNCHANGED <<evidence, entities, relations, changes, hypotheses, clock>>
      /\ dots' = NoPages /\ dots'.adding = {} /\ reporter' = NoTick
  BY DEF Restart, NoPages
<1>2. /\ loop' \in [Collectors -> LoopRow] /\ pass' \in [Collectors -> PassRow]
      /\ \A d \in Collectors : /\ pass'[d] = NoPass
                               /\ loop'[d].pc = "setup" /\ loop'[d].new = << >>
  <2>1. NoPass \in PassRow
    BY DEF NoPass, PassRow
  <2>2. PICK row : row = [AtRest EXCEPT !.pc = "setup"]
    OBVIOUS
  <2>3. row \in LoopRow /\ row.pc = "setup" /\ row.new = << >>
    BY <2>2, AtRestIs
  <2>4. loop' = [c \in Collectors |-> row]
    BY <2>2 DEF Restart
  <2>. QED
    BY <2>1, <2>3, <2>4 DEF Restart
<1>3. KnowledgeTypes'
  BY <1>1, <1>2 DEF KnowledgeInv, KnowledgeTypes, NoPages
<1>4. ReportsAreFew'
  <2>1. \A d \in Collectors : pass'[d].saved \subseteq pass[d].saved
    BY <1>2 DEF NoPass
  <2>2. reporter'.pc # "generate" /\ reporter'.confirmed \subseteq DOMAIN hypotheses
    BY <1>1 DEF NoTick
  <2>. QED
    BY <1>1, <2>1, <2>2, ReportsStay
<1>5. SourcesDiffer'
  BY <1>1, <1>2, SourcesStay
<1>6. ASSUME NEW d \in Collectors PROVE LoopIs(d)' /\ PassIs(d)'
  <2>1. IsFiniteSet({})
    BY FS_EmptySet
  <2>2. LoopIs(d)'
    BY <1>2 DEF LoopIs, IsInjective
  <2>3. PassIs(d)'
    <3>1. pass'[d] = NoPass /\ loop'[d].pc = "setup"
      BY <1>2
    <3>2. NoPass.saved = {} /\ NoPass.created = {}
      BY DEF NoPass
    <3>. QED
      BY <2>1, <3>1, <3>2 DEF PassIs
  <2>. QED
    BY <2>2, <2>3
<1>. QED
  BY <1>1, <1>2, <1>3, <1>4, <1>5, <1>6, OnlyLoops

-----------------------------------------------------------------------------
(* Evidence is stored.                                                     *)

LEMMA RowsGrowBy ==
    ASSUME KnowledgeTypes, NEW page \in Row, evidence' = Append(evidence, page)
    PROVE  /\ RowsGrow /\ evidence' \in Seq(Row)
           /\ Len(evidence) \in Nat /\ Len(evidence') = Len(evidence) + 1
           /\ DOMAIN evidence = 1 .. Len(evidence)
           /\ DOMAIN evidence' = 1 .. Len(evidence) + 1
           /\ evidence'[Len(evidence')] = page
           /\ Len(evidence') \in DOMAIN evidence' /\ Len(evidence') \notin DOMAIN evidence
           /\ \A i \in DOMAIN evidence' : i \in DOMAIN evidence \/ i = Len(evidence')
BY DEF KnowledgeTypes, RowsGrow

LEMMA Keeps ==
    ASSUME KnowledgeAssumption, CollectorsAssumption, KnowledgeInv, NEW page \in dots.adding, Keep(page),
           UNCHANGED knowledgeVars
    PROVE  KnowledgeInv'
<1>1. /\ UNCHANGED <<entities, relations, changes, loop, pass, hypotheses, reporter, clock>>
      /\ evidence' = Append(evidence, page)
      /\ dots' = [seen |-> dots.seen, adding |-> dots.adding \ {page}]
      /\ dots'.adding = dots.adding \ {page} /\ dots'.seen = dots.seen
      /\ page \in Row
  <2>1. dots' = [dots EXCEPT !.adding = @ \ {page}]
    BY DEF Keep
  <2>2. dots' = [seen |-> dots.seen, adding |-> dots.adding \ {page}]
    BY <2>1 DEF KnowledgeInv, KnowledgeTypes
  <2>. QED
    BY <2>2 DEF Keep, knowledgeVars, KnowledgeInv, KnowledgeTypes
<1>2. RowsGrow /\ evidence' \in Seq(Row)
  BY <1>1, RowsGrowBy DEF KnowledgeInv
<1>3. KnowledgeTypes'
  BY <1>1, <1>2 DEF KnowledgeInv, KnowledgeTypes
<1>4. \A c \in Collectors : LoopIs(c)' /\ PassIs(c)'
  BY <1>1, <1>2, LoopStays
<1>5. SightingsAreCounted'
  <2>1. \A c \in Collectors : \A k \in Keys : Unresolved(c, k)' \cap DOMAIN evidence \subseteq Unresolved(c, k)
    BY <1>1, <1>2, UnresolvedStay DEF KnowledgeInv
  <2>. QED
    BY <1>1, <1>2, <1>3, <2>1, SightingsStay
<1>6. CreatedOnce'
  BY <1>1, CreatedStay
<1>7. ChangesAreOver'
  <2>1. \A c \in Collectors : KeysCreated(c)' = KeysCreated(c)
    BY <1>1 DEF KeysCreated
  <2>. QED
    BY <1>1, <1>2, <2>1, ChangesStay
<1>8. ReportsAreFew'
  BY <1>1, ReportsStay
<1>9. SourcesDiffer'
  <2>. PICK n, ev : n = Len(evidence) + 1 /\ ev = evidence'
    OBVIOUS
  <2>1. /\ \A i \in DOMAIN evidence : i \in DOMAIN ev /\ ev[i] = evidence[i]
        /\ ev[n] = page
        /\ \A i \in DOMAIN ev : i \in DOMAIN evidence \/ i = n
    BY <1>1, <1>2, RowsGrowBy DEF KnowledgeInv, RowsGrow
  <2>2. /\ page.source = "dots"
        /\ \A i \in DOMAIN evidence : evidence[i].content = page.content => evidence[i].source # "dots"
        /\ \A c \in Collectors : c # "dots"
    BY DEF KnowledgeInv, SourcesDiffer, CollectorsAssumption
  <2>3. \A i, j \in DOMAIN ev :
          i # j /\ ev[i].content = ev[j].content => ev[i].source # ev[j].source
    <3>1. \A i, j \in DOMAIN evidence :
            i # j /\ evidence[i].content = evidence[j].content => evidence[i].source # evidence[j].source
      BY DEF KnowledgeInv, SourcesDiffer
    <3>. SUFFICES ASSUME NEW i \in DOMAIN ev, NEW j \in DOMAIN ev, i # j, ev[i].content = ev[j].content
                  PROVE  ev[i].source # ev[j].source
      OBVIOUS
    <3>2. CASE i \in DOMAIN evidence /\ j \in DOMAIN evidence
      <4>1. ev[i] = evidence[i] /\ ev[j] = evidence[j]
        BY <2>1, <3>2
      <4>. QED
        BY <3>1, <3>2, <4>1
    <3>3. CASE i \in DOMAIN evidence /\ j = n
      <4>1. ev[i] = evidence[i] /\ ev[j] = page
        BY <2>1, <3>3
      <4>. QED
        BY <2>2, <3>3, <4>1
    <3>4. CASE j \in DOMAIN evidence /\ i = n
      <4>1. ev[j] = evidence[j] /\ ev[i] = page
        BY <2>1, <3>4
      <4>. QED
        BY <2>2, <3>4, <4>1
    <3>. QED
      BY <2>1, <3>2, <3>3, <3>4
  <2>4. \A c \in Collectors : loop[c].pc = "add" =>
          \A i \in DOMAIN ev : ev[i].content = Head(loop[c].batch) => ev[i].source # c
    BY <2>1, <2>2 DEF KnowledgeInv, SourcesDiffer
  <2>5. \A p \in dots.adding \ {page} :
          /\ p.source = "dots" /\ p.content \in dots.seen
          /\ \A i \in DOMAIN ev : ev[i].content = p.content => ev[i].source # "dots"
    BY <2>1 DEF KnowledgeInv, SourcesDiffer
  <2>6. \A p, q \in dots.adding \ {page} : p # q => p.content # q.content
    BY DEF KnowledgeInv, SourcesDiffer
  <2>. PICK left : left = dots.adding \ {page}
    OBVIOUS
  <2>7. dots'.adding = left /\ dots'.seen = dots.seen /\ loop' = loop
    BY <1>1
  <2>8. \A c \in Collectors : loop'[c].pc = "add" =>
          \A i \in DOMAIN ev : ev[i].content = Head(loop'[c].batch) => ev[i].source # c
    BY <2>4, <2>7
  <2>9. /\ \A p \in dots'.adding :
             /\ p.source = "dots" /\ p.content \in dots'.seen
             /\ \A i \in DOMAIN ev : ev[i].content = p.content => ev[i].source # "dots"
        /\ \A p, q \in dots'.adding : p # q => p.content # q.content
    BY <2>5, <2>6, <2>7
  <2>. QED
    BY <2>3, <2>8, <2>9 DEF SourcesDiffer
<1>. QED
  BY <1>3, <1>4, <1>5, <1>6, <1>7, <1>8, <1>9 DEF KnowledgeInv

LEMMA Adds ==
    ASSUME KnowledgeAssumption, CollectorsAssumption, KnowledgeInv, NEW c \in Collectors, Add(c),
           UNCHANGED knowledgeVars
    PROVE  KnowledgeInv'
<1>1. /\ UNCHANGED <<entities, relations, changes, pass, hypotheses, reporter, clock, dots>>
      /\ loop[c].pc = "add" /\ loop[c] \in LoopRow /\ loop[c].batch # << >>
      /\ pass[c] = NoPass /\ loop[c].pc \notin Detected
  BY DEF Add, knowledgeVars, KnowledgeInv, KnowledgeTypes, LoopIs, PassIs, Unstarted, Detected
<1>2. PICK page : page = [content |-> Head(loop[c].batch), source |-> c, at |-> loop[c].at]
  OBVIOUS
<1>3. evidence' = Append(evidence, page)
  BY <1>2 DEF Add
<1>4. page \in Row /\ page.source = c /\ page.content = Head(loop[c].batch)
  <2>1. loop[c].batch \in Seq(Contents) /\ loop[c].at \in Nat
    BY <1>1 DEF LoopRow
  <2>2. Head(loop[c].batch) \in Contents
    BY <1>1, <2>1
  <2>. QED
    BY <1>2, <2>1, <2>2 DEF Row
<1>5. PICK n : n = Len(evidence')
  OBVIOUS
<1>6. /\ RowsGrow /\ evidence' \in Seq(Row) /\ n \in Nat
      /\ evidence'[n] = page /\ n \in DOMAIN evidence' /\ n \notin DOMAIN evidence
      /\ \A i \in DOMAIN evidence' : i \in DOMAIN evidence \/ i = n
  BY <1>3, <1>4, <1>5, RowsGrowBy DEF KnowledgeInv
<1>7. PICK batch, new : batch = Tail(loop[c].batch) /\ new = Append(loop[c].new, n)
  OBVIOUS
<1>8. /\ batch \in Seq(Contents) /\ new \in Seq(Nat)
      /\ DOMAIN new = 1 .. Len(loop[c].new) + 1 /\ Len(loop[c].new) \in Nat
      /\ DOMAIN loop[c].new = 1 .. Len(loop[c].new)
      /\ \A i \in 1 .. Len(loop[c].new) : new[i] = loop[c].new[i]
      /\ new[Len(loop[c].new) + 1] = n
  <2>1. loop[c].batch \in Seq(Contents) /\ loop[c].new \in Seq(Nat)
    BY <1>1 DEF LoopRow
  <2>. QED
    BY <1>1, <1>6, <1>7, <2>1
<1>9. \A i \in DOMAIN loop[c].new : loop[c].new[i] \in DOMAIN evidence /\ evidence[loop[c].new[i]].source = c
  BY DEF KnowledgeInv, LoopIs
<1>10. /\ IsInjective(new)
       /\ \A i \in DOMAIN new : new[i] \in DOMAIN evidence' /\ evidence'[new[i]].source = c
       /\ \A i \in DOMAIN new : new[i] \in DOMAIN evidence => i \in DOMAIN loop[c].new /\ new[i] = loop[c].new[i]
  <2>1. IsInjective(loop[c].new)
    BY DEF KnowledgeInv, LoopIs
  <2>2. \A i \in DOMAIN new : \/ i \in DOMAIN loop[c].new /\ new[i] = loop[c].new[i]
                              \/ i = Len(loop[c].new) + 1 /\ new[i] = n
    <3>. PICK m \in Nat : m = Len(loop[c].new)
      BY <1>8
    <3>1. \A i \in 1 .. m + 1 : i \in 1 .. m \/ i = m + 1
      OBVIOUS
    <3>. QED
      BY <1>8, <3>1
  <2>. QED
    BY <1>4, <1>6, <1>9, <2>1, <2>2 DEF IsInjective, RowsGrow
<1>11. PICK work : work = [loop[c] EXCEPT !.batch = batch, !.new = new]
  OBVIOUS
<1>12. work \in LoopRow /\ work.batch = batch /\ work.new = new
  BY <1>1, <1>8, <1>11 DEF LoopRow
<1>13. PICK row : row = After(work)
  OBVIOUS
<1>14. loop' = [loop EXCEPT ![c] = row]
  <2>1. PICK m, next : m = Len(evidence') /\ next = Added(loop[c], m)
    OBVIOUS
  <2>2. loop' = [loop EXCEPT ![c] = After(next)]
    BY <2>1 DEF Add
  <2>3. next = work
    BY <1>1, <1>5, <1>7, <1>11, <2>1 DEF LoopRow, Added
  <2>. QED
    BY <1>13, <2>2, <2>3
<1>15. /\ row \in LoopRow
       /\ row.pc \in {"collect", "exists", "extract"}
       /\ \/ row.new = << >>
          \/ row.new = new /\ row.pc \in {"exists", "extract"}
       /\ row.pc = "exists" => row.batch # << >>
  BY <1>12, <1>13, AfterItem, AtRestIs
<1>16. /\ \A d \in Collectors : d # c => loop'[d] = loop[d]
       /\ loop'[c] = row /\ loop' \in [Collectors -> LoopRow]
  BY <1>14, <1>15 DEF KnowledgeInv, KnowledgeTypes
<1>. HIDE DEF KnowledgeInv
<1>17. KnowledgeTypes'
  BY <1>1, <1>6, <1>16 DEF KnowledgeInv, KnowledgeTypes
<1>18. ASSUME NEW d \in Collectors, d # c PROVE LoopIs(d)' /\ PassIs(d)'
  BY <1>1, <1>6, <1>16, <1>18, LoopStays
<1>19. LoopIs(c)' /\ PassIs(c)'
  <2>1. IsInjective(row.new) /\ \A i \in DOMAIN row.new : row.new[i] \in DOMAIN evidence' /\ evidence'[row.new[i]].source = c
    BY <1>10, <1>15 DEF IsInjective
  <2>2. LoopIs(c)'
    BY <1>15, <1>16, <2>1 DEF LoopIs, IsInjective
  <2>3. IsFiniteSet({})
    BY FS_EmptySet
  <2>4. PassIs(c)'
    BY <1>1, <1>15, <1>16, <2>3 DEF PassIs, NoPass
  <2>. QED
    BY <2>2, <2>4
<1>20. ASSUME NEW d \in Collectors, NEW k \in Keys
       PROVE  Unresolved(d, k)' \cap DOMAIN evidence \subseteq Unresolved(d, k)
  <2>1. CASE d # c
    BY <1>1, <1>6, <1>16, <2>1, UnresolvedStay DEF KnowledgeInv
  <2>2. CASE d = c
    <3>1. loop'[c].new = row.new /\ pass' = pass
      BY <1>1, <1>16
    <3>2. \A i \in DOMAIN row.new : row.new[i] \in DOMAIN evidence =>
            i \in DOMAIN loop[c].new /\ row.new[i] = loop[c].new[i]
      BY <1>10, <1>15
    <3>3. \A r \in DOMAIN evidence : MentionsIn(r)' = MentionsIn(r)
      BY <1>6, MentionsStay
    <3>. SUFFICES ASSUME NEW r \in Unresolved(c, k)', r \in DOMAIN evidence
                  PROVE  r \in Unresolved(c, k)
      BY <2>2
    <3>4. PICK i \in DOMAIN row.new :
            /\ r = row.new[i]
            /\ \/ i > pass[c].item
               \/ /\ i = pass[c].item
                  /\ \E m \in DOMAIN MentionsIn(r)' : m >= pass[c].mention /\ MentionsIn(r)'[m] = k
      BY <3>1 DEF Unresolved, MentionsIn
    <3>5. i \in DOMAIN loop[c].new /\ loop[c].new[i] = r
      BY <3>2, <3>4
    <3>. QED
      BY <3>3, <3>4, <3>5 DEF Unresolved
  <2>. QED
    BY <2>1, <2>2
<1>21. SightingsAreCounted'
  <2>1. \A d \in Collectors : loop'[d].pc = "save" =>
          loop[d].pc = "save" /\ loop'[d].new = loop[d].new /\ pass'[d] = pass[d]
    BY <1>1, <1>15, <1>16
  <2>. QED
    BY <1>1, <1>6, <1>17, <1>20, <2>1, SightingsStay
<1>22. CreatedOnce'
  BY <1>1, CreatedStay
<1>23. ChangesAreOver'
  <2>1. \A d \in Collectors : KeysCreated(d)' = KeysCreated(d)
    BY <1>1 DEF KeysCreated
  <2>2. \A i \in DOMAIN row.new : row.new[i] \notin DOMAIN evidence \/ row.new[i] \in ToSet(loop[c].new)
    BY <1>10, <1>15 DEF ToSet
  <2>3. \A r \in ToSet(loop'[c].new) : r \notin DOMAIN evidence \/ r \in ToSet(loop[c].new)
    BY <1>16, <2>2 DEF ToSet
  <2>4. ASSUME NEW d \in Collectors, loop'[d].pc \notin Detected
        PROVE  /\ \A r \in ToSet(loop'[d].new) :
                    r \notin DOMAIN evidence \/ (r \in ToSet(loop[d].new) /\ loop[d].pc \notin Detected)
               /\ \A k \in KeysCreated(d)' :
                    entities[k] = 0 \/ (k \in KeysCreated(d) /\ loop[d].pc \notin Detected)
    BY <1>1, <1>16, <2>1, <2>3, <2>4
  <2>. QED
    BY <1>1, <1>6, <2>4, ChangesStay
<1>24. ReportsAreFew'
  BY <1>1, ReportsStay
<1>25. SourcesDiffer'
  <2>. PICK ev : ev = evidence'
    OBVIOUS
  <2>1. /\ \A i \in DOMAIN evidence : i \in DOMAIN ev /\ ev[i] = evidence[i]
        /\ ev[n] = page
        /\ \A i \in DOMAIN ev : i \in DOMAIN evidence \/ i = n
    BY <1>6 DEF RowsGrow
  <2>2. /\ c # "dots"
        /\ \A i \in DOMAIN evidence : evidence[i].content = page.content => evidence[i].source # c
    BY <1>1, <1>4 DEF KnowledgeInv, SourcesDiffer, CollectorsAssumption
  <2>3. \A i, j \in DOMAIN ev :
          i # j /\ ev[i].content = ev[j].content => ev[i].source # ev[j].source
    <3>1. \A i, j \in DOMAIN evidence :
            i # j /\ evidence[i].content = evidence[j].content => evidence[i].source # evidence[j].source
      BY DEF KnowledgeInv, SourcesDiffer
    <3>. SUFFICES ASSUME NEW i \in DOMAIN ev, NEW j \in DOMAIN ev, i # j, ev[i].content = ev[j].content
                  PROVE  ev[i].source # ev[j].source
      OBVIOUS
    <3>2. CASE i \in DOMAIN evidence /\ j \in DOMAIN evidence
      <4>1. ev[i] = evidence[i] /\ ev[j] = evidence[j]
        BY <2>1, <3>2
      <4>. QED
        BY <3>1, <3>2, <4>1
    <3>3. CASE i \in DOMAIN evidence /\ j = n
      <4>1. ev[i] = evidence[i] /\ ev[j] = page
        BY <2>1, <3>3
      <4>. QED
        BY <1>4, <2>2, <3>3, <4>1
    <3>4. CASE j \in DOMAIN evidence /\ i = n
      <4>1. ev[j] = evidence[j] /\ ev[i] = page
        BY <2>1, <3>4
      <4>. QED
        BY <1>4, <2>2, <3>4, <4>1
    <3>. QED
      BY <2>1, <3>2, <3>3, <3>4
  <2>4. \A d \in Collectors : loop'[d].pc = "add" =>
          \A i \in DOMAIN ev : ev[i].content = Head(loop'[d].batch) => ev[i].source # d
    <3>1. \A d \in Collectors : loop'[d].pc = "add" => d # c /\ loop'[d] = loop[d]
      BY <1>15, <1>16
    <3>2. \A d \in Collectors : loop[d].pc = "add" =>
            \A i \in DOMAIN evidence : evidence[i].content = Head(loop[d].batch) => evidence[i].source # d
      BY DEF KnowledgeInv, SourcesDiffer
    <3>. QED
      BY <1>4, <2>1, <3>1, <3>2
  <2>5. \A p \in dots.adding :
          /\ p.source = "dots" /\ p.content \in dots.seen
          /\ \A i \in DOMAIN ev : ev[i].content = p.content => ev[i].source # "dots"
    BY <1>4, <2>1, <2>2 DEF KnowledgeInv, SourcesDiffer
  <2>6. \A p, q \in dots.adding : p # q => p.content # q.content
    BY DEF KnowledgeInv, SourcesDiffer
  <2>. QED
    BY <1>1, <2>3, <2>4, <2>5, <2>6 DEF SourcesDiffer
<1>. QED
  BY <1>17, <1>18, <1>19, <1>21, <1>22, <1>23, <1>24, <1>25 DEF KnowledgeInv

-----------------------------------------------------------------------------
(* The pass: extraction and resolution.                                    *)

LEMMA NextItemIs ==
    ASSUME KnowledgeAssumption, KnowledgeInv, NEW c \in Collectors, NEW first \in Nat, first > 0,
           NEW item \in NextItem(c, first)
    PROVE  /\ item \in Nat /\ item >= first
           /\ item <= Len(loop[c].new) =>
                item \in DOMAIN loop[c].new /\ 1 \in DOMAIN MentionsIn(loop[c].new[item])
<1>. PICK new, n : new = loop[c].new /\ n = Len(loop[c].new)
  OBVIOUS
<1>1. n \in Nat /\ DOMAIN new = 1 .. n
  BY KnowledgeShape DEF KnowledgeInv
<1>2. item \in first .. n + 1 /\ (item <= n => MentionsIn(new[item]) # << >>)
  BY DEF NextItem
<1>3. item \in Nat /\ item >= first
  BY <1>1, <1>2
<1>4. ASSUME item <= n PROVE item \in DOMAIN new /\ 1 \in DOMAIN MentionsIn(new[item])
  <2>1. item \in DOMAIN new
    BY <1>1, <1>2, <1>3, <1>4
  <2>. PICK row, list : row = new[item] /\ list = MentionsIn(row)
    OBVIOUS
  <2>2. row \in DOMAIN evidence
    BY <2>1 DEF KnowledgeInv, LoopIs
  <2>3. list \in Seq(Keys) /\ list # << >>
    BY <1>2, <1>4, <2>2, MentionsAre DEF KnowledgeInv
  <2>4. 1 \in DOMAIN list
    BY <2>3
  <2>. QED
    BY <2>1, <2>4
<1>. QED
  BY <1>3, <1>4

(* One pass moves on: what that says of everything else.                   *)
InPass == {"extract", "lookup", "save", "relate", "detect", "propose", "report"}

LEMMA PassMoves ==
    ASSUME KnowledgeAssumption, KnowledgeInv, NEW c \in Collectors, NEW place \in InPass,
           NEW row \in PassRow, loop[c].pc \in InPass,
           Goto(c, place), pass' = [pass EXCEPT ![c] = row], Storing,
           entities' \in [Keys -> Nat], changes' \in Seq(Change), hypotheses' \in Seq(HypothesisRow)
    PROVE  /\ KnowledgeTypes' /\ RowsGrow /\ SourcesDiffer'
           /\ \A d \in Collectors : LoopIs(d)'
           /\ \A d \in Collectors : d # c => loop'[d] = loop[d] /\ pass'[d] = pass[d] /\ PassIs(d)'
           /\ loop'[c].pc = place /\ loop'[c].new = loop[c].new /\ pass'[c] = row
           /\ \A d \in Collectors : loop'[d].new = loop[d].new
           /\ \A d \in Collectors : \A k \in Keys :
                d # c => Unresolved(d, k)' \cap DOMAIN evidence \subseteq Unresolved(d, k)
           /\ \A r \in DOMAIN evidence : MentionsIn(r)' = MentionsIn(r)
<1>1. UNCHANGED <<evidence, dots, clock>>
  BY DEF Storing
<1>2. place \in LoopPlaces /\ place \notin {"setup", "collect", "exists", "add", "over"}
  BY DEF InPass, LoopPlaces
<1>3. loop[c].pc \notin {"setup", "collect", "over"}
  BY DEF InPass
<1>4. PICK next : next = [loop[c] EXCEPT !.pc = place]
  OBVIOUS
<1>5. /\ next \in LoopRow /\ next.pc = place /\ next.new = loop[c].new
      /\ loop' = [loop EXCEPT ![c] = next]
  BY <1>2, <1>4 DEF KnowledgeInv, KnowledgeTypes, LoopRow, Goto
<1>6. /\ loop' \in [Collectors -> LoopRow] /\ loop'[c] = next
      /\ \A d \in Collectors : d # c => loop'[d] = loop[d]
  BY <1>5 DEF KnowledgeInv, KnowledgeTypes
<1>7. /\ pass' \in [Collectors -> PassRow] /\ pass'[c] = row
      /\ \A d \in Collectors : d # c => pass'[d] = pass[d]
  BY DEF KnowledgeInv, KnowledgeTypes
<1>8. KnowledgeTypes'
  BY <1>1, <1>6, <1>7 DEF KnowledgeInv, KnowledgeTypes
<1>9. RowsGrow
  BY <1>1 DEF RowsGrow
<1>10. SourcesDiffer'
  <2>1. \A d \in Collectors : loop'[d].pc = "add" => loop[d].pc = "add" /\ loop'[d].batch = loop[d].batch
    BY <1>2, <1>5, <1>6
  <2>. QED
    BY <1>1, <2>1, SourcesStay
<1>11. \A d \in Collectors : d # c => LoopIs(d)' /\ PassIs(d)'
  BY <1>6, <1>7, <1>9, LoopStays
<1>12. LoopIs(c)'
  <2>1. LoopIs(c) /\ next.pc = place /\ next.new = loop[c].new
    BY <1>5 DEF KnowledgeInv
  <2>2. IsInjective(next.new) /\ \A i \in DOMAIN next.new :
          next.new[i] \in DOMAIN evidence /\ evidence[next.new[i]].source = c
    BY <2>1 DEF LoopIs
  <2>. QED
    BY <1>1, <1>2, <1>6, <2>1, <2>2 DEF LoopIs
<1>13. \A r \in DOMAIN evidence : MentionsIn(r)' = MentionsIn(r)
  BY <1>9, MentionsStay
<1>14. \A d \in Collectors : \A k \in Keys :
         d # c => Unresolved(d, k)' \cap DOMAIN evidence \subseteq Unresolved(d, k)
  <2>. SUFFICES ASSUME NEW d \in Collectors, NEW k \in Keys, d # c
                PROVE  Unresolved(d, k)' \subseteq Unresolved(d, k)
    OBVIOUS
  <2>1. loop'[d].new = loop[d].new /\ pass'[d].item = pass[d].item /\ pass'[d].mention = pass[d].mention
    BY <1>6, <1>7
  <2>. QED
    BY <1>9, <2>1, UnresolvedStay DEF KnowledgeInv
<1>15. \A d \in Collectors : loop'[d].new = loop[d].new
  BY <1>5, <1>6
<1>. QED
  BY <1>5, <1>6, <1>7, <1>8, <1>9, <1>10, <1>11, <1>12, <1>13, <1>14, <1>15

(* What this pass has still to resolve shrinks as it moves on.             *)
LEMMA ResolvesOn ==
    ASSUME KnowledgeAssumption, KnowledgeInv, NEW c \in Collectors, NEW k \in Keys, RowsGrow,
           loop'[c].new = loop[c].new,
           \A i \in DOMAIN loop[c].new : i > pass'[c].item => i > pass[c].item,
           \A i \in DOMAIN loop[c].new : i = pass'[c].item =>
             i > pass[c].item \/ (i = pass[c].item /\ pass'[c].mention >= pass[c].mention),
           pass[c].mention \in Nat, pass'[c].mention \in Nat
    PROVE  Unresolved(c, k)' \cap DOMAIN evidence \subseteq Unresolved(c, k)
<1>. SUFFICES ASSUME NEW r \in Unresolved(c, k)', r \in DOMAIN evidence
              PROVE  r \in Unresolved(c, k)
  OBVIOUS
<1>1. MentionsIn(r)' = MentionsIn(r)
  BY MentionsStay
<1>2. PICK i \in DOMAIN loop[c].new :
        /\ r = loop[c].new[i]
        /\ \/ i > pass'[c].item
           \/ /\ i = pass'[c].item
              /\ \E m \in DOMAIN MentionsIn(r)' : m >= pass'[c].mention /\ MentionsIn(r)'[m] = k
  BY DEF Unresolved, MentionsIn
<1>3. CASE i > pass[c].item
  BY <1>2, <1>3 DEF Unresolved
<1>4. CASE /\ i = pass'[c].item /\ i = pass[c].item /\ pass'[c].mention >= pass[c].mention
           /\ ~(i > pass'[c].item)
  <2>. PICK list : list = MentionsIn(r)
    OBVIOUS
  <2>1. PICK m \in DOMAIN list : m >= pass'[c].mention /\ list[m] = k
    BY <1>1, <1>2, <1>4
  <2>2. m \in Nat
    <3>1. Len(list) \in Nat /\ DOMAIN list = 1 .. Len(list)
      BY MentionsAre DEF KnowledgeInv
    <3>. QED
      BY <2>1, <3>1
  <2>3. m >= pass[c].mention
    BY <1>4, <2>1, <2>2
  <2>. QED
    BY <1>2, <1>4, <2>1, <2>3 DEF Unresolved
<1>. QED
  BY <1>2, <1>3, <1>4

LEMMA Extracts ==
    ASSUME KnowledgeAssumption, KnowledgeInv, NEW c \in Collectors, Extract(c)
    PROVE  KnowledgeInv'
<1>1. /\ UNCHANGED <<evidence, entities, relations, changes, hypotheses, reporter, dots, clock>>
      /\ loop[c].pc = "extract" /\ pass[c] = NoPass /\ loop[c].pc \in Unstarted /\ loop[c].pc \in InPass
      /\ loop[c].pc \notin Detected
  BY DEF Extract, Storing, KnowledgeInv, PassIs, Unstarted, InPass, Detected
<1>2. CASE Ends(c) /\ UNCHANGED pass
  <2>1. clock' \in Nat
    BY <1>1 DEF KnowledgeInv, KnowledgeTypes
  <2>. QED
    BY <1>1, <1>2, <2>1, LoopEnds
<1>3. ASSUME NEW item \in NextItem(c, 1),
             pass' = [pass EXCEPT ![c].item = item],
             Goto(c, IF item > Len(loop[c].new) THEN "detect" ELSE "lookup")
      PROVE  KnowledgeInv'
  <2>0. PICK row : row = [NoPass EXCEPT !.item = item]
    OBVIOUS
  <2>. PICK place : place = IF item > Len(loop[c].new) THEN "detect" ELSE "lookup"
    OBVIOUS
  <2>1. /\ item \in Nat /\ item >= 1 /\ Len(loop[c].new) \in Nat
        /\ item <= Len(loop[c].new) =>
             item \in DOMAIN loop[c].new /\ 1 \in DOMAIN MentionsIn(loop[c].new[item])
    BY NextItemIs, KnowledgeShape DEF KnowledgeInv
  <2>2. place \in InPass /\ place \in {"detect", "lookup"} /\ (place = "lookup" => item <= Len(loop[c].new))
    BY <2>1 DEF InPass
  <2>3. row = [item |-> item, mention |-> 1, read |-> 0, created |-> {}, saved |-> {}]
    BY <2>0 DEF NoPass
  <2>4. row \in PassRow
    <3>. {} \in SUBSET [row : Nat, key : Keys] /\ {} \in SUBSET Nat /\ 0 \in Nat /\ 1 \in Nat
      OBVIOUS
    <3>. QED
      BY <2>1, <2>3 DEF PassRow
  <2>5. pass' = [pass EXCEPT ![c] = row]
    BY <1>1, <1>3, <2>0
  <2>6. Goto(c, place)
    BY <1>3
  <2>7. /\ entities' \in [Keys -> Nat] /\ changes' \in Seq(Change) /\ hypotheses' \in Seq(HypothesisRow)
        /\ Storing
    BY <1>1 DEF KnowledgeInv, KnowledgeTypes, Extract
  <2>8. /\ KnowledgeTypes' /\ RowsGrow /\ SourcesDiffer'
        /\ \A d \in Collectors : LoopIs(d)'
        /\ \A d \in Collectors : d # c => loop'[d] = loop[d] /\ pass'[d] = pass[d] /\ PassIs(d)'
        /\ loop'[c].pc = place /\ loop'[c].new = loop[c].new /\ pass'[c] = row
        /\ \A d \in Collectors : loop'[d].new = loop[d].new
        /\ \A d \in Collectors : \A k \in Keys :
             d # c => Unresolved(d, k)' \cap DOMAIN evidence \subseteq Unresolved(d, k)
        /\ \A r \in DOMAIN evidence : MentionsIn(r)' = MentionsIn(r)
    BY <1>1, <2>2, <2>4, <2>5, <2>6, <2>7, PassMoves
  <2>9. /\ pass'[c].item = item /\ pass'[c].mention = 1 /\ pass'[c].saved = {} /\ pass'[c].created = {}
        /\ pass[c].item = 1 /\ pass[c].mention = 1
    BY <1>1, <2>3, <2>8 DEF NoPass
  <2>10. PassIs(c)'
    <3>1. IsFiniteSet(pass'[c].created)
      BY <2>9, FS_EmptySet
    <3>2. ASSUME place = "lookup"
          PROVE  pass'[c].item \in DOMAIN loop'[c].new /\ pass'[c].mention \in DOMAIN MentionsIn(ItemOf(c))'
      <4>. PICK r : r = loop[c].new[item]
        OBVIOUS
      <4>1. item \in DOMAIN loop[c].new /\ 1 \in DOMAIN MentionsIn(r)
        BY <2>1, <2>2, <3>2
      <4>2. r \in DOMAIN evidence
        BY <4>1 DEF KnowledgeInv, LoopIs
      <4>3. ItemOf(c)' = r
        BY <2>8, <2>9 DEF ItemOf
      <4>4. MentionsIn(ItemOf(c))' = MentionsIn(r)
        BY <1>1, <4>3 DEF MentionsIn
      <4>. QED
        BY <2>8, <2>9, <4>1, <4>4
    <3>. QED
      BY <2>2, <2>8, <2>9, <3>1, <3>2 DEF PassIs, Unstarted
  <2>11. SightingsAreCounted'
    <3>1. \A k \in Keys : Unresolved(c, k)' \cap DOMAIN evidence \subseteq Unresolved(c, k)
      <4>1. \A i \in DOMAIN loop[c].new : i \in Nat
        BY KnowledgeShape DEF KnowledgeInv
      <4>2. \A i \in DOMAIN loop[c].new :
              /\ i > pass'[c].item => i > pass[c].item
              /\ i = pass'[c].item => i > pass[c].item \/ (i = pass[c].item /\ pass'[c].mention >= pass[c].mention)
        BY <2>1, <2>9, <4>1
      <4>3. pass[c].mention \in Nat /\ pass'[c].mention \in Nat
        BY <2>9
      <4>. QED
        BY <2>8, <4>2, <4>3, ResolvesOn
    <3>2. \A d \in Collectors : \A k \in Keys : Unresolved(d, k)' \cap DOMAIN evidence \subseteq Unresolved(d, k)
      BY <2>8, <3>1
    <3>3. \A d \in Collectors : loop'[d].pc = "save" =>
            loop[d].pc = "save" /\ loop'[d].new = loop[d].new /\ pass'[d] = pass[d]
      BY <2>2, <2>8
    <3>. QED
      BY <1>1, <2>8, <3>2, <3>3, SightingsStay
  <2>12. \A d \in Collectors : pass'[d].created \subseteq pass[d].created /\ pass'[d].saved \subseteq pass[d].saved
    BY <2>8, <2>9
  <2>13. CreatedOnce'
    BY <1>1, <2>12, CreatedStay
  <2>14. ChangesAreOver'
    <3>1. \A d \in Collectors : loop'[d].pc \notin Detected => loop[d].pc \notin Detected
      BY <1>1, <2>8
    <3>2. \A d \in Collectors : ToSet(loop'[d].new) = ToSet(loop[d].new) /\ KeysCreated(d)' \subseteq KeysCreated(d)
      BY <2>8, <2>12 DEF KeysCreated
    <3>. QED
      BY <1>1, <2>8, <3>1, <3>2, ChangesStay
  <2>15. ReportsAreFew'
    BY <1>1, <2>12, ReportsStay
  <2>. QED
    BY <2>8, <2>10, <2>11, <2>13, <2>14, <2>15 DEF KnowledgeInv
<1>. QED
  BY <1>2, <1>3 DEF Extract

LEMMA Looks ==
    ASSUME KnowledgeAssumption, KnowledgeInv, NEW c \in Collectors, Lookup(c)
    PROVE  KnowledgeInv'
<1>1. /\ UNCHANGED <<evidence, entities, relations, changes, hypotheses, reporter, dots, clock>>
      /\ loop[c].pc = "lookup" /\ loop[c].pc \in InPass
      /\ loop[c].pc \notin Detected /\ Storing /\ Goto(c, "save") /\ "save" \in InPass
  BY DEF Lookup, Storing, InPass, Detected
<1>. PICK r, key, read : r = ItemOf(c) /\ key = KeyOf(c) /\ read = entities[key]
  OBVIOUS
<1>2. /\ pass[c].item \in DOMAIN loop[c].new /\ r = loop[c].new[pass[c].item] /\ r \in DOMAIN evidence
      /\ pass[c].mention \in DOMAIN MentionsIn(r) /\ key = MentionsIn(r)[pass[c].mention]
  BY <1>1 DEF KnowledgeInv, PassIs, LoopIs, ItemOf, KeyOf
<1>3. key \in Keys /\ read \in Nat
  <2>1. key \in Keys
    BY <1>2, MentionsAre DEF KnowledgeInv
  <2>. QED
    BY <2>1 DEF KnowledgeInv, KnowledgeTypes
<1>4. PICK row : row = [pass[c] EXCEPT !.read = read]
  OBVIOUS
<1>5. /\ row \in PassRow /\ row.item = pass[c].item /\ row.mention = pass[c].mention
      /\ row.created = pass[c].created /\ row.saved = pass[c].saved /\ row.read = read
      /\ pass[c].mention \in Nat
  BY <1>3, <1>4 DEF KnowledgeInv, KnowledgeTypes, PassRow
<1>6. pass' = [pass EXCEPT ![c] = row]
  BY <1>4 DEF Lookup
<1>7. entities' \in [Keys -> Nat] /\ changes' \in Seq(Change) /\ hypotheses' \in Seq(HypothesisRow)
  BY <1>1 DEF KnowledgeInv, KnowledgeTypes
<1>8. /\ KnowledgeTypes' /\ RowsGrow /\ SourcesDiffer'
      /\ \A d \in Collectors : LoopIs(d)'
      /\ \A d \in Collectors : d # c => loop'[d] = loop[d] /\ pass'[d] = pass[d] /\ PassIs(d)'
      /\ loop'[c].pc = "save" /\ loop'[c].new = loop[c].new /\ pass'[c] = row
      /\ \A d \in Collectors : loop'[d].new = loop[d].new
      /\ \A d \in Collectors : \A k \in Keys :
           d # c => Unresolved(d, k)' \cap DOMAIN evidence \subseteq Unresolved(d, k)
      /\ \A i \in DOMAIN evidence : MentionsIn(i)' = MentionsIn(i)
  BY <1>1, <1>5, <1>6, <1>7, PassMoves
<1>9. ItemOf(c)' = r /\ MentionsIn(ItemOf(c))' = MentionsIn(r) /\ KeyOf(c)' = key
  <2>1. ItemOf(c)' = r
    BY <1>2, <1>5, <1>8 DEF ItemOf
  <2>2. MentionsIn(ItemOf(c))' = MentionsIn(r)
    BY <1>1, <2>1 DEF MentionsIn
  <2>. QED
    BY <1>2, <1>5, <1>8, <2>1, <2>2 DEF KeyOf
<1>10. PassIs(c)'
  <2>1. /\ loop[c].pc # "report" /\ PassIs(c)
    BY <1>1 DEF KnowledgeInv
  <2>2. pass[c].saved = {} /\ IsFiniteSet(pass[c].created)
    BY <2>1 DEF PassIs
  <2>3. pass'[c].item \in DOMAIN loop'[c].new /\ pass'[c].mention \in DOMAIN MentionsIn(ItemOf(c))'
    BY <1>2, <1>5, <1>8, <1>9
  <2>. QED
    BY <1>5, <1>8, <2>2, <2>3 DEF PassIs, Unstarted
<1>11. \A d \in Collectors : \A k \in Keys : Unresolved(d, k)' \cap DOMAIN evidence \subseteq Unresolved(d, k)
  <2>1. \A k \in Keys : Unresolved(c, k)' \subseteq Unresolved(c, k)
    BY <1>5, <1>8, UnresolvedStay DEF KnowledgeInv
  <2>. QED
    BY <1>8, <2>1
<1>12. SightingsAreCounted'
  <2>1. /\ Cardinality(Counted(key)) <= Cardinality(Counted(key)')
        /\ Cardinality(Counted(key)) \in Nat /\ Cardinality(Counted(key)') \in Nat
    BY <1>3, <1>8, <1>11, CountedGrows, CountedIsFinite, CountedNext DEF KnowledgeInv
  <2>2. read <= Cardinality(Counted(key))
    BY <1>3 DEF KnowledgeInv, SightingsAreCounted
  <2>3. Counted(KeyOf(c))' = Counted(key)'
    BY <1>9 DEF Counted
  <2>4. pass'[c].read <= Cardinality(Counted(KeyOf(c)))'
    <3>. PICK x, y : x = Cardinality(Counted(key)) /\ y = Cardinality(Counted(key)')
      OBVIOUS
    <3>1. read <= y
      BY <1>3, <2>1, <2>2
    <3>. QED
      BY <1>5, <1>8, <2>3, <3>1
  <2>5. \A d \in Collectors : loop'[d].pc = "save" =>
          \/ loop[d].pc = "save" /\ loop'[d].new = loop[d].new /\ pass'[d] = pass[d]
          \/ pass'[d].read <= Cardinality(Counted(KeyOf(d)))'
    <3>1. \A d \in Collectors : d # c => loop'[d] = loop[d] /\ pass'[d] = pass[d]
      BY <1>8
    <3>. QED
      BY <2>4, <3>1
  <2>. QED
    BY <1>1, <1>8, <1>11, <2>5, SightingsStay
<1>13. \A d \in Collectors : pass'[d].created \subseteq pass[d].created /\ pass'[d].saved \subseteq pass[d].saved
  BY <1>5, <1>8
<1>14. CreatedOnce'
  BY <1>1, <1>13, CreatedStay
<1>15. ChangesAreOver'
  <2>1. \A d \in Collectors : loop'[d].pc \notin Detected => loop[d].pc \notin Detected
    BY <1>1, <1>8
  <2>2. \A d \in Collectors : ToSet(loop'[d].new) = ToSet(loop[d].new) /\ KeysCreated(d)' \subseteq KeysCreated(d)
    BY <1>8, <1>13 DEF KeysCreated
  <2>. QED
    BY <1>1, <1>8, <2>1, <2>2, ChangesStay
<1>16. ReportsAreFew'
  BY <1>1, <1>13, ReportsStay
<1>. QED
  BY <1>8, <1>10, <1>12, <1>14, <1>15, <1>16 DEF KnowledgeInv

(* The mention that is resolved is counted from now on.                    *)
LEMMA Resolves ==
    ASSUME KnowledgeAssumption, KnowledgeInv, KnowledgeTypes', NEW c \in Collectors, loop[c].pc = "save",
           UNCHANGED evidence,
           NEW r, r = ItemOf(c), NEW key, key = KeyOf(c),
           \A d \in Collectors : loop'[d].new = loop[d].new,
           \A d \in Collectors : \A k \in Keys : Unresolved(d, k)' \cap DOMAIN evidence \subseteq Unresolved(d, k),
           r \notin Unresolved(c, key)'
    PROVE  Cardinality(Counted(key)) + 1 <= Cardinality(Counted(key)')
<1>1. /\ pass[c].item \in DOMAIN loop[c].new /\ r = loop[c].new[pass[c].item] /\ r \in DOMAIN evidence
      /\ pass[c].mention \in DOMAIN MentionsIn(r) /\ key = MentionsIn(r)[pass[c].mention]
  BY DEF KnowledgeInv, PassIs, LoopIs, ItemOf, KeyOf
<1>2. key \in Keys /\ key \in ToSet(MentionsIn(r))
  BY <1>1, MentionsAre DEF KnowledgeInv, ToSet
<1>3. RowsGrow /\ MentionsIn(r)' = MentionsIn(r)
  BY DEF RowsGrow, MentionsIn
<1>4. r \notin Counted(key)
  <2>1. pass[c].item \in Nat /\ pass[c].mention \in Nat
    BY DEF KnowledgeInv, KnowledgeTypes, PassRow
  <2>2. r \in Unresolved(c, key)
    <3>. PICK n, m : n = pass[c].item /\ m = pass[c].mention
      OBVIOUS
    <3>1. m >= m
      BY <2>1
    <3>2. n \in DOMAIN loop[c].new /\ r = loop[c].new[n] /\ m \in DOMAIN MentionsIn(loop[c].new[n])
          /\ MentionsIn(loop[c].new[n])[m] = key
      BY <1>1
    <3>. QED
      BY <3>1, <3>2 DEF Unresolved
  <2>. QED
    BY <2>2 DEF Counted
<1>5. r \in Counted(key)'
  <2>1. ASSUME NEW d \in Collectors PROVE r \notin Unresolved(d, key)'
    <3>1. CASE d = c
      BY <3>1
    <3>2. CASE d # c
      <4>1. r \notin Unresolved(d, key)
        <5>1. evidence[r].source = c
          BY <1>1 DEF KnowledgeInv, LoopIs
        <5>2. \A i \in DOMAIN loop[d].new : evidence[loop[d].new[i]].source = d
          BY DEF KnowledgeInv, LoopIs
        <5>. QED
          BY <3>2, <5>1, <5>2 DEF Unresolved
      <4>. QED
        BY <1>1, <1>2, <4>1
    <3>. QED
      BY <3>1, <3>2
  <2>. QED
    BY <1>1, <1>2, <1>3, <2>1 DEF Counted
<1>6. Counted(key) \subseteq Counted(key)'
  BY <1>2, <1>3, CountedGrows DEF KnowledgeInv
<1>. PICK C, D : C = Counted(key) /\ D = Counted(key)'
  OBVIOUS
<1>7. IsFiniteSet(C) /\ IsFiniteSet(D) /\ Cardinality(C) \in Nat /\ Cardinality(D) \in Nat
  BY CountedIsFinite, CountedNext DEF KnowledgeInv
<1>8. C \cup {r} \subseteq D /\ r \notin C
  BY <1>4, <1>5, <1>6
<1>9. Cardinality(C \cup {r}) = Cardinality(C) + 1
  BY <1>7, <1>8, FS_AddElement
<1>10. Cardinality(C \cup {r}) <= Cardinality(D)
  BY <1>7, <1>8, FS_Subset
<1>. QED
  BY <1>9, <1>10

(* Where a pass goes when a mention is resolved.                           *)
LEMMA NextMentionIs ==
    ASSUME KnowledgeAssumption, KnowledgeInv, NEW c \in Collectors, loop[c].pc = "save",
           NEW next \in NextMention(c)
    PROVE  /\ next[1] \in Nat /\ next[2] \in Nat
           /\ \/ next[1] = pass[c].item /\ next[2] = pass[c].mention + 1
              \/ next[1] > pass[c].item /\ next[2] = 1
           /\ next[1] <= Len(loop[c].new) =>
                next[1] \in DOMAIN loop[c].new /\ next[2] \in DOMAIN MentionsIn(loop[c].new[next[1]])
<1>. PICK n, m, r : n = pass[c].item /\ m = pass[c].mention /\ r = ItemOf(c)
  OBVIOUS
<1>1. n \in Nat /\ m \in Nat
  BY DEF KnowledgeInv, KnowledgeTypes, PassRow
<1>2. n \in DOMAIN loop[c].new /\ r = loop[c].new[n] /\ m \in DOMAIN MentionsIn(r) /\ r \in DOMAIN evidence
  BY DEF KnowledgeInv, PassIs, LoopIs, ItemOf
<1>. PICK list : list = MentionsIn(r)
  OBVIOUS
<1>3. Len(list) \in Nat /\ DOMAIN list = 1 .. Len(list)
  BY <1>2, MentionsAre DEF KnowledgeInv
<1>4. CASE m < Len(list) /\ next = <<n, m + 1>>
  <2>1. m + 1 \in DOMAIN list
    BY <1>1, <1>3, <1>4
  <2>. QED
    BY <1>1, <1>2, <1>4, <2>1
<1>5. CASE \E item \in NextItem(c, n + 1) : next = <<item, 1>>
  <2>1. PICK item \in NextItem(c, n + 1) : next = <<item, 1>>
    BY <1>5
  <2>. PICK first : first = n + 1
    OBVIOUS
  <2>2. first \in Nat /\ first > 0 /\ item \in NextItem(c, first)
    BY <1>1
  <2>3. /\ item \in Nat /\ item >= first
        /\ item <= Len(loop[c].new) =>
             item \in DOMAIN loop[c].new /\ 1 \in DOMAIN MentionsIn(loop[c].new[item])
    BY <2>2, NextItemIs
  <2>4. item > n
    BY <1>1, <2>3
  <2>. QED
    BY <2>1, <2>3, <2>4
<1>. QED
  BY <1>4, <1>5 DEF NextMention

LEMMA IsResolved ==
    ASSUME KnowledgeAssumption, KnowledgeInv, NEW c \in Collectors, loop[c].pc = "save", UNCHANGED evidence,
           NEW r, r = ItemOf(c), NEW key, key = KeyOf(c),
           loop'[c].new = loop[c].new,
           pass'[c].item \in Nat, pass'[c].mention \in Nat,
           \/ pass'[c].item = pass[c].item /\ pass'[c].mention = pass[c].mention + 1
           \/ pass'[c].item > pass[c].item
    PROVE  r \notin Unresolved(c, key)'
<1>. SUFFICES ASSUME r \in Unresolved(c, key)' PROVE FALSE
  OBVIOUS
<1>. PICK n, m, new, list : n = pass[c].item /\ m = pass[c].mention /\ new = loop[c].new /\ list = MentionsIn(r)
  OBVIOUS
<1>1. n \in Nat /\ m \in Nat
  BY DEF KnowledgeInv, KnowledgeTypes, PassRow
<1>2. n \in DOMAIN new /\ r = new[n] /\ m \in DOMAIN list /\ r \in DOMAIN evidence /\ key = list[m]
  BY DEF KnowledgeInv, PassIs, LoopIs, ItemOf, KeyOf
<1>3. IsInjective(new) /\ IsInjective(list)
  BY <1>2, MentionsAre DEF KnowledgeInv, LoopIs
<1>4. MentionsIn(r)' = list
  BY DEF MentionsIn
<1>5. PICK i \in DOMAIN new :
        /\ r = new[i]
        /\ \/ i > pass'[c].item
           \/ i = pass'[c].item /\ \E j \in DOMAIN list : j >= pass'[c].mention /\ list[j] = key
  BY <1>4 DEF Unresolved, MentionsIn
<1>6. i = n
  BY <1>2, <1>3, <1>5 DEF IsInjective
<1>7. CASE pass'[c].item > n
  BY <1>1, <1>5, <1>6, <1>7
<1>8. CASE pass'[c].item = n /\ pass'[c].mention = m + 1
  <2>1. PICK j \in DOMAIN list : j >= m + 1 /\ list[j] = key
    BY <1>1, <1>5, <1>6, <1>8
  <2>2. j = m
    BY <1>2, <1>3, <2>1 DEF IsInjective
  <2>. QED
    BY <1>1, <2>1, <2>2
<1>. QED
  BY <1>7, <1>8

LEMMA Saves ==
    ASSUME KnowledgeAssumption, KnowledgeInv, NEW c \in Collectors, SaveEntity(c)
    PROVE  KnowledgeInv'
<1>1. /\ UNCHANGED <<evidence, relations, changes, hypotheses, reporter, dots, clock>>
      /\ loop[c].pc = "save" /\ loop[c].pc \in InPass
      /\ loop[c].pc \notin Detected /\ Storing
  BY DEF SaveEntity, Storing, InPass, Detected
<1>. PICK r, key, read : r = ItemOf(c) /\ key = KeyOf(c) /\ read = pass[c].read
  OBVIOUS
<1>2. CASE Clash(key, read)
  <2>1. Ends(c) /\ pass' = [pass EXCEPT ![c] = NoPass] /\ UNCHANGED entities
    BY <1>2 DEF SaveEntity
  <2>2. clock' \in Nat
    BY <1>1 DEF KnowledgeInv, KnowledgeTypes
  <2>. QED
    BY <1>1, <2>1, <2>2, LoopEnds
<1>3. CASE ~Clash(key, read)
  <2>1. PICK next \in NextMention(c) :
          /\ pass' = [pass EXCEPT ![c] = [@ EXCEPT !.item = next[1], !.mention = next[2], !.created = Created(c)]]
          /\ Goto(c, IF next[1] > Len(loop[c].new) THEN "relate" ELSE "lookup")
    BY <1>3 DEF SaveEntity
  <2>2. entities' = [entities EXCEPT ![key] = read + 1]
    BY <1>3 DEF SaveEntity, Resolved
  <2>. PICK item, mention, created :
         item = next[1] /\ mention = next[2] /\ created = Created(c)
    OBVIOUS
  <2>3. PICK place : place = IF item > Len(loop[c].new) THEN "relate" ELSE "lookup"
    OBVIOUS
  <2>4. /\ item \in Nat /\ mention \in Nat /\ Len(loop[c].new) \in Nat
        /\ \/ item = pass[c].item /\ mention = pass[c].mention + 1
           \/ item > pass[c].item /\ mention = 1
        /\ item <= Len(loop[c].new) =>
             item \in DOMAIN loop[c].new /\ mention \in DOMAIN MentionsIn(loop[c].new[item])
    BY <1>1, NextMentionIs, KnowledgeShape DEF KnowledgeInv
  <2>5. /\ place \in InPass /\ place \in {"relate", "lookup"} /\ Goto(c, place)
        /\ place = "lookup" => item <= Len(loop[c].new)
    BY <2>1, <2>3, <2>4 DEF InPass
  <2>6. /\ pass[c].item \in Nat /\ pass[c].mention \in Nat /\ read \in Nat
        /\ pass[c].created \subseteq [row : Nat, key : Keys] /\ IsFiniteSet(pass[c].created)
        /\ pass[c].saved = {} /\ pass[c] \in PassRow
    BY <1>1 DEF KnowledgeInv, KnowledgeTypes, PassRow, PassIs
  <2>7. key \in Keys /\ r \in Nat /\ r \in DOMAIN evidence
    <3>1. r \in DOMAIN evidence /\ pass[c].mention \in DOMAIN MentionsIn(r) /\ key = MentionsIn(r)[pass[c].mention]
      BY <1>1 DEF KnowledgeInv, PassIs, LoopIs, ItemOf, KeyOf
    <3>. QED
      BY <3>1, MentionsAre, KnowledgeShape DEF KnowledgeInv
  <2>8. /\ created \subseteq [row : Nat, key : Keys] /\ IsFiniteSet(created)
        /\ \A m \in created : m \in pass[c].created \/ (read = 0 /\ m.key = key)
        /\ pass[c].created \subseteq created
    <3>1. PICK mine : mine = [row |-> r, key |-> key]
      OBVIOUS
    <3>2. mine \in [row : Nat, key : Keys] /\ mine.key = key
      BY <2>7, <3>1
    <3>3. created = pass[c].created \/ (read = 0 /\ created = pass[c].created \cup {mine})
      BY <3>1 DEF Created
    <3>4. IsFiniteSet(pass[c].created \cup {mine})
      BY <2>6, FS_AddElement
    <3>. QED
      BY <2>6, <3>2, <3>3, <3>4
  <2>9. PICK row : row = [pass[c] EXCEPT !.item = item, !.mention = mention, !.created = created]
    OBVIOUS
  <2>10. /\ row \in PassRow /\ row.item = item /\ row.mention = mention /\ row.created = created /\ row.saved = {}
    <3>1. row = [item |-> item, mention |-> mention, read |-> read, created |-> created, saved |-> {}]
      BY <2>6, <2>9 DEF PassRow
    <3>2. created \in SUBSET [row : Nat, key : Keys] /\ {} \in SUBSET Nat
      BY <2>8
    <3>. QED
      BY <2>4, <2>6, <3>1, <3>2 DEF PassRow
  <2>11. pass' = [pass EXCEPT ![c] = row]
    BY <2>1, <2>9
  <2>12. entities' \in [Keys -> Nat] /\ changes' \in Seq(Change) /\ hypotheses' \in Seq(HypothesisRow)
    BY <1>1, <2>2, <2>6, <2>7 DEF KnowledgeInv, KnowledgeTypes
  <2>13. /\ KnowledgeTypes' /\ RowsGrow /\ SourcesDiffer'
         /\ \A d \in Collectors : LoopIs(d)'
         /\ \A d \in Collectors : d # c => loop'[d] = loop[d] /\ pass'[d] = pass[d] /\ PassIs(d)'
         /\ loop'[c].pc = place /\ loop'[c].new = loop[c].new /\ pass'[c] = row
         /\ \A d \in Collectors : loop'[d].new = loop[d].new
         /\ \A d \in Collectors : \A k \in Keys :
              d # c => Unresolved(d, k)' \cap DOMAIN evidence \subseteq Unresolved(d, k)
         /\ \A i \in DOMAIN evidence : MentionsIn(i)' = MentionsIn(i)
    BY <1>1, <2>5, <2>10, <2>11, <2>12, PassMoves
  <2>14. /\ pass'[c].item = item /\ pass'[c].mention = mention
         /\ pass'[c].created = created /\ pass'[c].saved = {}
    BY <2>10, <2>13
  <2>15. PassIs(c)'
    <3>1. ASSUME place = "lookup"
          PROVE  pass'[c].item \in DOMAIN loop'[c].new /\ pass'[c].mention \in DOMAIN MentionsIn(ItemOf(c))'
      <4>. PICK s : s = loop[c].new[item]
        OBVIOUS
      <4>1. item \in DOMAIN loop[c].new /\ mention \in DOMAIN MentionsIn(s)
        BY <2>4, <2>5, <3>1
      <4>2. ItemOf(c)' = s
        BY <2>13, <2>14 DEF ItemOf
      <4>3. MentionsIn(ItemOf(c))' = MentionsIn(s)
        BY <1>1, <4>2 DEF MentionsIn
      <4>. QED
        BY <2>13, <2>14, <4>1, <4>3
    <3>. QED
      BY <2>5, <2>8, <2>13, <2>14, <3>1 DEF PassIs, Unstarted
  <2>16. \A d \in Collectors : \A k \in Keys : Unresolved(d, k)' \cap DOMAIN evidence \subseteq Unresolved(d, k)
    <3>1. \A i \in DOMAIN loop[c].new : i \in Nat
      BY KnowledgeShape DEF KnowledgeInv
    <3>2. \A i \in DOMAIN loop[c].new :
            /\ i > pass'[c].item => i > pass[c].item
            /\ i = pass'[c].item => i > pass[c].item \/ (i = pass[c].item /\ pass'[c].mention >= pass[c].mention)
      BY <2>4, <2>6, <2>14, <3>1
    <3>3. pass[c].mention \in Nat /\ pass'[c].mention \in Nat
      BY <2>4, <2>6, <2>14
    <3>4. \A k \in Keys : Unresolved(c, k)' \cap DOMAIN evidence \subseteq Unresolved(c, k)
      BY <2>13, <3>2, <3>3, ResolvesOn
    <3>. QED
      BY <2>13, <3>4
  <2>17. SightingsAreCounted'
    <3>1. r \notin Unresolved(c, key)'
      BY <1>1, <2>4, <2>13, <2>14, IsResolved
    <3>2. Cardinality(Counted(key)) + 1 <= Cardinality(Counted(key)')
      BY <1>1, <2>13, <2>16, <3>1, Resolves
    <3>3. read <= Cardinality(Counted(key))
      BY <1>1 DEF KnowledgeInv, SightingsAreCounted
    <3>4. read + 1 <= Cardinality(Counted(key)')
      <4>. PICK x, y : x = Cardinality(Counted(key)) /\ y = Cardinality(Counted(key)')
        OBVIOUS
      <4>1. x \in Nat /\ y \in Nat
        BY <2>13, CountedIsFinite, CountedNext DEF KnowledgeInv
      <4>. QED
        BY <2>6, <3>2, <3>3, <4>1
    <3>5. \A k \in Keys : entities'[k] = entities[k] \/ entities'[k] <= Cardinality(Counted(k)')
      <4>1. \A k \in Keys : k # key => entities'[k] = entities[k]
        BY <2>2 DEF KnowledgeInv, KnowledgeTypes
      <4>2. entities'[key] = read + 1
        BY <2>2, <2>7 DEF KnowledgeInv, KnowledgeTypes
      <4>. QED
        BY <3>4, <4>1, <4>2
    <3>6. \A d \in Collectors : loop'[d].pc = "save" =>
            loop[d].pc = "save" /\ loop'[d].new = loop[d].new /\ pass'[d] = pass[d]
      BY <2>5, <2>13
    <3>. QED
      BY <2>13, <2>16, <3>5, <3>6, SightingsStay
  <2>18. /\ \A k \in Keys : entities[k] > 0 => entities'[k] > 0
         /\ entities'[key] > 0
         /\ read = 0 => entities[key] = 0
    <3>1. \A k \in Keys : k # key => entities'[k] = entities[k]
      BY <2>2 DEF KnowledgeInv, KnowledgeTypes
    <3>2. entities'[key] = read + 1 /\ entities[key] \in Nat
      BY <2>2, <2>7 DEF KnowledgeInv, KnowledgeTypes
    <3>. QED
      BY <1>3, <2>6, <3>1, <3>2 DEF Clash
  <2>19. /\ \A d \in Collectors : d # c => KeysCreated(d)' = KeysCreated(d)
         /\ \A k \in KeysCreated(c)' : k \in KeysCreated(c) \/ (read = 0 /\ k = key)
         /\ \A d \in Collectors : KeysCreated(d) \subseteq Keys
    <3>1. \A d \in Collectors : pass[d].created \subseteq [row : Nat, key : Keys]
      BY DEF KnowledgeInv, KnowledgeTypes, PassRow
    <3>. QED
      BY <2>8, <2>13, <2>14, <3>1 DEF KeysCreated
  <2>20. CreatedOnce'
    <3>1. \A d \in Collectors : \A k \in KeysCreated(d) : entities[k] > 0 /\ entities'[k] > 0
      BY <2>18, <2>19 DEF KnowledgeInv, CreatedOnce
    <3>2. \A d \in Collectors : \A k \in KeysCreated(d)' : entities'[k] > 0
      BY <2>18, <2>19, <3>1
    <3>3. read = 0 => \A d \in Collectors : key \notin KeysCreated(d)
      BY <2>18, <3>1
    <3>4. \A d, e \in Collectors : d # e => KeysCreated(d)' \cap KeysCreated(e)' = {}
      <4>1. \A d, e \in Collectors : d # e => KeysCreated(d) \cap KeysCreated(e) = {}
        BY DEF KnowledgeInv, CreatedOnce
      <4>2. \A d \in Collectors : d # c => KeysCreated(d)' \cap KeysCreated(c)' = {}
        BY <2>19, <3>3, <4>1
      <4>. QED
        BY <2>19, <4>1, <4>2
    <3>. QED
      BY <1>1, <3>2, <3>4 DEF KnowledgeInv, CreatedOnce
  <2>21. ChangesAreOver'
    <3>1. \A d \in Collectors : loop'[d].pc \notin Detected => loop[d].pc \notin Detected
      BY <1>1, <2>13
    <3>2. \A d \in Collectors : ToSet(loop'[d].new) = ToSet(loop[d].new)
      BY <2>13
    <3>3. \A d \in Collectors : \A k \in KeysCreated(d)' : entities[k] = 0 \/ k \in KeysCreated(d)
      BY <2>18, <2>19
    <3>. QED
      BY <1>1, <2>13, <2>18, <3>1, <3>2, <3>3, ChangesStay
  <2>22. ReportsAreFew'
    <3>1. \A d \in Collectors : pass'[d].saved \subseteq pass[d].saved
      BY <2>13, <2>14
    <3>. QED
      BY <1>1, <3>1, ReportsStay
  <2>. QED
    BY <2>13, <2>15, <2>17, <2>20, <2>21, <2>22 DEF KnowledgeInv
<1>. QED
  BY <1>2, <1>3

(* Relations link two entities.                                            *)
LEMMA Relates ==
    ASSUME KnowledgeAssumption, KnowledgeInv, NEW c \in Collectors, Relate(c)
    PROVE  KnowledgeInv'
<1>1. /\ UNCHANGED <<evidence, entities, changes, pass, hypotheses, reporter, dots, clock>>
      /\ loop[c].pc = "relate" /\ loop[c].pc \in InPass
      /\ loop[c].pc \notin Detected /\ Storing /\ Goto(c, "detect") /\ "detect" \in InPass
  BY DEF Relate, Storing, InPass, Detected
<1>2. \A p \in DOMAIN relations' : p # {}
  <2>1. Cardinality({}) # 2
    BY FS_EmptySet
  <2>2. \A p \in DOMAIN relations : p # {}
    BY DEF KnowledgeInv, CreatedOnce
  <2>3. \A p \in DOMAIN relations' : p \in DOMAIN relations \/ Cardinality(p) = 2
    BY DEF Relate, Related
  <2>. QED
    BY <2>1, <2>2, <2>3
<1>3. PICK row : row = pass[c]
  OBVIOUS
<1>4. row \in PassRow /\ pass' = [pass EXCEPT ![c] = row]
  BY <1>1, <1>3 DEF KnowledgeInv, KnowledgeTypes
<1>5. entities' \in [Keys -> Nat] /\ changes' \in Seq(Change) /\ hypotheses' \in Seq(HypothesisRow)
  BY <1>1 DEF KnowledgeInv, KnowledgeTypes
<1>6. /\ KnowledgeTypes' /\ RowsGrow /\ SourcesDiffer'
      /\ \A d \in Collectors : LoopIs(d)'
      /\ \A d \in Collectors : d # c => loop'[d] = loop[d] /\ pass'[d] = pass[d] /\ PassIs(d)'
      /\ loop'[c].pc = "detect" /\ loop'[c].new = loop[c].new
      /\ \A d \in Collectors : loop'[d].new = loop[d].new
      /\ \A d \in Collectors : \A k \in Keys :
           d # c => Unresolved(d, k)' \cap DOMAIN evidence \subseteq Unresolved(d, k)
  BY <1>1, <1>4, <1>5, PassMoves
<1>7. PassIs(c)'
  <2>1. pass[c].saved = {} /\ IsFiniteSet(pass[c].created)
    BY <1>1 DEF KnowledgeInv, PassIs
  <2>. QED
    BY <1>1, <1>6, <2>1 DEF PassIs, Unstarted
<1>8. SightingsAreCounted'
  <2>1. \A k \in Keys : Unresolved(c, k)' \subseteq Unresolved(c, k)
    BY <1>1, <1>6, UnresolvedStay DEF KnowledgeInv
  <2>2. \A d \in Collectors : \A k \in Keys : Unresolved(d, k)' \cap DOMAIN evidence \subseteq Unresolved(d, k)
    BY <1>6, <2>1
  <2>3. \A d \in Collectors : loop'[d].pc = "save" =>
          loop[d].pc = "save" /\ loop'[d].new = loop[d].new /\ pass'[d] = pass[d]
    BY <1>6
  <2>. QED
    BY <1>1, <1>6, <2>2, <2>3, SightingsStay
<1>9. CreatedOnce'
  <2>1. \A d \in Collectors : KeysCreated(d)' = KeysCreated(d)
    BY <1>1 DEF KeysCreated
  <2>. QED
    BY <1>1, <1>2, <2>1 DEF KnowledgeInv, CreatedOnce
<1>10. ChangesAreOver'
  <2>1. \A d \in Collectors : loop'[d].pc \notin Detected => loop[d].pc \notin Detected
    BY <1>1, <1>6
  <2>2. \A d \in Collectors : ToSet(loop'[d].new) = ToSet(loop[d].new) /\ KeysCreated(d)' = KeysCreated(d)
    BY <1>1, <1>6 DEF KeysCreated
  <2>. QED
    BY <1>1, <1>6, <2>1, <2>2, ChangesStay
<1>11. ReportsAreFew'
  BY <1>1, ReportsStay
<1>. QED
  BY <1>6, <1>7, <1>8, <1>9, <1>10, <1>11 DEF KnowledgeInv

-----------------------------------------------------------------------------
(* The pass: changes and hypotheses.                                       *)

LEMMA ImagesAreFinite ==
    ASSUME NEW S, IsFiniteSet(S), NEW f, NEW T, \A t \in T : \E s \in S : f[s] = t
    PROVE  IsFiniteSet(T)
<1>. PICK R, g : R = {s \in S : f[s] \in T} /\ g = [s \in R |-> f[s]]
  OBVIOUS
<1>1. IsFiniteSet(R)
  BY FS_Subset
<1>2. g \in Surjection(R, T)
  BY DEF Surjection
<1>. QED
  BY <1>1, <1>2, FS_Surjection

LEMMA SetToSeqIs ==
    ASSUME NEW S, IsFiniteSet(S)
    PROVE  SetToSeq(S) \in Seq(S) /\ IsInjective(SetToSeq(S))
<1>. DEFINE n == Cardinality(S)
            s == SetToSeq(S)
<1>1. n \in Nat /\ ExistsBijection(1 .. n, S)
  BY FS_CardinalityType
<1>2. s \in [1 .. n -> S] /\ IsInjective(s)
  BY <1>1 DEF SetToSeq, ExistsBijection, Bijection, Injection
<1>. HIDE DEF s, n
<1>. QED
  BY <1>1, <1>2 DEF s

LEMMA ConcatIs ==
    ASSUME NEW A, NEW s \in Seq(A), NEW t \in Seq(A)
    PROVE  /\ s \o t \in Seq(A) /\ Len(s \o t) = Len(s) + Len(t)
           /\ Len(s) \in Nat /\ Len(t) \in Nat
           /\ DOMAIN s = 1 .. Len(s) /\ DOMAIN t = 1 .. Len(t)
           /\ DOMAIN (s \o t) = 1 .. Len(s) + Len(t)
           /\ \A i \in DOMAIN s : i \in DOMAIN (s \o t) /\ (s \o t)[i] = s[i]
           /\ \A i \in DOMAIN t : Len(s) + i \in DOMAIN (s \o t) /\ (s \o t)[Len(s) + i] = t[i]
           /\ \A i \in DOMAIN (s \o t) : i \in DOMAIN s \/ (i - Len(s) \in DOMAIN t /\ i = Len(s) + (i - Len(s)))
<1>. PICK m \in Nat, n \in Nat : m = Len(s) /\ n = Len(t)
  OBVIOUS
<1>1. \A i \in 1 .. m + n : i \in 1 .. m \/ (i - m \in 1 .. n /\ i = m + (i - m))
  OBVIOUS
<1>. QED
  BY <1>1

LEMMA Concatenated ==
    ASSUME NEW A, NEW s \in Seq(A), NEW t \in Seq(A)
    PROVE  /\ s \o t \in Seq(A) /\ Len(s) \in Nat
           /\ \A i \in DOMAIN s : i \in DOMAIN (s \o t) /\ (s \o t)[i] = s[i]
           /\ \A i \in DOMAIN t : Len(s) + i \in DOMAIN (s \o t) /\ (s \o t)[Len(s) + i] = t[i]
           /\ \A i \in DOMAIN (s \o t) : i \in DOMAIN s \/ \E j \in DOMAIN t : i = Len(s) + j
BY ConcatIs

LEMMA ConcatIsInjective ==
    ASSUME NEW A, NEW s \in Seq(A), NEW t \in Seq(A), IsInjective(s), IsInjective(t),
           \A i \in DOMAIN s : \A j \in DOMAIN t : s[i] # t[j]
    PROVE  IsInjective(s \o t)
<1>. PICK u : u = s \o t
  OBVIOUS
<1>1. /\ \A i \in DOMAIN s : u[i] = s[i]
      /\ \A i \in DOMAIN t : u[Len(s) + i] = t[i]
      /\ \A i \in DOMAIN u : i \in DOMAIN s \/ \E j \in DOMAIN t : i = Len(s) + j
  BY ConcatIs
<1>. SUFFICES ASSUME NEW i \in DOMAIN u, NEW j \in DOMAIN u, u[i] = u[j]
              PROVE  i = j
  BY DEF IsInjective
<1>2. CASE i \in DOMAIN s /\ j \in DOMAIN s
  BY <1>1, <1>2 DEF IsInjective
<1>3. CASE i \in DOMAIN s /\ \E b \in DOMAIN t : j = Len(s) + b
  BY <1>1, <1>3
<1>4. CASE j \in DOMAIN s /\ \E b \in DOMAIN t : i = Len(s) + b
  BY <1>1, <1>4
<1>5. CASE (\E a \in DOMAIN t : i = Len(s) + a) /\ (\E b \in DOMAIN t : j = Len(s) + b)
  BY <1>1, <1>5 DEF IsInjective
<1>. QED
  BY <1>1, <1>2, <1>3, <1>4, <1>5

(* The changes a pass finds: what they are about.                          *)
LEMMA PassFinds ==
    ASSUME KnowledgeInv, NEW c \in Collectors, loop[c].pc \notin Unstarted
    PROVE  /\ ToSet(loop[c].new) \subseteq DOMAIN evidence /\ ToSet(loop[c].new) \subseteq Nat
           /\ IsFiniteSet(ToSet(loop[c].new))
           /\ KeysCreated(c) \subseteq Keys /\ IsFiniteSet(KeysCreated(c))
           /\ IsFiniteSet(PageChanges(c)) /\ IsFiniteSet(NewEntities(c)) /\ IsFiniteSet(NewRelations(c))
           /\ \A change \in PageChanges(c) :
                change.type = "content_changed" /\ change.row \in ToSet(loop[c].new)
           /\ \A change \in NewEntities(c) : change.type = "new_entity" /\ change.key \in KeysCreated(c)
           /\ \A change \in NewRelations(c) :
                /\ change.type = "new_relation" /\ change.pair \subseteq KeysCreated(c)
                /\ change.pair \in DOMAIN relations
           /\ PageChanges(c) \cup NewEntities(c) \cup NewRelations(c) \subseteq Change
<1>. PICK n, rows, made, keys :
       n = Len(evidence) /\ rows = ToSet(loop[c].new) /\ made = pass[c].created /\ keys = KeysCreated(c)
  OBVIOUS
<1>1. /\ n \in Nat /\ DOMAIN evidence = 1 .. n
      /\ made \subseteq [row : Nat, key : Keys] /\ IsFiniteSet(made)
      /\ rows \subseteq 1 .. n /\ rows \subseteq Nat
  BY KnowledgeShape DEF KnowledgeInv, LoopIs, PassIs, PassRow, ToSet
<1>2. IsFiniteSet(rows)
  <2>1. IsFiniteSet(1 .. n)
    BY <1>1, FS_Interval
  <2>. QED
    BY <1>1, <2>1, FS_Subset
<1>3. keys \subseteq Keys /\ IsFiniteSet(keys)
  <2>1. keys = {m.key : m \in made}
    BY DEF KeysCreated
  <2>. PICK f : f = [m \in made |-> m.key]
    OBVIOUS
  <2>2. \A k \in keys : \E m \in made : f[m] = k
    BY <2>1
  <2>. QED
    BY <1>1, <2>1, <2>2, ImagesAreFinite
<1>4. /\ IsFiniteSet(PageChanges(c))
      /\ \A change \in PageChanges(c) :
           change.type = "content_changed" /\ change.row \in rows /\ change \in Change
  <2>. PICK f : f = [r \in rows |-> [type |-> "content_changed", row |-> r]]
    OBVIOUS
  <2>1. \A change \in PageChanges(c) :
          \E r \in rows : change = [type |-> "content_changed", row |-> r] /\ f[r] = change
    BY DEF PageChanges
  <2>2. IsFiniteSet(PageChanges(c))
    BY <1>2, <2>1, ImagesAreFinite
  <2>. QED
    BY <1>1, <2>1, <2>2 DEF Change
<1>5. /\ IsFiniteSet(NewEntities(c))
      /\ \A change \in NewEntities(c) : change.type = "new_entity" /\ change.key \in keys /\ change \in Change
  <2>. PICK f : f = [m \in made |-> [type |-> "new_entity", key |-> m.key]]
    OBVIOUS
  <2>1. \A change \in NewEntities(c) :
          \E m \in made : change = [type |-> "new_entity", key |-> m.key] /\ f[m] = change
    BY DEF NewEntities
  <2>2. IsFiniteSet(NewEntities(c))
    BY <1>1, <2>1, ImagesAreFinite
  <2>3. \A m \in made : m.key \in keys
    BY DEF KeysCreated
  <2>. QED
    BY <1>3, <2>1, <2>2, <2>3 DEF Change
<1>6. /\ IsFiniteSet(NewRelations(c))
      /\ \A change \in NewRelations(c) : /\ change.type = "new_relation" /\ change.pair \subseteq keys
                                         /\ change.pair \in DOMAIN relations /\ change \in Change
  <2>0. PICK all : all = SUBSET keys
    OBVIOUS
  <2>1. \A row : CreatedIn(c, row) \subseteq keys
    BY DEF CreatedIn, KeysCreated
  <2>2. \A change \in NewRelations(c) :
          \E p \in DOMAIN relations : change = [type |-> "new_relation", pair |-> p] /\ p \subseteq keys
    BY <2>1 DEF NewRelations
  <2>3. IsFiniteSet(all)
    BY <1>3, <2>0, FS_SUBSET
  <2>4. IsFiniteSet(NewRelations(c))
    <3>1. PICK f : f = [p \in all |-> [type |-> "new_relation", pair |-> p]]
      OBVIOUS
    <3>2. \A change \in NewRelations(c) : \E p \in all : f[p] = change
      BY <2>0, <2>2, <3>1
    <3>. QED
      BY <2>3, <3>2, ImagesAreFinite
  <2>5. ASSUME NEW change \in NewRelations(c)
        PROVE  /\ change.type = "new_relation" /\ change.pair \subseteq keys
               /\ change.pair \in DOMAIN relations /\ change \in Change
    <3>1. PICK p \in DOMAIN relations : change = [type |-> "new_relation", pair |-> p] /\ p \subseteq keys
      BY <2>2
    <3>2. p \in SUBSET Keys
      BY <1>3, <3>1
    <3>3. change \in [type : {"new_relation"}, pair : SUBSET Keys]
      BY <3>1, <3>2
    <3>. QED
      BY <3>1, <3>3 DEF Change
  <2>. QED
    BY <2>4, <2>5
<1>. QED
  BY <1>1, <1>2, <1>3, <1>4, <1>5, <1>6

LEMMA Detects ==
    ASSUME KnowledgeAssumption, KnowledgeInv, NEW c \in Collectors, Detect(c)
    PROVE  KnowledgeInv'
<1>1. /\ UNCHANGED <<evidence, entities, relations, pass, hypotheses, reporter, dots, clock>>
      /\ loop[c].pc = "detect" /\ loop[c].pc \in InPass /\ loop[c].pc \notin Unstarted
      /\ loop[c].pc \notin Detected /\ Storing /\ Goto(c, "propose") /\ "propose" \in InPass
      /\ "propose" \in Detected
  BY DEF Detect, Storing, InPass, Detected, Unstarted
<1>0. PICK rows, keys, found : /\ rows = ToSet(loop[c].new) /\ keys = KeysCreated(c)
                              /\ found = PageChanges(c) \cup NewEntities(c) \cup NewRelations(c)
  OBVIOUS
<1>2. /\ rows \subseteq DOMAIN evidence /\ keys \subseteq Keys /\ IsFiniteSet(found) /\ found \subseteq Change
      /\ \A change \in found :
           \/ change.type = "content_changed" /\ change.row \in rows
           \/ change.type = "new_entity" /\ change.key \in keys
           \/ change.type = "new_relation" /\ change.pair \subseteq keys /\ change.pair \in DOMAIN relations
  <2>1. IsFiniteSet(found)
    <3>1. IsFiniteSet(PageChanges(c)) /\ IsFiniteSet(NewEntities(c)) /\ IsFiniteSet(NewRelations(c))
      BY <1>0, <1>1, PassFinds
    <3>2. IsFiniteSet(PageChanges(c) \cup NewEntities(c))
      BY <3>1, FS_Union
    <3>. QED
      BY <1>0, <3>1, <3>2, FS_Union
  <2>. QED
    BY <1>0, <1>1, <2>1, PassFinds
<1>3. \A change \in found :
        /\ change.type = "new_relation" => change.pair # {}
        /\ \A k \in Subjects(change) : entities[k] > 0
        /\ Subjects(change) \subseteq keys
  <2>1. /\ \A p \in DOMAIN relations : p # {}
        /\ \A k \in keys : entities[k] > 0
    BY <1>0 DEF KnowledgeInv, CreatedOnce
  <2>2. \A change \in found : Subjects(change) \subseteq keys
    BY <1>2 DEF Subjects
  <2>. QED
    BY <1>2, <2>1, <2>2
<1>4. PICK list : /\ changes' = changes \o list
                  /\ list \in Seq(found) /\ IsInjective(list)
  <2>1. SetToSeq(found) \in Seq(found) /\ IsInjective(SetToSeq(found))
    BY <1>2, SetToSeqIs
  <2>2. changes' = changes \o SetToSeq(found)
    BY <1>0 DEF Detect
  <2>. QED
    BY <2>1, <2>2
<1>5. list \in Seq(Change) /\ \A i \in DOMAIN list : list[i] \in found
  <2>1. found \subseteq Change
    BY <1>2
  <2>2. Seq(found) \subseteq Seq(Change)
    BY <2>1, SeqMonotonic
  <2>. QED
    BY <1>4, <2>2
<1>6. changes' = changes \o list
  BY <1>4
<1>7. \A i \in DOMAIN changes : \A j \in DOMAIN list : changes[i] # list[j]
  <2>1. SUFFICES ASSUME NEW i \in DOMAIN changes, changes[i] \in found
                 PROVE  FALSE
    BY <1>5
  <2>2. /\ changes[i].type = "content_changed" => changes[i].row \notin rows
        /\ changes[i].type = "new_relation" => changes[i].pair # {}
        /\ Subjects(changes[i]) \cap keys = {}
    BY <1>0, <1>1 DEF KnowledgeInv, ChangesAreOver
  <2>3. CASE changes[i].type = "content_changed" /\ changes[i].row \in rows
    BY <2>2, <2>3
  <2>4. CASE changes[i].type = "new_entity" /\ changes[i].key \in keys
    BY <2>2, <2>4 DEF Subjects
  <2>5. CASE changes[i].type = "new_relation" /\ changes[i].pair \subseteq keys
    BY <2>2, <2>5 DEF Subjects
  <2>. QED
    BY <1>2, <2>1, <2>3, <2>4, <2>5
<1>8. /\ changes' \in Seq(Change) /\ IsInjective(changes')
      /\ \A i \in DOMAIN changes' :
           \/ i \in DOMAIN changes /\ changes'[i] = changes[i]
           \/ changes'[i] \in found
  <2>1. changes \in Seq(Change) /\ IsInjective(changes)
    BY DEF KnowledgeInv, KnowledgeTypes, ChangesAreOver
  <2>. PICK old, table : old = changes /\ table = changes'
    OBVIOUS
  <2>2. /\ table \in Seq(Change)
        /\ \A i \in DOMAIN old : table[i] = old[i]
        /\ \A i \in DOMAIN list : table[Len(old) + i] = list[i]
        /\ \A i \in DOMAIN table : i \in DOMAIN old \/ \E j \in DOMAIN list : i = Len(old) + j
    <3>1. old \in Seq(Change) /\ list \in Seq(Change) /\ table = old \o list
      BY <1>5, <1>6, <2>1
    <3>2. /\ table \in Seq(Change) /\ Len(old) \in Nat
          /\ \A i \in DOMAIN old : i \in DOMAIN table /\ table[i] = old[i]
          /\ \A i \in DOMAIN list : Len(old) + i \in DOMAIN table /\ table[Len(old) + i] = list[i]
          /\ \A i \in DOMAIN table : i \in DOMAIN old \/ \E j \in DOMAIN list : i = Len(old) + j
      <4>1. old \in Seq(Change) /\ list \in Seq(Change)
        BY <3>1
      <4>2. old \o list \in Seq(Change) /\ Len(old) \in Nat
        BY <4>1, Concatenated
      <4>3. \A i \in DOMAIN old : i \in DOMAIN (old \o list) /\ (old \o list)[i] = old[i]
        BY <4>1, Concatenated
      <4>4. \A i \in DOMAIN list : Len(old) + i \in DOMAIN (old \o list) /\ (old \o list)[Len(old) + i] = list[i]
        BY <4>1, Concatenated
      <4>5. \A i \in DOMAIN (old \o list) : i \in DOMAIN old \/ \E j \in DOMAIN list : i = Len(old) + j
        BY <4>1, Concatenated
      <4>. QED
        BY <3>1, <4>2, <4>3, <4>4, <4>5
    <3>. QED
      BY <3>2
  <2>3. IsInjective(table)
    <3>1. /\ old \in Seq(Change) /\ list \in Seq(Change) /\ table = old \o list
          /\ IsInjective(old) /\ IsInjective(list)
          /\ \A i \in DOMAIN old : \A j \in DOMAIN list : old[i] # list[j]
      BY <1>4, <1>5, <1>6, <1>7, <2>1
    <3>. QED
      BY <3>1, ConcatIsInjective
  <2>4. \A i \in DOMAIN table : (i \in DOMAIN old /\ table[i] = old[i]) \/ table[i] \in found
    <3>1. \A j \in DOMAIN list : table[Len(old) + j] \in found
      BY <1>5, <2>2
    <3>. QED
      BY <2>2, <3>1
  <2>. QED
    BY <1>6, <2>2, <2>3, <2>4
<1>9. PICK row : row = pass[c]
  OBVIOUS
<1>10. row \in PassRow /\ pass' = [pass EXCEPT ![c] = row]
  BY <1>1, <1>9 DEF KnowledgeInv, KnowledgeTypes
<1>11. entities' \in [Keys -> Nat] /\ changes' \in Seq(Change) /\ hypotheses' \in Seq(HypothesisRow)
  BY <1>1, <1>8 DEF KnowledgeInv, KnowledgeTypes
<1>12. /\ KnowledgeTypes' /\ RowsGrow /\ SourcesDiffer'
       /\ \A d \in Collectors : LoopIs(d)'
       /\ \A d \in Collectors : d # c => loop'[d] = loop[d] /\ pass'[d] = pass[d] /\ PassIs(d)'
       /\ loop'[c].pc = "propose" /\ loop'[c].new = loop[c].new
       /\ \A d \in Collectors : loop'[d].new = loop[d].new
       /\ \A d \in Collectors : \A k \in Keys :
            d # c => Unresolved(d, k)' \cap DOMAIN evidence \subseteq Unresolved(d, k)
  BY <1>1, <1>10, <1>11, PassMoves
<1>13. PassIs(c)'
  <2>1. pass[c].saved = {} /\ IsFiniteSet(pass[c].created)
    BY <1>1 DEF KnowledgeInv, PassIs
  <2>. QED
    BY <1>1, <1>12, <2>1 DEF PassIs, Unstarted
<1>14. SightingsAreCounted'
  <2>1. \A k \in Keys : Unresolved(c, k)' \subseteq Unresolved(c, k)
    BY <1>1, <1>12, UnresolvedStay DEF KnowledgeInv
  <2>2. \A d \in Collectors : \A k \in Keys : Unresolved(d, k)' \cap DOMAIN evidence \subseteq Unresolved(d, k)
    BY <1>12, <2>1
  <2>3. \A d \in Collectors : loop'[d].pc = "save" =>
          loop[d].pc = "save" /\ loop'[d].new = loop[d].new /\ pass'[d] = pass[d]
    BY <1>12
  <2>. QED
    BY <1>1, <1>12, <2>2, <2>3, SightingsStay
<1>15. CreatedOnce'
  <2>1. \A d \in Collectors : pass'[d].created \subseteq pass[d].created
    BY <1>1
  <2>. QED
    BY <1>1, <2>1, CreatedStay
<1>16. ChangesAreOver'
  <2>1. \A d \in Collectors : loop'[d].pc \notin Detected => d # c /\ loop[d].pc \notin Detected
    BY <1>1, <1>12
  <2>2. \A d \in Collectors : ToSet(loop'[d].new) = ToSet(loop[d].new) /\ KeysCreated(d)' = KeysCreated(d)
    BY <1>1, <1>12 DEF KeysCreated
  <2>3. ASSUME NEW d \in Collectors, d # c
        PROVE  ToSet(loop[d].new) \cap rows = {} /\ KeysCreated(d) \cap keys = {}
    <3>1. KeysCreated(d) \cap keys = {}
      BY <1>0, <2>3 DEF KnowledgeInv, CreatedOnce
    <3>2. /\ \A r \in ToSet(loop[d].new) : evidence[r].source = d
          /\ \A r \in rows : evidence[r].source = c
      BY <1>0 DEF KnowledgeInv, LoopIs, ToSet
    <3>. QED
      BY <2>3, <3>1, <3>2
  <2>. PICK table : table = changes'
    OBVIOUS
  <2>4. ASSUME NEW i \in DOMAIN table
        PROVE  /\ table[i].type = "content_changed" =>
                    /\ table[i].row \in DOMAIN evidence
                    /\ \A d \in Collectors : loop'[d].pc \notin Detected => table[i].row \notin ToSet(loop[d].new)
               /\ table[i].type = "new_relation" => table[i].pair # {}
               /\ \A k \in Subjects(table[i]) : entities[k] > 0
               /\ \A d \in Collectors : loop'[d].pc \notin Detected => Subjects(table[i]) \cap KeysCreated(d) = {}
    <3>1. CASE i \in DOMAIN changes /\ table[i] = changes[i]
      <4>1. /\ changes[i].type = "content_changed" =>
                 /\ changes[i].row \in DOMAIN evidence
                 /\ \A d \in Collectors : loop[d].pc \notin Detected => changes[i].row \notin ToSet(loop[d].new)
            /\ changes[i].type = "new_relation" => changes[i].pair # {}
            /\ \A k \in Subjects(changes[i]) : entities[k] > 0
            /\ \A d \in Collectors : loop[d].pc \notin Detected => Subjects(changes[i]) \cap KeysCreated(d) = {}
        BY <3>1 DEF KnowledgeInv, ChangesAreOver
      <4>. QED
        BY <2>1, <3>1, <4>1
    <3>2. CASE table[i] \in found
      <4>. PICK change \in found : change = table[i]
        BY <3>2
      <4>1. change.type = "content_changed" => change.row \in rows /\ change.row \in DOMAIN evidence
        BY <1>2
      <4>. QED
        BY <1>3, <2>1, <2>3, <4>1
    <3>. QED
      BY <1>8, <3>1, <3>2
  <2>5. \A i \in DOMAIN changes' : Subjects(changes[i])' = Subjects(table[i])
    BY DEF Subjects
  <2>. QED
    BY <1>1, <1>8, <2>2, <2>4, <2>5 DEF ChangesAreOver
<1>17. ReportsAreFew'
  <2>1. \A d \in Collectors : pass'[d].saved \subseteq pass[d].saved
    BY <1>1
  <2>. QED
    BY <1>1, <2>1, ReportsStay
<1>. QED
  BY <1>12, <1>13, <1>14, <1>15, <1>16, <1>17 DEF KnowledgeInv

(* A hypothesis starts without a report.                                   *)
FreshRow == [confidence : Nat, rows : SUBSET Nat, fresh : {TRUE}, reports : {0}]

LEMMA HypothesisIs ==
    ASSUME NEW confidence \in Nat, NEW rows \in SUBSET Nat
    PROVE  Hypothesis(confidence, rows) \in FreshRow
BY DEF Hypothesis, FreshRow

LEMMA FunctionIsSeq ==
    ASSUME NEW A, NEW n \in Nat, NEW f, f = [i \in 1 .. n |-> f[i]], \A i \in 1 .. n : f[i] \in A
    PROVE  f \in Seq(A)
<1>1. f \in [1 .. n -> A]
  OBVIOUS
<1>. QED
  BY <1>1

LEMMA ProposedIs ==
    ASSUME KnowledgeAssumption, KnowledgeInv, NEW c \in Collectors, loop[c].pc \notin Unstarted,
           NEW answer \in OracleAnswers
    PROVE  Proposed(c, answer) \in Seq(FreshRow)
<1>1. PICK rows : rows = ToSet(loop[c].new) /\ rows \in SUBSET Nat /\ IsFiniteSet(rows)
  BY PassFinds
<1>2. PICK linking : linking = SetToSeq(Linking(c))
  OBVIOUS
<1>3. PICK changed : changed = SetToSeq(PageChanges(c))
  OBVIOUS
<1>4. linking \in Seq(rows)
  <2>1. Linking(c) \subseteq rows
    BY <1>1 DEF Linking
  <2>2. IsFiniteSet(Linking(c))
    BY <1>1, <2>1, FS_Subset
  <2>3. linking \in Seq(Linking(c))
    BY <1>2, <2>2, SetToSeqIs
  <2>4. Seq(Linking(c)) \subseteq Seq(rows)
    BY <2>1, SeqMonotonic
  <2>. QED
    BY <2>3, <2>4
<1>5. PICK pages : pages = PageChanges(c)
  OBVIOUS
<1>6. changed \in Seq(pages) /\ \A change \in pages : change.row \in Nat
  <2>1. IsFiniteSet(pages) /\ \A change \in pages : change.row \in rows
    BY <1>1, <1>5, PassFinds
  <2>2. SetToSeq(pages) \in Seq(pages)
    BY <2>1, SetToSeqIs
  <2>. QED
    BY <1>1, <1>3, <1>5, <2>1, <2>2
<1>7. answer \in Seq(0 .. 10)
  BY DEF KnowledgeAssumption
<1>8. \A row \in rows : Strength(c, row) \in Nat
  <2>. SUFFICES ASSUME NEW row \in rows PROVE Strength(c, row) \in Nat
    OBVIOUS
  <2>1. PICK acting : acting = CreatedIn(c, row) \cap Actors
    OBVIOUS
  <2>2. acting \subseteq KeysCreated(c)
    BY <2>1 DEF CreatedIn, KeysCreated
  <2>3. IsFiniteSet(KeysCreated(c))
    BY PassFinds
  <2>4. IsFiniteSet(acting)
    BY <2>2, <2>3, FS_Subset
  <2>5. PICK n : n = 5 + Cardinality(acting) /\ n \in Nat
    BY <2>4, FS_CardinalityType
  <2>6. Strength(c, row) = IF n > 9 THEN 9 ELSE n
    BY <2>1, <2>5 DEF Strength
  <2>. QED
    BY <2>5, <2>6
<1>9. PICK first, second, third :
        /\ first = [i \in DOMAIN linking |-> Hypothesis(Strength(c, linking[i]), {linking[i]})]
        /\ second = [i \in DOMAIN changed |-> Hypothesis(6, {changed[i].row})]
        /\ third = [i \in DOMAIN answer |-> Hypothesis(answer[i], rows)]
  OBVIOUS
<1>10. first \in Seq(FreshRow)
  <2>1. PICK n \in Nat : DOMAIN linking = 1 .. n
    BY <1>4
  <2>2. \A i \in 1 .. n : linking[i] \in rows /\ Strength(c, linking[i]) \in Nat /\ {linking[i]} \in SUBSET Nat
    BY <1>1, <1>4, <1>8, <2>1
  <2>3. first = [i \in 1 .. n |-> first[i]] /\ \A i \in 1 .. n : first[i] = Hypothesis(Strength(c, linking[i]), {linking[i]})
    BY <1>9, <2>1
  <2>4. \A i \in 1 .. n : first[i] \in FreshRow
    BY <2>2, <2>3, HypothesisIs
  <2>. QED
    BY <2>3, <2>4, FunctionIsSeq
<1>11. second \in Seq(FreshRow)
  <2>1. PICK n \in Nat : DOMAIN changed = 1 .. n
    BY <1>6
  <2>2. \A i \in 1 .. n : {changed[i].row} \in SUBSET Nat
    BY <1>6, <2>1
  <2>3. second = [i \in 1 .. n |-> second[i]] /\ \A i \in 1 .. n : second[i] = Hypothesis(6, {changed[i].row})
    BY <1>9, <2>1
  <2>4. ASSUME NEW i \in 1 .. n PROVE second[i] \in FreshRow
    <3>1. PICK on : on = {changed[i].row} /\ on \in SUBSET Nat
      BY <2>2
    <3>2. Hypothesis(6, on) \in FreshRow
      BY <3>1, HypothesisIs
    <3>. QED
      BY <2>3, <3>1, <3>2
  <2>. QED
    BY <2>3, <2>4, FunctionIsSeq
<1>12. third \in Seq(FreshRow)
  <2>1. PICK n \in Nat : DOMAIN answer = 1 .. n
    BY <1>7
  <2>2. \A i \in 1 .. n : answer[i] \in Nat
    BY <1>7, <2>1
  <2>3. third = [i \in 1 .. n |-> third[i]] /\ \A i \in 1 .. n : third[i] = Hypothesis(answer[i], rows)
    BY <1>9, <2>1
  <2>4. \A i \in 1 .. n : third[i] \in FreshRow
    BY <1>1, <2>2, <2>3, HypothesisIs
  <2>. QED
    BY <2>3, <2>4, FunctionIsSeq
<1>13. Proposed(c, answer) = first \o second \o third
  BY <1>1, <1>2, <1>3, <1>9 DEF Proposed
<1>. QED
  BY <1>10, <1>11, <1>12, <1>13

LEMMA Proposes ==
    ASSUME KnowledgeAssumption, KnowledgeInv, NEW c \in Collectors, Propose(c)
    PROVE  KnowledgeInv'
<1>1. /\ UNCHANGED <<evidence, entities, relations, changes, reporter, dots, clock>>
      /\ loop[c].pc = "propose" /\ loop[c].pc \in InPass /\ loop[c].pc \notin Unstarted
      /\ Storing /\ Goto(c, "report") /\ "report" \in InPass
      /\ loop[c].pc \in Detected /\ "report" \in Detected
  BY DEF Propose, Storing, InPass, Detected, Unstarted
<1>2. PICK old, proposed : /\ old = hypotheses /\ proposed \in Seq(FreshRow)
                           /\ hypotheses' = old \o proposed
                           /\ pass' = [pass EXCEPT ![c].saved = {Len(old) + i : i \in DOMAIN proposed}]
  <2>1. PICK answer \in OracleAnswers :
          /\ hypotheses' = Saved(Proposed(c, answer))
          /\ pass' = [pass EXCEPT ![c].saved = {Len(hypotheses) + i : i \in DOMAIN Proposed(c, answer)}]
    BY DEF Propose
  <2>2. PICK proposed : proposed = Proposed(c, answer)
    OBVIOUS
  <2>3. proposed \in Seq(FreshRow)
    BY <1>1, <2>2, ProposedIs
  <2>4. /\ hypotheses' = hypotheses \o proposed
        /\ pass' = [pass EXCEPT ![c].saved = {Len(hypotheses) + i : i \in DOMAIN proposed}]
    BY <2>1, <2>2 DEF Saved
  <2>. QED
    BY <2>3, <2>4
<1>3. PICK saved : saved = {Len(old) + i : i \in DOMAIN proposed}
  OBVIOUS
<1>4. PICK table : table = hypotheses'
  OBVIOUS
<1>5. /\ table \in Seq(HypothesisRow)
      /\ \A h \in DOMAIN old : h \in DOMAIN table /\ table[h] = old[h]
      /\ \A h \in saved : h \in DOMAIN table /\ table[h].reports = 0
      /\ \A h \in DOMAIN table : h \in DOMAIN old \/ h \in saved
      /\ saved \cap DOMAIN old = {} /\ saved \subseteq Nat
  <2>1. old \in Seq(HypothesisRow) /\ proposed \in Seq(HypothesisRow)
    <3>1. FreshRow \subseteq HypothesisRow
      <4>. SUFFICES ASSUME NEW row \in FreshRow PROVE row \in HypothesisRow
        OBVIOUS
      <4>1. /\ row = [confidence |-> row.confidence, rows |-> row.rows, fresh |-> TRUE, reports |-> 0]
            /\ row.confidence \in Nat /\ row.rows \in SUBSET Nat
        BY DEF FreshRow
      <4>2. ASSUME NEW confidence \in Nat, NEW rows \in SUBSET Nat
            PROVE  [confidence |-> confidence, rows |-> rows, fresh |-> TRUE, reports |-> 0] \in HypothesisRow
        <5>. TRUE \in BOOLEAN /\ 0 \in Nat
          OBVIOUS
        <5>. QED
          BY DEF HypothesisRow
      <4>. QED
        BY <4>1, <4>2
    <3>2. Seq(FreshRow) \subseteq Seq(HypothesisRow)
      BY <3>1, SeqMonotonic
    <3>. QED
      BY <1>2, <3>2 DEF KnowledgeInv, KnowledgeTypes
  <2>2. old \o proposed \in Seq(HypothesisRow) /\ Len(old) \in Nat
    BY <2>1, Concatenated
  <2>3. \A i \in DOMAIN old : i \in DOMAIN (old \o proposed) /\ (old \o proposed)[i] = old[i]
    BY <2>1, Concatenated
  <2>4. \A i \in DOMAIN proposed :
          Len(old) + i \in DOMAIN (old \o proposed) /\ (old \o proposed)[Len(old) + i] = proposed[i]
    BY <2>1, Concatenated
  <2>5. \A i \in DOMAIN (old \o proposed) : i \in DOMAIN old \/ \E j \in DOMAIN proposed : i = Len(old) + j
    BY <2>1, Concatenated
  <2>6. table = old \o proposed
    BY <1>2, <1>4
  <2>7. \A i \in DOMAIN proposed : proposed[i].reports = 0
    <3>1. \A i \in DOMAIN proposed : proposed[i] \in FreshRow
      BY <1>2
    <3>. QED
      BY <3>1 DEF FreshRow
  <2>8. saved \cap DOMAIN old = {} /\ saved \subseteq Nat
    <3>1. DOMAIN old = 1 .. Len(old) /\ \A i \in DOMAIN proposed : i \in Nat /\ i >= 1
      BY <2>1
    <3>. QED
      BY <1>3, <2>2, <3>1
  <2>. QED
    BY <1>3, <2>2, <2>3, <2>4, <2>5, <2>6, <2>7, <2>8
<1>6. PICK row : row = [pass[c] EXCEPT !.saved = saved]
  OBVIOUS
<1>7. /\ row \in PassRow /\ row.item = pass[c].item /\ row.mention = pass[c].mention
      /\ row.created = pass[c].created /\ row.saved = saved
  BY <1>5, <1>6 DEF KnowledgeInv, KnowledgeTypes, PassRow
<1>8. pass' = [pass EXCEPT ![c] = row]
  BY <1>2, <1>3, <1>6
<1>9. entities' \in [Keys -> Nat] /\ changes' \in Seq(Change) /\ hypotheses' \in Seq(HypothesisRow)
  BY <1>1, <1>4, <1>5 DEF KnowledgeInv, KnowledgeTypes
<1>10. /\ KnowledgeTypes' /\ RowsGrow /\ SourcesDiffer'
       /\ \A d \in Collectors : LoopIs(d)'
       /\ \A d \in Collectors : d # c => loop'[d] = loop[d] /\ pass'[d] = pass[d] /\ PassIs(d)'
       /\ loop'[c].pc = "report" /\ loop'[c].new = loop[c].new /\ pass'[c] = row
       /\ \A d \in Collectors : loop'[d].new = loop[d].new
       /\ \A d \in Collectors : \A k \in Keys :
            d # c => Unresolved(d, k)' \cap DOMAIN evidence \subseteq Unresolved(d, k)
  BY <1>1, <1>7, <1>8, <1>9, PassMoves
<1>11. PassIs(c)'
  <2>1. IsFiniteSet(pass[c].created)
    BY DEF KnowledgeInv, PassIs
  <2>. QED
    BY <1>7, <1>10, <2>1 DEF PassIs, Unstarted
<1>12. SightingsAreCounted'
  <2>1. \A k \in Keys : Unresolved(c, k)' \subseteq Unresolved(c, k)
    BY <1>7, <1>10, UnresolvedStay DEF KnowledgeInv
  <2>2. \A d \in Collectors : \A k \in Keys : Unresolved(d, k)' \cap DOMAIN evidence \subseteq Unresolved(d, k)
    BY <1>10, <2>1
  <2>3. \A d \in Collectors : loop'[d].pc = "save" =>
          loop[d].pc = "save" /\ loop'[d].new = loop[d].new /\ pass'[d] = pass[d]
    BY <1>10
  <2>. QED
    BY <1>1, <1>10, <2>2, <2>3, SightingsStay
<1>13. \A d \in Collectors : pass'[d].created = pass[d].created
  BY <1>7, <1>10
<1>14. CreatedOnce'
  BY <1>1, <1>13, CreatedStay
<1>15. ChangesAreOver'
  <2>1. \A d \in Collectors : loop'[d].pc \notin Detected => loop[d].pc \notin Detected
    BY <1>1, <1>10
  <2>2. \A d \in Collectors : ToSet(loop'[d].new) = ToSet(loop[d].new) /\ KeysCreated(d)' = KeysCreated(d)
    BY <1>10, <1>13 DEF KeysCreated
  <2>. QED
    BY <1>1, <1>10, <2>1, <2>2, ChangesStay
<1>16. ReportsAreFew'
  <2>1. \A d \in Collectors : pass[d].saved \subseteq DOMAIN old
    BY <1>2 DEF KnowledgeInv, ReportsAreFew
  <2>2. pass[c].saved = {}
    BY <1>1 DEF KnowledgeInv, PassIs
  <2>3. /\ pass'[c].saved = saved
        /\ \A d \in Collectors : d # c => pass'[d].saved = pass[d].saved
    BY <1>7, <1>10
  <2>4. reporter' = reporter /\ reporter.confirmed \subseteq DOMAIN old
    BY <1>1, <1>2 DEF KnowledgeInv, ReportsAreFew
  <2>5. /\ \A d \in Collectors : pass'[d].saved \subseteq DOMAIN table
        /\ reporter'.confirmed \subseteq DOMAIN table
    BY <1>5, <2>1, <2>3, <2>4
  <2>6. \A d, e \in Collectors : d # e => pass'[d].saved \cap pass'[e].saved = {}
    <3>1. \A d, e \in Collectors : d # e => pass[d].saved \cap pass[e].saved = {}
      BY DEF KnowledgeInv, ReportsAreFew
    <3>2. \A d \in Collectors : d # c => pass[d].saved \cap saved = {}
      BY <1>5, <2>1
    <3>. QED
      BY <2>3, <3>1, <3>2
  <2>7. ASSUME NEW h \in DOMAIN table
        PROVE  /\ table[h].reports <= 2
               /\ OwnReport(h)' => table[h].reports <= 1
               /\ TickReport(h)' => table[h].reports <= 1
               /\ OwnReport(h)' /\ TickReport(h)' => table[h].reports = 0
               /\ table[h].fresh => table[h].reports = 0
    <3>1. CASE h \in saved
      BY <1>5, <3>1
    <3>2. CASE h \in DOMAIN old
      <4>1. (OwnReport(h)' => OwnReport(h)) /\ (TickReport(h)' => TickReport(h))
        BY <1>5, <2>3, <2>4, <3>2 DEF OwnReport, TickReport
      <4>2. table[h] = old[h]
        BY <1>5, <3>2
      <4>3. /\ old[h].reports <= 2
            /\ OwnReport(h) => old[h].reports <= 1
            /\ TickReport(h) => old[h].reports <= 1
            /\ OwnReport(h) /\ TickReport(h) => old[h].reports = 0
            /\ old[h].fresh => old[h].reports = 0
        BY <1>2, <3>2 DEF KnowledgeInv, ReportsAreFew
      <4>. QED
        BY <4>1, <4>2, <4>3
    <3>. QED
      BY <1>5, <3>1, <3>2
  <2>. QED
    BY <1>4, <2>5, <2>6, <2>7 DEF ReportsAreFew
<1>. QED
  BY <1>10, <1>11, <1>12, <1>14, <1>15, <1>16 DEF KnowledgeInv

-----------------------------------------------------------------------------
(* The theorems.                                                           *)

LEMMA KnowledgeStarts ==
    ASSUME Init PROVE KnowledgeInv
<1>1. /\ evidence = << >> /\ clock = 1 /\ dots = NoPages
      /\ entities = [k \in Keys |-> 0] /\ relations = << >> /\ changes = << >> /\ hypotheses = << >>
      /\ pass = [c \in Collectors |-> NoPass] /\ reporter = NoTick
  BY DEF Init, CollectorsInit
<1>2. /\ loop \in [Collectors -> LoopRow]
      /\ \A c \in Collectors : loop[c].pc = "setup" /\ loop[c].new = << >>
  <2>1. PICK row : row = [AtRest EXCEPT !.pc = "setup"]
    OBVIOUS
  <2>2. row \in LoopRow /\ row.pc = "setup" /\ row.new = << >>
    BY <2>1, AtRestIs
  <2>3. loop = [c \in Collectors |-> row]
    BY <2>1 DEF Init, CollectorsInit
  <2>. QED
    BY <2>2, <2>3
<1>3. NoPass \in PassRow /\ NoPass.saved = {} /\ NoPass.created = {}
  BY DEF NoPass, PassRow
<1>4. KnowledgeTypes
  <2>1. evidence \in Seq(Row) /\ changes \in Seq(Change) /\ hypotheses \in Seq(HypothesisRow)
    BY <1>1
  <2>2. dots \in [seen : SUBSET Contents, adding : SUBSET Row]
    BY <1>1 DEF NoPages
  <2>. QED
    BY <1>1, <1>2, <1>3, <2>1, <2>2 DEF KnowledgeTypes
<1>5. ASSUME NEW c \in Collectors PROVE LoopIs(c) /\ PassIs(c)
  <2>1. LoopIs(c)
    BY <1>2 DEF LoopIs, IsInjective
  <2>2. IsFiniteSet({})
    BY FS_EmptySet
  <2>. QED
    BY <1>1, <1>2, <1>3, <2>1, <2>2 DEF PassIs
<1>6. SightingsAreCounted
  <2>1. \A k \in Keys : entities[k] = 0 /\ Cardinality(Counted(k)) \in Nat
    BY <1>1, <1>4, CountedIsFinite
  <2>2. \A k \in Keys : entities[k] <= Cardinality(Counted(k))
    BY <2>1
  <2>. QED
    BY <1>2, <2>2 DEF SightingsAreCounted
<1>7. CreatedOnce
  BY <1>1, <1>3 DEF CreatedOnce, KeysCreated
<1>8. ChangesAreOver
  BY <1>1 DEF ChangesAreOver, IsInjective
<1>9. ReportsAreFew
  BY <1>1, <1>3 DEF ReportsAreFew, NoTick
<1>10. SourcesDiffer
  BY <1>1, <1>2 DEF SourcesDiffer, NoPages
<1>. QED
  BY <1>4, <1>5, <1>6, <1>7, <1>8, <1>9, <1>10 DEF KnowledgeInv

LEMMA KnowledgeSteps ==
    ASSUME KnowledgeAssumption, CollectorsAssumption, KnowledgeInv, [Next]_vars
    PROVE  KnowledgeInv'
<1>1. ASSUME NEW c \in Collectors, (Setup(c) \/ Collect(c) \/ CollectFails(c)) /\ UNCHANGED knowledgeVars
      PROVE  KnowledgeInv'
  BY <1>1, SetsUp, Collects, CollectingFails
<1>2. ASSUME NEW c \in Collectors, Exists(c) /\ UNCHANGED knowledgeVars PROVE KnowledgeInv'
  BY <1>2, AsksWhetherStored
<1>3. ASSUME NEW c \in Collectors, Add(c) /\ UNCHANGED knowledgeVars PROVE KnowledgeInv'
  BY <1>3, Adds
<1>4. ASSUME NEW c \in Collectors, Extract(c) \/ Lookup(c) \/ SaveEntity(c) \/ Relate(c) PROVE KnowledgeInv'
  BY <1>4, Extracts, Looks, Saves, Relates
<1>5. ASSUME NEW c \in Collectors, Detect(c) \/ Propose(c) \/ ReportPass(c) PROVE KnowledgeInv'
  BY <1>5, Detects, Proposes, PassReported
<1>6. ASSUME NEW c \in Collectors, IngestFails(c) PROVE KnowledgeInv'
  BY <1>6, IngestEnds
<1>7. ASSUME NEW content \in Contents, Visit(content), UNCHANGED knowledgeVars PROVE KnowledgeInv'
  BY <1>7, Visits
<1>8. ASSUME NEW page \in dots.adding, Keep(page), UNCHANGED knowledgeVars PROVE KnowledgeInv'
  BY <1>8, Keeps
<1>9. CASE RunEnds /\ UNCHANGED knowledgeVars
  BY <1>9, DotsRunEnds
<1>10. CASE ReadConfirmed \/ CompareWithLatest \/ ReportTick \/ DotsReport \/ TickFails \/ Restart
  BY <1>10, ReadsConfirmed, ComparesTimes, TickReports, DotsAreReported, TickIsOver, AllBeginAgain
<1>11. CASE UNCHANGED vars
  BY <1>11, KnowledgeRests
<1>. QED
  BY <1>1, <1>2, <1>3, <1>4, <1>5, <1>6, <1>7, <1>8, <1>9, <1>10, <1>11 DEF Next, Ingest

LEMMA KnowledgeHolds ==
    ASSUME KnowledgeAssumption, CollectorsAssumption
    PROVE  Spec => []KnowledgeInv
<1>1. Init => KnowledgeInv
  BY KnowledgeStarts
<1>2. KnowledgeInv /\ [Next]_vars => KnowledgeInv'
  BY KnowledgeSteps
<1>. QED
  BY <1>1, <1>2, PTL DEF Spec

(* However passes interleave, and whatever is lost in faults and restarts, *)
(* an entity is never counted more often than there are stored items that  *)
(* mention it (entities/resolver.py, runtime.py _intelligence_pass).       *)
THEOREM SightingsAreOfItems == Spec => []SightingsAreReal
<1>1. KnowledgeInv => SightingsAreReal
  <2>. SUFFICES ASSUME KnowledgeInv, NEW k \in Keys
                PROVE  entities[k] <= Cardinality({i \in DOMAIN evidence : k \in ToSet(Mentions[evidence[i].content])})
    BY DEF SightingsAreReal
  <2>1. PICK C, M : C = Counted(k) /\ M = {i \in DOMAIN evidence : k \in ToSet(Mentions[evidence[i].content])}
    OBVIOUS
  <2>2. C \subseteq M
    BY <2>1 DEF Counted, MentionsIn
  <2>3. IsFiniteSet(M)
    <3>1. PICK n \in Nat : M \subseteq 1 .. n
      BY <2>1, KnowledgeShape DEF KnowledgeInv
    <3>2. IsFiniteSet(1 .. n)
      BY FS_Interval
    <3>. QED
      BY <3>1, <3>2, FS_Subset
  <2>4. IsFiniteSet(C) /\ Cardinality(C) <= Cardinality(M) /\ Cardinality(C) \in Nat /\ Cardinality(M) \in Nat
    BY <2>2, <2>3, FS_Subset, FS_CardinalityType
  <2>5. entities[k] <= Cardinality(C) /\ entities[k] \in Nat
    BY <2>1 DEF KnowledgeInv, KnowledgeTypes, SightingsAreCounted
  <2>6. entities[k] <= Cardinality(M)
    BY <2>4, <2>5
  <2>. QED
    BY <2>1, <2>6
<1>. QED
  BY <1>1, KnowledgeHolds, KnowledgeAssumption, CollectorsAssumption, PTL

(* What is new is news once: changes are recorded once, a hypothesis is    *)
(* named by at most two reports, and no source has two rows of a content   *)
(* (changes/detector.py, reports/generator.py, database/repository.py).    *)
THEOREM NewsIsNewOnce == Spec => []NewsOnce
<1>1. KnowledgeInv => NewsOnce
  BY DEF KnowledgeInv, ChangesAreOver, ReportsAreFew, SourcesDiffer, NewsOnce
<1>. QED
  BY <1>1, KnowledgeHolds, KnowledgeAssumption, CollectorsAssumption, PTL

-----------------------------------------------------------------------------
(* Research sessions.                                                      *)

(* The worker holds no run that was dropped.                               *)
TakenIsNotDropped == worker.run \notin dropped

(* The tables of the dots, in all that the sessions do not write.          *)
DotRow == Run(Sessions)

DotsAre ==
    /\ runs \in Seq(DotRow)
    /\ worker \in [pc : {"idle", "picked", "boundary", "round", "publish"},
                    run : 0 .. Len(runs), round : 0 .. Rounds]
    /\ (worker.pc = "idle") = (worker.run = 0)
    /\ worker.pc = "round" => worker.round < Rounds
    /\ alive \subseteq Ticks
    /\ watches \in [Watches -> [enabled : BOOLEAN, due : BOOLEAN]]
    /\ queueing \in [Requesters -> [pc : {"idle", "enqueue", "mark"}, watch : Watches \cup {Nothing}]]
    /\ \A a \in Requesters : queueing[a].pc # "idle" => queueing[a].watch \in Watches
    /\ patching \in [watch : Watches \cup {Nothing}, late : BOOLEAN]
    /\ cancelling \in 0 .. Len(runs)
    /\ dropped \subseteq DOMAIN runs
    /\ events \in 0 .. MaxEvents
    /\ DroppedStaysOff /\ TakenIsNotDropped

SessionRow == [status : {"none"} \cup Open \cup Settled, planned : Seq(Topics), rounds : 0 .. MaxRounds]

CoordIs ==
    /\ coord \in [pc : {"idle", "plan", "enqueue_first", "look", "enqueue", "decide", "finish"},
                   session : Sessions \cup {0}, angle : Topics \cup {Nothing}, done : BOOLEAN]
    /\ coord.pc # "idle" => coord.session \in Sessions /\ sessions[coord.session].status # "none"
    /\ coord.pc \in {"enqueue", "enqueue_first"} => coord.angle \in Range(Planned)

SessionsAre ==
    /\ sessions \in [Sessions -> SessionRow]
    /\ stopping \in Sessions \cup {0}
    /\ stopping # 0 => sessions[stopping].status # "none"
    /\ CoordIs

(* Sessions are asked for and worked on in their order.                    *)
OrderIs ==
    /\ \A s, t \in Sessions : t < s /\ sessions[s].status # "none" => sessions[t].status # "none"
    /\ \A s, t \in Sessions : t < s /\ sessions[s].status = "running" => sessions[t].status \in Settled
    /\ coord.pc # "idle" =>
         \A t \in Sessions : /\ t < Session => sessions[t].status \in Settled
                             /\ sessions[t].status = "running" => t = Session

(* What a session's runs are runs of.                                      *)
RunsArePlanned ==
    /\ \A s \in Sessions : sessions[s].status \in {"none", "queued"} => RunsOf(s) = {}
    /\ coord.pc \in {"plan", "enqueue_first"} => RunsOf(Session) = {}
    /\ coord.pc \notin {"idle", "plan"} => sessions[Session].status # "queued"
    /\ \A s \in Sessions : \A r \in RunsOf(s) :
         \E angle \in Range(sessions[s].planned) : runs[r].topic = Stripped(angle)

(* While the tick has seen that no run is unfinished, none is queued.      *)
NoneWaits ==
    coord.pc \in {"enqueue", "enqueue_first", "decide", "finish"} =>
      \A r \in RunsOf(Session) : runs[r].status # "queued"

(* What the tick has seen of the attempts at an angle, or at every angle.  *)
AttemptsAre ==
    /\ coord.pc = "enqueue" =>
         \/ Investigated(Session, Stripped(coord.angle)) < Attempts
         \/ Misnamed(Session, Stripped(coord.angle))
    /\ coord.pc \in {"decide", "finish"} =>
         \A i \in DOMAIN Planned : AttemptsAt(Planned[i]) # {}

ResearchInv ==
    /\ DotsAre /\ SessionsAre /\ OrderIs /\ RunsArePlanned /\ NoneWaits /\ AttemptsAre
    /\ OneWaitingRun /\ EveryAngleTried

(* What every step but the coordinator's own does with the rows of runs.   *)
RunsGo ==
    /\ Len(runs') >= Len(runs)
    /\ \A r \in DOMAIN runs : /\ runs'[r].owner = runs[r].owner /\ runs'[r].topic = runs[r].topic
                              /\ runs'[r].status = "queued" => runs[r].status = "queued"
    /\ \A r \in DOMAIN runs' : r \notin DOMAIN runs => runs'[r].owner \notin Sessions

LEMMA RunRows ==
    ASSUME runs \in Seq(DotRow)
    PROVE  /\ Len(runs) \in Nat /\ DOMAIN runs = 1 .. Len(runs)
           /\ \A r \in DOMAIN runs : /\ runs[r] \in DotRow
                                     /\ runs[r].owner \in Sessions \cup Watches \cup {Nothing}
                                     /\ runs[r].topic \in Topics
                                     /\ runs[r].status \in Unfinished \cup Settled
<1>1. Len(runs) \in Nat /\ DOMAIN runs = 1 .. Len(runs) /\ \A r \in DOMAIN runs : runs[r] \in DotRow
  OBVIOUS
<1>2. \A row \in DotRow : /\ row.owner \in Sessions \cup Watches \cup {Nothing} /\ row.topic \in Topics
                          /\ row.status \in Unfinished \cup Settled
  BY DEF DotRow, Run
<1> QED
  BY <1>1, <1>2

LEMMA StatusSaved ==
    ASSUME runs \in Seq(DotRow), NEW r \in DOMAIN runs, NEW status \in Unfinished \cup Settled,
           status # "queued", SaveStatus(r, status)
    PROVE  /\ runs' \in Seq(DotRow) /\ Len(runs') = Len(runs) /\ DOMAIN runs' = DOMAIN runs
           /\ runs'[r].status = status
           /\ \A q \in DOMAIN runs : q # r => runs'[q] = runs[q]
           /\ RunsGo
<1> DEFINE row == [runs[r] EXCEPT !.status = status]
<1>1. runs[r] \in DotRow /\ DOMAIN runs = 1 .. Len(runs) /\ Len(runs) \in Nat
  BY RunRows
<1>2. row \in DotRow /\ row.status = status /\ row.owner = runs[r].owner /\ row.topic = runs[r].topic
  BY <1>1 DEF DotRow, Run
<1>3. runs' = [runs EXCEPT ![r] = row]
  BY DEF SaveStatus
<1> HIDE DEF row
<1>4. /\ runs' \in Seq(DotRow) /\ Len(runs') = Len(runs) /\ DOMAIN runs' = DOMAIN runs
      /\ runs'[r] = row /\ \A q \in DOMAIN runs : q # r => runs'[q] = runs[q]
  BY <1>1, <1>2, <1>3
<1> QED
  BY <1>1, <1>2, <1>4 DEF RunsGo

LEMMA RunQueued ==
    ASSUME runs \in Seq(DotRow), NEW topic \in Topics, NEW owner \in Sessions \cup Watches \cup {Nothing},
           Enqueue(topic, owner)
    PROVE  /\ runs' \in Seq(DotRow) /\ Len(runs') = Len(runs) + 1
           /\ DOMAIN runs' = DOMAIN runs \cup {Len(runs) + 1} /\ Len(runs) + 1 \notin DOMAIN runs
           /\ \A q \in DOMAIN runs : runs'[q] = runs[q]
           /\ runs'[Len(runs) + 1] = NewRun(topic, owner)
           /\ owner \notin Sessions => RunsGo
<1>1. NewRun(topic, owner) \in DotRow /\ NewRun(topic, owner).owner = owner
  BY DEF NewRun, DotRow, Run, Unfinished
<1>2. runs' = Append(runs, NewRun(topic, owner)) /\ DOMAIN runs = 1 .. Len(runs) /\ Len(runs) \in Nat
  BY RunRows DEF Enqueue
<1>3. /\ runs' \in Seq(DotRow) /\ Len(runs') = Len(runs) + 1
      /\ DOMAIN runs' = DOMAIN runs \cup {Len(runs) + 1} /\ Len(runs) + 1 \notin DOMAIN runs
      /\ \A q \in DOMAIN runs : runs'[q] = runs[q]
      /\ runs'[Len(runs) + 1] = NewRun(topic, owner)
  BY <1>1, <1>2
<1> QED
  BY <1>1, <1>2, <1>3 DEF RunsGo

LEMMA RunsStandStill ==
    ASSUME runs' = runs
    PROVE  RunsGo
BY DEF RunsGo

LEMMA BeginKeeps ==
    ASSUME DotsAre, Begin
    PROVE  DotsAre' /\ RunsGo
<1>1. /\ worker.run \in DOMAIN runs /\ SaveStatus(worker.run, "running")
      /\ runs \in Seq(DotRow) /\ Len(runs) \in Nat /\ DOMAIN runs = 1 .. Len(runs)
  BY RunRows, DotsAssumption DEF DotsAre, Begin
<1>2. /\ runs' \in Seq(DotRow) /\ Len(runs') = Len(runs) /\ DOMAIN runs' = DOMAIN runs
      /\ runs'[worker.run].status = "running"
      /\ \A q \in DOMAIN runs : q # worker.run => runs'[q] = runs[q]
      /\ RunsGo
  BY <1>1, StatusSaved DEF Unfinished, Settled
<1> QED
  BY <1>1, <1>2, DotsAssumption DEF DotsAre, DroppedStaysOff, TakenIsNotDropped, Begin, watchVars, Off

LEMMA SaveRoundKeeps ==
    ASSUME DotsAre, SaveRound
    PROVE  DotsAre' /\ RunsGo
<1>1. /\ worker.run \in DOMAIN runs /\ SaveStatus(worker.run, "running")
      /\ runs \in Seq(DotRow) /\ Len(runs) \in Nat /\ DOMAIN runs = 1 .. Len(runs)
  BY RunRows, DotsAssumption DEF DotsAre, SaveRound
<1>2. /\ runs' \in Seq(DotRow) /\ Len(runs') = Len(runs) /\ DOMAIN runs' = DOMAIN runs
      /\ runs'[worker.run].status = "running"
      /\ \A q \in DOMAIN runs : q # worker.run => runs'[q] = runs[q]
      /\ RunsGo
  BY <1>1, StatusSaved DEF Unfinished, Settled
<1>3. worker' = [pc |-> "boundary", run |-> worker.run, round |-> worker.round + 1]
  BY DEF DotsAre, SaveRound
<1>4. worker.round + 1 \in 0 .. Rounds /\ worker.run \in 0 .. Len(runs) /\ worker.run # 0
  BY <1>1, DotsAssumption DEF DotsAre, SaveRound
<1>5. DroppedStaysOff' /\ TakenIsNotDropped'
  BY <1>1, <1>2, <1>3 DEF DotsAre, DroppedStaysOff, TakenIsNotDropped, SaveRound
<1>6. UNCHANGED <<alive, watches, queueing, patching, cancelling, dropped, events>>
  BY DEF SaveRound, watchVars
<1> QED
  BY <1>2, <1>3, <1>4, <1>5, <1>6 DEF DotsAre

LEMMA CompleteKeeps ==
    ASSUME DotsAre, Complete
    PROVE  DotsAre' /\ RunsGo
<1>1. /\ worker.run \in DOMAIN runs /\ SaveStatus(worker.run, "completed")
      /\ runs \in Seq(DotRow) /\ Len(runs) \in Nat /\ DOMAIN runs = 1 .. Len(runs)
  BY RunRows, DotsAssumption DEF DotsAre, Complete
<1>2. /\ runs' \in Seq(DotRow) /\ Len(runs') = Len(runs) /\ DOMAIN runs' = DOMAIN runs
      /\ runs'[worker.run].status = "completed"
      /\ \A q \in DOMAIN runs : q # worker.run => runs'[q] = runs[q]
      /\ RunsGo
  BY <1>1, StatusSaved DEF Unfinished, Settled
<1> QED
  BY <1>1, <1>2, DotsAssumption DEF DotsAre, DroppedStaysOff, TakenIsNotDropped, Complete, watchVars, Off

LEMMA FailKeeps ==
    ASSUME DotsAre, Fail
    PROVE  DotsAre' /\ RunsGo
<1>1. /\ worker.run \in DOMAIN runs /\ SaveStatus(worker.run, "failed")
      /\ runs \in Seq(DotRow) /\ Len(runs) \in Nat /\ DOMAIN runs = 1 .. Len(runs)
  BY RunRows, DotsAssumption DEF DotsAre, Fail, Event
<1>2. /\ runs' \in Seq(DotRow) /\ Len(runs') = Len(runs) /\ DOMAIN runs' = DOMAIN runs
      /\ runs'[worker.run].status = "failed"
      /\ \A q \in DOMAIN runs : q # worker.run => runs'[q] = runs[q]
      /\ RunsGo
  BY <1>1, StatusSaved DEF Unfinished, Settled
<1> QED
  BY <1>1, <1>2, DotsAssumption DEF DotsAre, DroppedStaysOff, TakenIsNotDropped, Fail, Event, watchVars, Off

LEMMA CancelKeeps ==
    ASSUME DotsAre, CancelSave
    PROVE  DotsAre' /\ RunsGo
<1>1. /\ cancelling \in DOMAIN runs /\ SaveStatus(cancelling, "cancelled")
      /\ runs \in Seq(DotRow) /\ Len(runs) \in Nat /\ DOMAIN runs = 1 .. Len(runs)
  BY RunRows, DotsAssumption DEF DotsAre, CancelSave, NotTaken
<1>2. /\ runs' \in Seq(DotRow) /\ Len(runs') = Len(runs) /\ DOMAIN runs' = DOMAIN runs
      /\ runs'[cancelling].status = "cancelled"
      /\ \A q \in DOMAIN runs : q # cancelling => runs'[q] = runs[q]
      /\ RunsGo
  BY <1>1, StatusSaved DEF Unfinished, Settled
<1> QED
  BY <1>1, <1>2, DotsAssumption DEF DotsAre, DroppedStaysOff, TakenIsNotDropped, CancelSave, NotTaken, watchVars, Off

LEMMA PickKeeps ==
    ASSUME DotsAre, NEW r \in DOMAIN runs, Pick(r)
    PROVE  DotsAre' /\ RunsGo
<1>1. runs' = runs /\ RunsGo /\ Len(runs) \in Nat /\ DOMAIN runs = 1 .. Len(runs)
  BY RunRows DEF DotsAre, RunsGo, Pick, NewestQueued
<1> QED
  BY <1>1, DotsAssumption DEF DotsAre, DroppedStaysOff, TakenIsNotDropped, Pick, NewestQueued, watchVars, Off

LEMMA ObeyKeeps ==
    ASSUME DotsAre, ObeyCancel
    PROVE  DotsAre' /\ RunsGo
<1>1. runs' = runs /\ RunsGo /\ Len(runs) \in Nat /\ DOMAIN runs = 1 .. Len(runs)
  BY RunRows DEF DotsAre, RunsGo, ObeyCancel
<1> QED
  BY <1>1, DotsAssumption DEF DotsAre, DroppedStaysOff, TakenIsNotDropped, ObeyCancel, watchVars, Off

LEMMA StartKeeps ==
    ASSUME DotsAre, StartRound
    PROVE  DotsAre' /\ RunsGo
<1>1. runs' = runs /\ RunsGo /\ Len(runs) \in Nat /\ DOMAIN runs = 1 .. Len(runs)
  BY RunRows DEF DotsAre, RunsGo, StartRound
<1> QED
  BY <1>1, DotsAssumption DEF DotsAre, DroppedStaysOff, TakenIsNotDropped, StartRound, watchVars, Off

LEMMA PublishKeeps ==
    ASSUME DotsAre, Publish
    PROVE  DotsAre' /\ RunsGo
<1>1. runs' = runs /\ RunsGo /\ Len(runs) \in Nat /\ DOMAIN runs = 1 .. Len(runs)
  BY RunRows DEF DotsAre, RunsGo, Publish
<1> QED
  BY <1>1, DotsAssumption DEF DotsAre, DroppedStaysOff, TakenIsNotDropped, Publish, watchVars, Off

LEMMA DiesKeeps ==
    ASSUME DotsAre, NEW t \in Ticks, TickDies(t)
    PROVE  DotsAre' /\ RunsGo
<1>1. runs' = runs /\ RunsGo /\ Len(runs) \in Nat /\ DOMAIN runs = 1 .. Len(runs)
  BY RunRows DEF DotsAre, RunsGo, TickDies, Event, NotQueueing, Requesters, Ticks
<1> QED
  BY <1>1, DotsAssumption DEF DotsAre, DroppedStaysOff, TakenIsNotDropped, TickDies, Event, NotQueueing, Requesters, Ticks, watchVars, Off

LEMMA CancelReadKeeps ==
    ASSUME DotsAre, NEW r \in DOMAIN runs, CancelRead(r)
    PROVE  DotsAre' /\ RunsGo
<1>1. runs' = runs /\ RunsGo /\ Len(runs) \in Nat /\ DOMAIN runs = 1 .. Len(runs)
  BY RunRows DEF DotsAre, RunsGo, CancelRead, Event
<1> QED
  BY <1>1, DotsAssumption DEF DotsAre, DroppedStaysOff, TakenIsNotDropped, CancelRead, Event, watchVars, Off

LEMMA DueKeeps ==
    ASSUME DotsAre, NEW w \in Watches, ComesDue(w)
    PROVE  DotsAre' /\ RunsGo
<1>1. runs' = runs /\ RunsGo /\ Len(runs) \in Nat /\ DOMAIN runs = 1 .. Len(runs)
  BY RunRows DEF DotsAre, RunsGo, ComesDue, Event
<1>2. watches' \in [Watches -> [enabled : BOOLEAN, due : BOOLEAN]]
  <2>1. watches[w] \in [enabled : BOOLEAN, due : BOOLEAN] /\ watches' = [watches EXCEPT ![w] = [@ EXCEPT !.due = TRUE]]
    BY DEF DotsAre, ComesDue
  <2> QED
    BY <2>1 DEF DotsAre
<1>3. events' \in 0 .. MaxEvents
  BY DotsAssumption DEF DotsAre, ComesDue, Event
<1> QED
  BY <1>1, <1>2, <1>3 DEF DotsAre, DroppedStaysOff, TakenIsNotDropped, ComesDue

LEMMA TakeKeeps ==
    ASSUME DotsAre, NEW a \in Requesters, NEW w \in Watches, TakeWatch(a, w)
    PROVE  DotsAre' /\ RunsGo
<1>1. runs' = runs /\ RunsGo /\ Len(runs) \in Nat /\ DOMAIN runs = 1 .. Len(runs)
  BY RunRows DEF DotsAre, RunsGo, TakeWatch, Event, Requesters
<1> QED
  BY <1>1, DotsAssumption DEF DotsAre, DroppedStaysOff, TakenIsNotDropped, TakeWatch, Event, Requesters, watchVars, Off

LEMMA MarkKeeps ==
    ASSUME DotsAre, NEW a \in Requesters, MarkQueued(a)
    PROVE  DotsAre' /\ RunsGo
<1>1. runs' = runs /\ RunsGo /\ Len(runs) \in Nat /\ DOMAIN runs = 1 .. Len(runs)
  BY RunRows DEF DotsAre, RunsGo, MarkQueued, NotQueueing, Requesters
<1> QED
  BY <1>1, DotsAssumption DEF DotsAre, DroppedStaysOff, TakenIsNotDropped, MarkQueued, NotQueueing, Requesters, watchVars, Off

LEMMA PatchReadKeeps ==
    ASSUME DotsAre, NEW w \in Watches, PatchRead(w)
    PROVE  DotsAre' /\ RunsGo
<1>1. runs' = runs /\ RunsGo /\ Len(runs) \in Nat /\ DOMAIN runs = 1 .. Len(runs)
  BY RunRows DEF DotsAre, RunsGo, PatchRead, Event
<1> QED
  BY <1>1, DotsAssumption DEF DotsAre, DroppedStaysOff, TakenIsNotDropped, PatchRead, Event, watchVars, Off

LEMMA PatchSaveKeeps ==
    ASSUME DotsAre, NEW on \in BOOLEAN, PatchSave(on)
    PROVE  DotsAre' /\ RunsGo
<1>1. runs' = runs /\ RunsGo /\ Len(runs) \in Nat /\ DOMAIN runs = 1 .. Len(runs)
  BY RunRows DEF DotsAre, RunsGo, PatchSave, NotPatching
<1> QED
  BY <1>1, DotsAssumption DEF DotsAre, DroppedStaysOff, TakenIsNotDropped, PatchSave, NotPatching, watchVars, Off

LEMMA StartDotsKeeps ==
    ASSUME DotsAre, NEW topic \in Topics, StartDots(topic)
    PROVE  DotsAre' /\ RunsGo
<1>1. /\ topic \in Topics /\ Nothing \in Watches \cup {Nothing} /\ Nothing \notin Sessions
      /\ Enqueue(topic, Nothing) /\ runs \in Seq(DotRow)
  BY DotsAssumption, ResearchAssumption DEF DotsAre, StartDots, Event
<1>2. /\ runs' \in Seq(DotRow) /\ Len(runs') = Len(runs) + 1 /\ DOMAIN runs \subseteq DOMAIN runs'
      /\ \A q \in DOMAIN runs : runs'[q] = runs[q]
      /\ RunsGo
  BY <1>1, RunQueued
<1>3. Len(runs) \in Nat /\ DOMAIN runs = 1 .. Len(runs)
  BY <1>1, RunRows
<1> QED
  BY <1>1, <1>2, <1>3, DotsAssumption DEF DotsAre, DroppedStaysOff, TakenIsNotDropped, StartDots, Event, watchVars

LEMMA QueueKeeps ==
    ASSUME DotsAre, NEW a \in Requesters, QueueRun(a)
    PROVE  DotsAre' /\ RunsGo
<1>1. /\ TopicOf[queueing[a].watch] \in Topics /\ queueing[a].watch \in Watches \cup {Nothing} /\ queueing[a].watch \notin Sessions
      /\ Enqueue(TopicOf[queueing[a].watch], queueing[a].watch) /\ runs \in Seq(DotRow)
  BY DotsAssumption, ResearchAssumption DEF DotsAre, QueueRun, Requesters
<1>2. /\ runs' \in Seq(DotRow) /\ Len(runs') = Len(runs) + 1 /\ DOMAIN runs \subseteq DOMAIN runs'
      /\ \A q \in DOMAIN runs : runs'[q] = runs[q]
      /\ RunsGo
  BY <1>1, RunQueued
<1>3. Len(runs) \in Nat /\ DOMAIN runs = 1 .. Len(runs)
  BY <1>1, RunRows
<1> QED
  BY <1>1, <1>2, <1>3, DotsAssumption DEF DotsAre, DroppedStaysOff, TakenIsNotDropped, QueueRun, Requesters, watchVars

LEMMA RestartKeeps ==
    ASSUME DotsAre, RestartDots
    PROVE  DotsAre' /\ RunsGo
<1>1. Len(runs) \in Nat /\ DOMAIN runs = 1 .. Len(runs) /\ \A r \in DOMAIN runs : runs[r] \in DotRow
  BY RunRows DEF DotsAre
<1> DEFINE now(r) == IF runs[r].status = "running" THEN [runs[r] EXCEPT !.status = "failed"] ELSE runs[r]
<1>2. \A r \in DOMAIN runs : /\ now(r) \in DotRow
                             /\ now(r).owner = runs[r].owner /\ now(r).topic = runs[r].topic
                             /\ now(r).status = "queued" => runs[r].status = "queued"
                             /\ runs[r].status = "cancelled" => now(r).status = "cancelled"
  BY <1>1 DEF DotRow, Run, Unfinished, Settled
<1>3. runs' = [r \in DOMAIN runs |-> now(r)]
  BY DEF RestartDots, FailStaleRuns
<1> HIDE DEF now
<1>4. runs' \in Seq(DotRow) /\ Len(runs') = Len(runs) /\ \A r \in DOMAIN runs : runs'[r] = now(r)
  BY <1>1, <1>2, <1>3
<1>5. DOMAIN runs' = DOMAIN runs /\ RunsGo
  BY <1>1, <1>2, <1>4 DEF RunsGo
<1>6. DroppedStaysOff' /\ TakenIsNotDropped'
  BY <1>1, <1>2, <1>4 DEF DotsAre, DroppedStaysOff, TakenIsNotDropped, RestartDots, Off
<1> QED
  BY <1>1, <1>4, <1>5, <1>6, DotsAssumption DEF DotsAre, RestartDots, Event, Off, NotQueueing, NotPatching, Ticks

LEMMA DotsKeep ==
    ASSUME DotsAre, DotsStep
    PROVE  DotsAre' /\ RunsGo
<1>1. "tick" \in Requesters /\ "api" \in Requesters
  BY DEF Requesters
<1>2. WorkerStep \/ Fail => DotsAre' /\ RunsGo
  BY PickKeeps, BeginKeeps, ObeyKeeps, StartKeeps, SaveRoundKeeps, CompleteKeeps, PublishKeeps, FailKeeps
     DEF WorkerStep
<1>3. WatchTick \/ (\E t \in Ticks : TickDies(t)) => DotsAre' /\ RunsGo
  BY <1>1, TakeKeeps, QueueKeeps, MarkKeeps, DiesKeeps DEF WatchTick
<1>4. (\E topic \in Topics : StartDots(topic)) \/ (\E r \in DOMAIN runs : CancelRead(r)) \/ CancelSave
        => DotsAre' /\ RunsGo
  BY StartDotsKeeps, CancelReadKeeps, CancelKeeps
<1>5. (\E w \in Watches : ComesDue(w) \/ TakeWatch("api", w) \/ PatchRead(w)) \/ QueueRun("api")
        \/ MarkQueued("api") \/ (\E on \in BOOLEAN : PatchSave(on)) => DotsAre' /\ RunsGo
  BY <1>1, DueKeeps, TakeKeeps, PatchReadKeeps, QueueKeeps, MarkKeeps, PatchSaveKeeps
<1> QED
  BY <1>2, <1>3, <1>4, <1>5 DEF DotsStep

(* The runs of a session with a name, and that the table only grows.       *)
RunsAt(s, a) == {r \in RunsOf(s) : runs[r].topic = a}

LEMMA RunsAreCounted ==
    ASSUME runs \in Seq(DotRow), NEW s, NEW a
    PROVE  /\ IsFiniteSet(RunsAt(s, a)) /\ Investigated(s, a) = Cardinality(RunsAt(s, a))
           /\ Investigated(s, a) \in Nat
           /\ Investigated(s, a) = 0 <=> RunsAt(s, a) = {}
<1>1. Len(runs) \in Nat /\ RunsAt(s, a) \subseteq 1 .. Len(runs)
  BY RunRows DEF RunsAt, RunsOf
<1>2. IsFiniteSet(1 .. Len(runs))
  BY <1>1, FS_Interval
<1>3. IsFiniteSet(RunsAt(s, a))
  BY <1>1, <1>2, FS_Subset
<1>4. Investigated(s, a) = Cardinality(RunsAt(s, a))
  BY DEF Investigated, RunsAt
<1> QED
  BY <1>3, <1>4, FS_CardinalityType, FS_EmptySet

LEMMA SessionRunsStay ==
    ASSUME runs \in Seq(DotRow), runs' \in Seq(DotRow), RunsGo, NEW s \in Sessions
    PROVE  /\ RunsOf(s)' = RunsOf(s)
           /\ \A r \in RunsOf(s) : /\ runs'[r].owner = runs[r].owner /\ runs'[r].topic = runs[r].topic
                                   /\ runs'[r].status = "queued" => runs[r].status = "queued"
           /\ \A a : RunsAt(s, a)' = RunsAt(s, a) /\ Investigated(s, a)' = Investigated(s, a)
<1>1. Len(runs) \in Nat /\ DOMAIN runs = 1 .. Len(runs) /\ Len(runs') \in Nat /\ DOMAIN runs' = 1 .. Len(runs')
  OBVIOUS
<1>2. DOMAIN runs \subseteq DOMAIN runs'
  BY <1>1 DEF RunsGo
<1>3. /\ RunsOf(s)' = RunsOf(s)
      /\ \A r \in RunsOf(s) : /\ runs'[r].owner = runs[r].owner /\ runs'[r].topic = runs[r].topic
                              /\ runs'[r].status = "queued" => runs[r].status = "queued"
  BY <1>2 DEF RunsOf, RunsGo
<1>4. \A a : RunsAt(s, a)' = RunsAt(s, a)
  BY <1>3 DEF RunsAt
<1>5. \A a : Investigated(s, a) = Cardinality(RunsAt(s, a)) /\ Investigated(s, a)' = Cardinality(RunsAt(s, a)')
  BY DEF Investigated, RunsAt
<1> QED
  BY <1>3, <1>4, <1>5

LEMMA ResearchShape ==
    ASSUME ResearchInv
    PROVE  /\ DotsAre /\ SessionsAre /\ OrderIs /\ runs \in Seq(DotRow)
           /\ \A s \in Sessions : /\ sessions[s] \in SessionRow
                                  /\ sessions[s].planned \in Seq(Topics)
                                  /\ sessions[s].rounds \in 0 .. MaxRounds
           /\ coord.pc # "idle" => /\ Session \in Sessions /\ sessions[Session].status # "none"
                                   /\ Planned \in Seq(Topics)
BY DEF ResearchInv, SessionsAre, CoordIs, DotsAre, SessionRow, Session, Planned

(* A step that plans nothing and asks for no run keeps what holds of plans *)
(* and runs.                                                               *)
LEMMA PlansStay ==
    ASSUME ResearchInv, runs' \in Seq(DotRow), RunsGo, coord' = coord \/ coord' = Resting,
           \A s \in Sessions : /\ sessions'[s].planned = sessions[s].planned
                               /\ sessions'[s].status \in {"none", "queued"} => sessions[s].status \in {"none", "queued"}
                               /\ sessions'[s].status = "completed" => sessions[s].status = "completed"
    PROVE  RunsArePlanned' /\ NoneWaits' /\ AttemptsAre' /\ OneWaitingRun' /\ EveryAngleTried'
<1>1. /\ runs \in Seq(DotRow)
      /\ coord'.pc # "idle" => Session' = Session /\ coord' = coord /\ Session \in Sessions /\ Planned' = Planned
  BY ResearchShape DEF Session, Planned, Resting
<1>2. \A s \in Sessions :
        /\ RunsOf(s)' = RunsOf(s)
        /\ \A r \in RunsOf(s) : /\ runs'[r].owner = runs[r].owner /\ runs'[r].topic = runs[r].topic
                                /\ runs'[r].status = "queued" => runs[r].status = "queued"
        /\ \A a : RunsAt(s, a)' = RunsAt(s, a) /\ Investigated(s, a)' = Investigated(s, a)
  BY <1>1, SessionRunsStay
<1>3. RunsArePlanned'
  <2>1. coord'.pc \notin {"idle", "plan"} => (sessions[Session].status)' # "queued"
    BY <1>1, ResearchShape DEF ResearchInv, RunsArePlanned
  <2> QED
    BY <1>1, <1>2, <2>1 DEF ResearchInv, RunsArePlanned, Resting, Stripped
<1>4. NoneWaits'
  BY <1>1, <1>2 DEF ResearchInv, NoneWaits, Resting
<1>5. AttemptsAre'
  <2>1. \A a : coord'.pc # "idle" => AttemptsAt(a)' = AttemptsAt(a)
    BY <1>1, <1>2 DEF AttemptsAt
  <2>2. coord'.pc # "idle" => \A a : Misnamed(Session, a)' = Misnamed(Session, a)
    BY <1>1 DEF Misnamed
  <2>3. coord'.pc # "idle" => \A a : Investigated(Session, a)' = Investigated(Session, a)
    BY <1>1, <1>2
  <2>4. coord'.pc = "enqueue" => \/ Investigated(Session, Stripped(coord.angle))' < Attempts
                                \/ Misnamed(Session, Stripped(coord.angle))'
    BY <1>1, <2>2, <2>3 DEF ResearchInv, AttemptsAre, Stripped
  <2> QED
    BY <1>1, <2>1, <2>4 DEF ResearchInv, AttemptsAre
<1>6. OneWaitingRun'
  <2>1. \A s \in Sessions : \A r \in DOMAIN runs' :
          runs'[r].owner = s /\ runs'[r].status = "queued" => r \in DOMAIN runs /\ runs[r].owner = s /\ runs[r].status = "queued"
    BY DEF RunsGo
  <2> QED
    BY <2>1 DEF ResearchInv, OneWaitingRun
<1>7. EveryAngleTried'
  BY <1>2 DEF ResearchInv, EveryAngleTried, Misnamed, Range
<1> QED
  BY <1>3, <1>4, <1>5, <1>6, <1>7

LEMMA DotsKeepResearch ==
    ASSUME ResearchInv, DotsStep, UNCHANGED researchVars
    PROVE  ResearchInv'
<1>1. DotsAre' /\ RunsGo
  BY DotsKeep, ResearchShape
<1>2. UNCHANGED <<sessions, coord, stopping>>
  BY DEF researchVars
<1>3. SessionsAre' /\ OrderIs'
  BY <1>2 DEF ResearchInv, SessionsAre, CoordIs, OrderIs, Session, Planned, SessionRow, Range
<1>4. RunsArePlanned' /\ NoneWaits' /\ AttemptsAre' /\ OneWaitingRun' /\ EveryAngleTried'
  BY <1>1, <1>2, PlansStay DEF DotsAre
<1> QED
  BY <1>1, <1>3, <1>4 DEF ResearchInv

LEMMA RestartKeepsResearch ==
    ASSUME ResearchInv, RestartAll
    PROVE  ResearchInv'
<1>1. DotsAre' /\ RunsGo
  BY RestartKeeps, ResearchShape DEF RestartAll
<1> DEFINE row(s) == IF sessions[s].status = "running" THEN [sessions[s] EXCEPT !.status = "failed"] ELSE sessions[s]
<1>2. \A s \in Sessions : /\ row(s) \in SessionRow /\ row(s).planned = sessions[s].planned
                          /\ row(s).status = IF sessions[s].status = "running" THEN "failed" ELSE sessions[s].status
  BY ResearchShape DEF SessionRow, Settled, Open
<1>3. sessions' = [s \in Sessions |-> row(s)] /\ coord' = Resting /\ stopping' = 0
  BY DEF RestartAll
<1> HIDE DEF row
<1>4. \A s \in Sessions : /\ sessions'[s] = row(s) /\ sessions'[s].planned = sessions[s].planned
                          /\ sessions'[s].status = IF sessions[s].status = "running" THEN "failed" ELSE sessions[s].status
  BY <1>2, <1>3
<1>5. SessionsAre'
  BY <1>2, <1>3 DEF SessionsAre, CoordIs, Resting
<1>6. OrderIs'
  BY <1>3, <1>4 DEF ResearchInv, OrderIs, Resting, Settled
<1>7. RunsArePlanned' /\ NoneWaits' /\ AttemptsAre' /\ OneWaitingRun' /\ EveryAngleTried'
  BY <1>1, <1>3, <1>4, PlansStay DEF DotsAre
<1> QED
  BY <1>1, <1>5, <1>6, <1>7 DEF ResearchInv

LEMMA DotsRest ==
    ASSUME DotsAre, UNCHANGED <<runs, worker, alive, watchVars, cancelling, dropped>>, events' \in 0 .. MaxEvents
    PROVE  DotsAre' /\ RunsGo
BY RunsStandStill DEF DotsAre, DroppedStaysOff, TakenIsNotDropped, watchVars

LEMMA CoordFailsKeeps ==
    ASSUME ResearchInv, CoordFails
    PROVE  ResearchInv'
<1>1. DotsAre' /\ RunsGo
  <2>1. UNCHANGED <<runs, worker, alive, watchVars, cancelling, dropped>> /\ Event
    BY DEF CoordFails
  <2>2. events' \in 0 .. MaxEvents
    BY <2>1, DotsAssumption, ResearchShape DEF Event, DotsAre
  <2> QED
    BY <2>1, <2>2, DotsRest, ResearchShape
<1>2. sessions' = sessions /\ stopping' = stopping /\ coord' = Resting
  BY DEF CoordFails, SameSession
<1>3. SessionsAre' /\ OrderIs'
  BY <1>2 DEF ResearchInv, SessionsAre, CoordIs, OrderIs, Resting, SessionRow
<1>4. RunsArePlanned' /\ NoneWaits' /\ AttemptsAre' /\ OneWaitingRun' /\ EveryAngleTried'
  BY <1>1, <1>2, PlansStay DEF DotsAre
<1> QED
  BY <1>1, <1>3, <1>4 DEF ResearchInv

LEMMA CreateKeeps ==
    ASSUME ResearchInv, NEW s \in Sessions, CreateSession(s)
    PROVE  ResearchInv'
<1>1. DotsAre' /\ RunsGo
  <2>1. UNCHANGED <<runs, worker, alive, watchVars, cancelling, dropped>> /\ Event
    BY DEF CreateSession, ApiRest
  <2>2. events' \in 0 .. MaxEvents
    BY <2>1, DotsAssumption, ResearchShape DEF Event, DotsAre
  <2> QED
    BY <2>1, <2>2, DotsRest, ResearchShape
<1>2. /\ sessions' = [sessions EXCEPT ![s] = [sessions[s] EXCEPT !.status = "queued"]]
      /\ sessions[s].status = "none" /\ coord' = coord /\ stopping' = stopping
  BY DEF CreateSession
<1>3. [sessions[s] EXCEPT !.status = "queued"] \in SessionRow
  BY ResearchShape DEF SessionRow, Open
<1>4. \A t \in Sessions : /\ sessions'[t].planned = sessions[t].planned
                          /\ sessions'[t].status = IF t = s THEN "queued" ELSE sessions[t].status
  BY <1>2, ResearchShape DEF SessionsAre, SessionRow
<1>5. sessions' \in [Sessions -> SessionRow]
  BY <1>2, <1>3, ResearchShape DEF SessionsAre
<1>6. SessionsAre'
  BY <1>2, <1>4, <1>5 DEF ResearchInv, SessionsAre, CoordIs, Planned, Session
<1>7. OrderIs'
  BY <1>2, <1>4 DEF ResearchInv, OrderIs, Settled, Session, CreateSession
<1>8. RunsArePlanned' /\ NoneWaits' /\ AttemptsAre' /\ OneWaitingRun' /\ EveryAngleTried'
  BY <1>1, <1>2, <1>4, PlansStay DEF DotsAre
<1> QED
  BY <1>1, <1>6, <1>7, <1>8 DEF ResearchInv

LEMMA CancelSessionReadKeeps ==
    ASSUME ResearchInv, NEW s \in Sessions, CancelSessionRead(s)
    PROVE  ResearchInv'
<1>1. DotsAre' /\ RunsGo
  <2>1. UNCHANGED <<runs, worker, alive, watchVars, cancelling, dropped>> /\ Event
    BY DEF CancelSessionRead, ApiRest
  <2>2. events' \in 0 .. MaxEvents
    BY <2>1, DotsAssumption, ResearchShape DEF Event, DotsAre
  <2> QED
    BY <2>1, <2>2, DotsRest, ResearchShape
<1>2. sessions' = sessions /\ coord' = coord /\ stopping' = s /\ sessions[s].status # "none"
  BY DEF CancelSessionRead, Open
<1>3. SessionsAre' /\ OrderIs'
  BY <1>2 DEF ResearchInv, SessionsAre, CoordIs, OrderIs, SessionRow, Planned, Session
<1>4. RunsArePlanned' /\ NoneWaits' /\ AttemptsAre' /\ OneWaitingRun' /\ EveryAngleTried'
  BY <1>1, <1>2, PlansStay DEF DotsAre
<1> QED
  BY <1>1, <1>3, <1>4 DEF ResearchInv

LEMMA CancelSessionSaveKeeps ==
    ASSUME ResearchInv, CancelSessionSave
    PROVE  ResearchInv'
<1>0. stopping \in Sessions /\ sessions[stopping].status # "none" /\ runs \in Seq(DotRow)
      /\ Len(runs) \in Nat /\ DOMAIN runs = 1 .. Len(runs) /\ \A r \in DOMAIN runs : runs[r] \in DotRow
  BY ResearchShape, RunRows DEF CancelSessionSave, SessionsAre
<1> DEFINE run(r) == IF runs[r].owner = stopping /\ runs[r].status \in Unfinished
                       THEN [runs[r] EXCEPT !.status = "cancelled"] ELSE runs[r]
<1>1. \A r \in DOMAIN runs : /\ run(r) \in DotRow
                             /\ run(r).owner = runs[r].owner /\ run(r).topic = runs[r].topic
                             /\ run(r).status = "queued" => runs[r].status = "queued"
                             /\ runs[r].status = "cancelled" => run(r).status = "cancelled"
                             /\ runs[r].owner = stopping /\ runs[r].status = "queued" => run(r).status = "cancelled"
  BY <1>0 DEF DotRow, Run, Unfinished, Settled
<1>2. runs' = [r \in DOMAIN runs |-> run(r)]
  BY DEF CancelSessionSave
<1> HIDE DEF run
<1>3. runs' \in Seq(DotRow) /\ Len(runs') = Len(runs) /\ \A r \in DOMAIN runs : runs'[r] = run(r)
  BY <1>0, <1>1, <1>2
<1>4. DOMAIN runs' = DOMAIN runs /\ RunsGo
  BY <1>0, <1>1, <1>3 DEF RunsGo
<1>5. DroppedStaysOff' /\ TakenIsNotDropped' /\ dropped' \subseteq DOMAIN runs
  BY <1>1, <1>3 DEF ResearchInv, DotsAre, DroppedStaysOff, TakenIsNotDropped, CancelSessionSave, NotTaken
<1>6. DotsAre'
  BY <1>3, <1>4, <1>5 DEF ResearchInv, DotsAre, CancelSessionSave, watchVars
<1>7. /\ sessions' = [sessions EXCEPT ![stopping] = [sessions[stopping] EXCEPT !.status = "cancelled"]]
      /\ coord' = coord /\ stopping' = 0
  BY DEF CancelSessionSave
<1>8. [sessions[stopping] EXCEPT !.status = "cancelled"] \in SessionRow
  BY <1>0, ResearchShape DEF SessionRow, Settled
<1>9. \A t \in Sessions : /\ sessions'[t].planned = sessions[t].planned
                          /\ sessions'[t].status = IF t = stopping THEN "cancelled" ELSE sessions[t].status
  BY <1>0, <1>7, ResearchShape DEF SessionsAre, SessionRow
<1>10. sessions' \in [Sessions -> SessionRow]
  BY <1>0, <1>7, <1>8, ResearchShape DEF SessionsAre
<1>11. SessionsAre'
  BY <1>0, <1>7, <1>9, <1>10 DEF ResearchInv, SessionsAre, CoordIs, Planned, Session
<1>12. OrderIs'
  BY <1>0, <1>7, <1>9 DEF ResearchInv, OrderIs, Settled, Session
<1>13. RunsArePlanned' /\ NoneWaits' /\ AttemptsAre' /\ OneWaitingRun' /\ EveryAngleTried'
  BY <1>3, <1>4, <1>7, <1>9, PlansStay
<1> QED
  BY <1>6, <1>11, <1>12, <1>13 DEF ResearchInv

(* The coordinator's steps write its session only.                         *)
LEMMA SessionSaved ==
    ASSUME ResearchInv, coord.pc # "idle",
           NEW status \in {"running", "failed", "completed"}, NEW planned \in Seq(Topics), NEW count \in 0 .. MaxRounds,
           SaveSession(status, planned, count), UNCHANGED stopping,
           coord'.pc # "idle" => coord'.session = Session
    PROVE  /\ sessions' \in [Sessions -> SessionRow]
           /\ sessions'[Session] = [status |-> status, planned |-> planned, rounds |-> count]
           /\ \A s \in Sessions : s # Session => sessions'[s] = sessions[s]
           /\ stopping' \in Sessions \cup {0} /\ (stopping' # 0 => sessions'[stopping'].status # "none")
           /\ coord'.pc # "idle" => Planned' = planned
           /\ OrderIs'
<1>1. [status |-> status, planned |-> planned, rounds |-> count] \in SessionRow
  BY DEF SessionRow, Open, Settled
<1>2. /\ Session \in Sessions /\ sessions \in [Sessions -> SessionRow]
      /\ sessions' = [sessions EXCEPT ![Session] = [status |-> status, planned |-> planned, rounds |-> count]]
  BY ResearchShape DEF SaveSession, SessionsAre
<1>3. /\ sessions' \in [Sessions -> SessionRow]
      /\ sessions'[Session] = [status |-> status, planned |-> planned, rounds |-> count]
      /\ \A s \in Sessions : s # Session => sessions'[s] = sessions[s]
  BY <1>1, <1>2
<1>4. stopping' \in Sessions \cup {0} /\ (stopping' # 0 => sessions'[stopping'].status # "none")
  BY <1>3 DEF ResearchInv, SessionsAre
<1>5. coord'.pc # "idle" => Planned' = planned
  BY <1>3 DEF Planned, Session
<1>6. OrderIs'
  <2>1. \A s \in Sessions : s # Session => sessions'[s].status = sessions[s].status
    BY <1>3
  <2>2. sessions'[Session].status = status /\ Session \in Sessions /\ sessions[Session].status # "none"
    BY <1>2, <1>3, ResearchShape
  <2>3. coord'.pc # "idle" => Session' = Session
    BY DEF Session
  <2> QED
    BY <2>1, <2>2, <2>3, ResearchAssumption DEF ResearchInv, OrderIs, Settled
<1> QED
  BY <1>3, <1>4, <1>5, <1>6

(* The tick begins with the oldest session that is not settled.            *)
LEMMA AdvanceKeeps ==
    ASSUME ResearchInv, NEW s \in Sessions, Advance(s)
    PROVE  ResearchInv'
<1>1. DotsAre' /\ RunsGo
  BY RunsStandStill, DotsRest, ResearchShape DEF Advance, OthersRest, dotsVars, DotsAre
<1>2. /\ sessions' = sessions /\ stopping' = stopping /\ runs' = runs
      /\ coord' = [pc |-> IF sessions[s].status = "queued" THEN "plan" ELSE "look", session |-> s,
                   angle |-> Nothing, done |-> FALSE]
      /\ sessions[s].status \in Open /\ \A t \in Sessions : sessions[t].status \in Open => s <= t
  BY DEF Advance, Oldest, OthersRest, SameSession, Resting, dotsVars
<1>3. SessionsAre'
  BY <1>2 DEF ResearchInv, SessionsAre, CoordIs, Open, SessionRow
<1>4. OrderIs'
  <2>1. \A t \in Sessions : sessions[t].status \in {"none"} \cup Open \cup Settled
    BY ResearchShape DEF SessionRow
  <2> QED
    BY <1>2, <2>1, ResearchAssumption DEF ResearchInv, OrderIs, Open, Settled, Session
<1>5. /\ \A t \in Sessions : RunsOf(t)' = RunsOf(t)
      /\ \A t \in Sessions : \A a : Investigated(t, a)' = Investigated(t, a)
  BY <1>2 DEF RunsOf, Investigated
<1>6. RunsArePlanned' /\ OneWaitingRun' /\ EveryAngleTried'
  BY <1>2, <1>5 DEF ResearchInv, RunsArePlanned, OneWaitingRun, EveryAngleTried, Misnamed, Session
<1>7. NoneWaits' /\ AttemptsAre'
  BY <1>2 DEF NoneWaits, AttemptsAre
<1> QED
  BY <1>1, <1>3, <1>4, <1>6, <1>7 DEF ResearchInv

(* What the coordinator reads and writes besides the runs.                 *)
LEMMA CoordRests ==
    ASSUME ResearchInv, OthersRest
    PROVE  /\ DotsAre' /\ runs' = runs /\ stopping' = stopping
           /\ \A s \in Sessions : /\ RunsOf(s)' = RunsOf(s)
                                  /\ \A a : RunsAt(s, a)' = RunsAt(s, a) /\ Investigated(s, a)' = Investigated(s, a)
           /\ OneWaitingRun'
<1>1. DotsAre' /\ runs' = runs /\ stopping' = stopping
  BY DotsRest, ResearchShape DEF OthersRest, dotsVars, DotsAre
<1> QED
  BY <1>1 DEF RunsOf, RunsAt, Investigated, ResearchInv, OneWaitingRun

(* A session that plans more, and what it had planned it still has, keeps  *)
(* what holds of its runs.                                                 *)
LEMMA MorePlanned ==
    ASSUME ResearchInv, OthersRest, coord.pc # "idle",
           NEW status \in {"running", "failed", "completed"},
           sessions'[Session].status = status, Range(Planned) \subseteq Range(sessions'[Session].planned),
           \A s \in Sessions : s # Session => sessions'[s] = sessions[s],
           status = "completed" => \A i \in DOMAIN sessions'[Session].planned : Investigated(Session, sessions'[Session].planned[i]) > 0
    PROVE  /\ \A s \in Sessions : sessions'[s].status \in {"none", "queued"} => RunsOf(s)' = {}
           /\ \A s \in Sessions : \A r \in RunsOf(s)' :
                \E angle \in Range(sessions'[s].planned) : runs'[r].topic = Stripped(angle)
           /\ EveryAngleTried'
<1>1. /\ runs' = runs
      /\ \A s \in Sessions : RunsOf(s)' = RunsOf(s) /\ \A a : Investigated(s, a)' = Investigated(s, a)
  BY CoordRests
<1>2. \A s \in Sessions : Range(sessions[s].planned) \subseteq Range(sessions'[s].planned)
  BY DEF Planned
<1>3. \A s \in Sessions : sessions'[s].status \in {"none", "queued"} => RunsOf(s)' = {}
  BY <1>1 DEF ResearchInv, RunsArePlanned
<1>4. \A s \in Sessions : \A r \in RunsOf(s)' :
        \E angle \in Range(sessions'[s].planned) : runs'[r].topic = Stripped(angle)
  BY <1>1, <1>2 DEF ResearchInv, RunsArePlanned
<1>5. \A s \in Sessions : \A a \in Topics : Investigated(s, a)' <= Attempts \/ Misnamed(s, a)'
  BY <1>1, <1>2 DEF ResearchInv, EveryAngleTried, Misnamed
<1>6. \A s \in Sessions : sessions'[s].status = "completed" =>
        \A i \in DOMAIN sessions'[s].planned : \A a : a = sessions'[s].planned[i] => Investigated(s, a)' > 0
  <2>1. \A s \in Sessions : sessions'[s].status = "completed" =>
          \A i \in DOMAIN sessions'[s].planned : Investigated(s, sessions'[s].planned[i]) > 0
    BY DEF ResearchInv, EveryAngleTried
  <2> QED
    BY <1>1, <2>1
<1> QED
  BY <1>3, <1>4, <1>5, <1>6 DEF EveryAngleTried

LEMMA AttemptsAreRuns ==
    ASSUME ResearchInv, coord.pc # "idle"
    PROVE  /\ \A a : AttemptsAt(a) = RunsAt(Session, a)
           /\ \A a : Investigated(Session, a) = Cardinality(AttemptsAt(a))
           /\ \A a : Investigated(Session, a) \in Nat /\ (Investigated(Session, a) = 0 <=> AttemptsAt(a) = {})
<1>1. \A a : AttemptsAt(a) = RunsAt(Session, a)
  BY DEF AttemptsAt, RunsAt
<1>2. runs \in Seq(DotRow)
  BY ResearchShape
<1> QED
  BY <1>1, <1>2, RunsAreCounted

(* The tick of a session that plans nothing now.                           *)
LEMMA LookKeeps ==
    ASSUME ResearchInv, Look
    PROVE  ResearchInv'
<1>1. /\ DotsAre' /\ runs' = runs /\ stopping' = stopping /\ sessions' = sessions /\ OneWaitingRun'
      /\ \A s \in Sessions : RunsOf(s)' = RunsOf(s) /\ \A a : Investigated(s, a)' = Investigated(s, a)
  BY CoordRests DEF Look, SameSession
<1>2. coord.pc = "look" /\ Session \in Sessions /\ Planned \in Seq(Topics)
  BY ResearchShape DEF Look
<1>3. EveryAngleTried'
  BY <1>1 DEF ResearchInv, EveryAngleTried, Misnamed
<1>4. CASE coord' = Resting
  <2>1. SessionsAre' /\ OrderIs'
    BY <1>1, <1>4 DEF ResearchInv, SessionsAre, SessionRow, CoordIs, OrderIs, Resting
  <2>2. RunsArePlanned' /\ NoneWaits' /\ AttemptsAre'
    BY <1>1, <1>4 DEF ResearchInv, RunsArePlanned, NoneWaits, AttemptsAre, Resting
  <2> QED
    BY <1>1, <1>3, <2>1, <2>2 DEF ResearchInv
<1>5. ASSUME coord' # Resting
      PROVE  ResearchInv'
  <2>1. ~StatusIn(Session, Unfinished)
    BY <1>5 DEF Look
  <2>2. \A r \in RunsOf(Session) : runs[r].status # "queued"
    BY <2>1 DEF StatusIn, Unfinished
  <2>3. PICK next \in {"enqueue", "decide"}, angle \in Topics \cup {Nothing}, done \in BOOLEAN :
          /\ coord' = [coord EXCEPT !.pc = next, !.angle = angle, !.done = done]
          /\ next = "enqueue" => angle \in Range(Planned) /\ Cardinality(AttemptsAt(angle)) < Attempts
          /\ next = "decide" => \A i \in DOMAIN Planned : AttemptsAt(Planned[i]) # {}
    <3>1. coord.angle \in Topics \cup {Nothing} /\ coord.done \in BOOLEAN /\ DoneOf(Session) \in BOOLEAN
          /\ coord = [coord EXCEPT !.angle = coord.angle] /\ coord = [coord EXCEPT !.done = coord.done]
      BY DEF ResearchInv, SessionsAre, CoordIs, DoneOf, StatusIn
    <3>2. ASSUME NEW i \in Unattempted, coord' = [coord EXCEPT !.pc = "enqueue", !.angle = Planned[i]]
          PROVE  Planned[i] \in Range(Planned) \cap Topics /\ Cardinality(AttemptsAt(Planned[i])) < Attempts
      <4>1. i \in DOMAIN Planned /\ AttemptsAt(Planned[i]) = {}
        BY <3>2 DEF Unattempted
      <4> QED
        BY <1>2, <4>1, FS_EmptySet, ResearchAssumption DEF Range
    <3>3. ASSUME NEW i \in Retryable, coord' = [coord EXCEPT !.pc = "enqueue", !.angle = Planned[i]]
          PROVE  Planned[i] \in Range(Planned) \cap Topics /\ Cardinality(AttemptsAt(Planned[i])) < Attempts
      BY <1>2, <3>3 DEF Retryable, Range
    <3>4. CASE \E i \in Unattempted \cup Retryable : coord' = [coord EXCEPT !.pc = "enqueue", !.angle = Planned[i]]
      <4>1. PICK i \in Unattempted \cup Retryable : coord' = [coord EXCEPT !.pc = "enqueue", !.angle = Planned[i]]
        BY <3>4
      <4>2. Planned[i] \in Range(Planned) \cap Topics /\ Cardinality(AttemptsAt(Planned[i])) < Attempts
        BY <3>2, <3>3, <4>1
      <4>3. coord' = [coord EXCEPT !.pc = "enqueue", !.angle = Planned[i], !.done = coord.done]
        BY <4>1 DEF ResearchInv, SessionsAre, CoordIs
      <4> QED
        BY <3>1, <4>2, <4>3
    <3>5. CASE Unattempted = {} /\ coord' = [coord EXCEPT !.pc = "decide", !.done = DoneOf(Session)]
      <4>1. \A i \in DOMAIN Planned : AttemptsAt(Planned[i]) # {}
        BY <3>5 DEF Unattempted
      <4>2. coord' = [coord EXCEPT !.pc = "decide", !.angle = coord.angle, !.done = DoneOf(Session)]
        BY <3>5 DEF ResearchInv, SessionsAre, CoordIs
      <4> QED
        BY <3>1, <4>1, <4>2
    <3> QED
      BY <1>5, <3>4, <3>5 DEF Look, EnqueueFirst, GoEnqueue
  <2>4. coord' = [pc |-> next, session |-> coord.session, angle |-> angle, done |-> done]
    BY <2>3 DEF ResearchInv, SessionsAre, CoordIs
  <2>5. Session' = Session /\ Planned' = Planned
    BY <1>1, <2>4 DEF Session, Planned
  <2>6. SessionsAre'
    BY <1>1, <1>2, <2>3, <2>4, <2>5 DEF ResearchInv, SessionsAre, SessionRow, CoordIs
  <2>7. OrderIs'
    BY <1>1, <1>2, <2>4, <2>5 DEF ResearchInv, OrderIs
  <2>8. RunsArePlanned'
    BY <1>1, <1>2, <2>4, <2>5 DEF ResearchInv, RunsArePlanned
  <2>9. NoneWaits'
    BY <1>1, <1>2, <2>2, <2>5 DEF NoneWaits
  <2>10. AttemptsAre'
    <3>1. next = "decide" => \A a : AttemptsAt(a)' = AttemptsAt(a)
      BY <1>1, <1>2, <2>5 DEF AttemptsAt
    <3>2. next = "enqueue" => Investigated(Session, angle)' < Attempts
      BY <1>1, <1>2, <2>3, <2>5, AttemptsAreRuns
    <3>3. next = "enqueue" /\ angle \notin Padded => Stripped(angle) = angle
      BY DEF Stripped
    <3>4. next = "enqueue" /\ angle \in Padded => Misnamed(Session, Stripped(angle))'
      BY <1>1, <1>2, <2>3, <2>5 DEF Stripped, Misnamed, Planned
    <3>5. next = "enqueue" => Investigated(Session, Stripped(angle))' < Attempts \/ Misnamed(Session, Stripped(angle))'
      BY <3>2, <3>3, <3>4
    <3>6. Stripped(coord.angle)' = Stripped(angle)
      BY <2>4 DEF Stripped
    <3> QED
      BY <2>3, <2>4, <2>5, <3>1, <3>5, <3>6 DEF AttemptsAre
  <2> QED
    BY <1>1, <1>3, <2>6, <2>7, <2>8, <2>9, <2>10 DEF ResearchInv
<1> QED
  BY <1>4, <1>5

LEMMA FinishKeeps ==
    ASSUME ResearchInv, Finish
    PROVE  ResearchInv'
<1>1. /\ DotsAre' /\ runs' = runs /\ stopping' = stopping /\ OneWaitingRun' /\ OthersRest
      /\ coord' = Resting /\ coord.pc \in {"decide", "finish"}
  BY CoordRests DEF Finish
<1>2. PICK status \in {"completed", "failed"} : SaveSession(status, Planned, sessions[Session].rounds)
  BY DEF Finish
<1>3. /\ Session \in Sessions /\ Planned \in Seq(Topics) /\ sessions[Session].rounds \in 0 .. MaxRounds
      /\ coord.pc # "idle"
  BY <1>1, ResearchShape
<1>4. /\ sessions' \in [Sessions -> SessionRow] /\ OrderIs'
      /\ sessions'[Session] = [status |-> status, planned |-> Planned, rounds |-> sessions[Session].rounds]
      /\ \A s \in Sessions : s # Session => sessions'[s] = sessions[s]
      /\ stopping' \in Sessions \cup {0} /\ (stopping' # 0 => sessions'[stopping'].status # "none")
  BY <1>1, <1>2, <1>3, SessionSaved DEF Resting
<1>5. \A i \in DOMAIN Planned : Investigated(Session, Planned[i]) > 0
  BY <1>1, <1>3, AttemptsAreRuns DEF ResearchInv, AttemptsAre
<1>6. /\ \A s \in Sessions : sessions'[s].status \in {"none", "queued"} => RunsOf(s)' = {}
      /\ \A s \in Sessions : \A r \in RunsOf(s)' :
           \E angle \in Range(sessions'[s].planned) : runs'[r].topic = Stripped(angle)
      /\ EveryAngleTried'
  <2>1. Range(Planned) \subseteq Range(sessions'[Session].planned) /\ sessions'[Session].planned = Planned
        /\ sessions'[Session].status = status
    BY <1>4
  <2> QED
    BY <1>1, <1>3, <1>4, <1>5, <2>1, MorePlanned
<1>7. RunsArePlanned' /\ NoneWaits' /\ AttemptsAre'
  BY <1>1, <1>6 DEF RunsArePlanned, NoneWaits, AttemptsAre, Resting, Stripped
<1>8. SessionsAre'
  BY <1>1, <1>4 DEF SessionsAre, CoordIs, Resting
<1> QED
  BY <1>1, <1>4, <1>6, <1>7, <1>8 DEF ResearchInv

LEMMA EnoughKeeps ==
    ASSUME ResearchInv, Enough
    PROVE  ResearchInv'
<1>1. /\ DotsAre' /\ runs' = runs /\ stopping' = stopping /\ OneWaitingRun' /\ OthersRest
      /\ coord.pc = "decide" /\ SaveSession("running", Planned, sessions[Session].rounds)
      /\ \A s \in Sessions : RunsOf(s)' = RunsOf(s) /\ \A a : RunsAt(s, a)' = RunsAt(s, a)
  BY CoordRests DEF Enough, Touch
<1>2. coord' = [pc |-> "finish", session |-> coord.session, angle |-> coord.angle, done |-> coord.done]
  BY DEF Enough, GoOn, ResearchInv, SessionsAre, CoordIs
<1>3. Session \in Sessions /\ Planned \in Seq(Topics) /\ sessions[Session].rounds \in 0 .. MaxRounds
  BY <1>1, ResearchShape
<1>4. /\ sessions' \in [Sessions -> SessionRow] /\ OrderIs' /\ Planned' = Planned /\ Session' = Session
      /\ sessions'[Session] = [status |-> "running", planned |-> Planned, rounds |-> sessions[Session].rounds]
      /\ \A s \in Sessions : s # Session => sessions'[s] = sessions[s]
      /\ stopping' \in Sessions \cup {0} /\ (stopping' # 0 => sessions'[stopping'].status # "none")
  BY <1>1, <1>2, <1>3, SessionSaved DEF Session
<1>5. /\ \A s \in Sessions : sessions'[s].status \in {"none", "queued"} => RunsOf(s)' = {}
      /\ \A s \in Sessions : \A r \in RunsOf(s)' :
           \E angle \in Range(sessions'[s].planned) : runs'[r].topic = Stripped(angle)
      /\ EveryAngleTried'
  <2>1. Range(Planned) \subseteq Range(sessions'[Session].planned) /\ sessions'[Session].status = "running"
    BY <1>4
  <2> QED
    BY <1>1, <1>4, <2>1, MorePlanned
<1>6. RunsArePlanned'
  BY <1>2, <1>3, <1>4, <1>5 DEF RunsArePlanned, Stripped
<1>7. NoneWaits'
  BY <1>1, <1>3, <1>4 DEF ResearchInv, NoneWaits
<1>8. AttemptsAre'
  <2>1. \A a : AttemptsAt(a)' = AttemptsAt(a)
    BY <1>1, <1>3, <1>4 DEF AttemptsAt
  <2> QED
    BY <1>1, <1>2, <1>4, <2>1 DEF ResearchInv, AttemptsAre
<1>9. SessionsAre'
  <2>1. coord.angle \in Topics \cup {Nothing} /\ coord.done \in BOOLEAN /\ coord.session = Session
    BY DEF ResearchInv, SessionsAre, CoordIs, Session
  <2>2. CoordIs'
    BY <1>2, <1>3, <1>4, <2>1 DEF CoordIs
  <2> QED
    BY <1>4, <2>2 DEF SessionsAre
<1> QED
  BY <1>1, <1>4, <1>5, <1>6, <1>7, <1>8, <1>9 DEF ResearchInv

(* An angle that is planned now has not been tried, but under its name.    *)
LEMMA MorePlannedKeeps ==
    ASSUME ResearchInv, coord.pc = "decide", OthersRest,
           NEW more \in Seq(Topics), more # << >>, ~Contains(Planned, more[1]),
           NEW count \in 0 .. MaxRounds, SaveSession("running", Planned \o more, count),
           GoEnqueue(more[1], "enqueue")
    PROVE  ResearchInv'
<1> DEFINE planned == Planned \o more
<1>1. /\ DotsAre' /\ runs' = runs /\ stopping' = stopping /\ OneWaitingRun'
      /\ \A s \in Sessions : RunsOf(s)' = RunsOf(s) /\ \A a : RunsAt(s, a)' = RunsAt(s, a)
      /\ \A s \in Sessions : \A a : Investigated(s, a)' = Investigated(s, a)
  BY CoordRests
<1>2. coord' = [pc |-> "enqueue", session |-> coord.session, angle |-> more[1], done |-> coord.done]
  BY DEF GoEnqueue, ResearchInv, SessionsAre, CoordIs
<1>3. Session \in Sessions /\ Planned \in Seq(Topics) /\ more[1] \in Topics /\ planned \in Seq(Topics)
  BY ResearchShape
<1>4. /\ Range(Planned) \subseteq Range(planned) /\ more[1] \in Range(planned)
  <2>1. \A i \in DOMAIN Planned : i \in DOMAIN planned /\ planned[i] = Planned[i]
    BY <1>3
  <2>2. Len(Planned) + 1 \in DOMAIN planned /\ planned[Len(Planned) + 1] = more[1]
    BY <1>3
  <2> QED
    BY <2>1, <2>2 DEF Range
<1>5. /\ sessions' \in [Sessions -> SessionRow] /\ OrderIs' /\ Planned' = planned /\ Session' = Session
      /\ sessions'[Session] = [status |-> "running", planned |-> planned, rounds |-> count]
      /\ \A s \in Sessions : s # Session => sessions'[s] = sessions[s]
      /\ stopping' \in Sessions \cup {0} /\ (stopping' # 0 => sessions'[stopping'].status # "none")
  BY <1>1, <1>2, <1>3, SessionSaved DEF Session
<1> HIDE DEF planned
<1>6. /\ \A s \in Sessions : sessions'[s].status \in {"none", "queued"} => RunsOf(s)' = {}
      /\ \A s \in Sessions : \A r \in RunsOf(s)' :
           \E angle \in Range(sessions'[s].planned) : runs'[r].topic = Stripped(angle)
      /\ EveryAngleTried'
  <2>1. Range(Planned) \subseteq Range(sessions'[Session].planned) /\ sessions'[Session].status = "running"
    BY <1>4, <1>5
  <2> QED
    BY <1>1, <1>5, <2>1, MorePlanned
<1>7. RunsArePlanned'
  BY <1>2, <1>3, <1>5, <1>6 DEF RunsArePlanned, Stripped
<1>8. NoneWaits'
  BY <1>1, <1>3, <1>5 DEF ResearchInv, NoneWaits
<1>9. AttemptsAre'
  <2>1. CASE more[1] \in Padded
    <3>1. Misnamed(Session, Stripped(more[1]))'
      BY <1>4, <1>5, <2>1 DEF Misnamed, Stripped
    <3>2. Stripped(coord.angle)' = Stripped(more[1])
      BY <1>2 DEF Stripped
    <3> QED
      BY <1>2, <1>5, <3>1, <3>2 DEF AttemptsAre
  <2>2. CASE more[1] \notin Padded
    <3>1. Stripped(coord.angle)' = more[1]
      BY <1>2, <2>2 DEF Stripped
    <3>2. ASSUME NEW r \in RunsAt(Session, more[1])
          PROVE  Misnamed(Session, more[1])'
      <4>1. PICK angle \in Range(sessions[Session].planned) : more[1] = Stripped(angle)
        BY <1>3, <3>2 DEF RunsAt, ResearchInv, RunsArePlanned
      <4>2. angle \in Range(Planned) /\ angle # more[1]
        BY <1>3, <4>1 DEF Planned, Contains, Range
      <4>3. angle \in Padded /\ Plain[angle] = more[1]
        BY <4>1, <4>2 DEF Stripped
      <4> QED
        BY <1>4, <1>5, <4>2, <4>3 DEF Misnamed
    <3>3. CASE RunsAt(Session, more[1]) = {}
      <4>1. Investigated(Session, more[1]) = 0
        BY <3>3, RunsAreCounted, ResearchShape
      <4>2. Investigated(Session, more[1])' = Investigated(Session, more[1])
        BY <1>1, <1>3, <1>5
      <4> QED
        BY <1>2, <1>5, <3>1, <4>1, <4>2, ResearchAssumption DEF AttemptsAre
    <3> QED
      BY <1>2, <1>5, <3>1, <3>2, <3>3 DEF AttemptsAre
  <2> QED
    BY <2>1, <2>2
<1>10. SessionsAre'
  <2>1. coord.done \in BOOLEAN /\ coord.session = Session
    BY DEF ResearchInv, SessionsAre, CoordIs, Session
  <2>2. CoordIs'
    BY <1>2, <1>3, <1>4, <1>5, <2>1 DEF CoordIs
  <2> QED
    BY <1>5, <2>2 DEF SessionsAre
<1> QED
  BY <1>1, <1>5, <1>6, <1>7, <1>8, <1>9, <1>10 DEF ResearchInv

LEMMA PlanNextKeeps ==
    ASSUME ResearchInv, NEW angle \in Topics, PlanNext(angle)
    PROVE  ResearchInv'
<1>1. coord.pc = "decide" /\ Planned \in Seq(Topics) /\ sessions[Session].rounds \in 0 .. MaxRounds
  BY ResearchShape DEF PlanNext
<1>2. Append(Planned, angle) = Planned \o <<angle>> /\ <<angle>> \in Seq(Topics) /\ <<angle>> # << >> /\ <<angle>>[1] = angle
  BY <1>1
<1> QED
  BY <1>1, <1>2, MorePlannedKeeps DEF PlanNext

LEMMA PlanRoundKeeps ==
    ASSUME ResearchInv, NEW answer \in AngleLists, PlanRound(answer)
    PROVE  ResearchInv'
<1>1. /\ coord.pc = "decide" /\ Planned \in Seq(Topics) /\ OthersRest /\ answer \in Seq(Topics)
      /\ sessions[Session].rounds + 1 \in 0 .. MaxRounds
  <2>1. coord.pc = "decide" /\ OthersRest /\ sessions[Session].rounds < MaxRounds - 1
    BY DEF PlanRound, RoundsLeft
  <2>2. Planned \in Seq(Topics) /\ sessions[Session].rounds \in 0 .. MaxRounds
    BY <2>1, ResearchShape
  <2>3. answer \in Seq(Topics) /\ MaxRounds \in Nat
    BY ResearchAssumption
  <2> QED
    BY <2>1, <2>2, <2>3
<1>2. PICK angles \in NewAngles(answer) :
        /\ angles # << >>
        /\ SaveSession("running", Planned \o angles, sessions[Session].rounds + 1)
        /\ GoEnqueue(angles[1], "enqueue")
  BY DEF PlanRound
<1> DEFINE new == {i \in DOMAIN answer : answer[i] \notin Blank /\ ~Contains(Planned, answer[i])}
<1>3. PICK f \in [1 .. Cardinality(new) -> new] : angles = [i \in DOMAIN f |-> answer[f[i]]]
  BY <1>2 DEF NewAngles
<1>4. Cardinality(new) \in Nat
  <2>1. new \subseteq 1 .. Len(answer) /\ Len(answer) \in Nat
    BY <1>1
  <2>2. IsFiniteSet(new)
    BY <2>1, FS_Interval, FS_Subset
  <2> QED
    BY <2>2, FS_CardinalityType
<1>5. \A i \in 1 .. Cardinality(new) : f[i] \in DOMAIN answer /\ ~Contains(Planned, answer[f[i]])
  BY <1>3
<1> HIDE DEF new
<1>6. angles \in Seq(Topics) /\ ~Contains(Planned, angles[1])
  <2>1. DOMAIN angles = 1 .. Cardinality(new) /\ \A i \in 1 .. Cardinality(new) : angles[i] = answer[f[i]]
    BY <1>3
  <2>2. \A i \in 1 .. Cardinality(new) : answer[f[i]] \in Topics
    BY <1>1, <1>5
  <2>3. angles \in [1 .. Cardinality(new) -> Topics]
    BY <1>3, <2>1, <2>2
  <2>4. angles \in Seq(Topics) /\ Len(angles) = Cardinality(new)
    BY <1>4, <2>3
  <2>5. 1 \in 1 .. Cardinality(new)
    BY <1>2, <1>4, <2>4
  <2> QED
    BY <1>5, <2>1, <2>4, <2>5
<1> QED
  BY <1>1, <1>2, <1>6, MorePlannedKeeps

LEMMA FirstPlan ==
    ASSUME NEW answer \in AngleLists
    PROVE  LET planned == Initial(ProposedAngles(answer))
           IN  planned \in Seq(Topics) /\ planned[1] \in Topics /\ planned[1] \in Range(planned)
<1> DEFINE n == Min({Len(answer), MaxAngles, 6})
<1>1. answer \in Seq(Topics) /\ Len(answer) \in Nat /\ Len(answer) > 0 /\ MaxAngles \in Nat \ {0}
  BY ResearchAssumption
<1>2. n \in {Len(answer), MaxAngles, 6} /\ n <= Len(answer)
  <2>1. PICK m \in {Len(answer), MaxAngles, 6} : \A k \in {Len(answer), MaxAngles, 6} : m <= k
    BY <1>1
  <2> QED
    BY <1>1, <2>1 DEF Min
<1>3. n \in 1 .. Len(answer)
  BY <1>1, <1>2
<1> HIDE DEF n
<1>4. /\ SubSeq(answer, 1, n) \in Seq(Topics) /\ Len(SubSeq(answer, 1, n)) = n
      /\ ProposedAngles(answer) = SubSeq(answer, 1, n)
  <2>1. 1 \in 1 .. Len(answer) + 1 /\ n \in 1 - 1 .. Len(answer) /\ n - 1 + 1 = n
    BY <1>1, <1>3
  <2>2. SubSeq(answer, 1, n) \in Seq(Topics) /\ Len(SubSeq(answer, 1, n)) = n
    BY <1>1, <2>1, SubSeqProperties
  <2> QED
    BY <2>2 DEF ProposedAngles, n
<1>5. PICK planned \in Seq(Topics) : Len(planned) > 0 /\ planned = Initial(ProposedAngles(answer))
  <2>1. PICK one \in Seq(Topics) : Len(one) = 1 /\ one = SubSeq(ProposedAngles(answer), 1, 1)
    <3>1. ProposedAngles(answer) \in Seq(Topics) /\ Len(ProposedAngles(answer)) \in Nat /\ Len(ProposedAngles(answer)) > 0
      BY <1>3, <1>4
    <3>2. /\ 1 \in 1 .. Len(ProposedAngles(answer)) + 1 /\ 1 \in 1 - 1 .. Len(ProposedAngles(answer))
          /\ 1 - 1 + 1 = 1
      BY <3>1
    <3>3. /\ SubSeq(ProposedAngles(answer), 1, 1) \in Seq(Topics)
          /\ Len(SubSeq(ProposedAngles(answer), 1, 1)) = 1
      BY <3>1, <3>2, SubSeqProperties
    <3> QED
      BY <3>3, Zenon
  <2>2. ProposedAngles(answer) \in Seq(Topics) /\ Len(ProposedAngles(answer)) > 0
    BY <1>3, <1>4
  <2>3. CASE Session \in Progressive
    <3>1. Initial(ProposedAngles(answer)) = one
      BY <2>1, <2>3 DEF Initial
    <3>2. Len(one) > 0
      BY <2>1
    <3> QED
      BY <3>1, <3>2, Zenon
  <2>4. CASE Session \notin Progressive
    <3>1. Initial(ProposedAngles(answer)) = ProposedAngles(answer)
      BY <2>4 DEF Initial
    <3> QED
      BY <2>2, <3>1, Zenon
  <2> QED
    BY <2>3, <2>4
<1> QED
  BY <1>5 DEF Range

LEMMA PlanAndStartKeeps ==
    ASSUME ResearchInv, NEW answer \in AngleLists, PlanAndStart(answer)
    PROVE  ResearchInv'
<1>1. /\ DotsAre' /\ runs' = runs /\ stopping' = stopping /\ OneWaitingRun' /\ OthersRest
      /\ coord.pc = "plan" /\ 0 \in 0 .. MaxRounds
      /\ \A s \in Sessions : RunsOf(s)' = RunsOf(s)
      /\ \A s \in Sessions : \A a : Investigated(s, a)' = Investigated(s, a)
  BY CoordRests, ResearchAssumption DEF PlanAndStart
<1>2. PICK planned \in Seq(Topics) : /\ planned[1] \in Topics /\ planned[1] \in Range(planned)
                                     /\ SaveSession("running", planned, 0) /\ GoEnqueue(planned[1], "enqueue_first")
  BY FirstPlan DEF PlanAndStart
<1>3. coord' = [pc |-> "enqueue_first", session |-> coord.session, angle |-> planned[1], done |-> coord.done]
  BY <1>2 DEF GoEnqueue, ResearchInv, SessionsAre, CoordIs
<1>4. Session \in Sessions /\ RunsOf(Session) = {}
  BY <1>1, ResearchShape DEF ResearchInv, RunsArePlanned
<1>5. /\ sessions' \in [Sessions -> SessionRow] /\ OrderIs' /\ Planned' = planned /\ Session' = Session
      /\ sessions'[Session] = [status |-> "running", planned |-> planned, rounds |-> 0]
      /\ \A s \in Sessions : s # Session => sessions'[s] = sessions[s]
      /\ stopping' \in Sessions \cup {0} /\ (stopping' # 0 => sessions'[stopping'].status # "none")
  BY <1>1, <1>2, <1>3, SessionSaved DEF Session
<1>6. RunsArePlanned' /\ NoneWaits'
  BY <1>1, <1>3, <1>4, <1>5 DEF ResearchInv, RunsArePlanned, NoneWaits, Stripped
<1>7. AttemptsAre'
  BY <1>3 DEF AttemptsAre
<1>8. EveryAngleTried'
  <2>1. \A a : Investigated(Session, a) = 0
    <3>1. \A a : RunsAt(Session, a) = {}
      BY <1>4 DEF RunsAt
    <3> QED
      BY <3>1, RunsAreCounted, ResearchShape
  <2>2. \A s \in Sessions : s = Session => \A a \in Topics : Investigated(s, a)' <= Attempts
    BY <1>1, <2>1, ResearchAssumption
  <2>3. \A s \in Sessions : s # Session => \A a : Misnamed(s, a)' = Misnamed(s, a)
    BY <1>5 DEF Misnamed
  <2>4. \A s \in Sessions : \A a \in Topics : Investigated(s, a)' <= Attempts \/ Misnamed(s, a)'
    BY <1>1, <2>2, <2>3 DEF ResearchInv, EveryAngleTried
  <2>5. \A s \in Sessions : sessions'[s].status = "completed" => s # Session /\ sessions'[s] = sessions[s]
    BY <1>5
  <2>6. \A s \in Sessions : sessions'[s].status = "completed" =>
          \A i \in DOMAIN sessions'[s].planned : \A a : a = sessions'[s].planned[i] => Investigated(s, a)' > 0
    BY <1>1, <2>5 DEF ResearchInv, EveryAngleTried
  <2> QED
    BY <2>4, <2>6 DEF EveryAngleTried
<1>9. SessionsAre'
  <2>1. coord.done \in BOOLEAN /\ coord.session = Session
    BY DEF ResearchInv, SessionsAre, CoordIs, Session
  <2>2. CoordIs'
    BY <1>2, <1>3, <1>4, <1>5, <2>1 DEF CoordIs
  <2> QED
    BY <1>5, <2>2 DEF SessionsAre
<1> QED
  BY <1>1, <1>5, <1>6, <1>7, <1>8, <1>9 DEF ResearchInv

LEMMA EnqueueAngleKeeps ==
    ASSUME ResearchInv, EnqueueAngle
    PROVE  ResearchInv'
<1>1. /\ coord.pc \in {"enqueue", "enqueue_first"} /\ coord.pc # "idle" /\ stopping' = stopping
      /\ Session \in Sessions /\ Planned \in Seq(Topics) /\ sessions[Session].rounds \in 0 .. MaxRounds
      /\ coord.session = Session /\ coord.angle \in Range(Planned) /\ coord.angle \in Topics
      /\ coord.done \in BOOLEAN /\ coord.angle \in Topics \cup {Nothing}
  <2>1. coord.pc \in {"enqueue", "enqueue_first"} /\ stopping' = stopping
    BY DEF EnqueueAngle
  <2>2. Session \in Sessions /\ Planned \in Seq(Topics) /\ sessions[Session].rounds \in 0 .. MaxRounds
    BY <2>1, ResearchShape
  <2>3. coord.angle \in Range(Planned) /\ coord.done \in BOOLEAN
    BY <2>1 DEF ResearchInv, SessionsAre, CoordIs
  <2> QED
    BY <2>1, <2>2, <2>3 DEF Session, Range
<1> DEFINE looking == [pc |-> "look", session |-> coord.session, angle |-> coord.angle, done |-> coord.done]
<1>2. [coord EXCEPT !.pc = "look"] = looking
  BY DEF ResearchInv, SessionsAre, CoordIs
<1>3. CASE coord.angle \in TooLong /\ coord' = Resting /\ UNCHANGED <<runs, sessions>>
  <2>1. DotsAre' /\ RunsGo
    BY <1>3, DotsRest, ResearchShape DEF EnqueueAngle, DotsAre
  <2>2. SessionsAre' /\ OrderIs'
    BY <1>1, <1>3 DEF ResearchInv, SessionsAre, CoordIs, OrderIs, Resting, SessionRow
  <2>3. RunsArePlanned' /\ NoneWaits' /\ AttemptsAre' /\ OneWaitingRun' /\ EveryAngleTried'
    BY <1>3, <2>1, PlansStay DEF DotsAre
  <2> QED
    BY <2>1, <2>2, <2>3 DEF ResearchInv
<1>4. CASE /\ coord' = looking \/ coord' = Resting
           /\ SaveSession("failed", Planned, sessions[Session].rounds) /\ UNCHANGED runs
  <2>1. OthersRest
    BY <1>4 DEF EnqueueAngle, OthersRest, dotsVars
  <2>2. /\ DotsAre' /\ runs' = runs /\ OneWaitingRun'
        /\ \A s \in Sessions : RunsOf(s)' = RunsOf(s)
    BY <2>1, CoordRests
  <2>3. coord'.pc \in {"idle", "look"} /\ (coord'.pc # "idle" => coord' = looking /\ coord'.session = Session /\ Session' = Session)
    BY <1>1, <1>4 DEF Resting, Session
  <2>4. /\ sessions' \in [Sessions -> SessionRow] /\ OrderIs'
        /\ sessions'[Session] = [status |-> "failed", planned |-> Planned, rounds |-> sessions[Session].rounds]
        /\ \A s \in Sessions : s # Session => sessions'[s] = sessions[s]
        /\ stopping' \in Sessions \cup {0} /\ (stopping' # 0 => sessions'[stopping'].status # "none")
    BY <1>1, <1>4, <2>3, SessionSaved
  <2>5. sessions'[Session].status = "failed" /\ sessions'[Session].planned = Planned
    BY <2>4
  <2>6. /\ \A s \in Sessions : sessions'[s].status \in {"none", "queued"} => RunsOf(s)' = {}
        /\ \A s \in Sessions : \A r \in RunsOf(s)' :
             \E angle \in Range(sessions'[s].planned) : runs'[r].topic = Stripped(angle)
        /\ EveryAngleTried'
    BY <1>1, <2>1, <2>4, <2>5, MorePlanned
  <2>7. RunsArePlanned'
    BY <2>3, <2>5, <2>6 DEF RunsArePlanned, Stripped
  <2>8. NoneWaits' /\ AttemptsAre'
    BY <2>3 DEF NoneWaits, AttemptsAre
  <2>9. CoordIs'
    <3>1. CASE coord' = Resting
      BY <3>1 DEF CoordIs, Resting
    <3>2. CASE coord' = looking
      BY <1>1, <2>5, <3>2 DEF CoordIs
    <3> QED
      BY <1>4, <3>1, <3>2
  <2> QED
    BY <2>2, <2>4, <2>6, <2>7, <2>8, <2>9 DEF ResearchInv, SessionsAre
<1>5. CASE /\ coord' = looking \/ coord' = Resting
           /\ Enqueue(Stripped(coord.angle), Session) /\ UNCHANGED sessions
  <2> DEFINE n == Len(runs) + 1
             name == Stripped(coord.angle)
  <2>1. name \in Topics
    BY <1>1, ResearchAssumption DEF Stripped
  <2>2. /\ runs' \in Seq(DotRow) /\ Len(runs') = n /\ DOMAIN runs' = DOMAIN runs \cup {n} /\ n \notin DOMAIN runs
        /\ \A q \in DOMAIN runs : runs'[q] = runs[q]
        /\ runs'[n] = [topic |-> name, owner |-> Session, status |-> "queued"]
    BY <1>1, <1>5, <2>1, RunQueued, ResearchShape DEF NewRun
  <2>3. runs \in Seq(DotRow) /\ Len(runs) \in Nat /\ DOMAIN runs = 1 .. Len(runs)
    BY ResearchShape, RunRows
  <2>4. DotsAre'
    BY <2>2, <2>3 DEF ResearchInv, DotsAre, DroppedStaysOff, TakenIsNotDropped, EnqueueAngle, watchVars
  <2> HIDE DEF n, name
  <2>5. coord'.pc \in {"idle", "look"} /\ (coord'.pc # "idle" => coord' = looking /\ coord'.session = Session /\ Session' = Session)
    BY <1>1, <1>5 DEF Resting, Session
  <2>6. CoordIs' /\ SessionsAre'
    <3>1. sessions[Session].status # "none"
      BY <1>1, ResearchShape
    <3>2. ASSUME coord' = Resting PROVE CoordIs'
      BY <3>2 DEF CoordIs, Resting
    <3>3. ASSUME coord' = looking PROVE CoordIs'
      BY <1>1, <1>5, <3>1, <3>3 DEF CoordIs
    <3>4. CoordIs'
      BY <1>5, <3>2, <3>3
    <3> QED
      BY <1>1, <1>5, <3>4 DEF ResearchInv, SessionsAre, SessionRow
  <2>7. OrderIs'
    BY <1>1, <1>5, <2>5 DEF ResearchInv, OrderIs
  <2>8. RunsOf(Session)' = RunsOf(Session)' /\ \A s \in Sessions : RunsOf(s)' = IF s = Session THEN RunsOf(s) \cup {n} ELSE RunsOf(s)
    BY <2>2 DEF RunsOf
  <2>9. \A s \in Sessions : \A a : RunsAt(s, a)' =
          IF s = Session /\ a = name THEN RunsAt(s, a) \cup {n} ELSE RunsAt(s, a)
    <3>1. ASSUME NEW s \in Sessions, NEW a
          PROVE  RunsAt(s, a)' = IF s = Session /\ a = name THEN RunsAt(s, a) \cup {n} ELSE RunsAt(s, a)
      <4>1. \A r \in RunsOf(s) : r \in DOMAIN runs /\ runs'[r] = runs[r]
        BY <2>2 DEF RunsOf
      <4>2. runs'[n].topic = name
        BY <2>2
      <4> QED
        BY <2>8, <4>1, <4>2 DEF RunsAt
    <3> QED
      BY <3>1
  <2>10. RunsArePlanned'
    <3>1. \A s \in Sessions : sessions'[s].status \in {"none", "queued"} => RunsOf(s)' = {}
      BY <1>1, <1>5, <2>8, ResearchShape DEF ResearchInv, RunsArePlanned
    <3>2. \A s \in Sessions : \A r \in RunsOf(s) : r \in DOMAIN runs /\ runs'[r] = runs[r]
      BY <2>2 DEF RunsOf
    <3>3. \A s \in Sessions : \A r \in RunsOf(s)' :
            \E angle \in Range(sessions'[s].planned) : runs'[r].topic = Stripped(angle)
      BY <1>1, <1>5, <2>2, <2>8, <3>2 DEF ResearchInv, RunsArePlanned, Planned, name
    <3>4. coord'.pc # "idle" => sessions'[Session].status # "queued"
      BY <1>1, <1>5 DEF ResearchInv, RunsArePlanned
    <3> QED
      BY <2>5, <3>1, <3>3, <3>4 DEF RunsArePlanned, Stripped
  <2>11. NoneWaits' /\ AttemptsAre'
    BY <2>5 DEF NoneWaits, AttemptsAre
  <2>12. OneWaitingRun'
    <3>1. \A r \in DOMAIN runs : runs[r].owner = Session => runs[r].status # "queued"
      BY <1>1 DEF ResearchInv, NoneWaits, RunsOf
    <3> QED
      BY <2>2, <3>1 DEF ResearchInv, OneWaitingRun
  <2>13. EveryAngleTried'
    <3>1. \A s \in Sessions : \A a :
            /\ Investigated(s, a) \in Nat
            /\ Investigated(s, a)' = IF s = Session /\ a = name THEN Investigated(s, a) + 1 ELSE Investigated(s, a)
      <4>1. ASSUME NEW s \in Sessions, NEW a
            PROVE  /\ Investigated(s, a) \in Nat
                   /\ Investigated(s, a)' = IF s = Session /\ a = name THEN Investigated(s, a) + 1 ELSE Investigated(s, a)
        <5>1. /\ IsFiniteSet(RunsAt(s, a)) /\ Investigated(s, a) = Cardinality(RunsAt(s, a)) /\ Investigated(s, a) \in Nat
          BY <2>3, RunsAreCounted
        <5>2. Investigated(s, a)' = Cardinality(RunsAt(s, a)')
          BY DEF Investigated, RunsAt
        <5>3. n \notin RunsAt(s, a)
          BY <2>2 DEF RunsAt, RunsOf
        <5>4. Cardinality(RunsAt(s, a) \cup {n}) = Cardinality(RunsAt(s, a)) + 1
          BY <5>1, <5>3, FS_AddElement
        <5> QED
          BY <2>9, <5>1, <5>2, <5>4
      <4> QED
        BY <4>1
    <3>2. \A s \in Sessions : \A a : Misnamed(s, a)' = Misnamed(s, a)
      BY <1>5 DEF Misnamed
    <3>3. Investigated(Session, name) < Attempts \/ Misnamed(Session, name)
      <4>1. CASE coord.pc = "enqueue"
        BY <4>1 DEF ResearchInv, AttemptsAre, name
      <4>2. CASE coord.pc = "enqueue_first"
        <5>1. RunsAt(Session, name) = {}
          BY <4>2 DEF ResearchInv, RunsArePlanned, RunsAt
        <5>2. Investigated(Session, name) = 0
          BY <2>3, <5>1, RunsAreCounted
        <5> QED
          BY <5>2, ResearchAssumption
      <4> QED
        BY <1>1, <4>1, <4>2
    <3>4. \A s \in Sessions : \A a \in Topics : Investigated(s, a)' <= Attempts \/ Misnamed(s, a)'
      <4>1. ASSUME NEW s \in Sessions, NEW a \in Topics
            PROVE  Investigated(s, a)' <= Attempts \/ Misnamed(s, a)'
        <5>1. Investigated(s, a) <= Attempts \/ Misnamed(s, a)
          BY DEF ResearchInv, EveryAngleTried
        <5>2. Misnamed(s, a)' = Misnamed(s, a)
          BY <3>2
        <5> QED
          BY <3>1, <3>3, <5>1, <5>2, ResearchAssumption
      <4> QED
        BY <4>1
    <3>5. \A s \in Sessions : sessions'[s].status = "completed" =>
            \A i \in DOMAIN sessions'[s].planned : \A a : a = sessions'[s].planned[i] => Investigated(s, a)' > 0
      BY <1>5, <3>1 DEF ResearchInv, EveryAngleTried
    <3> QED
      BY <3>4, <3>5 DEF EveryAngleTried
  <2> QED
    BY <2>4, <2>6, <2>7, <2>10, <2>11, <2>12, <2>13 DEF ResearchInv
<1> QED
  BY <1>2, <1>3, <1>4, <1>5 DEF EnqueueAngle

LEMMA ResearchStarts == ResearchInit => ResearchInv
<1> SUFFICES ASSUME ResearchInit PROVE ResearchInv
  OBVIOUS
<1>1. runs = << >> /\ runs \in Seq(DotRow) /\ Len(runs) = 0 /\ DOMAIN runs = {}
  BY DEF ResearchInit, DotsInit
<1>2. DotsAre
  BY <1>1, DotsAssumption DEF DotsAre, ResearchInit, DotsInit, Off, NotQueueing, NotPatching, DroppedStaysOff, TakenIsNotDropped, Ticks
<1>3. /\ sessions \in [Sessions -> SessionRow]
      /\ \A s \in Sessions : sessions[s].status = "none" /\ sessions[s].planned = << >>
  BY ResearchAssumption DEF ResearchInit, SessionRow
<1>4. SessionsAre /\ OrderIs
  BY <1>3 DEF ResearchInit, SessionsAre, CoordIs, OrderIs, Resting
<1>5. RunsArePlanned /\ NoneWaits /\ AttemptsAre /\ OneWaitingRun
  BY <1>1 DEF ResearchInit, RunsArePlanned, NoneWaits, AttemptsAre, OneWaitingRun, RunsOf, Resting
<1>6. EveryAngleTried
  <2>1. \A s, a : RunsAt(s, a) = {}
    BY <1>1 DEF RunsAt, RunsOf
  <2>2. \A s, a : Investigated(s, a) = 0
    BY <1>1, <2>1, RunsAreCounted
  <2>3. \A s \in Sessions : \A a \in Topics : Investigated(s, a) <= Attempts
    BY <2>2, ResearchAssumption
  <2>4. \A s \in Sessions : sessions[s].status # "completed"
    BY <1>3
  <2> QED
    BY <2>3, <2>4 DEF EveryAngleTried
<1> QED
  BY <1>2, <1>4, <1>5, <1>6 DEF ResearchInv

LEMMA ResearchStutters ==
    ASSUME ResearchInv, UNCHANGED sessionVars
    PROVE  ResearchInv'
<1>1. UNCHANGED <<runs, worker, alive, watchVars, cancelling, dropped, events, sessions, coord, stopping>>
  BY DEF sessionVars, dotsVars, researchVars
<1>2. DotsAre' /\ RunsGo
  BY <1>1, DotsRest, ResearchShape DEF DotsAre
<1>3. SessionsAre' /\ OrderIs'
  BY <1>1 DEF ResearchInv, SessionsAre, CoordIs, OrderIs, Session, Planned, SessionRow
<1>4. RunsArePlanned' /\ NoneWaits' /\ AttemptsAre' /\ OneWaitingRun' /\ EveryAngleTried'
  BY <1>1, <1>2, PlansStay DEF DotsAre
<1> QED
  BY <1>2, <1>3, <1>4 DEF ResearchInv

LEMMA ResearchHolds == ResearchSpec => []ResearchInv
<1>1. ResearchInit => ResearchInv
  BY ResearchStarts
<1>2. ResearchInv /\ [ResearchNext]_sessionVars => ResearchInv'
  <2>1. ResearchInv /\ CoordStep => ResearchInv'
    BY AdvanceKeeps, PlanAndStartKeeps, EnqueueAngleKeeps, LookKeeps, PlanNextKeeps, PlanRoundKeeps, EnoughKeeps, FinishKeeps
       DEF CoordStep
  <2>2. ResearchInv /\ ResearchNext => ResearchInv'
    BY <2>1, DotsKeepResearch, RestartKeepsResearch, CoordFailsKeeps, CreateKeeps, CancelSessionReadKeeps, CancelSessionSaveKeeps
       DEF ResearchNext
  <2> QED
    BY <2>2, ResearchStutters
<1> QED
  BY <1>1, <1>2, PTL DEF ResearchSpec

(* Sessions are investigated one at a time and in their order, at most one *)
(* run of a session waits for the worker, no angle that is kept by its     *)
(* name is tried more often than allowed or left out by a session that is  *)
(* completed, and a run cancelled before it was taken is never executed,   *)
(* for any sessions, angles, attempts, rounds, watches, calls and restarts. *)
THEOREM SessionsStayOrderly == ResearchSpec => []SessionsAreOrderly
<1>1. ResearchInv => SessionsAreOrderly
  <2> SUFFICES ASSUME ResearchInv PROVE SessionsAreOrderly
    OBVIOUS
  <2>1. TypeOK
    BY DEF ResearchInv, DotsAre, DotRow, SessionsAre, SessionRow, CoordIs, TypeOK
  <2>2. OneSessionAtATime
    BY ResearchAssumption DEF ResearchInv, OrderIs, OneSessionAtATime, Settled
  <2> QED
    BY <2>1, <2>2 DEF ResearchInv, DotsAre, SessionsAreOrderly
<1> QED
  BY <1>1, ResearchHolds, PTL

================================================================================
