---------------------------- MODULE ArgusKnowledge -----------------------------
(***************************************************************************)
(* What Argus makes of evidence: each batch that brought something new is  *)
(* put through extraction, entity resolution, correlation, change          *)
(* detection and the hypothesis engine, and confirmed hypotheses are       *)
(* reported, by the pass itself or by a tick that looks for what no report *)
(* covers yet.  Passes of several collectors run at once, and every        *)
(* database call is a place where they interleave.                         *)
(***************************************************************************)
EXTENDS ArgusCollectors, FiniteSetsExt

CONSTANTS
  Keys,           \* canonical keys of entities
  Mentions,       \* what the extractor finds in a content, in its order
  Overlong,       \* contents with a name RawEntity does not hold (256 characters)
  Cves, Actors,   \* keys of kind cve; of kind threat actor, malware, organization
  OracleAnswers,  \* confidences, in tenths, of hypotheses Oracle may propose
  ReportAt,       \* report_min_confidence, in tenths
  MaxHypotheses   \* bound: the hypotheses a property looks at

ASSUME KnowledgeAssumption ==
  /\ Mentions \in [Contents -> Seq(Keys)]
  /\ \A content \in Contents : IsInjective(Mentions[content])   \* _dedupe
  /\ Overlong \subseteq Contents
  /\ Cves \cup Actors \subseteq Keys
  /\ OracleAnswers \subseteq Seq(0 .. 10)
  /\ ReportAt \in 0 .. 10 /\ MaxHypotheses \in Nat

VARIABLES
  entities,    \* times_seen per key; 0 where there is no row
  relations,   \* times_seen per pair of entities that has a row
  changes,     \* the table of changes
  hypotheses,  \* confidence, evidence, whether it is newer than every report, reports naming it
  pass,        \* per collector: what its pass has extracted, read and created
  reporter     \* the report tick

knowledgeVars == <<entities, relations, changes, hypotheses, pass, reporter>>
vars == <<evidenceVars, knowledgeVars>>

NoPass == [item |-> 1, mention |-> 1, read |-> 0, created |-> {}, saved |-> {}]
NoTick == [pc |-> "idle", confirmed |-> {}]

Init ==
  /\ CollectorsInit
  /\ entities = [k \in Keys |-> 0]
  /\ relations = << >>
  /\ changes = << >>
  /\ hypotheses = << >>
  /\ pass = [c \in Collectors |-> NoPass]
  /\ reporter = NoTick

Storing == UNCHANGED <<evidence, health, dots, clock, mishaps>>

--------------------------------------------------------------------------------
(* ArgusRuntime._intelligence_pass, one await at a time.                     *)

(* The first item from one on that mentions something, or the end.           *)
MentionsIn(row) == Mentions[evidence[row].content]

NextItem(c, first) ==
  LET new == loop[c].new IN
  {i \in first .. Len(new) + 1 : /\ i <= Len(new) => MentionsIn(new[i]) # << >>
                                 /\ \A j \in first .. i - 1 : MentionsIn(new[j]) = << >>}

(* All items are extracted first; one that cannot be held ends the pass, and *)
(* with it the loop of the collector.                                        *)
Extract(c) ==
  /\ loop[c].pc = "extract"
  /\ IF \E i \in DOMAIN loop[c].new : evidence[loop[c].new[i]].content \in Overlong
     THEN /\ Ends(c) /\ UNCHANGED pass
     ELSE \E item \in NextItem(c, 1) :
            /\ pass' = [pass EXCEPT ![c].item = item]
            /\ Goto(c, IF item > Len(loop[c].new) THEN "detect" ELSE "lookup")
  /\ Storing
  /\ UNCHANGED <<entities, relations, changes, hypotheses, reporter>>

(* The item whose mentions are resolved, and the mention it is at.           *)
ItemOf(c) == loop[c].new[pass[c].item]
KeyOf(c) == MentionsIn(ItemOf(c))[pass[c].mention]

Lookup(c) ==
  /\ loop[c].pc = "lookup"
  /\ pass' = [pass EXCEPT ![c].read = entities[KeyOf(c)]]
  /\ Goto(c, "save")
  /\ Storing
  /\ UNCHANGED <<entities, relations, changes, hypotheses, reporter>>

(* Variant: the table takes a second row of a key.                           *)
ClashNever(key, read) == FALSE

(* name_key is unique: a row for a key that got one since it was looked up   *)
(* is refused.                                                               *)
Clash(key, read) == read = 0 /\ entities[key] > 0

(* save_entity: a new row, or the row that was read with this sighting       *)
(* merged into it, whatever has become of it since.                          *)
Resolved(key, read) == [entities EXCEPT ![key] = read + 1]

NextMention(c) ==
  IF pass[c].mention < Len(MentionsIn(ItemOf(c)))
  THEN {<<pass[c].item, pass[c].mention + 1>>}
  ELSE {<<item, 1>> : item \in NextItem(c, pass[c].item + 1)}

(* What the resolver has created so far, not what it has updated.            *)
Created(c) ==
  pass[c].created \cup
    (IF pass[c].read = 0 THEN {[row |-> ItemOf(c), key |-> KeyOf(c)]} ELSE {})

SaveEntity(c) ==
  /\ loop[c].pc = "save"
  /\ IF Clash(KeyOf(c), pass[c].read)
     THEN /\ Ends(c)
          /\ pass' = [pass EXCEPT ![c] = NoPass]
          /\ UNCHANGED entities
     ELSE /\ entities' = Resolved(KeyOf(c), pass[c].read)
          /\ \E next \in NextMention(c) :
               /\ pass' = [pass EXCEPT
                    ![c] = [@ EXCEPT !.item = next[1], !.mention = next[2], !.created = Created(c)]]
               /\ Goto(c, IF next[1] > Len(loop[c].new) THEN "relate" ELSE "lookup")
  /\ Storing
  /\ UNCHANGED <<relations, changes, hypotheses, reporter>>

CreatedIn(c, row) == {mention.key : mention \in {m \in pass[c].created : m.row = row}}

(* get_relation and save_relation, for each pair: seen once more.            *)
Related(pairs) ==
  [p \in DOMAIN relations \cup pairs |->
     (IF p \in DOMAIN relations THEN relations[p] ELSE 0) + (IF p \in pairs THEN 1 ELSE 0)]

(* The correlator is given, per item, the entities that the resolver created *)
(* for it, not those it updated: nobody else has relations of theirs yet.    *)
Relate(c) ==
  LET pairs == UNION {{{k, l} : k, l \in CreatedIn(c, row)} : row \in ToSet(loop[c].new)} IN
  /\ loop[c].pc = "relate"
  /\ relations' = Related({p \in pairs : Cardinality(p) = 2})
  /\ Goto(c, "detect")
  /\ Storing
  /\ UNCHANGED <<entities, changes, hypotheses, pass, reporter>>

(* latest_for_url: the newest other row of the page, whoever wrote it.       *)
Previous(row) ==
  LET others == {i \in DOMAIN evidence :
                   i # row /\ UrlOf[evidence[i].content] = UrlOf[evidence[row].content]}
  IN {i \in others : \A j \in others : evidence[i].at >= evidence[j].at}

PageChanges(c) ==
  {[type |-> "content_changed", row |-> row] :
     row \in {r \in ToSet(loop[c].new) :
                /\ c \in Scrapes
                /\ \E i \in Previous(r) : evidence[i].content # evidence[r].content}}

NewEntities(c) == {[type |-> "new_entity", key |-> m.key] : m \in pass[c].created}

(* A relation is new as long as it was seen once.                            *)
NewRelations(c) ==
  {[type |-> "new_relation", pair |-> p] :
     p \in {q \in DOMAIN relations :
              /\ relations[q] = 1
              /\ \E row \in ToSet(loop[c].new) : q \subseteq CreatedIn(c, row)}}

Detect(c) ==
  /\ loop[c].pc = "detect"
  /\ changes' = changes \o SetToSeq(PageChanges(c) \cup NewEntities(c) \cup NewRelations(c))
  /\ Goto(c, "propose")
  /\ Storing
  /\ UNCHANGED <<entities, relations, hypotheses, pass, reporter>>

--------------------------------------------------------------------------------
(* Hypotheses, in tenths of confidence.                                      *)

ConfirmAt == 7

Hypothesis(confidence, rows) ==
  [confidence |-> confidence, rows |-> rows, fresh |-> TRUE, reports |-> 0]

(* Items that brought both vulnerabilities and actors.                       *)
Linking(c) ==
  {row \in ToSet(loop[c].new) : /\ CreatedIn(c, row) \cap Cves # {}
                                /\ CreatedIn(c, row) \cap Actors # {}}

Strength(c, row) ==
  LET n == 5 + Cardinality(CreatedIn(c, row) \cap Actors) IN IF n > 9 THEN 9 ELSE n

(* One for each of these, for a page that changed (0.6), and for what Oracle *)
(* makes of the batch.                                                       *)
Proposed(c, answer) ==
  LET linking == SetToSeq(Linking(c))
      changed == SetToSeq(PageChanges(c))
  IN [i \in DOMAIN linking |-> Hypothesis(Strength(c, linking[i]), {linking[i]})]
     \o [i \in DOMAIN changed |-> Hypothesis(6, {changed[i].row})]
     \o [i \in DOMAIN answer |-> Hypothesis(answer[i], ToSet(loop[c].new))]

(* persist_and_promote: save_hypothesis, one after the other.                *)
Saved(proposed) == hypotheses \o proposed

Propose(c) ==
  /\ loop[c].pc = "propose"
  /\ \E answer \in OracleAnswers :
       LET proposed == Proposed(c, answer) IN
       /\ hypotheses' = Saved(proposed)
       /\ pass' = [pass EXCEPT ![c].saved = {Len(hypotheses) + i : i \in DOMAIN proposed}]
  /\ Goto(c, "report")
  /\ Storing
  /\ UNCHANGED <<entities, relations, changes, reporter>>

Reportable(ids) ==
  {h \in ids : /\ hypotheses[h].confidence >= ConfirmAt
               /\ hypotheses[h].confidence >= ReportAt}

(* save_report: it is newer than every hypothesis that is stored by then.    *)
Reported(covered) ==
  hypotheses' = [h \in DOMAIN hypotheses |->
    [hypotheses[h] EXCEPT !.fresh = FALSE,
                          !.reports = IF h \in covered THEN @ + 1 ELSE @]]

(* ReportGenerator.generate: without a hypothesis to report there is none.   *)
Generate(ids) ==
  IF Reportable(ids) = {} THEN UNCHANGED hypotheses ELSE Reported(Reportable(ids))

ReportPass(c) ==
  /\ loop[c].pc = "report"
  /\ Generate(pass[c].saved)
  /\ loop' = [loop EXCEPT ![c] = AtRest]
  /\ pass' = [pass EXCEPT ![c] = NoPass]
  /\ Storing
  /\ UNCHANGED <<entities, relations, changes, reporter>>

--------------------------------------------------------------------------------
(* ArgusRuntime._report_tick and the reports of the dot investigations,      *)
(* which go into the same table.                                             *)

ReadConfirmed ==
  LET confirmed == {h \in DOMAIN hypotheses : hypotheses[h].confidence >= ConfirmAt} IN
  /\ reporter.pc = "idle" /\ confirmed # {}
  /\ reporter' = [pc |-> "compare", confirmed |-> confirmed]
  /\ UNCHANGED <<evidenceVars, entities, relations, changes, hypotheses, pass>>

(* Variant: the times are compared the other way round.                      *)
UncoveredBefore(ids) == {h \in ids : ~hypotheses[h].fresh}

(* Those updated after the newest report of any kind.                        *)
Uncovered(ids) == {h \in ids : hypotheses[h].fresh}

CompareWithLatest ==
  LET newest == Uncovered(reporter.confirmed) IN
  /\ reporter.pc = "compare"
  /\ reporter' = IF newest = {} THEN NoTick ELSE [pc |-> "generate", confirmed |-> newest]
  /\ UNCHANGED <<evidenceVars, entities, relations, changes, hypotheses, pass>>

ReportTick ==
  /\ reporter.pc = "generate"
  /\ Generate(reporter.confirmed)
  /\ reporter' = NoTick
  /\ UNCHANGED <<evidenceVars, entities, relations, changes, pass>>

DotsReport ==
  /\ \E h \in DOMAIN hypotheses : hypotheses[h].fresh
  /\ Reported({})
  /\ UNCHANGED <<evidenceVars, entities, relations, changes, pass, reporter>>

--------------------------------------------------------------------------------
(* What goes wrong.                                                          *)

(* A database call of an ingest raises: the loop of its collector is over.   *)
IngestFails(c) ==
  /\ loop[c].pc \notin {"setup", "collect", "over"}
  /\ Mishap /\ Ends(c)
  /\ pass' = [pass EXCEPT ![c] = NoPass]
  /\ UNCHANGED <<evidence, health, dots, clock>>
  /\ UNCHANGED <<entities, relations, changes, hypotheses, reporter>>

TickFails ==
  /\ reporter.pc \in {"compare", "generate"}
  /\ Mishap
  /\ reporter' = [NoTick EXCEPT !.pc = "over"]
  /\ UNCHANGED <<evidence, loop, health, dots, clock>>
  /\ UNCHANGED <<entities, relations, changes, hypotheses, pass>>

(* The tables stay; the tasks, the status objects and what they held do not. *)
Restart ==
  /\ Mishap
  /\ loop' = [c \in Collectors |-> [AtRest EXCEPT !.pc = "setup"]]
  /\ health' = [c \in Collectors |-> Healthy]
  /\ dots' = NoPages
  /\ pass' = [c \in Collectors |-> NoPass]
  /\ reporter' = NoTick
  /\ UNCHANGED <<evidence, clock, entities, relations, changes, hypotheses>>

Ingest(c) ==
  \/ Exists(c) /\ UNCHANGED knowledgeVars
  \/ Add(c) /\ UNCHANGED knowledgeVars
  \/ Extract(c) \/ Lookup(c) \/ SaveEntity(c) \/ Relate(c)
  \/ Detect(c) \/ Propose(c) \/ ReportPass(c)

Next ==
  \/ \E c \in Collectors :
       \/ (Setup(c) \/ Collect(c) \/ CollectFails(c)) /\ UNCHANGED knowledgeVars
       \/ Ingest(c)
       \/ IngestFails(c)
  \/ /\ \/ \E content \in Contents : Visit(content)
        \/ \E page \in dots.adding : Keep(page)
        \/ RunEnds
     /\ UNCHANGED knowledgeVars
  \/ ReadConfirmed \/ CompareWithLatest \/ ReportTick \/ DotsReport
  \/ TickFails \/ Restart

Spec == Init /\ [][Next]_vars

(* The tick comes back every report_interval and its calls return.  Nothing  *)
(* is asked of the collectors: they may sleep, or wait for a page, for ever. *)
Fairness == WF_vars(ReadConfirmed \/ CompareWithLatest \/ ReportTick)

FairSpec == Spec /\ Fairness

--------------------------------------------------------------------------------
(* Properties.                                                               *)

(* An entity is never counted more often than there are stored items that    *)
(* mention it: an item is resolved once, whatever other passes read and      *)
(* write in between, and restarts do not bring it back.                      *)
SightingsAreReal ==
  \A k \in Keys :
    entities[k] <= Cardinality({i \in DOMAIN evidence : k \in ToSet(Mentions[evidence[i].content])})

(* What is new is news once: passes that meet the same name at the same time *)
(* record one new entity, a stored page is recorded as changed once, a       *)
(* hypothesis is named by at most two reports, that of its own pass and one  *)
(* of the tick, which may have read it before the pass had reported; and two *)
(* sources store the same content only if they looked at the same time, so   *)
(* that no source has two rows of it.                                        *)
NewsOnce ==
  /\ IsInjective(changes)
  /\ \A h \in DOMAIN hypotheses : hypotheses[h].reports <= 2
  /\ \A i, j \in DOMAIN evidence :
       i # j /\ evidence[i].content = evidence[j].content => evidence[i].source # evidence[j].source

Swept(h) == h \in DOMAIN hypotheses /\ ~hypotheses[h].fresh

(* As long as the tick lives, a confirmed hypothesis that meets the bar gets *)
(* a report, or a report made after it takes it out of the tick's sight.     *)
ConfirmedGetSwept ==
  \A h \in 1 .. MaxHypotheses :
    h \in Reportable(DOMAIN hypotheses) ~> Swept(h) \/ reporter.pc = "over"

================================================================================
