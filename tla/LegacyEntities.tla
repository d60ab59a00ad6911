---------------------------- MODULE LegacyEntities ----------------------------
(***************************************************************************)
(* Entries of the Legacy journal and the entities their texts name.  Each  *)
(* request, and each extraction job, has a session of its own on one       *)
(* SQLite file: the first statement that writes takes the lock, the commit *)
(* lets go of it, and reads see what is committed and the session's own.   *)
(*                                                                         *)
(* create_entry and update_entry write before they look entities up, the   *)
(* latter when it has found something to change.                           *)
(* create_memory has committed its entry by then and looks without a lock, *)
(* and so do store_entity and the job.                                     *)
(***************************************************************************)
EXTENDS Naturals, Sequences, FiniteSets, FiniteSetsExt

CONSTANTS
  Sessions,
  Texts,
  Mentions,       \* per text, what extract_entities finds: names, each with its type
  Nobody,         \* no session
  MaxSubmits,     \* bound: requests
  MaxBreakdowns   \* bound: statements that fail by themselves, restarts

ASSUME EntitiesAssumption ==
  /\ Mentions \in [Texts -> Seq(STRING \X STRING)]
  /\ Nobody \notin Sessions
  /\ MaxSubmits \in Nat /\ MaxBreakdowns \in Nat

VARIABLES
  entries,     \* per id: the text
  entities,    \* rows <<name, type>>, unique
  linked,      \* entry_entities: <<id, row>>, unique
  writer,      \* the session with the lock
  session,     \* per session: what it does, and what it has not committed
  extractions, \* entity_extraction jobs that wait: ids
  unlinked,    \* history: entries of which a request or job has raised
  clashed,     \* history: kinds of sessions that have raised because of a row of
               \* somebody else, and whether they had written their entry
  submits, breakdowns

entityVars == <<entries, entities, linked, writer, session, extractions, unlinked, clashed,
                submits, breakdowns>>

(* extract_entities finds a name once in a text.                             *)
Named(text) == Mentions[text]

NoText == "none"
NoSession == [kind |-> "none", pc |-> "idle", id |-> 0, text |-> NoText, writes |-> FALSE,
              todo |-> << >>, rows |-> {}, links |-> {}]

EntitiesInit ==
  /\ entries = << >>
  /\ entities = {} /\ linked = {}
  /\ writer = Nobody
  /\ session = [s \in Sessions |-> NoSession]
  /\ extractions = {}
  /\ unlinked = {} /\ clashed = {}
  /\ submits = 0 /\ breakdowns = 0

Breakdown == breakdowns < MaxBreakdowns /\ breakdowns' = breakdowns + 1

Goes(s, kind, id, text) ==
  session' = [session EXCEPT ![s] = [NoSession EXCEPT !.kind = kind, !.pc = "store",
                                                      !.id = id, !.text = text]]

Ends(s) == session' = [session EXCEPT ![s] = NoSession]
Lockable(s) == writer \in {Nobody, s}
TablesRest == UNCHANGED <<entries, entities, linked>>

--------------------------------------------------------------------------------
(* Requests come in. Reflections and observations are memories for which no  *)
(* job is enqueued.                                                          *)
Memories == {"memory", "reflection"}

Submit(s, kind, id, text) ==
  /\ session[s].pc = "idle"
  /\ submits < MaxSubmits /\ submits' = submits + 1
  /\ Goes(s, kind, id, text)
  /\ TablesRest /\ UNCHANGED <<writer, extractions, unlinked, clashed, breakdowns>>

SubmitSome(s) ==
  \/ \E text \in Texts, kind \in Memories \cup {"create", "entity"} : Submit(s, kind, 0, text)
  \/ \E id \in DOMAIN entries, text \in Texts : Submit(s, "update", id, text)

(* A worker runs an extraction.                                              *)
TakeExtraction(s) ==
  /\ session[s].pc = "idle"
  /\ \E id \in extractions :
       /\ extractions' = extractions \ {id}
       /\ Goes(s, "job", id, NoText)
  /\ TablesRest /\ UNCHANGED <<writer, unlinked, clashed, submits, breakdowns>>

(* delete_entry and delete_memory: one transaction, the links with it.       *)
DeleteEntry(id) ==
  /\ writer = Nobody
  /\ submits < MaxSubmits /\ submits' = submits + 1
  /\ entries' = [i \in DOMAIN entries \ {id} |-> entries[i]]
  /\ linked' = {link \in linked : link[1] # id}
  /\ unlinked' = unlinked \ {id}
  /\ UNCHANGED <<entities, writer, session, extractions, clashed, breakdowns>>

--------------------------------------------------------------------------------
(* Storing.                                                                  *)

(* SQLite gives a new row the largest id of the table plus one.              *)
NewId == IF DOMAIN entries = {} THEN 1 ELSE Max(DOMAIN entries) + 1

(* Variant: entities are looked up before anything is flushed.               *)
FlushesLate(s, writes) == UNCHANGED writer

(* create_entry flushes the new row, update_entry what the request changes.  *)
FlushesFirst(s, writes) ==
  IF writes THEN Lockable(s) /\ writer' = s ELSE UNCHANGED writer

Looking(s, id, text, writes) ==
  session' = [session EXCEPT ![s].pc = "look", ![s].id = id, ![s].text = text,
                             ![s].writes = writes, ![s].todo = Named(text)]

StoreEntry(s) ==
  /\ session[s].pc = "store" /\ session[s].kind = "create"
  /\ FlushesFirst(s, TRUE)
  /\ Looking(s, NewId, session[s].text, TRUE)
  /\ TablesRest /\ UNCHANGED <<extractions, unlinked, clashed, submits, breakdowns>>

(* create_memory commits at once.                                            *)
StoreMemory(s) ==
  /\ session[s].pc = "store" /\ session[s].kind \in Memories
  /\ Lockable(s)
  /\ entries' = [i \in DOMAIN entries \cup {NewId} |->
                   IF i = NewId THEN session[s].text ELSE entries[i]]
  /\ session' = [session EXCEPT ![s].pc = "reread", ![s].id = NewId]
  /\ unlinked' = unlinked \ {NewId}
  /\ UNCHANGED <<entities, linked, writer, extractions, clashed, submits, breakdowns>>

(* The entry is loaded again behind a commit, or is gone by then; without    *)
(* an event there is no second commit.                                       *)
RereadMemory(s) ==
  LET id == session[s].id IN
  /\ session[s].pc = "reread"
  /\ \/ Looking(s, id, session[s].text, FALSE)
     \/ id \in DOMAIN entries /\ Looking(s, id, entries[id], FALSE)
     \/ id \notin DOMAIN entries /\ Ends(s)
  /\ TablesRest
  /\ UNCHANGED <<writer, extractions, unlinked, clashed, submits, breakdowns>>

(* The session cannot be used any more: the request answers with an error,   *)
(* a memory is stored but its jobs are not, a job stays running for good.    *)
Raises(s) ==
  /\ Ends(s)
  /\ writer' = IF writer = s THEN Nobody ELSE writer
  /\ unlinked' = IF session[s].kind \in Memories \cup {"job"} THEN unlinked \cup {session[s].id}
                 ELSE unlinked
  /\ TablesRest /\ UNCHANGED <<extractions, submits>>

(* update_entry and the job read the entry, which may be gone.               *)
ReadEntry(s) ==
  LET id == session[s].id IN
  /\ session[s].pc = "store" /\ session[s].kind \in {"update", "job"}
  /\ \/ id \notin DOMAIN entries /\ Ends(s)
     \/ /\ id \in DOMAIN entries /\ session[s].kind = "job"
        /\ Looking(s, id, entries[id], FALSE)
     \/ /\ id \in DOMAIN entries /\ session[s].kind = "update"
        /\ session' = [session EXCEPT ![s].pc = "flush", ![s].writes = entries[id] # session[s].text]
  /\ TablesRest /\ UNCHANGED <<writer, extractions, unlinked, clashed, submits, breakdowns>>

(* The flush of update_entry, which raises when there is something to write  *)
(* and the entry has gone meanwhile.                                         *)
FlushUpdate(s) ==
  LET id == session[s].id
      writes == session[s].writes
  IN
  /\ session[s].pc = "flush"
  /\ IF writes /\ id \notin DOMAIN entries
     THEN Lockable(s) /\ Raises(s) /\ UNCHANGED <<clashed, breakdowns>>
     ELSE /\ FlushesFirst(s, writes) /\ Looking(s, id, session[s].text, writes)
          /\ TablesRest /\ UNCHANGED <<extractions, unlinked, clashed, submits, breakdowns>>

(* store_entity has only a name.                                             *)
NameEntity(s) ==
  /\ session[s].pc = "store" /\ session[s].kind = "entity"
  /\ \E i \in DOMAIN Named(session[s].text) :
       session' = [session EXCEPT ![s].pc = "look", ![s].todo = <<Named(session[s].text)[i]>>]
  /\ TablesRest /\ UNCHANGED <<writer, extractions, unlinked, clashed, submits, breakdowns>>

--------------------------------------------------------------------------------
(* Looking up, and inserting what is missing.                                *)

(* _apply_entry_content asks for name and type, the others for the name.     *)
Matches(s, mention, row) ==
  row[1] = mention[1] /\ (session[s].kind \in {"create", "update"} => row[2] = mention[2])

Found(s, mention) == {row \in entities \cup session[s].rows : Matches(s, mention, row)}

(* What it has still to link: rows the committed links lack.                 *)
WithLink(s, row) ==
  IF session[s].kind = "entity" THEN {}
  ELSE session[s].links \cup ({<<session[s].id, row>>} \ linked)

Look(s) ==
  LET mention == Head(session[s].todo) IN
  /\ session[s].pc = "look" /\ session[s].todo # << >>
  /\ \/ \E row \in Found(s, mention) :
          session' = [session EXCEPT ![s].todo = Tail(@), ![s].links = WithLink(s, row)]
     \/ Found(s, mention) = {} /\ session' = [session EXCEPT ![s].pc = "insert"]
  /\ TablesRest /\ UNCHANGED <<writer, extractions, unlinked, clashed, submits, breakdowns>>

Clashes(s) ==
  /\ Raises(s)
  /\ clashed' = clashed \cup {[kind |-> session[s].kind, writes |-> session[s].writes]}
  /\ UNCHANGED breakdowns

(* Links the database refuses: there is one already, or no such entry.       *)
Refused(s) ==
  \/ session[s].links \cap linked # {}
  \/ session[s].links # {} /\ session[s].kind # "create" /\ session[s].id \notin DOMAIN entries

Insert(s) ==
  LET mention == Head(session[s].todo) IN
  /\ session[s].pc = "insert" /\ Lockable(s)
  /\ IF mention \in entities \/ Refused(s) THEN Clashes(s)
     ELSE /\ writer' = s
          /\ session' = [session EXCEPT ![s].pc = "look", ![s].todo = Tail(@),
                                        ![s].rows = @ \cup {mention},
                                        ![s].links = WithLink(s, mention)]
          /\ TablesRest /\ UNCHANGED <<extractions, unlinked, clashed, submits, breakdowns>>

(* The transaction of create_entry and update_entry has the entry in it. A   *)
(* memory is followed by its jobs.                                           *)
Stored(s) ==
  IF session[s].writes
  THEN [i \in DOMAIN entries \cup {session[s].id} |->
          IF i = session[s].id THEN session[s].text ELSE entries[i]]
  ELSE entries

CommitSession(s) ==
  /\ session[s].pc = "look" /\ session[s].todo = << >> /\ Lockable(s)
  /\ IF Refused(s) THEN Clashes(s)
     ELSE /\ entries' = Stored(s)
          /\ entities' = entities \cup session[s].rows
          /\ linked' = linked \cup session[s].links
          /\ writer' = IF writer = s THEN Nobody ELSE writer
          /\ extractions' = IF session[s].kind = "memory" THEN extractions \cup {session[s].id}
                            ELSE extractions
          /\ unlinked' = IF session[s].writes THEN unlinked \ {session[s].id} ELSE unlinked
          /\ Ends(s)
          /\ UNCHANGED <<clashed, submits, breakdowns>>

StatementFails(s) ==
  /\ session[s].pc # "idle" /\ Breakdown
  /\ Raises(s)
  /\ UNCHANGED clashed

(* Waiting jobs are still in the table.                                      *)
LegacyRestarts ==
  /\ Breakdown
  /\ session' = [s \in Sessions |-> NoSession]
  /\ writer' = Nobody
  /\ unlinked' = unlinked \cup {session[s].id : s \in {r \in Sessions :
                     session[r].kind \in Memories \cup {"job"} /\ session[r].id # 0}}
  /\ TablesRest /\ UNCHANGED <<extractions, clashed, submits>>

EntitiesNext ==
  \/ \E s \in Sessions :
       \/ SubmitSome(s) \/ TakeExtraction(s)
       \/ StoreEntry(s) \/ StoreMemory(s) \/ RereadMemory(s) \/ ReadEntry(s) \/ FlushUpdate(s)
       \/ NameEntity(s) \/ Look(s) \/ Insert(s) \/ CommitSession(s) \/ StatementFails(s)
  \/ \E id \in DOMAIN entries : DeleteEntry(id)
  \/ LegacyRestarts

--------------------------------------------------------------------------------
(* When nothing is under way, an entry is linked to an entity for each name  *)
(* in its text, unless a memory's request or job has raised over it; and a   *)
(* request that creates an entry or changes one does not raise because       *)
(* somebody else names the same: it has the lock before it looks. An update  *)
(* that finds nothing to change flushes nothing, looks without a lock and    *)
(* may raise, like the sessions that only link.                              *)
NamesAreLinked ==
  /\ \A link \in linked : link[1] \in DOMAIN entries /\ link[2] \in entities
  /\ (\A s \in Sessions : session[s].pc = "idle") =>
       \A id \in DOMAIN entries \ (unlinked \cup extractions) :
         \A i \in DOMAIN Named(entries[id]) :
           \E row \in entities : row[1] = Named(entries[id])[i][1] /\ <<id, row>> \in linked
  /\ \A clash \in clashed : ~ clash.writes
================================================================================
