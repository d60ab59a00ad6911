------------------------------- MODULE MCLegacy -------------------------------
(* The jobs, the entities and the backups are scenes of one run, which     *)
(* does not mix them.                                                      *)
(* Jobs: two workers and two entries; a job that always fails next to that *)
(* of one entry, or anything going wrong around two edits, or both entries *)
(* stored, reindexed and one of them deleted, with nothing else going      *)
(* wrong.                                                                  *)
(* Entities: two sessions, and two texts that name one thing with          *)
(* different types; three requests, or two and a breakdown.                *)
(* Backups: three backups, by two requests, with max_backups 1: a failure  *)
(* among them, or an entry written between two of them. Restores: one      *)
(* backup and one export that are restored and imported.                   *)
EXTENDS LegacyJobs, LegacyEntities, LegacyArchive, TLC

CONSTANTS d1, d2, x, y

VARIABLE scene

MCMentions ==
    ("review" :> <<<<"Dune", "book">>>>)
    @@ ("note" :> <<<<"Dune", "unknown">>, <<"Docker", "technology">>>>)

Asked(kind) == \E j \in DOMAIN jobs : jobs[j].kind = kind
OneThing ==
    /\ Asked("backup") => edits <= 1
    /\ mishaps > 0 => edits < MaxEdits
    /\ mishaps > 0 /\ Asked("reindex") => edits <= 1
    /\ edits = MaxEdits => Asked("reindex") /\ \E e \in Entries : content[e] = 0

(* Requests are alike, and so are sessions: the second one begins while    *)
(* the first is under way.                                                 *)
InTurn ==
    /\ desk[d2].pc = "idle" /\ desk'[d2].pc # "idle" => desk[d1].pc # "idle"
    /\ session[y].pc = "idle" /\ session'[y].pc # "idle" => session[x].pc # "idle"

Mild == breakdowns > 0 => submits < MaxSubmits

Restoring == \E d \in Desks : desk[d].pc \in {"accepted", "restore", "import"}
Resting == \A d \in Desks : desk[d].pc = "idle"

BackupsOnly ==
    /\ ~Restoring' /\ exported' = << >> /\ gone' = {}
    /\ births' > births => births = 0 /\ clock = 1 /\ Resting
    /\ births' > 0 => failures' = 0 /\ tasks' < MaxTasks

RestoresOnly ==
    /\ begun[1]' <= 1 /\ clock' = 1 /\ failures' = 0
    /\ exported # << >> => UNCHANGED exported

MCInit ==
    /\ Init /\ EntitiesInit /\ ArchiveInit
    /\ scene \in {"jobs", "entities", "backups", "restores"}
MCNext ==
    /\ UNCHANGED scene
    /\ \/ /\ scene = "jobs" /\ Next /\ OneThing'
          /\ UNCHANGED <<entityVars, archiveVars>>
       \/ /\ scene = "entities" /\ EntitiesNext
          /\ UNCHANGED <<vars, archiveVars>> /\ InTurn /\ Mild'
       \/ /\ scene = "backups" /\ ArchiveNext
          /\ UNCHANGED <<vars, entityVars>> /\ InTurn /\ BackupsOnly
       \/ /\ scene = "restores" /\ ArchiveNext
          /\ UNCHANGED <<vars, entityVars>> /\ InTurn /\ RestoresOnly

MCSpec ==
    /\ MCInit /\ [][MCNext]_<<vars, entityVars, archiveVars, scene>>
    /\ scene = "jobs" => Fairness
=============================================================================
