------------------------------- MODULE ForgeTools ------------------------------
(***************************************************************************)
(* What Forge's tools do once they run: one container, one managed         *)
(* repository with a deploy command, and one Compose service.  Calls       *)
(* overlap (ForgeGate has who may call what), and between their steps      *)
(* people commit, deploy and push images as well.                          *)
(*                                                                         *)
(* The baseline a rollback returns to is kept in three places: the git tag *)
(* forge-known-good, StateManager's dictionary, and its file.              *)
(***************************************************************************)
EXTENDS Naturals, FiniteSets

CONSTANTS
  Slots,        \* calls that may be under way at the same time
  Commits,      \* of the repository
  Images,       \* image names
  Replicas,     \* numbers docker_scale is asked for
  None,         \* no commit, no image
  MaxMoves,     \* bound: calls, and what people do to repository and container
  MaxTroubles   \* bound: commands that fail or time out, lost writes, restarts

ASSUME ToolsAssumption ==
  /\ None \notin Commits \cup Images
  /\ Replicas \subseteq 0 .. 8
  /\ MaxMoves \in Nat /\ MaxTroubles \in Nat

VARIABLES
  errand,     \* per slot: the tool, how far it is, what it has read
  repo,       \* HEAD, the tag, and the commit last deployed
  container,  \* whether it is up, and its image: None when that has no name
  replicas,   \* of the service
  known,      \* StateManager._data: the image and the ref
  file,       \* forge-state.json
  seen,       \* history: what a mark has found at HEAD, or in the container
  astray,     \* history: slots whose checkout was followed by one of somebody else
  moves, troubles

toolVars == <<errand, repo, container, replicas, known, file, seen, astray, moves, troubles>>

Lifecycles == {"docker_restart", "docker_start", "docker_stop"}
ToolNames == Lifecycles \cup
  {"docker_mark_good", "docker_rollback", "docker_scale", "git_mark_good", "git_rollback"}

NoErrand == [tool |-> "none", pc |-> "idle", read |-> None]

NothingKnown == [image |-> None, ref |-> None]

ToolsInit ==
  /\ errand = [s \in Slots |-> NoErrand]
  /\ \E commit \in Commits : repo = [head |-> commit, tag |-> None, deployed |-> None]
  /\ \E image \in Images \cup {None} : container = [up |-> TRUE, image |-> image]
  /\ replicas = 1
  /\ known = NothingKnown /\ file = NothingKnown
  /\ seen = {} /\ astray = {}
  /\ moves = 0 /\ troubles = 0

Move == moves < MaxMoves /\ moves' = moves + 1
Trouble == troubles < MaxTroubles /\ troubles' = troubles + 1

Ends(s) == errand' = [errand EXCEPT ![s] = NoErrand]
At(s, tool, pc) == errand[s].tool = tool /\ errand[s].pc = pc
HistoryRest == UNCHANGED <<seen, astray>>
HostRest == UNCHANGED <<repo, container, replicas>>
NotesRest == UNCHANGED <<known, file>>

--------------------------------------------------------------------------------
(* The engine runs a tool that a gate or an approval has let through.        *)
CallTool(s, tool) ==
  /\ errand[s].pc = "idle" /\ Move
  /\ errand' = [errand EXCEPT ![s] = [NoErrand EXCEPT !.tool = tool, !.pc = "start"]]
  /\ astray' = astray \ {s}
  /\ HostRest /\ NotesRest /\ UNCHANGED <<seen, troubles>>

(* _DockerLifecycle.run: the verb, in a thread. The daemon may do it though  *)
(* the client gives up.                                                      *)
Lifecycle(s) ==
  /\ errand[s].tool \in Lifecycles /\ errand[s].pc = "start"
  /\ container' = [container EXCEPT !.up = errand[s].tool # "docker_stop"]
  /\ \/ Ends(s) /\ UNCHANGED troubles
     \/ Trouble /\ Ends(s)
  /\ UNCHANGED <<repo, replicas, moves>> /\ NotesRest /\ HistoryRest

(* DockerScale.run. A command that takes too long is killed, and the tool    *)
(* waits for what it has started.                                            *)
Scale(s, number) ==
  /\ At(s, "docker_scale", "start")
  /\ replicas' = number
  /\ \/ Ends(s) /\ UNCHANGED troubles
     \/ Trouble /\ Ends(s)
  /\ UNCHANGED <<repo, container, moves>> /\ NotesRest /\ HistoryRest

(* Docker is not reachable, a command fails before it does anything, or git  *)
(* is killed: the tool fails.                                                *)
ToolFails(s) ==
  /\ errand[s].pc # "idle" /\ Trouble
  /\ Ends(s)
  /\ HostRest /\ NotesRest /\ HistoryRest /\ UNCHANGED moves

--------------------------------------------------------------------------------
(* The baseline.                                                             *)

(* StateManager: the dictionary, then the whole of it to a file that is put  *)
(* in place of the old one. A write that fails is not noticed; a directory   *)
(* that cannot be written raises.                                            *)
KeepNotes(s, notes) ==
  /\ known' = notes
  /\ \/ file' = notes /\ Ends(s) /\ UNCHANGED <<troubles>>
     \/ /\ Trouble
        /\ UNCHANGED file
        /\ Ends(s)

(* DockerMarkGood.run: the name of the image, when it has one.               *)
ReadImage(s) ==
  /\ At(s, "docker_mark_good", "start")
  /\ IF container.image = None THEN Ends(s)
     ELSE errand' = [errand EXCEPT ![s].pc = "note", ![s].read = container.image]
  /\ seen' = seen \cup {container.image}
  /\ HostRest /\ NotesRest /\ UNCHANGED <<astray, moves, troubles>>

NoteImage(s) ==
  /\ At(s, "docker_mark_good", "note")
  /\ KeepNotes(s, [known EXCEPT !.image = errand[s].read])
  /\ HostRest /\ UNCHANGED <<seen, astray, moves>>

(* GitMarkGood.run: what HEAD is, the tag on it, and the note.               *)
ReadHead(s) ==
  /\ At(s, "git_mark_good", "start")
  /\ errand' = [errand EXCEPT ![s].pc = "tag", ![s].read = repo.head]
  /\ seen' = seen \cup {repo.head}
  /\ HostRest /\ NotesRest /\ UNCHANGED <<astray, moves, troubles>>

(* Variant: the tag is put on whatever HEAD is by now.                       *)
TaggedNow(s) == repo.head

Tagged(s) == errand[s].read

TagHead(s) ==
  /\ At(s, "git_mark_good", "tag")
  /\ repo' = [repo EXCEPT !.tag = Tagged(s)]
  /\ \/ /\ errand' = [errand EXCEPT ![s].pc = "note"]
        /\ UNCHANGED <<troubles>>
     \/ Trouble /\ Ends(s)
  /\ UNCHANGED <<container, replicas, seen, astray, moves>> /\ NotesRest

NoteRef(s) ==
  /\ At(s, "git_mark_good", "note")
  /\ KeepNotes(s, [known EXCEPT !.ref = errand[s].read])
  /\ HostRest /\ UNCHANGED <<seen, astray, moves>>

--------------------------------------------------------------------------------
(* The way back.                                                             *)

(* GitRollback.run: whatever makes the checkout fail counts as "no tag".     *)
Checkout(s) ==
  /\ At(s, "git_rollback", "start")
  /\ IF repo.tag = None
     THEN Ends(s) /\ UNCHANGED <<repo, astray, troubles>>
     ELSE /\ repo' = [repo EXCEPT !.head = repo.tag]
          /\ astray' = astray \ {s}
          /\ \/ /\ errand' = [errand EXCEPT ![s].pc = "deploy"]
                /\ UNCHANGED troubles
             \/ Trouble /\ Ends(s)
  /\ UNCHANGED <<container, replicas, seen, moves>> /\ NotesRest

(* The deploy command takes what is checked out.                             *)
Deploy(s) ==
  /\ At(s, "git_rollback", "deploy")
  /\ repo' = [repo EXCEPT !.deployed = repo.head]
  /\ \/ Ends(s) /\ UNCHANGED troubles
     \/ Trouble /\ Ends(s)
  /\ UNCHANGED <<container, replicas, moves>> /\ NotesRest /\ HistoryRest

(* DockerRollback.run. The image is looked up, and rollback_to_image starts  *)
(* with pull, which the client of docker.from_env does not have: an          *)
(* AttributeError, with nothing done yet.                                    *)
RollbackImage(s) ==
  /\ At(s, "docker_rollback", "start")
  /\ Ends(s)
  /\ HostRest /\ NotesRest /\ HistoryRest /\ UNCHANGED <<moves, troubles>>

--------------------------------------------------------------------------------
(* People, and restarts.                                                     *)

CommitByHand(commit) ==
  /\ Move
  /\ commit # repo.head
  /\ repo' = [repo EXCEPT !.head = commit]
  /\ astray' = astray \cup {s \in Slots : At(s, "git_rollback", "deploy")}
  /\ UNCHANGED <<errand, container, replicas, seen, troubles>> /\ NotesRest

DeployByHand(image) ==
  /\ Move
  /\ image # container.image
  /\ container' = [up |-> TRUE, image |-> image]
  /\ UNCHANGED <<errand, repo, replicas, troubles>> /\ NotesRest /\ HistoryRest

(* Calls end where they are, and the file is read.                           *)
ForgeRestarts ==
  /\ Trouble
  /\ errand' = [s \in Slots |-> NoErrand]
  /\ known' = file
  /\ UNCHANGED <<file, moves>> /\ HostRest /\ HistoryRest

ToolsNext ==
  \/ \E s \in Slots :
       \/ \E tool \in ToolNames : CallTool(s, tool)
       \/ Lifecycle(s)
       \/ \E number \in Replicas : Scale(s, number)
       \/ ReadImage(s) \/ NoteImage(s)
       \/ ReadHead(s) \/ TagHead(s) \/ NoteRef(s)
       \/ Checkout(s) \/ Deploy(s) \/ RollbackImage(s)
       \/ ToolFails(s)
  \/ \E commit \in Commits : CommitByHand(commit)
  \/ \E image \in Images : DeployByHand(image)
  \/ ForgeRestarts

--------------------------------------------------------------------------------
(* Whatever overlaps, fails or restarts, a rollback leads back to something  *)
(* that was seen working: the tag and the notes name a commit that was HEAD, *)
(* or an image the container had, when it was declared good; and what        *)
(* git_rollback deploys is one of those, unless somebody else has checked    *)
(* something out in between.                                                 *)
RollbacksLeadBack ==
  /\ {repo.tag, known.ref, file.ref, known.image, file.image} \subseteq seen \cup {None}
  /\ \A s \in Slots : At(s, "git_rollback", "deploy") /\ s \notin astray => repo.head \in seen

(* docker_rollback recreates a container from its known-good image: the      *)
(* tool's description and test_docker_rollback_with_known_good say so. When  *)
(* one is known and nothing goes wrong, the container has it afterwards.     *)
RollbackRecreates ==
  [][\A s \in Slots :
       At(s, "docker_rollback", "start") /\ errand'[s].pc = "idle" /\ troubles' = troubles
       /\ known.image # None => container'.image = known.image]_toolVars
================================================================================
