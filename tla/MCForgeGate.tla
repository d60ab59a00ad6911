------------------------------ MODULE MCForgeGate ------------------------------
(***************************************************************************)
(* Two scenes of Forge, one of them in a behaviour: the gate, with several *)
(* requests to restart one container, and what the tools do once they run. *)
(***************************************************************************)
EXTENDS ForgeGate, ForgeTools, TLC

VARIABLE scene

CONSTANTS r1, r2, r3

MCToolOf == [c \in Calls |-> "docker_restart"]
MCTargetOf == [c \in Calls |-> "gitea"]
MCPreapproved ==
    <<[tool |-> "docker_restart", targets |-> {"gitea"}, max |-> 2, force |-> FALSE]>>

(* The scene of a behaviour: the rest does not matter to it.                 *)
MCInit ==
    /\ scene \in {"gate", "tools"}
    /\ GateInit /\ ToolsInit
    /\ scene = "tools" => level = 0
    /\ scene = "gate" => container.image = None

MCNext ==
    /\ UNCHANGED scene
    /\ \/ scene = "gate" /\ GateNext /\ UNCHANGED toolVars
       \/ scene = "tools" /\ ToolsNext /\ UNCHANGED gateVars

MCSpec == MCInit /\ [][MCNext]_<<scene, gateVars, toolVars>>

MCSymmetry == Permutations({r1, r2, r3}) \cup Permutations(Commits) \cup Permutations(Slots)
=============================================================================
