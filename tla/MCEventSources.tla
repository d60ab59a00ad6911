---------------------------- MODULE MCEventSources ----------------------------
(***************************************************************************)
(* Three programs that post events to Hermes.  They share nothing else, so *)
(* only one of them runs in a behaviour: the connector, with the watchdog  *)
(* of Hermes; the script of the LAN, with the storm detector of Hermes; or *)
(* the exporter of Pulse.                                                  *)
(***************************************************************************)
EXTENDS FleetWatchdog, HermesStorm, PulseExporter, TLC

VARIABLE scene

(* A container that publishes what is also known as a gateway, and one that  *)
(* is known to the fallback.                                                 *)
MCServices == {"web", "gitea", "sonofanton"}
MCFallback == {"gitea", "sonofanton"}
MCGateways == {"sonofanton"}
MCOriginOf == [s \in MCServices |-> IF s = "gitea" THEN 3000 ELSE 8000]

(* One container behind an endpoint, and sweeps shorter than a tick: one     *)
(* thread of the connector with all that can go wrong; both of them with few *)
(* changes and nothing going wrong; and the watchdog at work on a container  *)
(* that is either up or down. Phoenix escalates once, when only the fleet is *)
(* swept; before it does, to start a container is the same as to restart it. *)
Asleep(t) == mode[t] = "resting" /\ baseline[t] = Nowhere
Escalations == {e \in DOMAIN log : log[e].by = "phoenix"}
OneThread ==
  /\ \/ mishaps = 0 /\ changes < MaxChanges
     \/ \E t \in Threads : Asleep(t)
  /\ started => \A c \in Containers : actual[c] \in {"up", "down"}
  /\ Cardinality(Escalations) <= 1
  /\ Escalations # {} => started /\ Asleep("endpoints") /\ mishaps = 0
  /\ Escalations = {} => \A c \in Containers : pending[c].action # "docker_start"
Brisk == Time => \A t \in Threads : mode[t] # "sweeping"

(* The scene of a behaviour; the connector of the others does not matter.    *)
MCInit ==
  /\ scene \in {"connector", "script", "exporter"}
  /\ Init /\ StormInit /\ PulseInit
  /\ scene # "connector" => \A c \in Containers : actual[c] = "up" /\ \A k \in Keys : cool[k] = 0

MCNext ==
  /\ UNCHANGED scene
  /\ \/ /\ scene = "connector" /\ UNCHANGED <<sourceVars, pulseVars>>
        /\ Next /\ OneThread' /\ Brisk
     \/ /\ scene = "script" /\ UNCHANGED <<vars, pulseVars>>
        /\ StormNext
     \/ /\ scene = "exporter" /\ UNCHANGED <<vars, sourceVars>>
        /\ PulseNext

MCSpec == MCInit /\ [][MCNext]_<<scene, vars, sourceVars, pulseVars>>

Devs == Permutations(Devices)
===============================================================================
