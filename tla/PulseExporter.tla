----------------------------- MODULE PulseExporter -----------------------------
(***************************************************************************)
(* The exporter of Pulse: round after round it finds the services of the   *)
(* host, probes each several times, and posts to Hermes what changed since *)
(* the round before.  It remembers only that round, and a post that fails  *)
(* is not repeated.                                                        *)
(***************************************************************************)
EXTENDS Integers, FiniteSets

CONSTANTS
  Services,         \* names of containers and of gateways
  Fallback,         \* the services probed when Docker tells of none
  Gateways,         \* those of them that are always probed
  OriginOf,         \* host and port of a service
  Samples,          \* probes of a service in a round
  MaxPulseChanges,  \* bound: services that come, go, answer or do not
  MaxPulseMishaps   \* bound: failed sweeps, lost posts, restarts

ASSUME PulseAssumption ==
  /\ Gateways \subseteq Fallback /\ Fallback \subseteq Services
  /\ DOMAIN OriginOf = Services
  /\ Samples \in Nat \ {0}

VARIABLES
  host,             \* per service: not listed by Docker, listed but deaf, or answering
  hostChanges,
  round,            \* the round: its samples so far, and the changes still to post
  up,               \* _up: the services of the last round, and whether all probes passed
  told,             \* history: up as the events that Hermes got and the baseline say
  missed,           \* history: services whose last change Hermes did not get
  pulseMishaps

pulseVars == <<host, hostChanges, round, up, told, missed, pulseMishaps>>

HostStates == {"gone", "deaf", "answers"}
Waiting == [pc |-> "wait", taken |-> << >>, passed |-> << >>, todo |-> << >>]

PulseInit ==
  /\ host = [s \in Services |-> IF s \in Fallback THEN "answers" ELSE "gone"]
  /\ hostChanges = 0
  /\ round = Waiting
  /\ up = << >>
  /\ told = << >>
  /\ missed = {}
  /\ pulseMishaps = 0

PulseMishap == pulseMishaps < MaxPulseMishaps /\ pulseMishaps' = pulseMishaps + 1

HostChanges(s) ==
  /\ hostChanges < MaxPulseChanges
  /\ \E state \in HostStates \ {host[s]} : host' = [host EXCEPT ![s] = state]
  /\ hostChanges' = hostChanges + 1
  /\ UNCHANGED <<round, up, told, missed, pulseMishaps>>

(* Gateways have no container, unless one publishes them.  Of two services   *)
(* with one origin the container is kept: it drops the gateway it publishes. *)
Targets(listed) ==
  IF listed = {} THEN Fallback
  ELSE listed \cup {g \in Gateways : \A s \in listed : OriginOf[s] # OriginOf[g]}

(* docker ps lists what runs and publishes a port; it may fail.              *)
Discover ==
  /\ round.pc = "wait"
  /\ \E listed \in {{s \in Services \ Gateways : host[s] # "gone"}, {}} :
       LET none == [s \in Targets(listed) |-> 0] IN
       round' = [Waiting EXCEPT !.pc = "probe", !.taken = none, !.passed = none]
  /\ UNCHANGED <<host, hostChanges, up, told, missed, pulseMishaps>>

(* A probe passes when HTTP of any status comes back.                        *)
Answering(s) == host[s] = "answers"

(* The targets are probed concurrently, each one probe after the other.      *)
ProbeOnce(s) ==
  /\ round.pc = "probe" /\ s \in DOMAIN round.taken /\ round.taken[s] < Samples
  /\ round' = [round EXCEPT !.taken[s] = @ + 1,
                            !.passed[s] = IF Answering(s) THEN @ + 1 ELSE @]
  /\ UNCHANGED <<host, hostChanges, up, told, missed, pulseMishaps>>

Measured == round.pc = "probe" /\ \A s \in DOMAIN round.taken : round.taken[s] = Samples

(* The benchmark of the disk or the report raises.                           *)
SweepFails ==
  /\ Measured /\ PulseMishap
  /\ round' = Waiting
  /\ UNCHANGED <<host, hostChanges, up, told, missed>>

(* What the report says of each service.                                     *)
Reported == [s \in DOMAIN round.taken |-> round.passed[s] = round.taken[s]]

(* Variant: the copy is taken behind the assignment.                         *)
PreviousLate(new) == new

(* What the new round is compared with.                                      *)
Previous(new) == up

(* The first round is the baseline, of which nothing is posted.              *)
NoteSweep ==
  LET new == Reported
      previous == Previous(new)
      kept == {s \in DOMAIN new : s \in DOMAIN previous}
      changed == {s \in kept : previous[s] # new[s]}
  IN
  /\ Measured
  /\ up' = new
  /\ round' = [Waiting EXCEPT !.pc = "post", !.todo = [s \in changed |-> new[s]]]
  /\ told' = [s \in DOMAIN new |-> IF s \in DOMAIN up THEN told[s] ELSE new[s]]
  /\ missed' = missed \cap DOMAIN up \cap DOMAIN new
  /\ UNCHANGED <<host, hostChanges, pulseMishaps>>

Without(s) == [r \in DOMAIN round.todo \ {s} |-> round.todo[r]]

(* The post of one change.  An OSError is printed, another exception ends    *)
(* the posts of the round; either way Hermes may have the event.             *)
PostChange(s) ==
  /\ round.pc = "post" /\ s \in DOMAIN round.todo
  /\ UNCHANGED <<host, hostChanges, up>>
  /\ \/ /\ round' = [round EXCEPT !.todo = Without(s)]
        /\ told' = [told EXCEPT ![s] = round.todo[s]]
        /\ missed' = missed \ {s}
        /\ UNCHANGED pulseMishaps
     \/ /\ PulseMishap
        /\ round' = [round EXCEPT !.todo = Without(s)]
        /\ missed' = missed \cup {s}
        /\ UNCHANGED told
     \/ /\ PulseMishap
        /\ round' = Waiting
        /\ missed' = missed \cup DOMAIN round.todo
        /\ UNCHANGED told

SweepOver ==
  /\ round.pc = "post" /\ round.todo = << >>
  /\ round' = Waiting
  /\ UNCHANGED <<host, hostChanges, up, told, missed, pulseMishaps>>

(* The report and the baseline are only in memory.                           *)
PulseRestart ==
  /\ PulseMishap
  /\ round' = Waiting
  /\ up' = << >> /\ told' = << >>
  /\ missed' = {}
  /\ UNCHANGED <<host, hostChanges>>

PulseStep ==
  \/ Discover \/ NoteSweep \/ SweepFails \/ SweepOver \/ PulseRestart
  \/ \E s \in Services : ProbeOnce(s) \/ PostChange(s)

PulseNext == PulseStep \/ \E s \in Services : HostChanges(s)

(* Hermes' rules act on the events alone: of a service whose posts all got   *)
(* through since it was last discovered, the events and the silent baseline  *)
(* say what the last round saw, and each event tells Hermes something new.   *)
EventsFollowSweeps ==
  /\ round.pc = "wait" => \A s \in DOMAIN up \ missed : told[s] = up[s]
  /\ round.pc = "post" => \A s \in DOMAIN round.todo \ missed : told[s] # round.todo[s]

================================================================================
