--------------------------- MODULE SentinelObservers ---------------------------
(***************************************************************************)
(* Sentinel's seven observers: what each of them reports, as               *)
(* <<object, state>>, of what it finds when it collects.  A finding is     *)
(* [observer, found].  Severities, confidences and metadata are left out.  *)
(*                                                                         *)
(* A collection that takes longer than the observer's timeout reports      *)
(* nothing: ObserverScheduler._run gives up on it. That is what happens    *)
(* to a router asked by TCP, to Watcher and to upsc when they do not       *)
(* answer at all, for their own timeouts are not shorter: "hangs".         *)
(***************************************************************************)

(* parse_proc_arp, parse_ip_neigh: the entries of the host's neighbour     *)
(* table that have a hardware address, whether or not it was confirmed     *)
(* lately. flag is the hexadecimal one of /proc/net/arp or the word of     *)
(* ip neigh.                                                               *)
Fresh == {"0x2", "REACHABLE", "PERMANENT"}

Neighbours(table) ==
    {<<entry.device, IF entry.flag \in Fresh THEN "present" ELSE "seen">> :
        entry \in {e \in table : e.resolved}}

(* WatcherObserver.collect. Watcher's own rows have no state and no        *)
(* status, only a field "online" that nobody reads: they say "present".    *)
LeavingWords == {"offline", "disconnected", "left", "down"}

DevicesTold(rows) ==
    {<<row.device, IF row.says \in LeavingWords THEN "seen" ELSE "present">> : row \in rows}

Watched(answer) ==
    IF answer.healthy THEN {<<"watcher", "online">>} \cup DevicesTold(answer.rows)
    ELSE {<<"watcher", "offline">>}

(* DockerObserver._collect_sync; a container without a health check is     *)
(* taken as it runs.                                                       *)
ContainerState(container) ==
    CASE container.status = "running" /\ container.health \in {"unhealthy", "starting"} ->
            container.health
      [] OTHER -> container.status

Containers(daemon) ==
    IF daemon.answers
    THEN {<<"docker", "ok">>} \cup {<<c.name, ContainerState(c)>> : c \in daemon.containers}
    ELSE {<<"docker", "unavailable">>}

(* RouterObserver.collect, by ping or by TCP.                              *)
Gateway(answer) ==
    CASE answer = "answers" -> {<<"gateway", "online">>}
      [] answer = "refuses" -> {<<"gateway", "offline">>}
      [] OTHER -> {}     \* "hangs", "no gateway", "no ping"

(* UPSPowerMonitor.read and to_status: the flags of ups.status.            *)
PowerStatus(flags) ==
    CASE {"OB", "LB"} \subseteq flags -> "low_battery"
      [] "OB" \in flags /\ "LB" \notin flags -> "on_battery"
      [] "OL" \in flags /\ "OB" \notin flags -> "on_line"
      [] OTHER -> "unknown"

Power(ups) ==
    CASE ups.upsc = "answers" -> {<<"ups", PowerStatus(ups.flags)>>}
      [] ups.upsc = "fails" -> {<<"ups", "unavailable">>}
      [] OTHER -> {}     \* "hangs", "not installed"

(* HTTPObserver._check_target, for every target in turn.                   *)
Targets(answers) ==
    {<<a.target, IF a.status = a.expected THEN "up" ELSE "down">> : a \in answers}

(* SystemObserver._collect_sync: usages are "ok", "warn", "critical" or    *)
(* "high" against the thresholds of observers.yaml; the load is always ok. *)
Usage(usages) == {<<"load", "ok">>} \cup {<<u.part, u.level>> : u \in usages}

(* Observer.collect.                                                       *)
Collected(finding) ==
    CASE finding.observer = "network" -> Neighbours(finding.found)
      [] finding.observer = "watcher" -> Watched(finding.found)
      [] finding.observer = "docker" -> Containers(finding.found)
      [] finding.observer = "router" -> Gateway(finding.found)
      [] finding.observer = "ups" -> Power(finding.found)
      [] finding.observer = "http" -> Targets(finding.found)
      [] finding.observer = "system" -> Usage(finding.found)
=============================================================================
