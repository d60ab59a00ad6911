------------------------------ MODULE MCSentinel ------------------------------
(* A finite instance of SentinelRuntime for TLC.                           *)
EXTENDS SentinelRuntime, TLC

Rule(type, all, not, stable, threshold) ==
    [type |-> type, all |-> all, any |-> {}, not |-> not, lookback |-> 1, absent |-> 1,
     threshold |-> threshold, stable |-> stable, cooldown |-> 1]

(* The mains fail while somebody is at home; Watcher was not heard of; a   *)
(* device keeps joining; the fleet is in trouble that is not the router's. *)
MCRuleFiles == {
    <<Rule("boolean", {{<<"ups", "on_battery">>}}, {{<<"house", "nobody_home">>}}, 1, 1)>>,
    <<Rule("absence", {{<<"watcher", "online">>}}, {}, 0, 1)>>,
    <<Rule("count", {{<<"phone", "joined">>, <<"ups", "on_battery">>}}, {}, 0, 2)>>,
    <<Rule("boolean", {{<<"app", "unhealthy">>, <<"web", "down">>, <<"cpu", "high">>}},
                      {{<<"gateway", "offline">>}}, 0, 1)>> }

MCOwner == "phone" :> "aryan"

Finding(observer, found) == [observer |-> observer, found |-> found]
Phone(flag) == [device |-> "phone", flag |-> flag, resolved |-> TRUE]
App == [name |-> "app", status |-> "running", health |-> "unhealthy"]

MCFindings ==
    { Finding("network", {Phone("0x2")}),
      Finding("ups", [upsc |-> "answers", flags |-> {"OB", "DISCHRG"}]),
      Finding("watcher", [healthy |-> TRUE, rows |-> {[device |-> "phone", says |-> "offline"]}]),
      Finding("watcher", [healthy |-> FALSE]),
      Finding("docker", [answers |-> TRUE, containers |-> {App}]),
      Finding("docker", [answers |-> FALSE]),
      Finding("router", "refuses"),
      Finding("http", {[target |-> "web", status |-> 502, expected |-> 200]}),
      Finding("system", {[part |-> "cpu", level |-> "high"]}) }
=============================================================================
