--------------------------- MODULE MCPhoenixRecovery ---------------------------
(* Finite instances of PhoenixRecovery for TLC.                            *)
EXTENDS PhoenixRecovery, TLC

CONSTANTS m1, m2, r1

(* A database with its monitors, and an application that depends on it.    *)
MCOwner == (m1 :> "db") @@ (m2 :> "db")
MCDependents == ("db" :> <<"app">>) @@ ("app" :> <<>>)
MCTarget == r1 :> "db"
MCFailures == (m1 :> "not_running") @@ (m2 :> "bad_status")

(* The operator recovers the component by hand where one monitor fails,    *)
(* only the dependent is in maintenance and nothing raises: the space      *)
(* stays small. Only the environment is restrained, never a fair action.   *)
OneScene ==
    \A r \in Requests :
        stage[r] # "idle" => /\ mishaps = 0 /\ window = {"app"}
                             /\ \E m \in Monitors : healthy[m]

MCSpec == Init /\ [][Next /\ OneScene']_vars /\ Fairness
=============================================================================
