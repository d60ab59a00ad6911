---------------------------- MODULE MCApprovalFlow ----------------------------
(* A finite instance of ApprovalFlow for TLC.                              *)
EXTENDS ApprovalFlow

CONSTANTS a1, a2

(* Two calls for the same action, or a single one.                         *)
MCSame == (a1 :> "restart") @@ (a2 :> "restart")
MCOne == a1 :> "restart"

(* The second call is made after the first and in the same tick, where no  *)
(* proposal shares the chat, nothing goes wrong and every reply is a yes   *)
(* or a no: the space stays small. Only the environment is restrained,     *)
(* never a fair action.                                                    *)
OneScene ==
    request[a2] # "none" =>
        /\ request[a1] # "none" /\ age[a1] = age[a2] /\ mishaps = 0
        /\ \A p \in Proposals : notice[p] = "none"
        /\ \A k \in DOMAIN inbox : inbox[k].word # "other"

MCSpec == Init /\ [][Next /\ OneScene']_vars /\ Fairness
=============================================================================
