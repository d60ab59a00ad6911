------------------------------ MODULE OracleAgent ------------------------------
(***************************************************************************)
(* Oracle, the gateway to the model: plain questions, and the agent loop   *)
(* in which the model may call tools through Forge before it answers.      *)
(*                                                                         *)
(* A call is a record that stays.  The gateway does not notice that nobody *)
(* waits for a call any more: it goes on to its end.                       *)
(***************************************************************************)
EXTENDS Integers, Sequences

CONSTANTS
  MaxSteps,   \* agent_max_steps
  Budget,     \* agent_context_budget, in messages; 0 for none
  Contexts,   \* sizes of what a call starts with: catalog, context and history
  MaxTurns    \* the longest history the request schema takes

ASSUME OracleAssumption ==
  /\ MaxSteps \in Nat /\ Budget \in Nat /\ MaxTurns \in Nat
  /\ Contexts \subseteq Nat

VARIABLES
  calls,   \* the calls the gateway has accepted, in their order
  ran      \* what Forge has executed, as call and number of the tool call

oracleVars == <<calls, ran>>

(* What Forge makes of a tool call, and what the loop learns of it: when the *)
(* client gives up on Forge, or Forge on the way back, it is told "blocked". *)
Outcomes == [runs : BOOLEAN, heard : {"allowed", "approval", "blocked"}]

(* The gateway answers 200, an error, or that it has no agent (404, 503).    *)
Ended == {"replied", "failed", "absent"}

OracleInit == calls = << >> /\ ran = {}

NewCall(kind, question, turns, size) ==
  [kind |-> kind, question |-> question, size |-> size, steps |-> 0, chats |-> 0,
   forced |-> FALSE, results |-> 0,
   pc |-> IF turns > MaxTurns THEN "failed" ELSE IF kind = "ask" THEN "chat" ELSE "catalog"]

(* Sizes are told apart up to the first that is over the budget.             *)
Larger(size) == IF size > Budget THEN size ELSE size + 1

Becomes(i, call) == calls' = [calls EXCEPT ![i] = call]

Goes(i, pc) == Becomes(i, [calls[i] EXCEPT !.pc = pc])

(* What the loop held is gone, but for the results an answer lists.          *)
With(call, pc) ==
  [call EXCEPT !.pc = pc, !.size = 0, !.steps = 0, !.chats = 0, !.forced = FALSE,
               !.results = IF pc = "replied" THEN @ ELSE 0]

Ends(i, pc) == Becomes(i, With(calls[i], pc))

--------------------------------------------------------------------------------

Chat(i) ==
  /\ calls[i].pc = "chat"
  /\ Ends(i, "replied") \/ Ends(i, "failed")
  /\ UNCHANGED ran

ListTools(i) ==
  /\ calls[i].pc = "catalog"
  /\ Goes(i, "think") \/ Ends(i, "failed") \/ Ends(i, "absent")
  /\ UNCHANGED ran

(* The model answers in plain text, or the chat fails, or it names a tool in *)
(* a way the schema refuses, which nothing catches.                          *)
Answer(i) ==
  /\ calls[i].pc = "think"
  /\ Ends(i, "replied") \/ Ends(i, "failed")
  /\ UNCHANGED ran

OverBudget(size) == Budget > 0 /\ size > Budget

(* At the limit the model is told once to answer; what it says then is the   *)
(* answer, be it another tool call.                                          *)
Limited(call) ==
  IF call.forced THEN With(call, "replied")
                 ELSE [call EXCEPT !.forced = TRUE, !.size = Larger(@)]

Result(call) ==
  [call EXCEPT !.results = @ + 1, !.size = Larger(@), !.pc = "think"]

(* The model calls a tool.                                                   *)
CallTool(i) ==
  LET call == [calls[i] EXCEPT !.size = Larger(@), !.chats = @ + 1] IN
  /\ calls[i].pc = "think"
  /\ IF call.steps >= MaxSteps \/ OverBudget(call.size)
     THEN Becomes(i, Limited(call))
     ELSE \E known \in BOOLEAN :
            LET next == [call EXCEPT !.steps = @ + 1] IN
            Becomes(i, IF known THEN [next EXCEPT !.pc = "tool"]
                                ELSE Result(next))
  /\ UNCHANGED ran

(* Variant: a call that Forge did not answer is not among the results.       *)
HeardOnly(call, heard) ==
  IF heard = "blocked" THEN [call EXCEPT !.pc = "think"] ELSE Result(call)

Heard(call, heard) == Result(call)

(* ForgeClient.run; an answer that is not JSON ends the call.                *)
RunTool(i) ==
  /\ calls[i].pc = "tool"
  /\ \E out \in Outcomes :
       /\ out.heard = "allowed" => out.runs
       /\ out.heard = "approval" => ~out.runs
       /\ ran' = IF out.runs THEN ran \cup {<<i, calls[i].steps>>} ELSE ran
       /\ Becomes(i, Heard(calls[i], out.heard)) \/ Ends(i, "failed")

OracleStep(i) == Chat(i) \/ ListTools(i) \/ Answer(i) \/ CallTool(i) \/ RunTool(i)

OracleRestart ==
  /\ calls' = [i \in DOMAIN calls |->
                 IF calls[i].pc \in Ended THEN calls[i] ELSE With(calls[i], "failed")]
  /\ UNCHANGED ran

================================================================================
