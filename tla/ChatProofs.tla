------------------------------ MODULE ChatProofs ------------------------------
(***************************************************************************)
(* What holds of a chat with Oracle for every number of messages, steps,   *)
(* tools, exceptions and restarts, every budget and every ai_max_history.  *)
(***************************************************************************)
EXTENDS HermesChat, TLAPS, FiniteSetTheorems, SequenceTheorems

-----------------------------------------------------------------------------
(* The gateway.                                                            *)

CallRecord ==
    [kind : {"agent", "ask"}, question : Nat, size : Nat, steps : Nat, chats : Nat,
     forced : BOOLEAN, results : Nat,
     pc : {"chat", "catalog", "think", "tool"} \cup Ended]

(* The account that the loop keeps of itself. What is told to answer is at *)
(* its limit, and stays there: contexts only grow.                         *)
AccountIs(call) ==
    /\ call.pc \in {"chat", "catalog"} => call.steps = 0 /\ call.chats = 0 /\ ~ call.forced
    /\ call.pc \in {"catalog", "think"} => call.steps = call.results
    /\ call.pc = "tool" => call.steps = call.results + 1
    /\ call.steps <= MaxSteps
    /\ call.forced => call.steps >= MaxSteps \/ OverBudget(call.size)
    /\ call.chats <= call.steps + (IF call.forced THEN 1 ELSE 0)

(* What has run for a call is among its results, until it has failed.      *)
ResultsAreTold(i) ==
    calls[i].pc \notin {"failed", "absent"} => \A s : <<i, s>> \in ran => s <= calls[i].results

GatewayInv ==
    /\ calls \in Seq(CallRecord)
    /\ ran \subseteq (DOMAIN calls) \X Nat
    /\ \A i \in DOMAIN calls : AccountIs(calls[i]) /\ ResultsAreTold(i)

LEMMA CallsAre ==
    ASSUME calls \in Seq(CallRecord)
    PROVE  /\ Len(calls) \in Nat /\ DOMAIN calls = 1 .. Len(calls)
           /\ \A i \in DOMAIN calls : calls[i] \in CallRecord
OBVIOUS

LEMMA Enlarges ==
    ASSUME NEW size \in Nat
    PROVE  /\ Larger(size) \in Nat
           /\ OverBudget(size) => OverBudget(Larger(size))
BY OracleAssumption DEF OracleAssumption, Larger, OverBudget

(* A call takes a step: it stays the same question, and no other changes.  *)
CallMoves(i) ==
    /\ DOMAIN calls' = DOMAIN calls
    /\ \A j \in DOMAIN calls : j # i => calls'[j] = calls[j]
    /\ calls'[i].kind = calls[i].kind /\ calls'[i].question = calls[i].question
    /\ calls[i].pc \notin Ended

(* The record of a call is replaced by one whose account is right.         *)
LEMMA CallReplaced ==
    ASSUME GatewayInv, NEW i \in DOMAIN calls, NEW call \in CallRecord, Becomes(i, call),
           AccountIs(call), ran' \subseteq (DOMAIN calls) \X Nat,
           \A j \in DOMAIN calls : j # i => \A s : <<j, s>> \in ran' => <<j, s>> \in ran,
           call.pc \notin {"failed", "absent"} => \A s : <<i, s>> \in ran' => s <= call.results,
           call.kind = calls[i].kind, call.question = calls[i].question,
           calls[i].pc \notin Ended
    PROVE  GatewayInv' /\ CallMoves(i)
<1>1. calls \in Seq(CallRecord)
  BY DEF GatewayInv
<1>2. /\ calls' \in Seq(CallRecord) /\ DOMAIN calls' = DOMAIN calls /\ calls'[i] = call
      /\ \A j \in DOMAIN calls : j # i => calls'[j] = calls[j]
  BY <1>1 DEF Becomes
<1>3. CallMoves(i)
  BY <1>2 DEF CallMoves
<1>4. ASSUME NEW j \in DOMAIN calls PROVE AccountIs(calls'[j]) /\ ResultsAreTold(j)'
  <2>1. CASE j = i
    BY <1>2, <2>1 DEF ResultsAreTold
  <2>2. CASE j # i
    BY <1>2, <2>2 DEF GatewayInv, ResultsAreTold
  <2>. QED
    BY <2>1, <2>2
<1>5. GatewayInv'
  BY <1>2, <1>4 DEF GatewayInv
<1>. QED
  BY <1>3, <1>5

(* A call ends.                                                            *)
LEMMA CallEnds ==
    ASSUME GatewayInv, NEW i \in DOMAIN calls, NEW call \in CallRecord, NEW pc \in Ended,
           Becomes(i, With(call, pc)), ran' \subseteq (DOMAIN calls) \X Nat,
           \A j \in DOMAIN calls : j # i => \A s : <<j, s>> \in ran' => <<j, s>> \in ran,
           pc = "replied" => call.results = calls[i].results /\ ran' = ran
                             /\ calls[i].pc # "tool",
           call.kind = calls[i].kind, call.question = calls[i].question,
           calls[i].pc \notin Ended
    PROVE  GatewayInv' /\ CallMoves(i)
<1>. PICK last : last = With(call, pc)
  OBVIOUS
<1>1. /\ last \in CallRecord /\ last.kind = call.kind /\ last.question = call.question
      /\ last.pc = pc /\ last.steps = 0 /\ last.chats = 0 /\ last.forced = FALSE
      /\ last.results = IF pc = "replied" THEN call.results ELSE 0
  BY DEF With, CallRecord
<1>2. AccountIs(last)
  BY <1>1, OracleAssumption DEF AccountIs, Ended, OracleAssumption
<1>3. ResultsAreTold(i)
  BY DEF GatewayInv
<1>4. last.pc \notin {"failed", "absent"} => \A s : <<i, s>> \in ran' => s <= last.results
  BY <1>1, <1>3 DEF ResultsAreTold, Ended
<1>5. Becomes(i, last)
  OBVIOUS
<1>. QED
  BY <1>1, <1>2, <1>4, <1>5, CallReplaced

LEMMA ChatMoves ==
    ASSUME GatewayInv, NEW i \in DOMAIN calls, Chat(i) \/ Answer(i)
    PROVE  GatewayInv' /\ CallMoves(i)
<1>1. calls[i] \in CallRecord
  BY CallsAre DEF GatewayInv
<1>2. calls[i].pc \in {"chat", "think"} /\ ran' = ran
  BY DEF Chat, Answer
<1>3. PICK pc \in Ended : Becomes(i, With(calls[i], pc))
  BY DEF Chat, Answer, Ends, Ended
<1>4. ran' \subseteq (DOMAIN calls) \X Nat
  BY <1>2 DEF GatewayInv
<1>5. calls[i].pc \notin Ended /\ calls[i].pc # "tool"
  BY <1>2 DEF Ended
<1>. QED
  BY <1>1, <1>2, <1>3, <1>4, <1>5, CallEnds

LEMMA ListMoves ==
    ASSUME GatewayInv, NEW i \in DOMAIN calls, ListTools(i)
    PROVE  GatewayInv' /\ CallMoves(i)
<1>1. calls[i] \in CallRecord
  BY CallsAre DEF GatewayInv
<1>2. calls[i].pc = "catalog" /\ ran' = ran
  BY DEF ListTools
<1>3. ran' \subseteq (DOMAIN calls) \X Nat /\ calls[i].pc \notin Ended
  BY <1>2 DEF GatewayInv, Ended
<1>4. CASE Goes(i, "think")
  <2>1. PICK call : call = [calls[i] EXCEPT !.pc = "think"]
    OBVIOUS
  <2>2. /\ call \in CallRecord /\ call.kind = calls[i].kind /\ call.question = calls[i].question
        /\ call.pc = "think" /\ call.steps = calls[i].steps /\ call.chats = calls[i].chats
        /\ call.forced = calls[i].forced /\ call.results = calls[i].results
        /\ call.size = calls[i].size
    BY <1>1, <2>1 DEF CallRecord
  <2>3. AccountIs(calls[i]) /\ ResultsAreTold(i)
    BY DEF GatewayInv
  <2>4. AccountIs(call)
    BY <1>2, <2>2, <2>3 DEF AccountIs
  <2>5. \A s : <<i, s>> \in ran' => s <= call.results
    BY <1>2, <2>2, <2>3 DEF ResultsAreTold
  <2>6. Becomes(i, call)
    BY <1>4, <2>1 DEF Goes
  <2>. QED
    BY <1>2, <1>3, <2>2, <2>4, <2>5, <2>6, CallReplaced
<1>5. CASE Ends(i, "failed") \/ Ends(i, "absent")
  <2>1. PICK pc \in Ended : pc # "replied" /\ Becomes(i, With(calls[i], pc))
    BY <1>5 DEF Ends, Ended
  <2>. QED
    BY <1>1, <1>2, <1>3, <2>1, CallEnds
<1>. QED
  BY <1>4, <1>5 DEF ListTools

LEMMA ToolIsCalled ==
    ASSUME GatewayInv, NEW i \in DOMAIN calls, CallTool(i)
    PROVE  GatewayInv' /\ CallMoves(i)
<1>1. calls[i] \in CallRecord /\ calls[i].pc = "think" /\ ran' = ran
  BY CallsAre DEF GatewayInv, CallTool
<1>2. AccountIs(calls[i]) /\ ResultsAreTold(i)
  BY DEF GatewayInv
<1>3. ran' \subseteq (DOMAIN calls) \X Nat /\ calls[i].pc \notin Ended
  BY <1>1 DEF GatewayInv, Ended
<1>. PICK size \in Nat : size = Larger(calls[i].size)
  BY <1>1, Enlarges DEF CallRecord
<1>. PICK chats \in Nat : chats = calls[i].chats + 1
  BY <1>1 DEF CallRecord
<1>c. PICK call : call = [calls[i] EXCEPT !.size = size, !.chats = chats]
  OBVIOUS
<1>4. /\ call \in CallRecord /\ call.kind = calls[i].kind /\ call.question = calls[i].question
      /\ call.size = size /\ call.steps = calls[i].steps /\ call.chats = chats
      /\ call.forced = calls[i].forced /\ call.results = calls[i].results /\ call.pc = "think"
  BY <1>1, <1>c DEF CallRecord
<1>5. OverBudget(calls[i].size) => OverBudget(call.size)
  BY <1>1, <1>4, Enlarges DEF CallRecord
<1>6. calls[i].steps \in Nat /\ calls[i].chats \in Nat /\ calls[i].results \in Nat /\ MaxSteps \in Nat
  BY <1>1, OracleAssumption DEF CallRecord, OracleAssumption
<1>7. /\ IF call.steps >= MaxSteps \/ OverBudget(call.size)
         THEN Becomes(i, Limited(call))
         ELSE \E known \in BOOLEAN :
                Becomes(i, IF known THEN [[call EXCEPT !.steps = @ + 1] EXCEPT !.pc = "tool"]
                                    ELSE Result([call EXCEPT !.steps = @ + 1]))
  BY <1>c DEF CallTool
<1>8. CASE (call.steps >= MaxSteps \/ OverBudget(call.size)) /\ call.forced
  <2>1. Becomes(i, With(call, "replied"))
    BY <1>7, <1>8 DEF Limited
  <2>. QED
    BY <1>1, <1>3, <1>4, <2>1, CallEnds DEF Ended
<1>9. CASE (call.steps >= MaxSteps \/ OverBudget(call.size)) /\ ~ call.forced
  <2>. PICK larger \in Nat : larger = Larger(size)
    BY Enlarges
  <2>l. PICK last : last = [call EXCEPT !.forced = TRUE, !.size = larger]
    OBVIOUS
  <2>1. Becomes(i, last)
    BY <1>4, <1>7, <1>9, <2>l DEF Limited
  <2>2. /\ last \in CallRecord /\ last.kind = calls[i].kind /\ last.question = calls[i].question
        /\ last.size = larger /\ last.steps = calls[i].steps /\ last.chats = chats
        /\ last.forced = TRUE /\ last.results = calls[i].results /\ last.pc = "think"
    BY <1>4, <2>l DEF CallRecord
  <2>3. OverBudget(call.size) => OverBudget(last.size)
    BY <1>4, <2>2, Enlarges
  <2>4. AccountIs(last)
    BY <1>1, <1>2, <1>4, <1>6, <1>9, <2>2, <2>3 DEF AccountIs
  <2>5. \A s : <<i, s>> \in ran' => s <= last.results
    BY <1>1, <1>2, <2>2 DEF ResultsAreTold
  <2>. QED
    BY <1>1, <1>3, <2>1, <2>2, <2>4, <2>5, CallReplaced
<1>10. CASE ~ (call.steps >= MaxSteps \/ OverBudget(call.size))
  <2>. PICK steps \in Nat : steps = calls[i].steps + 1
    BY <1>6
  <2>n. PICK next : next = [call EXCEPT !.steps = steps]
    OBVIOUS
  <2>1. /\ next \in CallRecord /\ next.kind = calls[i].kind /\ next.question = calls[i].question
        /\ next.size = size /\ next.steps = steps /\ next.chats = chats
        /\ next.forced = calls[i].forced /\ next.results = calls[i].results /\ next.pc = "think"
    BY <1>4, <2>n DEF CallRecord
  <2>2. ~ calls[i].forced /\ steps <= MaxSteps /\ chats <= steps /\ calls[i].results + 1 = steps
    BY <1>1, <1>2, <1>4, <1>5, <1>6, <1>10 DEF AccountIs
  <2>3. Becomes(i, [next EXCEPT !.pc = "tool"]) \/ Becomes(i, Result(next))
    BY <1>4, <1>7, <1>10, <2>n
  <2>4. CASE Becomes(i, [next EXCEPT !.pc = "tool"])
    <3>l. PICK last : last = [next EXCEPT !.pc = "tool"]
      OBVIOUS
    <3>1. /\ last \in CallRecord /\ last.kind = calls[i].kind
          /\ last.question = calls[i].question /\ last.steps = steps /\ last.chats = chats
          /\ ~ last.forced /\ last.results = calls[i].results /\ last.pc = "tool"
      BY <2>1, <2>2, <3>l DEF CallRecord
    <3>2. AccountIs(last)
      BY <2>2, <3>1 DEF AccountIs
    <3>3. \A s : <<i, s>> \in ran' => s <= last.results
      BY <1>1, <1>2, <3>1 DEF ResultsAreTold
    <3>4. Becomes(i, last)
      BY <2>4, <3>l
    <3>. QED
      BY <1>1, <1>3, <3>1, <3>2, <3>3, <3>4, CallReplaced
  <2>5. CASE Becomes(i, Result(next))
    <3>. PICK larger \in Nat : larger = Larger(size)
      BY Enlarges
    <3>l. PICK last : last = [next EXCEPT !.results = steps, !.size = larger, !.pc = "think"]
      OBVIOUS
    <3>1. /\ last \in CallRecord /\ last.kind = calls[i].kind
          /\ last.question = calls[i].question /\ last.steps = steps /\ last.chats = chats
          /\ ~ last.forced /\ last.results = steps /\ last.pc = "think"
      BY <2>1, <2>2, <3>l DEF CallRecord
    <3>2. AccountIs(last)
      BY <2>2, <3>1 DEF AccountIs
    <3>3. \A s : <<i, s>> \in ran' => s <= last.results
      <4>1. ASSUME NEW s, <<i, s>> \in ran' PROVE s <= last.results
        <5>1. s \in Nat /\ s <= calls[i].results
          BY <1>1, <1>2, <1>3, <4>1 DEF ResultsAreTold
        <5>. QED
          BY <1>6, <2>2, <3>1, <5>1
      <4>. QED
        BY <4>1
    <3>4. Becomes(i, last)
      BY <2>1, <2>2, <2>5, <3>l DEF Result
    <3>. QED
      BY <1>1, <1>3, <3>1, <3>2, <3>3, <3>4, CallReplaced
  <2>. QED
    BY <2>3, <2>4, <2>5
<1>. QED
  BY <1>8, <1>9, <1>10

LEMMA ToolRuns ==
    ASSUME GatewayInv, NEW i \in DOMAIN calls, RunTool(i)
    PROVE  GatewayInv' /\ CallMoves(i)
<1>1. calls[i] \in CallRecord /\ calls[i].pc = "tool" /\ ran' \subseteq ran \cup {<<i, calls[i].steps>>}
  BY CallsAre DEF GatewayInv, RunTool
<1>2. AccountIs(calls[i]) /\ ResultsAreTold(i)
  BY DEF GatewayInv
<1>3. /\ calls[i].steps \in Nat /\ calls[i].results \in Nat /\ MaxSteps \in Nat
      /\ calls[i].chats \in Nat /\ calls[i].size \in Nat
  BY <1>1, OracleAssumption DEF CallRecord, OracleAssumption
<1>4. /\ ran' \subseteq (DOMAIN calls) \X Nat /\ calls[i].pc \notin Ended
      /\ \A j \in DOMAIN calls : j # i => \A s : <<j, s>> \in ran' => <<j, s>> \in ran
  BY <1>1, <1>3 DEF GatewayInv, Ended
<1>5. CASE Ends(i, "failed")
  BY <1>1, <1>4, <1>5, CallEnds DEF Ends, Ended
<1>6. CASE Becomes(i, Result(calls[i]))
  <2>. PICK larger \in Nat : larger = Larger(calls[i].size)
    BY <1>3, Enlarges
  <2>. PICK results \in Nat : results = calls[i].results + 1
    BY <1>3
  <2>. PICK last : last = [calls[i] EXCEPT !.results = results, !.size = larger, !.pc = "think"]
    OBVIOUS
  <2>1. /\ last \in CallRecord /\ last.kind = calls[i].kind
        /\ last.question = calls[i].question /\ last.steps = calls[i].steps
        /\ last.chats = calls[i].chats /\ last.forced = calls[i].forced
        /\ last.results = results /\ last.pc = "think" /\ last.size = larger
    BY <1>1 DEF CallRecord
  <2>2. OverBudget(calls[i].size) => OverBudget(last.size)
    BY <1>3, <2>1, Enlarges
  <2>3. AccountIs(last) /\ calls[i].steps = results
    BY <1>1, <1>2, <1>3, <2>1, <2>2 DEF AccountIs
  <2>4. ASSUME NEW s, <<i, s>> \in ran' PROVE s <= last.results
    <3>1. s = calls[i].steps \/ (s \in Nat /\ s <= calls[i].results)
      BY <1>1, <1>2, <1>4, <2>4 DEF ResultsAreTold
    <3>. QED
      BY <1>3, <2>1, <2>3, <3>1
  <2>5. Becomes(i, last)
    BY <1>6 DEF Result
  <2>. QED
    BY <1>4, <2>1, <2>3, <2>4, <2>5, CallReplaced
<1>. QED
  BY <1>5, <1>6 DEF RunTool, Heard

LEMMA OracleMoves ==
    ASSUME GatewayInv, NEW i \in DOMAIN calls, OracleStep(i)
    PROVE  GatewayInv' /\ CallMoves(i)
BY ChatMoves, ListMoves, ToolIsCalled, ToolRuns DEF OracleStep

(* Oracle restarts: what it was working on fails, what it has said stands. *)
LEMMA OracleRestarts ==
    ASSUME GatewayInv, OracleRestart
    PROVE  /\ GatewayInv' /\ DOMAIN calls' = DOMAIN calls
           /\ \A i \in DOMAIN calls :
                /\ calls'[i].kind = calls[i].kind /\ calls'[i].question = calls[i].question
                /\ calls[i].pc \in Ended => calls'[i] = calls[i]
<1>1. /\ calls \in Seq(CallRecord) /\ DOMAIN calls' = DOMAIN calls /\ ran' = ran
      /\ \A i \in DOMAIN calls : calls[i] \in CallRecord
  BY CallsAre DEF GatewayInv, OracleRestart
<1>2. ASSUME NEW i \in DOMAIN calls
      PROVE  /\ calls'[i] \in CallRecord /\ AccountIs(calls'[i]) /\ ResultsAreTold(i)'
             /\ calls'[i].kind = calls[i].kind /\ calls'[i].question = calls[i].question
             /\ calls[i].pc \in Ended => calls'[i] = calls[i]
  <2>1. CASE calls[i].pc \in Ended
    <3>1. calls'[i] = calls[i]
      BY <2>1 DEF OracleRestart
    <3>. QED
      BY <1>1, <3>1 DEF GatewayInv, ResultsAreTold
  <2>2. CASE calls[i].pc \notin Ended
    <3>. PICK last : last = With(calls[i], "failed")
      OBVIOUS
    <3>1. /\ last \in CallRecord /\ last.kind = calls[i].kind /\ last.question = calls[i].question
          /\ last.pc = "failed" /\ last.steps = 0 /\ last.chats = 0 /\ last.forced = FALSE
      BY <1>1 DEF With, CallRecord, Ended
    <3>2. AccountIs(last)
      BY <3>1, OracleAssumption DEF AccountIs, OracleAssumption
    <3>3. calls'[i] = last
      BY <2>2 DEF OracleRestart
    <3>. QED
      BY <2>2, <3>1, <3>2, <3>3 DEF ResultsAreTold
  <2>. QED
    BY <2>1, <2>2
<1>3. calls' \in Seq(CallRecord)
  <2>1. PICK n \in Nat : DOMAIN calls = 1 .. n
    BY <1>1
  <2>. PICK new : new = calls'
    OBVIOUS
  <2>2. new = [i \in 1 .. n |-> new[i]] /\ \A i \in 1 .. n : new[i] \in CallRecord
    BY <1>2, <2>1 DEF OracleRestart
  <2>3. new \in [1 .. n -> CallRecord]
    BY <2>2
  <2>. QED
    BY <2>3
<1>. QED
  BY <1>1, <1>2, <1>3 DEF GatewayInv

-----------------------------------------------------------------------------
(* The bot.                                                                *)

Places == {"poll", "wait", "store user", "prune user", "store assistant", "prune assistant",
           "reply", "log"}

BotRecord == [pc : Places, batch : Seq(Nat), taken : Nat, call : Nat]

ChatTypes ==
    /\ written \in Nat /\ confirmed \in Nat /\ crashes \in Nat
    /\ mishaps \in Nat /\ cutOff \in Nat
    /\ bot \in BotRecord
    /\ rows \in Seq([role : DOMAIN After, question : Nat])

(* The bot has a call only when it waits for it or has its answer.         *)
CallIsHeard ==
    /\ bot.pc = "poll" => bot.call = 0
    /\ bot.pc = "wait" => bot.call # 0
    /\ bot.call # 0 =>
         bot.call \in DOMAIN calls /\ (bot.pc # "wait" => calls[bot.call].pc = "replied")

RepliesTell ==
    \A r \in replies : r.call # 0 =>
        /\ r.call \in DOMAIN calls /\ calls[r.call].pc = "replied"
        /\ r.tools = calls[r.call].results

ChatInv == GatewayInv /\ ChatTypes /\ CallIsHeard /\ RepliesTell

(* No step takes a call back, makes another of it, or changes an answer.   *)
CallsStand ==
    /\ DOMAIN calls \subseteq DOMAIN calls'
    /\ \A i \in DOMAIN calls :
         /\ calls'[i].kind = calls[i].kind /\ calls'[i].question = calls[i].question
         /\ calls[i].pc = "replied" => calls'[i] = calls[i]

LEMMA AnswersStand ==
    ASSUME ChatInv, CallsStand
    PROVE  /\ replies' = replies => RepliesTell'
           /\ bot' = bot => CallIsHeard'
BY DEF ChatInv, CallsStand, RepliesTell, CallIsHeard

(* Nothing is asked of the gateway.                                        *)
LEMMA GatewayRests ==
    ASSUME ChatInv, UNCHANGED oracleVars
    PROVE  CallsStand /\ GatewayInv' /\ calls' = calls
<1>1. calls' = calls /\ ran' = ran
  BY DEF oracleVars
<1>2. CallsStand
  BY <1>1 DEF CallsStand
<1>3. GatewayInv'
  BY <1>1 DEF ChatInv, GatewayInv, ResultsAreTold
<1>. QED
  BY <1>1, <1>2, <1>3

LEMMA CallSent ==
    ASSUME ChatInv, NEW kind \in {"agent", "ask"}, NEW question \in Nat, Post(kind, question),
           ran' = ran
    PROVE  /\ GatewayInv' /\ CallsStand
           /\ DOMAIN calls' = DOMAIN calls \cup {Len(calls) + 1}
           /\ Len(calls) + 1 \notin DOMAIN calls /\ Len(calls) + 1 \in Nat \ {0}
           /\ calls'[Len(calls) + 1].kind = kind /\ calls'[Len(calls) + 1].question = question
<1>1. PICK size \in Contexts : calls' = Append(calls, NewCall(kind, question, Len(History(rows)), size))
  BY DEF Post
<1>. PICK call : call = NewCall(kind, question, Len(History(rows)), size)
  OBVIOUS
<1>2. /\ call \in CallRecord /\ call.kind = kind /\ call.question = question
      /\ call.pc \in {"chat", "catalog", "failed"}
      /\ call.steps = 0 /\ call.chats = 0 /\ call.forced = FALSE /\ call.results = 0
  BY OracleAssumption DEF OracleAssumption, NewCall, CallRecord, Ended
<1>3. PICK n \in Nat \ {0} : n = Len(calls) + 1 /\ DOMAIN calls = 1 .. n - 1
  BY CallsAre DEF ChatInv, GatewayInv
<1>4. /\ calls' \in Seq(CallRecord) /\ DOMAIN calls' = 1 .. n /\ calls'[n] = call
      /\ \A i \in DOMAIN calls : calls'[i] = calls[i]
  BY <1>1, <1>2, <1>3 DEF ChatInv, GatewayInv
<1>5. CallsStand
  BY <1>3, <1>4 DEF CallsStand
<1>6. AccountIs(call)
  BY <1>2, OracleAssumption DEF AccountIs, OracleAssumption
<1>7. \A s : <<n, s>> \notin ran
  BY <1>3 DEF ChatInv, GatewayInv
<1>8. ASSUME NEW i \in DOMAIN calls' PROVE AccountIs(calls'[i]) /\ ResultsAreTold(i)'
  <2>1. CASE i = n
    BY <1>4, <1>6, <1>7, <2>1 DEF ResultsAreTold
  <2>2. CASE i # n
    <3>1. i \in DOMAIN calls
      BY <1>3, <1>4, <2>2
    <3>. QED
      BY <1>4, <3>1 DEF ChatInv, GatewayInv, ResultsAreTold
  <2>. QED
    BY <2>1, <2>2
<1>9. ran' \subseteq (DOMAIN calls') \X Nat
  BY <1>3, <1>4 DEF ChatInv, GatewayInv
<1>10. GatewayInv'
  BY <1>4, <1>8, <1>9 DEF GatewayInv
<1>. QED
  BY <1>2, <1>3, <1>4, <1>5, <1>10

LEMMA BatchIsNat ==
    ASSUME NEW first \in Nat, NEW last \in Nat
    PROVE  [i \in 1 .. last - first |-> first + i] \in Seq(Nat)
<1>1. CASE first <= last
  <2>. PICK n \in Nat : n = last - first
    BY <1>1
  <2>1. [i \in 1 .. n |-> first + i] \in [1 .. n -> Nat]
    OBVIOUS
  <2>. QED
    BY <2>1
<1>2. CASE last < first
  <2>1. 1 .. last - first = 1 .. 0
    BY <1>2
  <2>2. [i \in 1 .. 0 |-> first + i] \in [1 .. 0 -> Nat]
    OBVIOUS
  <2>. QED
    BY <2>1, <2>2
<1>. QED
  BY <1>1, <1>2

LEMMA KnownType ==
    ASSUME ChatTypes
    PROVE  Known \in Nat /\ bot.taken <= Known /\ confirmed <= Known
BY DEF ChatTypes, BotRecord, Known

LEMMA UpdatesStep ==
    ASSUME ChatInv, GetUpdates
    PROVE  ChatInv' /\ CallsStand
<1>1. /\ bot.pc = "poll" /\ confirmed' = Known
      /\ UNCHANGED <<written, rows, replies, crashes, mishaps, cutOff>> /\ UNCHANGED oracleVars
  BY DEF GetUpdates
<1>. PICK batch \in Seq(Nat) : batch = [i \in 1 .. written - Known |-> Known + i]
  BY BatchIsNat, KnownType DEF ChatInv, ChatTypes
<1>2. bot' = [bot EXCEPT !.batch = batch]
  BY DEF GetUpdates
<1>3. ChatTypes'
  BY <1>1, <1>2, KnownType DEF ChatInv, ChatTypes, BotRecord
<1>4. bot'.pc = bot.pc /\ bot'.call = bot.call
  BY <1>2 DEF ChatInv, ChatTypes, BotRecord
<1>5. CallIsHeard'
  BY <1>1, <1>4, GatewayRests DEF ChatInv, CallIsHeard
<1>. QED
  BY <1>1, <1>3, <1>5, GatewayRests, AnswersStand DEF ChatInv

(* The bot is at a place, with a call or none; the rest of the chat stays. *)
LEMMA BotGoes ==
    ASSUME ChatInv, GatewayInv', CallsStand, bot' \in BotRecord,
           UNCHANGED <<written, confirmed, rows, crashes, replies>>,
           mishaps' \in Nat \/ mishaps' = mishaps, cutOff' \in Nat \/ cutOff' = cutOff,
           bot'.pc = "poll" => bot'.call = 0, bot'.pc = "wait" => bot'.call # 0,
           bot'.call # 0 => /\ bot'.call \in DOMAIN calls'
                            /\ bot'.pc # "wait" => calls'[bot'.call].pc = "replied"
    PROVE  ChatInv'
<1>1. ChatTypes'
  BY DEF ChatInv, ChatTypes
<1>2. CallIsHeard'
  BY DEF CallIsHeard
<1>. QED
  BY <1>1, <1>2, AnswersStand DEF ChatInv

LEMMA HeadIs ==
    ASSUME ChatInv, bot.batch # << >>
    PROVE  /\ Taken(bot.batch) \in Nat /\ Tail(bot.batch) \in Seq(Nat)
           /\ Taken(bot.batch) = bot.batch[1]
BY DEF ChatInv, ChatTypes, BotRecord, Taken

(* A message is sent to the gateway, the first time or plainly.            *)
LEMMA PostStep ==
    ASSUME ChatInv, NEW kind \in {"agent", "ask"}, NEW question \in Nat, Post(kind, question),
           kind = "agent" => bot.batch # << >>, Outside, UNCHANGED <<ran, rows, replies>>
    PROVE  ChatInv' /\ CallsStand
<1>. PICK n : n = Len(calls) + 1
  OBVIOUS
<1>1. /\ GatewayInv' /\ CallsStand /\ n \in DOMAIN calls' /\ n \in Nat \ {0}
  BY CallSent
<1>. PICK batch \in Seq(Nat) : batch = IF kind = "agent" THEN Tail(bot.batch) ELSE bot.batch
  BY HeadIs DEF ChatInv, ChatTypes, BotRecord
<1>2. bot' = [bot EXCEPT !.pc = "wait", !.call = n, !.taken = question, !.batch = batch]
  BY DEF Post
<1>3. bot' \in BotRecord /\ bot'.pc = "wait" /\ bot'.call = n
  BY <1>1, <1>2 DEF ChatInv, ChatTypes, BotRecord, Places
<1>4. UNCHANGED <<written, confirmed, rows, crashes, replies>>
      /\ mishaps' = mishaps /\ cutOff' = cutOff
  BY DEF Outside
<1>. QED
  BY <1>1, <1>3, <1>4, BotGoes

LEMMA HandleStep ==
    ASSUME ChatInv, Handle
    PROVE  ChatInv' /\ CallsStand
<1>. PICK question \in Nat : question = Taken(bot.batch)
  BY HeadIs DEF Handle
<1>1. bot.pc = "poll" /\ bot.batch # << >> /\ Outside /\ UNCHANGED <<ran, rows, replies>>
  BY DEF Handle
<1>2. CASE Post("agent", question)
  BY <1>1, <1>2, PostStep
<1>3. CASE UNCHANGED calls /\ bot' = [bot EXCEPT !.pc = "reply", !.taken = question, !.batch = Tail(@)]
  <2>. PICK batch \in Seq(Nat) : batch = Tail(bot.batch)
    BY <1>1, HeadIs
  <2>1. bot' = [bot EXCEPT !.pc = "reply", !.taken = question, !.batch = batch]
    BY <1>3
  <2>2. bot' \in BotRecord /\ bot'.pc = "reply" /\ bot'.call = bot.call
    BY <2>1 DEF ChatInv, ChatTypes, BotRecord, Places
  <2>3. bot'.call = 0
    BY <1>1, <2>2 DEF ChatInv, CallIsHeard
  <2>4. UNCHANGED oracleVars /\ UNCHANGED <<written, confirmed, rows, crashes, replies>>
      /\ mishaps' = mishaps /\ cutOff' = cutOff
    BY <1>1, <1>3 DEF Outside, oracleVars
  <2>. QED
    BY <2>2, <2>3, <2>4, GatewayRests, BotGoes
<1>. QED
  BY <1>2, <1>3 DEF Handle

(* The bot moves on and nothing else changes.                              *)
LEMMA BotMoves ==
    ASSUME ChatInv, NEW pc \in Places \ {"poll", "wait"}, NEW call,
           bot' = [bot EXCEPT !.pc = pc, !.call = call],
           call = 0 \/ (call = bot.call /\ call # 0 /\ calls[call].pc = "replied"),
           UNCHANGED oracleVars, Outside, UNCHANGED <<rows, replies>>
    PROVE  ChatInv' /\ CallsStand
<1>1. call \in Nat
  BY DEF ChatInv, ChatTypes, BotRecord
<1>2. bot' \in BotRecord /\ bot'.pc = pc /\ bot'.call = call
  BY <1>1 DEF ChatInv, ChatTypes, BotRecord
<1>3. UNCHANGED <<written, confirmed, rows, crashes, replies>>
      /\ mishaps' = mishaps /\ cutOff' = cutOff
  BY DEF Outside
<1>4. GatewayInv' /\ CallsStand /\ calls' = calls
  BY GatewayRests
<1>5. call # 0 => call \in DOMAIN calls' /\ calls'[call].pc = "replied"
  BY <1>4 DEF ChatInv, CallIsHeard
<1>. QED
  BY <1>2, <1>3, <1>4, <1>5, BotGoes

LEMMA HearStep ==
    ASSUME ChatInv, Hear
    PROVE  ChatInv' /\ CallsStand
<1>1. bot.pc = "wait" /\ Outside /\ UNCHANGED <<ran, rows, replies>>
  BY DEF Hear
<1>. PICK call : call = calls[bot.call]
  OBVIOUS
<1>2. bot.taken \in Nat
  BY DEF ChatInv, ChatTypes, BotRecord
<1>3. CASE FallsBack(call)
  <2>1. Post("ask", bot.taken)
    BY <1>3 DEF Hear
  <2>. QED
    BY <1>1, <1>2, <2>1, PostStep
<1>4. CASE ~ FallsBack(call)
  <2>1. /\ bot' = IF call.pc = "replied" THEN [bot EXCEPT !.pc = "store user"]
                  ELSE [bot EXCEPT !.pc = "reply", !.call = 0]
        /\ UNCHANGED calls
    BY <1>4 DEF Hear
  <2>2. UNCHANGED oracleVars
    BY <1>1, <2>1 DEF oracleVars
  <2>3. CASE call.pc = "replied"
    <3>1. bot' = [bot EXCEPT !.pc = "store user", !.call = bot.call]
      BY <2>1, <2>3 DEF ChatInv, ChatTypes, BotRecord
    <3>2. bot.call # 0
      BY <1>1 DEF ChatInv, CallIsHeard
    <3>. QED
      BY <1>1, <2>2, <2>3, <3>1, <3>2, BotMoves DEF Places
  <2>4. CASE call.pc # "replied"
    <3>1. bot' = [bot EXCEPT !.pc = "reply", !.call = 0]
      BY <2>1, <2>4
    <3>. QED
      BY <1>1, <2>2, <3>1, BotMoves DEF Places
  <2>. QED
    BY <2>3, <2>4
<1>. QED
  BY <1>3, <1>4

LEMMA TimeOutStep ==
    ASSUME ChatInv, TimeOut
    PROVE  ChatInv' /\ CallsStand
BY BotMoves DEF TimeOut, Places

(* The conversation, too, may change, on the way from a place to another.  *)
LEMMA ChatKeeps ==
    ASSUME ChatInv, NEW pc \in Places \ {"poll", "wait"}, bot' = [bot EXCEPT !.pc = pc],
           bot.pc \notin {"poll", "wait"},
           rows' \in Seq([role : DOMAIN After, question : Nat]), UNCHANGED oracleVars,
           UNCHANGED <<written, confirmed, crashes, mishaps, cutOff>>, replies' = replies
    PROVE  ChatInv' /\ CallsStand
<1>1. bot' \in BotRecord /\ bot'.pc = pc /\ bot'.call = bot.call
  BY DEF ChatInv, ChatTypes, BotRecord
<1>2. ChatTypes'
  BY <1>1 DEF ChatInv, ChatTypes
<1>3. CallIsHeard'
  BY <1>1, GatewayRests DEF ChatInv, CallIsHeard
<1>. QED
  BY <1>2, <1>3, GatewayRests, AnswersStand DEF ChatInv

ChatRow == [role : DOMAIN After, question : Nat]

LEMMA RolesAre ==
    ASSUME NEW role \in DOMAIN After
    PROVE  /\ role = "user" \/ role = "assistant"
           /\ After[role] \in {"prune user", "prune assistant"}
           /\ Before[role] \in {"store user", "store assistant"}
           /\ After[role] \in Places \ {"poll", "wait"} /\ Before[role] \in Places \ {"poll", "wait"}
           /\ {After.user, After.assistant} = {"prune user", "prune assistant"}
<1>1. DOMAIN After = {"user", "assistant"}
  BY DEF After
<1>2. After.user = "prune user" /\ After.assistant = "prune assistant"
  BY DEF After
<1>3. Before.user = "store user" /\ Before.assistant = "store assistant"
  BY DEF Before
<1>. QED
  BY <1>1, <1>2, <1>3 DEF Places

LEMMA RememberStep ==
    ASSUME ChatInv, NEW role \in DOMAIN After, Remember(role)
    PROVE  ChatInv' /\ CallsStand /\ Len(rows') = Len(rows) + 1
<1>. PICK row : row = [role |-> role, question |-> bot.taken]
  OBVIOUS
<1>1. row \in ChatRow /\ rows \in Seq(ChatRow)
  BY DEF ChatRow, ChatInv, ChatTypes, BotRecord
<1>2. rows' = Append(rows, row)
  BY DEF Remember
<1>3. rows' \in Seq(ChatRow) /\ Len(rows') = Len(rows) + 1
  BY <1>1, <1>2
<1>4. After[role] \in Places \ {"poll", "wait"} /\ Before[role] \in Places \ {"poll", "wait"}
  BY RolesAre
<1>5. bot.pc = Before[role] /\ bot' = [bot EXCEPT !.pc = After[role]] /\ UNCHANGED oracleVars
      /\ UNCHANGED <<written, confirmed, crashes, mishaps, cutOff>> /\ replies' = replies
  BY DEF Remember, Outside
<1>. QED
  BY <1>3, <1>4, <1>5, ChatKeeps DEF ChatRow

LEMMA KeptIs ==
    ASSUME rows \in Seq(ChatRow), NEW old \in Nat, old < Len(rows)
    PROVE  /\ Kept(old) \in Seq(ChatRow)
           /\ Limit > 0 => Len(Kept(old)) <= Limit
<1>1. Limit \in Nat /\ Len(rows) \in Nat
  BY ChatAssumption DEF ChatAssumption, Limit
<1>2. CASE Limit = 0
  BY <1>1, <1>2 DEF Kept
<1>3. CASE Limit # 0
  <2>. PICK first : first = IF Len(rows) - Limit > old THEN Len(rows) - Limit ELSE old
    OBVIOUS
  <2>1. first \in Nat /\ first < Len(rows) /\ Len(rows) - first <= Limit
    BY <1>1, <1>3
  <2>2. Kept(old) = SubSeq(rows, first + 1, Len(rows))
    BY <1>3 DEF Kept
  <2>f. PICK from \in Int : from = first + 1
    BY <2>1
  <2>t. PICK to \in Int : to = Len(rows)
    BY <1>1
  <2>n. \A i \in from .. to : rows[i] \in ChatRow
    BY <1>1, <2>1, <2>f, <2>t
  <2>3. /\ SubSeq(rows, from, to) \in Seq(ChatRow)
        /\ Len(SubSeq(rows, from, to)) = IF from <= to THEN to - from + 1 ELSE 0
    BY <2>n, SubSeqProperties, Zenon
  <2>. QED
    BY <1>1, <2>1, <2>2, <2>3, <2>f, <2>t
<1>. QED
  BY <1>2, <1>3

LEMMA PruneStep ==
    ASSUME ChatInv, NEW role \in DOMAIN After, Prune(role)
    PROVE  ChatInv' /\ CallsStand /\ (Limit > 0 => Len(rows') <= Limit)
<1>1. PICK old \in {n \in Aged : n < Len(rows)} : rows' = Kept(old)
  BY DEF Prune
<1>2. rows \in Seq(ChatRow) /\ old \in Nat
  BY ChatAssumption DEF ChatAssumption, ChatInv, ChatTypes, ChatRow
<1>3. rows' \in Seq(ChatRow) /\ (Limit > 0 => Len(rows') <= Limit)
  BY <1>1, <1>2, KeptIs
<1>. PICK pc : pc = IF role = "user" THEN "store assistant" ELSE "reply"
  OBVIOUS
<1>4. After[role] \in Places \ {"poll", "wait"} /\ pc \in Places \ {"poll", "wait"}
  BY RolesAre DEF Places
<1>5. bot.pc = After[role] /\ bot' = [bot EXCEPT !.pc = pc] /\ UNCHANGED oracleVars
      /\ UNCHANGED <<written, confirmed, crashes, mishaps, cutOff>> /\ replies' = replies
  BY DEF Prune, Outside
<1>. QED
  BY <1>3, <1>4, <1>5, ChatKeeps DEF ChatRow

LEMMA ReplyStep ==
    ASSUME ChatInv, Reply
    PROVE  ChatInv' /\ CallsStand
<1>. PICK reply : reply = [question |-> bot.taken, call |-> bot.call,
                           tools |-> IF bot.call = 0 THEN 0 ELSE calls[bot.call].results]
  OBVIOUS
<1>1. replies' = replies \cup {reply}
  BY DEF Reply
<1>2. reply.call = bot.call /\ (reply.call # 0 => reply.tools = calls[bot.call].results)
  OBVIOUS
<1>3. bot.pc = "reply" /\ UNCHANGED oracleVars /\ UNCHANGED <<written, confirmed, crashes, mishaps, cutOff>>
      /\ bot' = [bot EXCEPT !.pc = "log"] /\ rows' = rows
  BY DEF Reply, Outside
<1>4. GatewayInv' /\ CallsStand /\ calls' = calls
  BY <1>3, GatewayRests
<1>5. bot' \in BotRecord /\ bot'.pc = "log" /\ bot'.call = bot.call
  BY <1>3 DEF ChatInv, ChatTypes, BotRecord, Places
<1>6. ChatTypes'
  BY <1>3, <1>5 DEF ChatInv, ChatTypes
<1>7. CallIsHeard'
  BY <1>3, <1>4, <1>5 DEF ChatInv, CallIsHeard
<1>8. bot.call # 0 => bot.call \in DOMAIN calls /\ calls[bot.call].pc = "replied"
  BY <1>3 DEF ChatInv, CallIsHeard
<1>9. RepliesTell'
  BY <1>1, <1>2, <1>4, <1>8 DEF ChatInv, RepliesTell
<1>. QED
  BY <1>4, <1>6, <1>7, <1>9 DEF ChatInv

LEMMA LogAskStep ==
    ASSUME ChatInv, LogAsk
    PROVE  ChatInv' /\ CallsStand
<1>1. bot' = [bot EXCEPT !.pc = "poll", !.call = 0] /\ UNCHANGED oracleVars
      /\ UNCHANGED <<written, confirmed, rows, crashes, mishaps, cutOff, replies>>
  BY DEF LogAsk, Outside
<1>2. bot' \in BotRecord /\ bot'.pc = "poll" /\ bot'.call = 0
  BY <1>1 DEF ChatInv, ChatTypes, BotRecord, Places
<1>. QED
  BY <1>1, <1>2, GatewayRests, BotGoes

LEMMA BotIsAtRest ==
    ASSUME NEW taken \in Nat
    PROVE  /\ [Polling EXCEPT !.taken = taken] \in BotRecord
           /\ [Polling EXCEPT !.taken = taken].pc = "poll"
           /\ [Polling EXCEPT !.taken = taken].call = 0
           /\ [Polling EXCEPT !.taken = taken].batch = << >>
           /\ [Polling EXCEPT !.taken = taken].taken = taken
           /\ Polling \in BotRecord /\ Polling.pc = "poll" /\ Polling.call = 0
           /\ Polling.batch = << >> /\ Polling.taken = 0
<1>. PICK none : none = << >>
  OBVIOUS
<1>1. none \in Seq(Nat)
  OBVIOUS
<1>2. Polling = [pc |-> "poll", batch |-> none, taken |-> 0, call |-> 0]
  BY DEF Polling
<1>3. /\ Polling \in BotRecord /\ Polling.pc = "poll" /\ Polling.call = 0
      /\ Polling.batch = none /\ Polling.taken = 0
  BY <1>1, <1>2 DEF BotRecord, Places
<1>r. PICK resumed : resumed = [Polling EXCEPT !.taken = taken]
  OBVIOUS
<1>4. resumed = [pc |-> "poll", batch |-> none, taken |-> taken, call |-> 0]
  BY <1>2, <1>r
<1>5. /\ resumed \in BotRecord /\ resumed.pc = "poll" /\ resumed.call = 0
      /\ resumed.batch = none /\ resumed.taken = taken
  BY <1>1, <1>4 DEF BotRecord, Places
<1>. QED
  BY <1>3, <1>5, <1>r

LEMMA MishapIs ==
    ASSUME ChatInv, Mishap
    PROVE  mishaps' = mishaps + 1 /\ mishaps' \in Nat
BY DEF ChatInv, ChatTypes, Mishap

LEMMA CutOffIs ==
    ASSUME ChatInv, CutOff
    PROVE  cutOff' \in Nat
BY DEF ChatInv, ChatTypes, CutOff

LEMMA RefusedStep ==
    ASSUME ChatInv, ReplyRefused
    PROVE  ChatInv' /\ CallsStand
<1>1. bot.pc = "reply" /\ bot' = [bot EXCEPT !.pc = "log"] /\ UNCHANGED oracleVars /\ Mishap
      /\ UNCHANGED <<written, confirmed, rows, crashes, replies, cutOff>>
  BY DEF ReplyRefused
<1>2. bot' \in BotRecord /\ bot'.pc = "log" /\ bot'.call = bot.call
  BY <1>1 DEF ChatInv, ChatTypes, BotRecord, Places
<1>3. GatewayInv' /\ CallsStand /\ calls' = calls
  BY <1>1, GatewayRests
<1>4. bot.call # 0 => bot.call \in DOMAIN calls /\ calls[bot.call].pc = "replied"
  BY <1>1 DEF ChatInv, CallIsHeard
<1>. QED
  BY <1>1, <1>2, <1>3, <1>4, MishapIs, BotGoes

LEMMA RaisesStep ==
    ASSUME ChatInv, HandlingRaises
    PROVE  ChatInv' /\ CallsStand
<1>1. bot.taken \in Nat
  BY DEF ChatInv, ChatTypes, BotRecord
<1>2. bot' = [Polling EXCEPT !.taken = bot.taken] /\ UNCHANGED oracleVars /\ Mishap
      /\ CutOff /\ UNCHANGED <<written, confirmed, rows, crashes, replies>>
  BY DEF HandlingRaises
<1>3. bot' \in BotRecord /\ bot'.pc = "poll" /\ bot'.call = 0
  BY <1>1, <1>2, BotIsAtRest
<1>. QED
  BY <1>2, <1>3, MishapIs, CutOffIs, GatewayRests, BotGoes

LEMMA HermesRestarts ==
    ASSUME ChatInv, HermesRestart
    PROVE  ChatInv' /\ CallsStand
<1>1. bot' = Polling /\ UNCHANGED oracleVars /\ Mishap /\ crashes' = crashes + 1
      /\ CutOff /\ UNCHANGED <<written, confirmed, rows, replies>>
  BY DEF HermesRestart
<1>2. bot' \in BotRecord /\ bot'.pc = "poll" /\ bot'.call = 0
  BY <1>1, BotIsAtRest
<1>3. ChatTypes'
  BY <1>1, <1>2, MishapIs, CutOffIs DEF ChatInv, ChatTypes
<1>4. CallIsHeard'
  BY <1>2 DEF CallIsHeard
<1>. QED
  BY <1>1, <1>3, <1>4, GatewayRests, AnswersStand DEF ChatInv

LEMMA OracleFailsStep ==
    ASSUME ChatInv, OracleFails
    PROVE  ChatInv' /\ CallsStand /\ DOMAIN calls' = DOMAIN calls
<1>1. OracleRestart /\ Mishap /\ UNCHANGED <<written, confirmed, bot, rows, crashes, replies, cutOff>>
  BY DEF OracleFails
<1>2. GatewayInv' /\ CallsStand /\ DOMAIN calls' = DOMAIN calls
  BY <1>1, OracleRestarts DEF ChatInv, CallsStand, Ended
<1>3. ChatTypes'
  BY <1>1, MishapIs DEF ChatInv, ChatTypes
<1>. QED
  BY <1>1, <1>2, <1>3, AnswersStand DEF ChatInv

LEMMA GatewaySteps ==
    ASSUME ChatInv, GatewayStep, UNCHANGED chatVars
    PROVE  ChatInv' /\ CallsStand /\ DOMAIN calls' = DOMAIN calls
<1>1. PICK i \in DOMAIN calls : OracleStep(i)
  BY DEF GatewayStep
<1>2. GatewayInv' /\ CallMoves(i)
  BY <1>1, OracleMoves DEF ChatInv
<1>3. CallsStand /\ DOMAIN calls' = DOMAIN calls
  BY <1>2 DEF CallMoves, CallsStand, Ended
<1>4. ChatTypes'
  BY DEF ChatInv, ChatTypes, chatVars
<1>. QED
  BY <1>2, <1>3, <1>4, AnswersStand DEF ChatInv, chatVars

LEMMA WriteStep ==
    ASSUME ChatInv, Write
    PROVE  ChatInv' /\ CallsStand
<1>1. UNCHANGED oracleVars /\ UNCHANGED <<confirmed, bot, rows, replies, crashes, mishaps, cutOff>>
      /\ written' = written + 1
  BY DEF Write
<1>2. ChatTypes'
  BY <1>1 DEF ChatInv, ChatTypes
<1>. QED
  BY <1>1, <1>2, GatewayRests, AnswersStand DEF ChatInv

LEMMA ChatStarts ==
    ASSUME Init
    PROVE  ChatInv /\ calls = << >>
<1>1. calls = << >> /\ ran = {}
  BY DEF Init, OracleInit
<1>2. GatewayInv
  BY <1>1 DEF GatewayInv
<1>3. ChatTypes
  <2>1. rows \in Seq(ChatRow)
    BY DEF Init
  <2>2. Polling \in BotRecord
    BY BotIsAtRest
  <2>. QED
    BY <2>1, <2>2 DEF Init, ChatTypes, ChatRow
<1>4. CallIsHeard
  BY BotIsAtRest DEF Init, CallIsHeard
<1>. QED
  BY <1>1, <1>2, <1>3, <1>4 DEF ChatInv, RepliesTell, Init

LEMMA ChatSteps ==
    ASSUME ChatInv, [Next]_vars
    PROVE  ChatInv' /\ CallsStand
<1>1. CASE Write
  BY <1>1, WriteStep
<1>2. CASE BotStep
  BY <1>2, UpdatesStep, HandleStep, HearStep, RememberStep, PruneStep, ReplyStep, LogAskStep
     DEF BotStep
<1>3. CASE GatewayStep /\ UNCHANGED chatVars
  BY <1>3, GatewaySteps
<1>4. CASE TimeOut
  BY <1>4, TimeOutStep
<1>5. CASE HandlingRaises
  BY <1>5, RaisesStep
<1>6. CASE HermesRestart
  BY <1>6, HermesRestarts
<1>7. CASE OracleFails
  BY <1>7, OracleFailsStep
<1>8. CASE UNCHANGED vars
  <2>1. UNCHANGED oracleVars /\ UNCHANGED <<written, confirmed, bot, rows, replies, crashes, mishaps, cutOff>>
    BY <1>8 DEF vars, chatVars
  <2>2. ChatTypes'
    BY <2>1 DEF ChatInv, ChatTypes
  <2>. QED
    BY <2>1, <2>2, GatewayRests, AnswersStand DEF ChatInv
<1>9. CASE ReplyRefused
  BY <1>9, RefusedStep
<1>. QED
  BY <1>1, <1>2, <1>3, <1>4, <1>5, <1>6, <1>7, <1>8, <1>9 DEF Next

THEOREM ChatIsSound == Spec => []ChatInv
<1>1. ChatInv /\ [Next]_vars => ChatInv'
  BY ChatSteps
<1>2. Init => ChatInv
  BY ChatStarts
<1>. QED
  BY <1>1, <1>2, PTL DEF Spec

(* The loop of the agent is bounded, and a reply names all that ran for it *)
(* (LoopIsBounded, AnswersNameWhatRan).                                    *)
THEOREM AnswersAreTrue == Spec => []AnswersNameWhatRan
<1>1. ASSUME ChatInv PROVE AnswersNameWhatRan
  <2>1. /\ \A i \in DOMAIN calls : calls[i] \in CallRecord /\ AccountIs(calls[i]) /\ ResultsAreTold(i)
        /\ MaxSteps \in Nat
    BY <1>1, CallsAre, OracleAssumption DEF ChatInv, GatewayInv, OracleAssumption
  <2>2. ASSUME NEW i \in DOMAIN calls PROVE calls[i].chats <= MaxSteps + 1
    <3>1. calls[i].chats \in Nat /\ calls[i].steps \in Nat
      BY <2>1 DEF CallRecord
    <3>. QED
      BY <2>1, <3>1 DEF AccountIs
  <2>3. ASSUME NEW r \in replies, r.call # 0, NEW step \in 1 .. MaxSteps, <<r.call, step>> \in ran
        PROVE  step <= r.tools
    <3>1. r.call \in DOMAIN calls /\ calls[r.call].pc = "replied" /\ r.tools = calls[r.call].results
      BY <1>1, <2>3 DEF ChatInv, RepliesTell
    <3>. QED
      BY <2>1, <2>3, <3>1 DEF ResultsAreTold
  <2>. QED
    BY <2>2, <2>3 DEF AnswersNameWhatRan, LoopIsBounded
<1>. QED
  BY <1>1, ChatIsSound, PTL

-----------------------------------------------------------------------------
(* What a message asks of the agent.                                       *)

Asked(q) == {i \in DOMAIN calls : calls[i].question = q /\ calls[i].kind = "agent"}

(* The messages of a batch are newer than what is known, in their order.   *)
BatchIs ==
    /\ \A i \in DOMAIN bot.batch : bot.batch[i] > Known
    /\ \A i \in DOMAIN bot.batch, j \in DOMAIN bot.batch : i < j => bot.batch[i] < bot.batch[j]

(* A message the loop does not know as taken was sent only before one of   *)
(* the restarts.                                                           *)
DeliveryInv ==
    /\ BatchIs
    /\ \A q \in Nat : /\ IsFiniteSet(Asked(q))
                      /\ Cardinality(Asked(q)) <= crashes + (IF q <= Known THEN 1 ELSE 0)

AgentAsked(question) ==
    \A q : Asked(q)' = IF q = question THEN Asked(q) \cup {Len(calls) + 1} ELSE Asked(q)

HeadIsAsked == \E question \in Nat : question = Head(bot.batch) /\ AgentAsked(question)

NothingAsked == \A q : Asked(q)' = Asked(q)

LEMMA CallsAsk ==
    ASSUME CallsStand
    PROVE  /\ DOMAIN calls' = DOMAIN calls => NothingAsked
           /\ \A n : (/\ DOMAIN calls' = DOMAIN calls \cup {n} /\ n \notin DOMAIN calls
                      /\ calls'[n].kind = "ask") => NothingAsked
BY DEF CallsStand, NothingAsked, Asked

LEMMA AgentCallAsks ==
    ASSUME NEW question \in Nat, CallsStand, DOMAIN calls' = DOMAIN calls \cup {Len(calls) + 1},
           Len(calls) + 1 \notin DOMAIN calls, calls'[Len(calls) + 1].kind = "agent",
           calls'[Len(calls) + 1].question = question
    PROVE  AgentAsked(question)
<1>. PICK n : n = Len(calls) + 1
  OBVIOUS
<1>1. /\ DOMAIN calls' = DOMAIN calls \cup {n} /\ n \notin DOMAIN calls
      /\ calls'[n].kind = "agent" /\ calls'[n].question = question
      /\ \A i \in DOMAIN calls : calls'[i].kind = calls[i].kind /\ calls'[i].question = calls[i].question
  BY DEF CallsStand
<1>2. ASSUME NEW q
      PROVE  Asked(q)' = IF q = question THEN Asked(q) \cup {n} ELSE Asked(q)
  <2>1. CASE q = question
    BY <1>1, <2>1 DEF Asked
  <2>2. CASE q # question
    BY <1>1, <2>2 DEF Asked
  <2>. QED
    BY <2>1, <2>2
<1>. QED
  BY <1>2 DEF AgentAsked

(* What a step does to the batch, and to what is known as taken.           *)
BatchStays == bot'.batch = bot.batch /\ bot'.taken = bot.taken

BatchIsOver == bot'.batch = << >> /\ bot'.taken = bot.taken

MessageIsTaken ==
    /\ bot.batch # << >>
    /\ bot'.batch = Tail(bot.batch) /\ bot'.taken = Head(bot.batch)

LEMMA PostDelivers ==
    ASSUME ChatInv, NEW kind \in {"agent", "ask"}, NEW question \in Nat, Post(kind, question)
    PROVE  /\ bot'.taken = question
           /\ bot'.batch = IF kind = "agent" THEN Tail(bot.batch) ELSE bot.batch
<1>. PICK n : n = Len(calls) + 1
  OBVIOUS
<1>. PICK batch : batch = IF kind = "agent" THEN Tail(bot.batch) ELSE bot.batch
  OBVIOUS
<1>1. bot' = [bot EXCEPT !.pc = "wait", !.call = n, !.taken = question, !.batch = batch]
  BY DEF Post
<1>2. bot'.taken = question /\ bot'.batch = batch
  BY <1>1 DEF ChatInv, ChatTypes, BotRecord
<1>. QED
  BY <1>2

LEMMA HandleDelivers ==
    ASSUME ChatInv, Handle
    PROVE  MessageIsTaken /\ (NothingAsked \/ HeadIsAsked)
<1>1. bot.batch # << >> /\ UNCHANGED ran /\ Outside
  BY DEF Handle
<1>. PICK question \in Nat : question = Taken(bot.batch)
  BY <1>1, HeadIs
<1>2. question = Head(bot.batch)
  BY DEF Taken
<1>3. CASE Post("agent", question)
  <2>1. MessageIsTaken
    BY <1>1, <1>2, <1>3, PostDelivers DEF MessageIsTaken
  <2>2. /\ CallsStand /\ DOMAIN calls' = DOMAIN calls \cup {Len(calls) + 1}
        /\ Len(calls) + 1 \notin DOMAIN calls
        /\ calls'[Len(calls) + 1].kind = "agent" /\ calls'[Len(calls) + 1].question = question
    BY <1>1, <1>3, CallSent
  <2>3. AgentAsked(question)
    BY <2>2, AgentCallAsks
  <2>. QED
    BY <1>2, <2>1, <2>3 DEF HeadIsAsked
<1>4. CASE UNCHANGED calls /\ bot' = [bot EXCEPT !.pc = "reply", !.taken = question, !.batch = Tail(@)]
  <2>. PICK batch : batch = Tail(bot.batch)
    OBVIOUS
  <2>1. bot' = [bot EXCEPT !.pc = "reply", !.taken = question, !.batch = batch]
    BY <1>4
  <2>2. bot'.taken = question /\ bot'.batch = batch
    BY <2>1 DEF ChatInv, ChatTypes, BotRecord
  <2>3. NothingAsked
    BY <1>4 DEF NothingAsked, Asked
  <2>. QED
    BY <1>1, <1>2, <2>2, <2>3 DEF MessageIsTaken
<1>. QED
  BY <1>3, <1>4 DEF Handle

LEMMA HearDelivers ==
    ASSUME ChatInv, Hear
    PROVE  BatchStays /\ NothingAsked
<1>1. UNCHANGED ran
  BY DEF Hear
<1>2. bot.taken \in Nat
  BY DEF ChatInv, ChatTypes, BotRecord
<1>3. CASE Post("ask", bot.taken)
  <2>1. BatchStays
    BY <1>2, <1>3, PostDelivers DEF BatchStays
  <2>2. /\ CallsStand /\ DOMAIN calls' = DOMAIN calls \cup {Len(calls) + 1}
        /\ Len(calls) + 1 \notin DOMAIN calls /\ calls'[Len(calls) + 1].kind = "ask"
    BY <1>1, <1>2, <1>3, CallSent
  <2>. QED
    BY <2>1, <2>2, CallsAsk
<1>4. CASE /\ UNCHANGED calls
           /\ \/ bot' = [bot EXCEPT !.pc = "store user"]
              \/ bot' = [bot EXCEPT !.pc = "reply", !.call = 0]
  <2>1. NothingAsked
    BY <1>4 DEF NothingAsked, Asked
  <2>2. BatchStays
    BY <1>4 DEF ChatInv, ChatTypes, BotRecord, BatchStays
  <2>. QED
    BY <2>1, <2>2
<1>. QED
  BY <1>3, <1>4 DEF Hear

(* Every step but an update: the message, the restart, or neither.         *)
LEMMA Delivers ==
    ASSUME ChatInv, [Next]_vars, ~ GetUpdates
    PROVE  /\ confirmed' = confirmed
           /\ \/ MessageIsTaken /\ (NothingAsked \/ HeadIsAsked) /\ crashes' = crashes
              \/ (BatchStays \/ BatchIsOver) /\ NothingAsked /\ crashes' = crashes
              \/ bot' = Polling /\ NothingAsked /\ crashes' = crashes + 1
<1>1. CASE Handle
  <2>1. confirmed' = confirmed /\ crashes' = crashes
    BY <1>1 DEF Handle, Outside
  <2>. QED
    BY <1>1, <2>1, HandleDelivers
<1>2. CASE Hear
  <2>1. confirmed' = confirmed /\ crashes' = crashes
    BY <1>2 DEF Hear, Outside
  <2>. QED
    BY <1>2, <2>1, HearDelivers
<1>3. ASSUME NEW role \in DOMAIN After, Remember(role) \/ Prune(role)
      PROVE  BatchStays /\ NothingAsked /\ confirmed' = confirmed /\ crashes' = crashes
  <2>1. UNCHANGED oracleVars /\ confirmed' = confirmed /\ crashes' = crashes
    BY <1>3 DEF Remember, Prune, Outside
  <2>2. PICK pc : bot' = [bot EXCEPT !.pc = pc]
    BY <1>3 DEF Remember, Prune
  <2>3. BatchStays
    BY <2>2 DEF ChatInv, ChatTypes, BotRecord, BatchStays
  <2>. QED
    BY <2>1, <2>3, GatewayRests, CallsAsk
<1>4. CASE Reply \/ ReplyRefused \/ LogAsk \/ TimeOut
  <2>1. UNCHANGED oracleVars /\ confirmed' = confirmed /\ crashes' = crashes
    BY <1>4 DEF Reply, ReplyRefused, LogAsk, TimeOut, Outside
  <2>2. BatchStays
    BY <1>4 DEF ChatInv, ChatTypes, BotRecord, BatchStays, Reply, ReplyRefused, LogAsk, TimeOut
  <2>. QED
    BY <2>1, <2>2, GatewayRests, CallsAsk
<1>5. CASE HandlingRaises
  <2>1. UNCHANGED oracleVars /\ confirmed' = confirmed /\ crashes' = crashes
        /\ bot' = [Polling EXCEPT !.taken = bot.taken]
    BY <1>5 DEF HandlingRaises
  <2>2. BatchIsOver
    BY <2>1, BotIsAtRest DEF ChatInv, ChatTypes, BotRecord, BatchIsOver
  <2>. QED
    BY <2>1, <2>2, GatewayRests, CallsAsk
<1>6. CASE HermesRestart
  <2>1. UNCHANGED oracleVars /\ confirmed' = confirmed /\ crashes' = crashes + 1 /\ bot' = Polling
    BY <1>6 DEF HermesRestart
  <2>. QED
    BY <2>1, GatewayRests, CallsAsk
<1>7. CASE Write \/ UNCHANGED vars
  <2>1. UNCHANGED oracleVars /\ UNCHANGED <<confirmed, bot, crashes>>
    BY <1>7 DEF Write, vars, chatVars
  <2>. QED
    BY <2>1, GatewayRests, CallsAsk DEF BatchStays
<1>8. CASE OracleFails \/ (GatewayStep /\ UNCHANGED chatVars)
  <2>1. CallsStand /\ DOMAIN calls' = DOMAIN calls
    BY <1>8, OracleFailsStep, GatewaySteps
  <2>2. UNCHANGED <<confirmed, bot, crashes>>
    BY <1>8 DEF OracleFails, chatVars
  <2>. QED
    BY <2>1, <2>2, CallsAsk DEF BatchStays
<1>. QED
  BY <1>1, <1>2, <1>3, <1>4, <1>5, <1>6, <1>7, <1>8 DEF Next, BotStep

LEMMA BatchFollows ==
    ASSUME ChatInv, BatchIs, [Next]_vars
    PROVE  /\ BatchIs'
           /\ crashes' = crashes => Known <= Known'
           /\ MessageIsTaken /\ confirmed' = confirmed =>
                Head(bot.batch) \in Nat /\ Head(bot.batch) > Known /\ Known' = Head(bot.batch)
<1>1. /\ bot.batch \in Seq(Nat) /\ bot.taken \in Nat /\ confirmed \in Nat /\ written \in Nat
      /\ Known \in Nat /\ bot.taken <= Known /\ confirmed <= Known
  BY KnownType DEF ChatInv, ChatTypes, BotRecord
<1>. PICK known \in Nat : known = Known
  BY <1>1
<1>2. CASE GetUpdates
  <2>. PICK batch \in Seq(Nat) : batch = [i \in 1 .. written - known |-> known + i]
    BY <1>1, BatchIsNat
  <2>1. bot' = [bot EXCEPT !.batch = batch] /\ confirmed' = known /\ bot.batch = << >>
    BY <1>2 DEF GetUpdates
  <2>2. bot'.batch = batch /\ bot'.taken = bot.taken
    BY <2>1 DEF ChatInv, ChatTypes, BotRecord
  <2>3. Known' = known
    BY <1>1, <2>1, <2>2 DEF Known
  <2>4. DOMAIN batch = 1 .. written - known /\ \A i \in DOMAIN batch : batch[i] = known + i /\ i \in Nat \ {0}
    BY <1>1
  <2>5. BatchIs'
    BY <2>2, <2>3, <2>4 DEF BatchIs
  <2>6. ~ MessageIsTaken
    BY <2>1 DEF MessageIsTaken
  <2>. QED
    BY <2>3, <2>5, <2>6
<1>3. CASE ~ GetUpdates /\ MessageIsTaken
  <2>1. confirmed' = confirmed
    BY <1>3, Delivers
  <2>. PICK batch \in Seq(Nat) : batch = bot.batch
    BY <1>1
  <2>2. batch # << >> /\ bot'.batch = Tail(batch) /\ bot'.taken = Head(batch)
    BY <1>3 DEF MessageIsTaken
  <2>. PICK n \in Nat \ {0} : n = Len(batch) /\ DOMAIN batch = 1 .. n
    BY <2>2
  <2>3. /\ Head(batch) = batch[1] /\ DOMAIN Tail(batch) = 1 .. n - 1
        /\ \A i \in 1 .. n - 1 : Tail(batch)[i] = batch[i + 1] /\ i + 1 \in 1 .. n /\ 1 < i + 1
        /\ 1 \in 1 .. n /\ \A i \in 1 .. n : batch[i] \in Nat
    BY <2>2
  <2>4. /\ \A i \in 1 .. n : batch[i] > known
        /\ \A i \in 1 .. n, j \in 1 .. n : i < j => batch[i] < batch[j]
    BY DEF BatchIs
  <2>5. Head(batch) \in Nat /\ Head(batch) > known /\ Known' = Head(batch)
    BY <1>1, <2>1, <2>2, <2>3, <2>4 DEF Known
  <2>6. ASSUME NEW i \in 1 .. n - 1 PROVE Tail(batch)[i] > Head(batch)
    BY <2>3, <2>4
  <2>7. ASSUME NEW i \in 1 .. n - 1, NEW j \in 1 .. n - 1, i < j PROVE Tail(batch)[i] < Tail(batch)[j]
    <3>1. i + 1 < j + 1
      BY <2>7
    <3>. QED
      BY <2>3, <2>4, <3>1
  <2>8. BatchIs'
    BY <2>2, <2>3, <2>5, <2>6, <2>7 DEF BatchIs
  <2>. QED
    BY <2>5, <2>8
<1>4. CASE ~ GetUpdates /\ ~ MessageIsTaken
  <2>1. confirmed' = confirmed
    BY <1>4, Delivers
  <2>2. CASE BatchStays
    <3>1. Known' = Known
      BY <2>1, <2>2 DEF Known, BatchStays
    <3>. QED
      BY <1>1, <1>4, <2>2, <3>1 DEF BatchIs, BatchStays
  <2>3. CASE BatchIsOver
    <3>1. Known' = Known
      BY <2>1, <2>3 DEF Known, BatchIsOver
    <3>. QED
      BY <1>1, <1>4, <2>3, <3>1 DEF BatchIs, BatchIsOver
  <2>4. CASE bot' = Polling /\ crashes' = crashes + 1
    <3>0. crashes \in Nat
      BY DEF ChatInv, ChatTypes
    <3>1. crashes' # crashes
      BY <2>4, <3>0
    <3>2. bot'.batch = << >>
      BY <2>4 DEF Polling
    <3>. QED
      BY <1>4, <3>1, <3>2 DEF BatchIs
  <2>. QED
    BY <1>4, <2>2, <2>3, <2>4, Delivers
<1>. QED
  BY <1>2, <1>3, <1>4

LEMMA KnownTypeNext ==
    ASSUME ChatTypes'
    PROVE  Known' \in Nat
BY DEF ChatTypes, BotRecord, Known

LEMMA CrashesCount ==
    ASSUME ChatInv, [Next]_vars
    PROVE  crashes' = crashes \/ crashes' = crashes + 1
BY Delivers DEF GetUpdates

LEMMA DeliveryStep ==
    ASSUME ChatInv, DeliveryInv, [Next]_vars
    PROVE  DeliveryInv'
<1>1. BatchIs /\ crashes \in Nat /\ Known \in Nat
  BY KnownType DEF DeliveryInv, ChatInv, ChatTypes
<1>2. BatchIs'
  BY <1>1, BatchFollows
<1>3. Known' \in Nat
  BY ChatSteps, KnownTypeNext DEF ChatInv
<1>4. ASSUME NEW q \in Nat
      PROVE  IsFiniteSet(Asked(q))' /\ (Cardinality(Asked(q)) <= crashes + (IF q <= Known THEN 1 ELSE 0))'
  <2>. PICK asked : asked = Asked(q)
    OBVIOUS
  <2>. PICK new : new = Asked(q)'
    OBVIOUS
  <2>1. /\ IsFiniteSet(asked) /\ Cardinality(asked) \in Nat
        /\ Cardinality(asked) <= crashes + (IF q <= Known THEN 1 ELSE 0)
    BY FS_CardinalityType DEF DeliveryInv
  <2>2. SUFFICES IsFiniteSet(new) /\ Cardinality(new) <= crashes' + (IF q <= Known' THEN 1 ELSE 0)
    OBVIOUS
  <2>3. CASE NothingAsked
    <3>1. new = asked
      BY <2>3 DEF NothingAsked
    <3>2. CASE crashes' = crashes
      <4>1. Known <= Known'
        BY <1>1, <3>2, BatchFollows
      <4>. QED
        BY <1>1, <1>3, <2>1, <3>1, <3>2, <4>1
    <3>3. CASE crashes' = crashes + 1
      BY <1>1, <1>3, <2>1, <3>1, <3>3
    <3>4. crashes' = crashes \/ crashes' = crashes + 1
      BY CrashesCount
    <3>. QED
      BY <3>2, <3>3, <3>4
  <2>4. CASE ~ NothingAsked
    <3>1. ~ GetUpdates
      BY <2>4, CallsAsk, GatewayRests DEF GetUpdates
    <3>2. MessageIsTaken /\ HeadIsAsked /\ crashes' = crashes /\ confirmed' = confirmed
      BY <2>4, <3>1, Delivers
    <3>h. PICK question \in Nat : question = Head(bot.batch) /\ AgentAsked(question)
      BY <3>2 DEF HeadIsAsked
    <3>k. question > Known /\ Known' = question
      BY <1>1, <3>2, <3>h, BatchFollows
    <3>a. \A other : Asked(other)' = IF other = question THEN Asked(other) \cup {Len(calls) + 1} ELSE Asked(other)
      BY <3>h DEF AgentAsked
    <3>3. CASE q = question
      <4>n. PICK n : n = Len(calls) + 1
        OBVIOUS
      <4>1. new = asked \cup {n}
        BY <3>3, <3>a, <4>n
      <4>f. IsFiniteSet(asked)
        BY <2>1
      <4>c. /\ IsFiniteSet(asked \cup {n})
            /\ Cardinality(asked \cup {n}) =
                 IF n \in asked THEN Cardinality(asked) ELSE Cardinality(asked) + 1
        BY <4>f, FS_AddElement
      <4>2. IsFiniteSet(new) /\ Cardinality(new) <= Cardinality(asked) + 1 /\ Cardinality(new) \in Nat
        BY <2>1, <4>1, <4>c
      <4>. QED
        BY <1>1, <2>1, <3>2, <3>3, <3>k, <4>2
    <3>4. CASE q # question
      <4>1. new = asked
        BY <3>4, <3>a
      <4>. QED
        BY <1>1, <2>1, <3>2, <3>k, <4>1
    <3>. QED
      BY <3>3, <3>4
  <2>. QED
    BY <2>3, <2>4
<1>. QED
  BY <1>2, <1>4 DEF DeliveryInv

(* A message starts the agent once, and once more for each restart that    *)
(* came before Telegram was told (AgentOncePerDelivery).                   *)
THEOREM AgentIsStartedOnce == Spec => []AgentOncePerDelivery
<1>1. Init => ChatInv /\ DeliveryInv
  <2>1. SUFFICES ASSUME Init PROVE DeliveryInv
    BY ChatStarts
  <2>2. bot.batch = << >> /\ calls = << >> /\ crashes = 0 /\ Known \in Nat
    BY <2>1, ChatStarts, BotIsAtRest, KnownType DEF Init, ChatInv
  <2>3. \A q \in Nat : Asked(q) = {}
    BY <2>2 DEF Asked
  <2>4. \A q \in Nat : IsFiniteSet(Asked(q)) /\ Cardinality(Asked(q)) = 0
    BY <2>3, FS_EmptySet
  <2>. QED
    BY <2>2, <2>4 DEF DeliveryInv, BatchIs
<1>2. ChatInv /\ DeliveryInv /\ [Next]_vars => ChatInv' /\ DeliveryInv'
  BY ChatSteps, DeliveryStep
<1>3. ASSUME ChatInv, DeliveryInv PROVE AgentOncePerDelivery
  <2>1. ASSUME NEW q \in 1 .. MaxQuestions
        PROVE  Cardinality(Asked(q)) <= 1 + crashes
    <3>1. q \in Nat /\ crashes \in Nat /\ Known \in Nat
      BY <1>3, KnownType, ChatAssumption DEF ChatAssumption, ChatInv, ChatTypes
    <3>2. /\ Cardinality(Asked(q)) \in Nat
          /\ Cardinality(Asked(q)) <= crashes + (IF q <= Known THEN 1 ELSE 0)
      BY <1>3, <3>1, FS_CardinalityType DEF DeliveryInv
    <3>. QED
      BY <3>1, <3>2
  <2>. QED
    BY <2>1 DEF AgentOncePerDelivery, Asked
<1>. QED
  BY <1>1, <1>2, <1>3, PTL DEF Spec

-----------------------------------------------------------------------------
(* The conversation.                                                       *)

(* Whether a row is stored whose conversation is not pruned yet.           *)
Unpruned == IF bot.pc \in {"prune user", "prune assistant"} THEN 1 ELSE 0

(* Every row beyond the limit is one after which pruning was cut off.      *)
RecentInv == Limit > 0 => Len(rows) <= Limit + cutOff + Unpruned

LEMMA RowsStay ==
    ASSUME ChatInv, RecentInv, rows' = rows, NEW before \in {0, 1}, NEW after \in {0, 1},
           Unpruned = before, Unpruned' = after, NEW more \in {0, 1}, cutOff' = cutOff + more,
           before <= more + after
    PROVE  RecentInv'
<1>1. Limit \in Nat /\ Limit' = Limit /\ Len(rows) \in Nat /\ cutOff \in Nat
  BY ChatAssumption DEF ChatAssumption, Limit, ChatInv, ChatTypes
<1>2. Limit > 0 => Len(rows) <= Limit + cutOff + before
  BY DEF RecentInv
<1>3. Limit > 0 => Len(rows') <= Limit + cutOff' + after
  BY <1>1, <1>2
<1>. QED
  BY <1>1, <1>3 DEF RecentInv

LEMMA RecentStep ==
    ASSUME ChatInv, RecentInv, [Next]_vars
    PROVE  RecentInv'
<1>1. Limit \in Nat /\ Limit' = Limit /\ Len(rows) \in Nat /\ cutOff \in Nat
  BY ChatAssumption DEF ChatAssumption, Limit, ChatInv, ChatTypes
<1>2. bot \in BotRecord
  BY DEF ChatInv, ChatTypes
<1>b. PICK before \in {0, 1} : before = Unpruned
  BY DEF Unpruned
<1>a. PICK after \in {0, 1} : after = Unpruned'
  BY DEF Unpruned
<1>3. CASE bot' = bot /\ rows' = rows /\ cutOff' = cutOff
  <2>1. before = after
    BY <1>a, <1>b, <1>3 DEF Unpruned
  <2>. PICK more \in {0, 1} : more = 0
    OBVIOUS
  <2>2. cutOff' = cutOff + more
    BY <1>1, <1>3
  <2>3. before <= more + after
    BY <2>1
  <2>. QED
    BY <1>a, <1>b, <1>3, <2>2, <2>3, RowsStay
<1>4. CASE bot.pc \notin {"prune user", "prune assistant"} /\ rows' = rows /\ cutOff' = cutOff
  <2>1. before = 0
    BY <1>b, <1>4 DEF Unpruned
  <2>2. before <= 0 + after
    BY <2>1
  <2>. PICK more \in {0, 1} : more = 0
    OBVIOUS
  <2>3. cutOff \in Nat /\ cutOff' = cutOff
    BY <1>1, <1>4
  <2>4. cutOff' = cutOff + more
    BY <2>3
  <2>5. before <= more + after
    BY <2>2
  <2>. QED
    BY <1>a, <1>b, <1>4, <2>4, <2>5, RowsStay
<1>5. CASE rows' = rows /\ CutOff
  <2>1. cutOff' = cutOff + before
    <3>1. before = IF Storing THEN 1 ELSE 0
      BY <1>b DEF Storing, Unpruned, After
    <3>2. cutOff' = IF Storing THEN cutOff + 1 ELSE cutOff
      BY <1>5 DEF CutOff
    <3>. QED
      BY <1>1, <3>1, <3>2
  <2>2. before <= before + after
    OBVIOUS
  <2>. QED
    BY <1>a, <1>b, <1>5, <2>1, <2>2, RowsStay
<1>6. ASSUME NEW role \in DOMAIN After, Remember(role) PROVE RecentInv'
  <2>1. Len(rows') = Len(rows) + 1
    BY <1>6, RememberStep
  <2>2. Unpruned = 0
    BY <1>6, RolesAre DEF Remember, Unpruned
  <2>3. bot'.pc = After[role] /\ cutOff' = cutOff
    BY <1>2, <1>6 DEF Remember, Outside, BotRecord
  <2>4. Unpruned' = 1
    BY <2>3, RolesAre DEF Unpruned
  <2>. QED
    BY <1>1, <2>1, <2>2, <2>3, <2>4 DEF RecentInv
<1>7. ASSUME NEW role \in DOMAIN After, Prune(role) PROVE RecentInv'
  <2>1. ChatInv' /\ (Limit > 0 => Len(rows') <= Limit) /\ cutOff' = cutOff
    BY <1>7, PruneStep DEF Prune, Outside
  <2>2. Len(rows') \in Nat
    BY <2>1 DEF ChatInv, ChatTypes
  <2>. QED
    BY <1>1, <1>a, <2>1, <2>2 DEF RecentInv
<1>8. CASE Write \/ (GatewayStep /\ UNCHANGED chatVars) \/ UNCHANGED vars
  BY <1>3, <1>8 DEF Write, vars, chatVars
<1>9. CASE OracleFails
  BY <1>3, <1>9 DEF OracleFails
<1>10. CASE HermesRestart \/ HandlingRaises
  BY <1>5, <1>10 DEF HermesRestart, HandlingRaises
<1>11. CASE GetUpdates \/ Handle \/ Hear \/ Reply \/ ReplyRefused \/ LogAsk \/ TimeOut
  <2>1. bot.pc \in {"poll", "wait", "reply", "log"}
    BY <1>11 DEF GetUpdates, Handle, Hear, Reply, ReplyRefused, LogAsk, TimeOut
  <2>2. rows' = rows /\ cutOff' = cutOff
    BY <1>11 DEF GetUpdates, Handle, Hear, Reply, ReplyRefused, LogAsk, TimeOut, Outside
  <2>. QED
    BY <1>4, <2>1, <2>2
<1>. QED
  BY <1>6, <1>7, <1>8, <1>9, <1>10, <1>11 DEF Next, BotStep

(* What the next question is sent with leaves out no more of the newest    *)
(* rows than calls were cut off (ConversationIsRecent).                    *)
THEOREM HistoryIsRecent == Spec => []ConversationIsRecent
<1>1. Init => ChatInv /\ RecentInv
  <2>1. Init => Len(rows) = 0 /\ cutOff = 0 /\ Unpruned \in Nat /\ Limit \in Nat
    BY ChatAssumption DEF Init, ChatAssumption, Limit, Unpruned
  <2>. QED
    BY <2>1, ChatStarts DEF RecentInv
<1>2. ChatInv /\ RecentInv /\ [Next]_vars => ChatInv' /\ RecentInv'
  BY ChatSteps, RecentStep
<1>3. ASSUME ChatInv, RecentInv PROVE ConversationIsRecent
  <2>1. Limit \in Nat /\ Len(rows) \in Nat /\ cutOff \in Nat /\ rows \in Seq(ChatRow)
    BY <1>3, ChatAssumption DEF ChatAssumption, Limit, ChatInv, ChatTypes, ChatRow
  <2>2. Unpruned = IF Storing THEN 1 ELSE 0
    BY DEF Unpruned, Storing, After
  <2>3. CASE Limit > 0 /\ Len(rows) <= Limit
    BY <2>1, <2>2, <2>3 DEF ConversationIsRecent, History
  <2>4. CASE Limit > 0 /\ Limit < Len(rows)
    <3>f. PICK to \in Int : to = Limit
      BY <2>1
    <3>1. \A i \in 1 .. to : rows[i] \in ChatRow
      BY <2>1, <2>4, <3>f
    <3>2. Len(SubSeq(rows, 1, to)) = IF 1 <= to THEN to - 1 + 1 ELSE 0
      BY <3>1, SubSeqProperties
    <3>3. Len(History(rows)) = Limit
      BY <2>1, <2>4, <3>2, <3>f DEF History
    <3>. QED
      BY <1>3, <2>1, <2>2, <2>4, <3>3 DEF ConversationIsRecent, RecentInv
  <2>. QED
    BY <2>1, <2>3, <2>4 DEF ConversationIsRecent
<1>. QED
  BY <1>1, <1>2, <1>3, PTL DEF Spec
================================================================================
