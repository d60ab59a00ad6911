------------------------------ MODULE HermesChat -------------------------------
(***************************************************************************)
(* A chat with Oracle over the Telegram bot: the bot takes one message     *)
(* after the other, sends it with the conversation so far, stores question *)
(* and answer when there is one, and replies.  Telegram keeps a message    *)
(* until a later request of the bot confirms it.  The bot stops waiting    *)
(* for the gateway after ai_timeout; the gateway does not stop.            *)
(***************************************************************************)
EXTENDS OracleAgent, SequencesExt, FiniteSets

CONSTANTS
  MaxHistory,    \* ai_max_history
  Aged,          \* how many rows may be found too old, when there are as many
  MaxQuestions,  \* bound: messages the operator writes
  MaxMishaps     \* bound: exceptions in the bot, restarts of Hermes or Oracle, refused
                 \* replies

ASSUME ChatAssumption ==
  /\ MaxHistory \in Nat /\ Aged \subseteq Nat
  /\ MaxQuestions \in Nat /\ MaxMishaps \in Nat

VARIABLES
  written,     \* messages in the chat; each is known by its place
  confirmed,   \* how many of them Telegram has been told are taken
  bot,         \* the poll loop
  rows,        \* the stored conversation: role and message, in the order of time
  replies,     \* what the operator was sent: message, the call that answered, tools named
  dropped,     \* messages whose handling raised
  refused,     \* messages to which Telegram did not take the reply
  cutOff,      \* history: calls that ended between storing a row and pruning
  crashes,     \* restarts of Hermes
  mishaps

chatVars ==
  <<written, confirmed, bot, rows, replies, dropped, refused, cutOff, crashes, mishaps>>
vars == <<oracleVars, chatVars>>

Limit == 2 * MaxHistory

(* At rest; taken is the offset less one, 0 when there is none, and call the *)
(* call whose answer it waits for or has, 0 when there is none.              *)
Polling == [pc |-> "poll", batch |-> << >>, taken |-> 0, call |-> 0]

Init ==
  /\ OracleInit
  /\ written = 0 /\ confirmed = 0
  /\ bot = Polling
  /\ rows = << >>
  /\ replies = {} /\ dropped = {} /\ refused = {}
  /\ cutOff = 0 /\ crashes = 0 /\ mishaps = 0

Mishap == mishaps < MaxMishaps /\ mishaps' = mishaps + 1

Outside == UNCHANGED <<written, confirmed, dropped, refused, cutOff, crashes, mishaps>>

Write ==
  /\ written < MaxQuestions
  /\ written' = written + 1
  /\ UNCHANGED <<oracleVars, confirmed, bot, rows, replies, dropped, refused, cutOff, crashes,
                 mishaps>>

--------------------------------------------------------------------------------
(* TelegramBot._poll_loop.                                                   *)

(* Variant: the offset is that of the message itself.                        *)
KnownBefore == IF bot.taken > confirmed THEN bot.taken - 1 ELSE confirmed

Known == IF bot.taken > confirmed THEN bot.taken ELSE confirmed

(* getUpdates: messages before the offset are confirmed by asking, and what  *)
(* is not confirmed is returned.                                             *)
GetUpdates ==
  /\ bot.pc = "poll" /\ bot.batch = << >>
  /\ Known > confirmed \/ written > Known
  /\ confirmed' = Known
  /\ bot' = [bot EXCEPT !.batch = [i \in 1 .. written - Known |-> Known + i]]
  /\ UNCHANGED <<oracleVars, written, rows, replies, dropped, refused, cutOff, crashes, mishaps>>

(* Variant: the offset is that of the newest message there is.               *)
TakenAll(batch) == Last(batch)

Taken(batch) == Head(batch)

(* OracleClient.history: the first rows by time, up to the limit.            *)
History(all) == IF Limit = 0 \/ Len(all) <= Limit THEN all ELSE SubSeq(all, 1, Limit)

(* POST /v1/agent or /v1/ask.                                                *)
Post(kind, question) ==
  \E size \in Contexts :
    /\ calls' = Append(calls, NewCall(kind, question, Len(History(rows)), size))
    /\ bot' = [bot EXCEPT !.pc = "wait", !.call = Len(calls) + 1,
                          !.taken = question,
                          !.batch = IF kind = "agent" THEN Tail(@) ELSE @]

(* A message is taken and sent, unless it comes too fast or the gateway is   *)
(* not reached.                                                              *)
Handle ==
  LET question == Taken(bot.batch) IN
  /\ bot.pc = "poll" /\ bot.batch # << >>
  /\ \/ Post("agent", question)
     \/ /\ bot' = [bot EXCEPT !.pc = "reply", !.taken = question, !.batch = Tail(@)]
        /\ UNCHANGED calls
  /\ Outside
  /\ UNCHANGED <<ran, rows, replies>>

(* A gateway without an agent is asked plainly.                              *)
FallsBack(call) == call.kind = "agent" /\ call.pc = "absent"

Hear ==
  /\ bot.pc = "wait" /\ calls[bot.call].pc \in Ended
  /\ LET call == calls[bot.call] IN
     IF FallsBack(call)
     THEN Post("ask", bot.taken)
     ELSE /\ bot' = IF call.pc = "replied"
                     THEN [bot EXCEPT !.pc = "store user"]
                     ELSE [bot EXCEPT !.pc = "reply", !.call = 0]
          /\ UNCHANGED calls
  /\ Outside
  /\ UNCHANGED <<ran, rows, replies>>

TimeOut ==
  /\ bot.pc = "wait" /\ calls[bot.call].pc \notin Ended
  /\ bot' = [bot EXCEPT !.pc = "reply", !.call = 0]
  /\ Outside
  /\ UNCHANGED <<oracleVars, rows, replies>>

--------------------------------------------------------------------------------
(* OracleClient.remember: a row is committed, then the conversation is       *)
(* pruned in a transaction of its own.                                       *)

Before == [user |-> "store user", assistant |-> "store assistant"]
After == [user |-> "prune user", assistant |-> "prune assistant"]

Remember(role) ==
  /\ bot.pc = Before[role]
  /\ rows' = Append(rows, [role |-> role, question |-> bot.taken])
  /\ bot' = [bot EXCEPT !.pc = After[role]]
  /\ Outside
  /\ UNCHANGED <<oracleVars, replies>>

(* Variant: the conversation is pruned when the answer is stored.            *)
KeptLate(old) ==
  IF Last(rows).role = "user" THEN rows
  ELSE IF Len(rows) <= Limit THEN rows ELSE SubSeq(rows, Len(rows) - Limit + 1, Len(rows))

(* The newest rows that are not too old; without a limit the deletion of the *)
(* old ones is never committed.                                              *)
Kept(old) ==
  LET first == IF Len(rows) - Limit > old THEN Len(rows) - Limit ELSE old IN
  IF Limit = 0 THEN rows ELSE SubSeq(rows, first + 1, Len(rows))

Prune(role) ==
  /\ bot.pc = After[role]
  /\ \E old \in {n \in Aged : n < Len(rows)} : rows' = Kept(old)
  /\ bot' = [bot EXCEPT !.pc = IF role = "user" THEN "store assistant" ELSE "reply"]
  /\ Outside
  /\ UNCHANGED <<oracleVars, replies>>

(* The reply, and the event that records it. Telegram may answer that it     *)
(* does not take the reply, too many or not to its liking: that is logged,   *)
(* and the bot goes on as if it had been sent.                               *)
Reply ==
  /\ bot.pc = "reply"
  /\ replies' = replies \cup
       {[question |-> bot.taken, call |-> bot.call,
         tools |-> IF bot.call = 0 THEN 0 ELSE calls[bot.call].results]}
  /\ bot' = [bot EXCEPT !.pc = "log"]
  /\ Outside
  /\ UNCHANGED <<oracleVars, rows>>

ReplyRefused ==
  /\ bot.pc = "reply" /\ Mishap
  /\ refused' = refused \cup {bot.taken}
  /\ bot' = [bot EXCEPT !.pc = "log"]
  /\ UNCHANGED <<oracleVars, written, confirmed, rows, replies, dropped, cutOff, crashes>>

LogAsk ==
  /\ bot.pc = "log"
  /\ bot' = [bot EXCEPT !.pc = "poll", !.call = 0]
  /\ Outside
  /\ UNCHANGED <<oracleVars, rows, replies>>

--------------------------------------------------------------------------------
(* What goes wrong.                                                          *)

(* A row is stored, and the conversation is not pruned yet.                  *)
Storing == bot.pc \in {After.user, After.assistant}
CutOff == cutOff' = IF Storing THEN cutOff + 1 ELSE cutOff

(* An exception in the handling of a message: the rest of the batch is asked *)
(* for again, this one is not.                                               *)
HandlingRaises ==
  /\ bot.pc # "poll" /\ Mishap
  /\ bot' = [Polling EXCEPT !.taken = bot.taken]
  /\ dropped' = dropped \cup {bot.taken}
  /\ CutOff
  /\ UNCHANGED <<oracleVars, written, confirmed, rows, replies, refused, crashes>>

HermesRestart ==
  /\ Mishap
  /\ crashes' = crashes + 1
  /\ bot' = Polling
  /\ CutOff
  /\ UNCHANGED <<oracleVars, written, confirmed, rows, replies, dropped, refused>>

OracleFails ==
  /\ Mishap /\ OracleRestart
  /\ UNCHANGED <<written, confirmed, bot, rows, replies, dropped, refused, cutOff, crashes>>

BotStep ==
  \/ GetUpdates \/ Handle \/ Hear
  \/ \E role \in DOMAIN After : Remember(role) \/ Prune(role)
  \/ Reply \/ LogAsk

GatewayStep == \E i \in DOMAIN calls : OracleStep(i)

Next ==
  \/ Write
  \/ BotStep
  \/ GatewayStep /\ UNCHANGED chatVars
  \/ TimeOut \/ ReplyRefused
  \/ HandlingRaises \/ HermesRestart \/ OracleFails

Spec == Init /\ [][Next]_vars

(* The poll loop goes on by itself, and waits for the gateway no longer than *)
(* ai_timeout; nothing is asked of the gateway.                              *)
Fairness == WF_vars(BotStep \/ TimeOut)

FairSpec == Spec /\ Fairness

--------------------------------------------------------------------------------
(* Properties.                                                               *)

Answered(question) == \E r \in replies : r.question = question

(* Every message gets a reply, an answer or the word that there is none,     *)
(* with two exceptions, which nobody tells the operator of: its handling     *)
(* raised, or Telegram did not take the reply, which is not sent again. A    *)
(* restart brings back what was not confirmed, an exception or a refused     *)
(* reply does not take the rest of its batch with it, and the bot never      *)
(* waits for a gateway that has given up.                                    *)
EveryoneAnswered ==
  \A q \in 1 .. MaxQuestions : written >= q ~> (Answered(q) \/ q \in dropped \cup refused)

(* The loop comes to an end whatever the model says, with tools that do not  *)
(* exist, contexts too large from the start and reminders it ignores: of the *)
(* chats that name a tool, one per step and one at the limit do not end it.  *)
LoopIsBounded == \A i \in DOMAIN calls : calls[i].chats <= MaxSteps + 1

(* The loop keeps account of itself: it is bounded, and its answer names     *)
(* every tool that ran for it, those included whose outcome the gateway      *)
(* never learned.                                                            *)
AnswersNameWhatRan ==
  /\ LoopIsBounded
  /\ \A r \in replies : r.call # 0 =>
       \A step \in 1 .. MaxSteps : <<r.call, step>> \in ran => step <= r.tools

(* A message starts the agent, which may act, once, and once more for each   *)
(* restart that came before Telegram was told: Hermes does not try again.    *)
AgentOncePerDelivery ==
  \A q \in 1 .. MaxQuestions :
    Cardinality({i \in DOMAIN calls : calls[i].question = q /\ calls[i].kind = "agent"})
      <= 1 + crashes

(* What is sent with the next question leaves out no more of the newest rows *)
(* than calls were cut off between storing and pruning, the present one, if  *)
(* it is there, counted: a conversation does not get stuck in its past.      *)
ConversationIsRecent ==
  Limit > 0 => Len(rows) - Len(History(rows)) <= cutOff + (IF Storing THEN 1 ELSE 0)

================================================================================
