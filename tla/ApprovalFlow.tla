----------------------------- MODULE ApprovalFlow -----------------------------
(***************************************************************************)
(* How an action gets its human thumbs-up: Forge stores an approval and    *)
(* posts it to Hermes, the approval bridge relays it to Telegram, the bot  *)
(* routes the operator's reply (to the bridge first, then to the watchdog, *)
(* else to Oracle), the bridge posts the verdict back and Forge runs the   *)
(* tool.  The watchdog's proposals share the same chat and the same bot.   *)
(*                                                                         *)
(* Forge, Hermes and Telegram are separate processes: every request and    *)
(* every answer between them is a step, may come too late, and both        *)
(* services keep their pending items in memory only.                       *)
(***************************************************************************)
EXTENDS Naturals, Sequences, SequencesExt

CONSTANTS Approvals,      \* tool calls that need an approval, each with its id
          ActionOf,       \* the tool and target of an approval
          Proposals,      \* recovery actions the watchdog proposes, one per target
          LowRisk,        \* those that run by themselves after the veto window
          ForgeTimeout,   \* FORGE_APPROVAL_TIMEOUT (600 s), in ticks
          BridgeTimeout,  \* HERMES_FORGE_APPROVAL_TIMEOUT (900 s), in ticks
          Nothing,        \* what the bot is busy with when it is not
          MaxReplies,     \* bound: messages the operator writes
          MaxMishaps      \* bound: restarts, lost messages, failed requests

ASSUME FlowAssumption ==
    /\ LowRisk \subseteq Proposals
    /\ Approvals \cap Proposals = {}
    /\ Nothing \notin Approvals
    /\ ForgeTimeout \in Nat /\ BridgeTimeout \in Nat
    /\ MaxReplies \in Nat /\ MaxMishaps \in Nat

VARIABLES store,     \* Forge: ApprovalStore, the state of an approval
          request,   \* Forge: the /v1/run handler that asked for it
          ran,       \* history: how often the approved tool was started
          age,       \* ticks since the approval was created
          relay,     \* Hermes: the /v1/approvals handler
          pending,   \* Hermes: ApprovalBridge._pending, oldest first
          sweeper,   \* Hermes: the bridge's sweep loop, up or dead
          sweep,     \* Hermes: the items its current pass has still to look at
          bot,       \* Hermes: the approval and verdict the bot is posting
          answer,    \* Forge: its handling of that POST
          proposed,  \* Hermes: Watchdog._pending, oldest first
          notice,    \* Hermes: announcing a proposal
          armed,     \* Hermes: proposals whose veto window is running
          acted,     \* history: how often a proposal's command was started
          inbox,     \* Telegram: updates not yet confirmed by getUpdates
          handled,   \* how many of them the bot has handled
          written,   \* how many messages the operator has written
          vetoed,    \* history: proposals the operator rejected in time
          told,      \* history: what the operator was told of each item
          mishaps

forgeVars == <<store, request, ran>>
bridgeVars == <<relay, pending, sweeper, sweep>>
sweepVars == <<sweeper, sweep>>
watchdogVars == <<proposed, notice, armed, acted>>
chatVars == <<inbox, handled, written, vetoed>>
vars == <<forgeVars, age, bridgeVars, bot, answer, watchdogVars, chatVars, told, mishaps>>

Items == Approvals \cup Proposals
Words == {"yes", "no", "other"}
NotPosting == [on |-> Nothing, word |-> "no"]

Init ==
    /\ store = [a \in Approvals |-> "new"]
    /\ request = [a \in Approvals |-> "none"]
    /\ ran = [a \in Approvals |-> 0]
    /\ age = [a \in Approvals |-> 0]
    /\ relay = [a \in Approvals |-> "none"]
    /\ pending = <<>>
    /\ sweeper = "up"
    /\ sweep = <<>>
    /\ bot = NotPosting
    /\ answer = "none"
    /\ proposed = <<>>
    /\ notice = [p \in Proposals |-> "none"]
    /\ armed = {}
    /\ acted = [p \in Proposals |-> 0]
    /\ inbox = <<>>
    /\ handled = 0
    /\ written = 0
    /\ vetoed = {}
    /\ told = [i \in Items |-> {}]
    /\ mishaps = 0

Mishap == mishaps < MaxMishaps /\ mishaps' = mishaps + 1

(* A message to the operator.  Telegram may refuse it, which _reply only   *)
(* logs, or the request may raise.                                         *)
Tell(i, what) ==
    \/ told' = [told EXCEPT ![i] = @ \cup {what}] /\ UNCHANGED mishaps
    \/ Mishap /\ UNCHANGED told

(* pop of a dict, which has a key at most once.                            *)
Without(seq, i) ==
    IF i \in ToSet(seq) THEN RemoveAt(seq, CHOOSE k \in DOMAIN seq : seq[k] = i) ELSE seq

-----------------------------------------------------------------------------
(* _start_approval up to the POST: refuse a second approval of the same    *)
(* action, else store one.                                                 *)
Call(a) ==
    /\ request[a] = "none"
    /\ IF \E b \in Approvals : store[b] = "pending" /\ ActionOf[b] = ActionOf[a]
         THEN /\ request' = [request EXCEPT ![a] = "duplicate"]
              /\ UNCHANGED store
         ELSE /\ request' = [request EXCEPT ![a] = "posting"]
              /\ store' = [store EXCEPT ![a] = "pending"]
    /\ UNCHANGED <<ran, age, bridgeVars, bot, answer, watchdogVars, chatVars, told, mishaps>>

(* ApprovalBridge.request_approval stores the item before it notifies.     *)
Relay(a) ==
    /\ request[a] = "posting"
    /\ relay[a] = "none"
    /\ relay' = [relay EXCEPT ![a] = "notifying"]
    /\ pending' = Append(pending, a)
    /\ UNCHANGED <<forgeVars, age, sweepVars, bot, answer, watchdogVars, chatVars, told, mishaps>>

(* The rest of request_approval: a refused message counts as delivered, a  *)
(* call that raises becomes an error for Forge while the item stays        *)
(* pending, whether or not the operator has read it.                       *)
Notify(a) ==
    /\ relay[a] = "notifying"
    /\ \/ relay' = [relay EXCEPT ![a] = "accepted"] /\ Tell(a, "asked")
       \/ relay' = [relay EXCEPT ![a] = "error"] /\ Mishap
          /\ told' \in {told, [told EXCEPT ![a] = @ \cup {"asked"}]}
    /\ UNCHANGED <<forgeVars, age, pending, sweepVars, bot, answer, watchdogVars, chatVars>>

(* Mutant of Close: the state is overwritten whatever it was.              *)
Overwrite(a, state) == store' = [store EXCEPT ![a] = state]

(* ApprovalStore.expire and resolve act on a pending approval only.        *)
Close(a, state) ==
    store' = IF store[a] = "pending" THEN [store EXCEPT ![a] = state] ELSE store

(* The rest of _start_approval.  The POST may fail although Hermes goes on *)
(* to deliver it: the client gives up after 10 s, Telegram may take 70.    *)
Posted(a) ==
    /\ request[a] = "posting"
    /\ \/ /\ relay[a] = "accepted"
          /\ request' = [request EXCEPT ![a] = "waiting"]
          /\ UNCHANGED <<store, mishaps>>
       \/ /\ IF relay[a] = "error" THEN UNCHANGED mishaps ELSE Mishap
          /\ request' = [request EXCEPT ![a] = "not_run"]
          /\ Close(a, "expired")
    /\ UNCHANGED <<ran, age, bridgeVars, bot, answer, watchdogVars, chatVars, told>>

(* ExecutionEngine.sweep.                                                  *)
Overdue == {a \in Approvals : store[a] = "pending" /\ age[a] >= ForgeTimeout}

ForgeSweep ==
    /\ Overdue # {}
    /\ store' = [a \in Approvals |-> IF a \in Overdue THEN "expired" ELSE store[a]]
    /\ UNCHANGED <<request, ran, age, bridgeVars, bot, answer, watchdogVars, chatVars,
                   told, mishaps>>

(* ApprovalBridge._sweep, with its own clock and its own timeout: a pass   *)
(* looks at the items that are pending when it starts.                     *)
BridgeSweep ==
    /\ sweeper = "up" /\ sweep = <<>>
    /\ \E a \in ToSet(pending) : age[a] >= BridgeTimeout
    /\ sweep' = pending
    /\ UNCHANGED <<forgeVars, age, relay, pending, sweeper, bot, answer, watchdogVars, chatVars,
                   told, mishaps>>

(* The operator is told, or is not, or a call raises: _sweep_loop catches  *)
(* nothing, and the loop is over until Hermes restarts.                    *)
TellExpired(a) ==
    \/ Tell(a, "expired") /\ sweep' = Tail(sweep) /\ UNCHANGED sweeper
    \/ Mishap /\ sweeper' = "dead" /\ sweep' = <<>>
       /\ told' \in {told, [told EXCEPT ![a] = @ \cup {"expired"}]}

(* Mutant of BridgeExpire: items whose notification failed are skipped.    *)
BridgeExpireAsked ==
    /\ sweep # <<>>
    /\ LET a == Head(sweep) IN
        IF age[a] < BridgeTimeout \/ relay[a] # "accepted"
          THEN sweep' = Tail(sweep) /\ UNCHANGED <<sweeper, pending, told, mishaps>>
          ELSE pending' = Without(pending, a) /\ TellExpired(a)
    /\ UNCHANGED <<forgeVars, age, relay, bot, answer, watchdogVars, chatVars>>

(* The next item of the pass, whether it is still pending or not.          *)
BridgeExpire ==
    /\ sweep # <<>>
    /\ LET a == Head(sweep) IN
        IF age[a] < BridgeTimeout
          THEN sweep' = Tail(sweep) /\ UNCHANGED <<sweeper, pending, told, mishaps>>
          ELSE pending' = Without(pending, a) /\ TellExpired(a)
    /\ UNCHANGED <<forgeVars, age, relay, bot, answer, watchdogVars, chatVars>>

Tick ==
    /\ \E a \in Approvals : store[a] # "new" /\ age[a] < BridgeTimeout
    /\ age' = [a \in Approvals |->
                  IF store[a] # "new" /\ age[a] < BridgeTimeout THEN age[a] + 1 ELSE age[a]]
    /\ UNCHANGED <<forgeVars, bridgeVars, bot, answer, watchdogVars, chatVars, told, mishaps>>

-----------------------------------------------------------------------------
(* ExecutionEngine.resolve, for the POST of the bridge.                    *)
Resolve ==
    /\ bot.on # Nothing
    /\ answer = "none"
    /\ CASE store[bot.on] = "lost" -> answer' = "missing" /\ UNCHANGED <<store, ran>>
         [] store[bot.on] = "pending" /\ bot.word = "yes" ->
               /\ store' = [store EXCEPT ![bot.on] = "approved"]
               /\ ran' = [ran EXCEPT ![bot.on] = @ + 1]
               /\ answer' = "running"
         [] OTHER -> Close(bot.on, "rejected") /\ answer' = "null" /\ UNCHANGED ran
    /\ UNCHANGED <<request, age, bridgeVars, bot, watchdogVars, chatVars, told, mishaps>>

ToolEnds ==
    /\ answer = "running"
    /\ answer' = "result"
    /\ UNCHANGED <<forgeVars, age, bridgeVars, bot, watchdogVars, chatVars, told, mishaps>>

(* What ApprovalBridge._resolve says when Forge has answered.              *)
Verdict ==
    CASE bot.word = "no" -> "rejected"
      [] answer = "missing" -> "problem"
      [] OTHER -> "approved"

Answered ==
    /\ bot.on # Nothing
    /\ answer \in {"null", "missing", "result"}
    /\ Tell(bot.on, Verdict)
    /\ bot' = NotPosting
    /\ answer' = "none"
    /\ UNCHANGED <<forgeVars, age, bridgeVars, watchdogVars, chatVars>>

(* The POST raises: Forge cannot be reached, or its tool takes longer than *)
(* the 20 s the client waits.  The item is no longer pending.              *)
Unanswered ==
    /\ bot.on # Nothing
    /\ \/ answer \in {"running", "dropped"} /\ Tell(bot.on, "unreachable")
       \/ answer \notin {"running", "dropped"} /\ Mishap
          /\ told' = [told EXCEPT ![bot.on] = @ \cup {"unreachable"}]
    /\ bot' = NotPosting
    /\ answer' = "none"
    /\ UNCHANGED <<forgeVars, age, bridgeVars, watchdogVars, chatVars>>

-----------------------------------------------------------------------------
(* Watchdog._propose: remember it, start the veto window, announce it.     *)
Propose(p) ==
    /\ notice[p] = "none"
    /\ proposed' = Append(proposed, p)
    /\ armed' = IF p \in LowRisk THEN armed \cup {p} ELSE armed
    /\ notice' = [notice EXCEPT ![p] = "sending"]
    /\ UNCHANGED <<forgeVars, age, bridgeVars, bot, answer, acted, chatVars, told, mishaps>>

Announce(p) ==
    /\ notice[p] = "sending"
    /\ notice' = [notice EXCEPT ![p] = "sent"]
    /\ Tell(p, "asked")
    /\ UNCHANGED <<forgeVars, age, bridgeVars, bot, answer, proposed, armed, acted, chatVars>>

(* Watchdog._execute: forget the proposal, stop its window, run it.        *)
Execute(p) ==
    /\ proposed' = Without(proposed, p)
    /\ armed' = armed \ {p}
    /\ acted' = [acted EXCEPT ![p] = @ + 1]

(* Watchdog._cancel.                                                       *)
Cancel(p) ==
    /\ proposed' = Without(proposed, p)
    /\ armed' = armed \ {p}
    /\ UNCHANGED acted

(* _auto_proceed_after: the window is over and nobody replied.             *)
WindowElapses(p) ==
    /\ p \in armed
    /\ notice[p] = "sent"
    /\ Execute(p)
    /\ UNCHANGED <<forgeVars, age, bridgeVars, bot, answer, notice, chatVars, told, mishaps>>

-----------------------------------------------------------------------------
(* The operator writes about something that was shown to them.             *)
Write(word, i) ==
    /\ "asked" \in told[i]
    /\ written < MaxReplies
    /\ written' = written + 1
    /\ inbox' = Append(inbox, [word |-> word, about |-> i])
    /\ UNCHANGED <<forgeVars, age, bridgeVars, bot, answer, watchdogVars, handled, vetoed,
                   told, mishaps>>

(* Does a plain-text message reach the bridge, and if not the watchdog?    *)
ForBridge(word) == pending # <<>> /\ word \in {"yes", "no"}
ForWatchdog(word) == ~ForBridge(word) /\ proposed # <<>>

(* _handle_plain_text: the next update goes to the newest pending approval,*)
(* else to the newest proposal, else to Oracle (which is not modelled).    *)
Handle ==
    /\ bot.on = Nothing
    /\ handled < Len(inbox)
    /\ handled' = handled + 1
    /\ LET reply == inbox[handled + 1] IN
        /\ vetoed' = IF reply.word = "no" /\ reply.about \in ToSet(proposed)
                       THEN vetoed \cup {reply.about} ELSE vetoed
        /\ \/ /\ ForBridge(reply.word)
              /\ bot' = [on |-> Last(pending), word |-> reply.word]
              /\ pending' = Without(pending, Last(pending))
              /\ UNCHANGED <<proposed, armed, acted, told, mishaps>>
           \/ /\ ForWatchdog(reply.word)
              /\ IF reply.word = "yes"
                   THEN Execute(Last(proposed)) /\ UNCHANGED <<told, mishaps>>
                   ELSE Cancel(Last(proposed)) /\ Tell(Last(proposed), "cancelled")
              /\ UNCHANGED <<bot, pending>>
           \/ /\ ~ForBridge(reply.word) /\ ~ForWatchdog(reply.word)
              /\ UNCHANGED <<bot, pending, proposed, armed, acted, told, mishaps>>
    /\ UNCHANGED <<forgeVars, age, relay, sweepVars, answer, notice, inbox, written>>

(* The next getUpdates passes the offset, and Telegram forgets the rest.   *)
Confirm ==
    /\ bot.on = Nothing
    /\ handled > 0
    /\ inbox' = SubSeq(inbox, handled + 1, Len(inbox))
    /\ handled' = 0
    /\ UNCHANGED <<forgeVars, age, bridgeVars, bot, answer, watchdogVars, written, vetoed,
                   told, mishaps>>

-----------------------------------------------------------------------------
(* Hermes restarts: bridge, watchdog and offset start empty; updates that  *)
(* were handled but not confirmed arrive again.                            *)
HermesRestart ==
    /\ Mishap
    /\ pending' = <<>>
    /\ sweeper' = "up"
    /\ sweep' = <<>>
    /\ relay' = [a \in Approvals |-> IF relay[a] = "notifying" THEN "error" ELSE relay[a]]
    /\ bot' = NotPosting
    /\ answer' = "none"
    /\ proposed' = <<>>
    /\ armed' = {}
    /\ notice' = [p \in Proposals |-> IF notice[p] = "sending" THEN "sent" ELSE notice[p]]
    /\ handled' = 0
    /\ UNCHANGED <<forgeVars, age, acted, inbox, written, vetoed, told>>

(* Forge restarts: the approvals it knew are gone, running calls end.      *)
ForgeRestart ==
    /\ Mishap
    /\ store' = [a \in Approvals |-> IF store[a] = "new" THEN "new" ELSE "lost"]
    /\ request' = [a \in Approvals |-> IF request[a] = "posting" THEN "broken" ELSE request[a]]
    /\ answer' = IF answer = "none" THEN "none" ELSE "dropped"
    /\ UNCHANGED <<ran, age, bridgeVars, bot, watchdogVars, chatVars, told>>

-----------------------------------------------------------------------------
Next ==
    \/ \E a \in Approvals : Call(a) \/ Relay(a) \/ Notify(a) \/ Posted(a)
    \/ ForgeSweep \/ BridgeSweep \/ BridgeExpire \/ Tick
    \/ Resolve \/ ToolEnds \/ Answered \/ Unanswered
    \/ \E p \in Proposals : Propose(p) \/ Announce(p) \/ WindowElapses(p)
    \/ \E word \in Words, i \in Items : Write(word, i)
    \/ Handle \/ Confirm
    \/ HermesRestart \/ ForgeRestart

(* Time passes, handlers go on and the sweepers run; callers, operator    *)
(* and mishaps are free to stay away.                                      *)
Fairness ==
    /\ WF_vars(Tick)
    /\ WF_vars(ForgeSweep)
    /\ WF_vars(Resolve \/ ToolEnds \/ Answered \/ Unanswered)
    /\ WF_vars(Handle)
    /\ \A a \in Approvals : WF_vars(Relay(a) \/ Notify(a)) /\ WF_vars(Posted(a))
    /\ WF_vars(BridgeSweep) /\ WF_vars(BridgeExpire)
    /\ \A p \in Proposals : WF_vars(Announce(p)) /\ WF_vars(WindowElapses(p))

Spec == Init /\ [][Next]_vars
FairSpec == Spec /\ Fairness
-----------------------------------------------------------------------------
Messages == {"asked", "approved", "rejected", "problem", "unreachable", "expired", "cancelled"}

(* Every variable stays in its type.                                       *)
TypeOK ==
    /\ store \in [Approvals -> {"new", "pending", "approved", "rejected", "expired", "lost"}]
    /\ request \in [Approvals ->
                        {"none", "posting", "waiting", "duplicate", "not_run", "broken"}]
    /\ ran \in [Approvals -> Nat] /\ age \in [Approvals -> 0..BridgeTimeout]
    /\ relay \in [Approvals -> {"none", "notifying", "accepted", "error"}]
    /\ pending \in Seq(Approvals) /\ proposed \in Seq(Proposals)
    /\ sweeper \in {"up", "dead"} /\ sweep \in Seq(Approvals)
    /\ bot \in [on : Approvals \cup {Nothing}, word : Words]
    /\ answer \in {"none", "running", "result", "null", "missing", "dropped"}
    /\ notice \in [Proposals -> {"none", "sending", "sent"}]
    /\ armed \subseteq Proposals /\ acted \in [Proposals -> Nat]
    /\ written \in 0..MaxReplies
    /\ inbox \in Seq([word : Words, about : Items]) /\ handled \in 0..Len(inbox)
    /\ vetoed \subseteq Proposals
    /\ told \in [Items -> SUBSET Messages]
    /\ mishaps \in 0..MaxMishaps

(* approvals.py: "Rejected - nothing was run" is never wrong, neither      *)
(* then nor later, whatever was lost on the way.                           *)
RejectedNeverRuns == \A a \in Approvals : "rejected" \in told[a] => ran[a] = 0

(* An approval that Forge has closed without a yes has not run and never   *)
(* will: its sweeper, a failing POST to Hermes and the answer race for it. *)
ClosedNeverRuns == \A a \in Approvals : store[a] \in {"rejected", "expired"} => ran[a] = 0

(* One approval or proposal starts its action at most once: a reply may    *)
(* come as the veto window ends, updates are redelivered after a restart.  *)
AtMostOnce == (\A a \in Approvals : ran[a] <= 1) /\ (\A p \in Proposals : acted[p] <= 1)

(* Once the operator has read that an action is cancelled, the veto window *)
(* does not run it any more, nor has it.                                   *)
CancelledStaysOff == \A p \in Proposals : "cancelled" \in told[p] => acted[p] = 0

(* Every action runs at most once and never against an answer: the four    *)
(* properties above, and the types, in every interleaving.                 *)
RunsAreSound == TypeOK /\ RejectedNeverRuns /\ ClosedNeverRuns /\ AtMostOnce /\ CancelledStaysOff

(* Nothing waits for the operator for ever: approvals leave both stores    *)
(* and low-risk proposals end. The bridge's part of it ends when its       *)
(* sweeper dies of a message it cannot send. (A proposal that is not       *)
(* low-risk does wait for ever, and blocks its target.)                    *)
EverythingCloses ==
    /\ \A a \in Approvals : store[a] = "pending" ~> store[a] # "pending"
    /\ \A a \in Approvals : a \in ToSet(pending) ~> a \notin ToSet(pending) \/ sweeper = "dead"
    /\ \A p \in LowRisk : p \in ToSet(proposed) ~> p \notin ToSet(proposed)

(* watchdog.py: "Any operator reply to an open proposal is honoured        *)
(* immediately": a proposal the operator rejected in time is not run.      *)
VetoHonoured == \A p \in vetoed : acted[p] = 0
=============================================================================
