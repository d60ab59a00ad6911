------------------------------- MODULE ForgeGate -------------------------------
(***************************************************************************)
(* Forge's staged autonomy: policy.decide classifies a tool call, at level *)
(* 2 _auto_gate looks in the audit log for a cooldown, a crash loop or a   *)
(* used-up allowance, and what may not run by itself becomes an approval   *)
(* (ApprovalFlow models how that is answered; here the answer is free).    *)
(*                                                                         *)
(* The audit log is a file and survives a restart.  Reading it and writing *)
(* to it do not suspend, running a tool and posting to Hermes do: what is  *)
(* executed is only seen by the gate when the tool has ended. Calls of     *)
(* read-only tools are left out: they pass no gate, and their rows are of  *)
(* other tools than those a gate asks for.                                 *)
(***************************************************************************)
EXTENDS Naturals, Sequences, FiniteSets

CONSTANTS Calls,          \* requests to POST /v1/run for tools that act
          ToolOf, TargetOf,
          LowRiskTools,   \* the tools whose risk is "low"
          RestartFamily,  \* docker_restart, docker_start, phoenix_recover
          Levels,         \* the autonomy levels forge.yaml may give
          Preapproved,    \* forge.yaml: a sequence of entries, see Entry
          TargetSeconds, CrashloopThreshold, CrashloopWindow,
          Hour,           \* 3600 s, in ticks like the other durations
          MaxTime,        \* bound: ticks
          MaxRestarts     \* bound

Tools == {ToolOf[c] : c \in Calls}
Targets == {TargetOf[c] : c \in Calls}
Entry == [tool : Tools, targets : SUBSET Targets, max : Nat, force : BOOLEAN]

ASSUME GateAssumption ==
    /\ IsFiniteSet(Calls)
    /\ Levels \subseteq 0..2
    /\ Preapproved \in Seq(Entry)
    /\ TargetSeconds \in Nat /\ CrashloopWindow \in Nat /\ Hour \in Nat
    /\ CrashloopThreshold \in Nat \ {0}
    /\ MaxTime \in Nat /\ MaxRestarts \in Nat

VARIABLES level,      \* autonomy_level, read when Forge starts
          idle,       \* the requests not received yet
          posting,    \* those whose handler awaits the POST to Hermes
          running,    \* those whose tool runs, by themselves or approved
          started,    \* what _execute was called with, and when, while it runs
          starts,     \* history: how often _execute was called for a request
          approval,   \* ApprovalStore
          audit,      \* the audit log
          now, restarts

gateVars ==
    <<level, idle, posting, running, started, starts, approval, audit, now, restarts>>

NotStarted == [decision |-> "none", at |-> 0, seen |-> 0]

GateInit ==
    /\ level \in Levels
    /\ idle = Calls
    /\ posting = {}
    /\ running = {}
    /\ started = [c \in Calls |-> NotStarted]
    /\ starts = [c \in Calls |-> 0]
    /\ approval = [c \in Calls |-> "none"]
    /\ audit = <<>>
    /\ now = 0
    /\ restarts = 0

-----------------------------------------------------------------------------
(* Policy._preapproval_for: the first entry for the tool and the target.   *)
EntriesFor(c) ==
    {i \in DOMAIN Preapproved :
        Preapproved[i].tool = ToolOf[c] /\ TargetOf[c] \in Preapproved[i].targets}

First(S) == CHOOSE i \in S : \A j \in S : i <= j

(* Policy.decide.                                                          *)
Decide(c) ==
    CASE level = 0 -> "blocked"
      [] level = 2 /\ EntriesFor(c) # {}
         /\ (ToolOf[c] \in LowRiskTools \/ Preapproved[First(EntriesFor(c))].force) -> "auto"
      [] OTHER -> "approval"

RowsOf(c) == {i \in DOMAIN audit : audit[i].tool = ToolOf[c] /\ audit[i].target = TargetOf[c]}

(* Mutant of CoolingDown: the log is searched from its beginning.          *)
CoolingSinceFirst(c) ==
    \E i \in RowsOf(c) : (\A j \in RowsOf(c) : i <= j) /\ now - audit[i].at < TargetSeconds

(* AuditLog.last_executed: the last row, whatever it records.              *)
CoolingDown(c) ==
    \E i \in RowsOf(c) : (\A j \in RowsOf(c) : j <= i) /\ now - audit[i].at < TargetSeconds

(* AuditLog.count_recent.                                                  *)
CountRecent(c, seconds) ==
    Cardinality({i \in RowsOf(c) :
        audit[i].decision \in {"auto", "approval"} /\ now - audit[i].at <= seconds})

CrashLooping(c) ==
    ToolOf[c] \in RestartFamily /\ CountRecent(c, CrashloopWindow) >= CrashloopThreshold

(* The allowance is that of the first entry for the tool, of any target.   *)
UsedUp(c) ==
    LET entries == {i \in DOMAIN Preapproved : Preapproved[i].tool = ToolOf[c]} IN
    entries # {} /\ CountRecent(c, Hour) >= Preapproved[First(entries)].max

(* _auto_gate gives a reason not to run.                                   *)
Gated(c) == CoolingDown(c) \/ CrashLooping(c) \/ UsedUp(c)

(* A row of the log. began and seen are history: when the execution it     *)
(* records started, and how many rows the log had then.                    *)
Row(c, d, ran, began, seen) ==
    [tool |-> ToolOf[c], target |-> TargetOf[c], decision |-> d, ran |-> ran, at |-> now,
     began |-> began, seen |-> seen]

(* A row for a call that did not run.                                      *)
Note(c, d) == Row(c, d, FALSE, now, Len(audit))

(* _execute up to the await of tool.run.                                   *)
Start(c, d) ==
    /\ running' = running \cup {c}
    /\ started' = [started EXCEPT ![c] = [decision |-> d, at |-> now, seen |-> Len(audit)]]
    /\ starts' = [starts EXCEPT ![c] = @ + 1]

(* Mutant of Pending: the approvals of other requests do not count.        *)
PendingItself(c) == approval[c] = "pending"

(* ApprovalStore.count_for.                                                *)
Pending(c) ==
    \E b \in Calls : approval[b] = "pending" /\ ToolOf[b] = ToolOf[c] /\ TargetOf[b] = TargetOf[c]

(* _start_approval up to the await of the POST to Hermes; before is what   *)
(* the caller has recorded already.                                        *)
Ask(c, before) ==
    \/ /\ Pending(c)
       /\ audit' = audit \o before \o <<Note(c, "approval")>>
       /\ UNCHANGED <<approval, posting>>
    \/ /\ ~Pending(c)
       /\ audit' = audit \o before
       /\ approval' = [approval EXCEPT ![c] = "pending"]
       /\ posting' = posting \cup {c}

-----------------------------------------------------------------------------
(* ExecutionEngine.call.                                                   *)
Receive(c) ==
    /\ c \in idle
    /\ idle' = idle \ {c}
    /\ \/ /\ Decide(c) = "blocked"
          /\ audit' = Append(audit, Note(c, "blocked"))
          /\ UNCHANGED <<posting, running, started, starts, approval>>
       \/ /\ Decide(c) = "auto" /\ ~Gated(c)
          /\ Start(c, "auto")
          /\ UNCHANGED <<posting, approval, audit>>
       \/ /\ Decide(c) = "auto" /\ Gated(c)
          /\ Ask(c, <<Note(c, "approval")>>)
          /\ UNCHANGED <<running, started, starts>>
       \/ /\ Decide(c) = "approval"
          /\ Ask(c, <<>>)
          /\ UNCHANGED <<running, started, starts>>
    /\ UNCHANGED <<level, now, restarts>>

(* The rest of _execute: the tool ended, well or badly, and is recorded.   *)
Finish(c) ==
    /\ c \in running
    /\ running' = running \ {c}
    /\ audit' = Append(audit, Row(c, started[c].decision, TRUE, started[c].at, started[c].seen))
    /\ started' = [started EXCEPT ![c] = NotStarted]
    /\ UNCHANGED <<level, idle, posting, starts, approval, now, restarts>>

(* The rest of _start_approval; the answer may have come first.            *)
ApprovalPosted(c, sent) ==
    /\ c \in posting
    /\ posting' = posting \ {c}
    /\ audit' = Append(audit, Note(c, "approval"))
    /\ approval' = IF ~sent /\ approval[c] = "pending"
                     THEN [approval EXCEPT ![c] = "expired"] ELSE approval
    /\ UNCHANGED <<level, idle, running, started, starts, now, restarts>>

(* Mutant of ResolveCall: the engine goes by what it has looked up before  *)
(* it resolves, and not by what the store answers.                         *)
ResolveKnown(c, approved) ==
    /\ approval[c] # "none"
    /\ approval' = IF approval[c] = "pending"
                     THEN [approval EXCEPT ![c] = IF approved THEN "approved" ELSE "rejected"]
                     ELSE approval
    /\ IF approved THEN Start(c, "approval") /\ UNCHANGED audit
       ELSE audit' = Append(audit, Note(c, "approval")) /\ UNCHANGED <<running, started, starts>>
    /\ UNCHANGED <<level, idle, posting, now, restarts>>

(* ExecutionEngine.resolve; a resolved approval cannot be resolved again.  *)
ResolveCall(c, approved) ==
    /\ approval[c] = "pending"
    /\ \/ /\ approved
          /\ approval' = [approval EXCEPT ![c] = "approved"]
          /\ Start(c, "approval")
          /\ UNCHANGED audit
       \/ /\ ~approved
          /\ approval' = [approval EXCEPT ![c] = "rejected"]
          /\ audit' = Append(audit, Note(c, "approval"))
          /\ UNCHANGED <<running, started, starts>>
    /\ UNCHANGED <<level, idle, posting, now, restarts>>

(* ExecutionEngine.sweep. The POST ends long before its approval expires.  *)
Expire(c) ==
    /\ approval[c] = "pending" /\ c \notin posting
    /\ approval' = [approval EXCEPT ![c] = "expired"]
    /\ audit' = Append(audit, Note(c, "approval"))
    /\ UNCHANGED <<level, idle, posting, running, started, starts, now, restarts>>

ClockTicks ==
    /\ now < MaxTime
    /\ now' = now + 1
    /\ UNCHANGED <<level, idle, posting, running, started, starts, approval, audit, restarts>>

(* Approvals and running handlers are gone; the log stays, forge.yaml is   *)
(* read again.                                                             *)
Restart ==
    /\ restarts < MaxRestarts
    /\ restarts' = restarts + 1
    /\ level' \in Levels
    /\ posting' = {}
    /\ running' = {}
    /\ started' = [c \in Calls |-> NotStarted]
    /\ approval' = [c \in Calls |-> "none"]
    /\ UNCHANGED <<idle, starts, audit, now>>

GateNext ==
    \/ \E c \in Calls :
        \/ Receive(c) \/ Finish(c) \/ Expire(c)
        \/ \E b \in BOOLEAN : ApprovalPosted(c, b) \/ ResolveCall(c, b)
    \/ ClockTicks \/ Restart

GateSpec == GateInit /\ [][GateNext]_gateVars

-----------------------------------------------------------------------------
(* Properties.                                                             *)

(* The types of the variables.                                             *)
GateTypeOK ==
    /\ level \in Levels
    /\ idle \subseteq Calls /\ posting \subseteq Calls /\ running \subseteq Calls
    /\ started \in [Calls -> [decision : {"none", "auto", "approval"},
                              at : Nat, seen : Nat]]
    /\ starts \in [Calls -> Nat]
    /\ approval \in [Calls -> {"none", "pending", "approved", "rejected", "expired"}]
    /\ audit \in Seq([tool : Tools, target : Targets,
                      decision : {"auto", "approval", "blocked"}, ran : BOOLEAN,
                      at : Nat, began : Nat, seen : Nat])
    /\ now \in Nat /\ restarts \in Nat

(* Whatever requests, answers and failed posts come in between, the        *)
(* operator is never asked twice at a time about one tool and target:      *)
(* _start_approval counts the pending ones before it creates another.      *)
OneQuestionPerTarget ==
    \A b, c \in Calls :
        approval[b] = "pending" /\ approval[c] = "pending"
        /\ ToolOf[b] = ToolOf[c] /\ TargetOf[b] = TargetOf[c] => b = c

(* A tool is started at most once for a request, by itself or by an        *)
(* answer: a second answer, one that comes while the POST fails, while the *)
(* tool runs, when it has ended or behind a restart starts nothing. Nor is *)
(* anything started for a request whose approval is open, was turned down  *)
(* or has expired, and what runs after a question was approved.            *)
RunsOnGrounds ==
    \A c \in Calls :
        /\ starts[c] <= 1
        /\ approval[c] \in {"pending", "rejected", "expired"} => starts[c] = 0
        /\ c \in running =>
             approval[c] = IF started[c].decision = "approval" THEN "approved" ELSE "none"

AutoRuns(tool, target) ==
    {i \in DOMAIN audit : /\ audit[i].ran /\ audit[i].decision = "auto"
                          /\ audit[i].tool = tool /\ audit[i].target = target}

(* Row j's execution began only after row i had been written.              *)
Follows(j, i) == i <= audit[j].seen

(* Two automatic runs of one tool on one target are TargetSeconds apart,   *)
(* whatever was approved, refused or restarted between them. Runs that     *)
(* overlap are the exception: the log knows a run when it has ended.       *)
AutoRunsKeepDistance ==
    \A tool \in Tools, target \in Targets :
        \A i, j \in AutoRuns(tool, target) :
            Follows(j, i) => audit[j].began - audit[i].at >= TargetSeconds

(* Of automatic runs of which none overlaps another, an hour holds no more *)
(* than the allowance _auto_gate reads, and the crash-loop window no more  *)
(* than the threshold.                                                     *)
Serial(S) == \A i, j \in S : i < j => Follows(j, i)
Within(S, i, seconds) == {j \in S : i <= j /\ audit[j].began <= audit[i].at + seconds}
FirstFor(tool) == First({i \in DOMAIN Preapproved : Preapproved[i].tool = tool})

AutoRunsAreRationed ==
    \A tool \in Tools, target \in Targets :
        LET S == AutoRuns(tool, target) IN
        Serial(S) => \A i \in S :
            /\ Cardinality(Within(S, i, Hour)) <= Preapproved[FirstFor(tool)].max
            /\ tool \in RestartFamily =>
                 Cardinality(Within(S, i, CrashloopWindow)) <= CrashloopThreshold

(* What runs without a question stays within the limits of the gate: the   *)
(* two properties above, and the types.                                    *)
AutoRunsAreLimited == GateTypeOK /\ AutoRunsKeepDistance /\ AutoRunsAreRationed
=============================================================================
