-------------------------- MODULE SentinelCorrelation --------------------------
(***************************************************************************)
(* Sentinel's correlation engine: a bounded window of observations, and    *)
(* for every rule of rules.yaml a small life cycle                         *)
(*     inactive -> (match held for stable_for) -> active -> resolved,      *)
(* with a cooldown after it and a grace period after a start. Evaluating   *)
(* the rules does not suspend: the caller gets the changes and writes them *)
(* to the database afterwards (SentinelRuntime).                           *)
(*                                                                         *)
(* Times are ages and remaining ticks. A condition is the set of           *)
(* <<object, state>> pairs it matches; sources and tags are left out.      *)
(***************************************************************************)
EXTENDS Integers, Sequences, FiniteSets, SequencesExt

CONSTANTS RuleFiles,     \* rules.yaml, one of these: sequences of rules
          WindowSize,    \* correlation_window_size
          Grace,         \* correlation_grace_seconds, in ticks
          Horizon        \* the age from which no rule tells observations apart

(* Rule: all, any and not are sets of conditions, all of them looking back *)
(* as far as the rule does; stable, absent and cooldown are in ticks.      *)
IsRule(rule) ==
    /\ rule.type \in {"boolean", "absence", "count"}
    /\ {rule.lookback, rule.absent} \subseteq 0..Horizon - 1
    /\ {rule.stable, rule.cooldown} \subseteq Nat /\ rule.threshold \in Nat \ {0}

ASSUME CorrelationAssumption ==
    /\ WindowSize \in Nat \ {0} /\ Grace \in Nat /\ Horizon \in Nat
    /\ \A file \in RuleFiles :
          /\ Len(file) \in Nat /\ DOMAIN file = 1..Len(file)
          /\ \A r \in DOMAIN file : IsRule(file[r])

VARIABLES rules,    \* the rules that were loaded
          table,    \* the observations table, the newest WindowSize rows, oldest first
          window,   \* _window
          grace,    \* ticks until grace_until
          engine    \* _state: for a rule its situation, condition_since, cooldown_until

correlationVars == <<rules, table, window, grace, engine>>

Observation(object, state) == [what |-> <<object, state>>, age |-> 0]

(* A rule that never had a situation. held < 0: no condition_since. ids    *)
(* counts the situations a rule has had: it stands for uuid4.              *)
Dormant == [n |-> 0, active |-> FALSE, held |-> -1, cool |-> 0, ids |-> 0]

CorrelationInit ==
    /\ rules \in RuleFiles
    /\ table = <<>> /\ window = <<>>
    /\ grace = Grace
    /\ engine = [r \in DOMAIN rules |-> Dormant]

(* A deque with maxlen: the leftmost entry makes room.                     *)
Push(seq, o) == IF Len(seq) < WindowSize THEN Append(seq, o) ELSE Append(Tail(seq), o)

-----------------------------------------------------------------------------
(* Matching a rule against the window w.                                   *)
Hits(w, cond, age) == {k \in DOMAIN w : w[k].what \in cond /\ w[k].age <= age}

MatchesBoolean(w, rule) ==
    /\ \A cond \in rule.all : Hits(w, cond, rule.lookback) # {}
    /\ rule.any = {} \/ \E cond \in rule.any : Hits(w, cond, rule.lookback) # {}
    /\ \A cond \in rule.not : Hits(w, cond, rule.lookback) = {}

(* Nothing was seen for absent_for, one second at least.                   *)
MatchesAbsence(w, rule) ==
    /\ grace = 0
    /\ \A k \in Hits(w, UNION rule.all, rule.lookback) :
          w[k].age >= IF rule.absent > 1 THEN rule.absent ELSE 1

MatchesCount(w, rule) ==
    Cardinality(Hits(w, UNION rule.all, rule.lookback)) >= rule.threshold

Matches(w, rule) ==
    \/ rule.type = "boolean" /\ MatchesBoolean(w, rule)
    \/ rule.type = "absence" /\ MatchesAbsence(w, rule)
    \/ rule.type = "count" /\ MatchesCount(w, rule)

(* _evaluate_rule without a situation that is active. sure: the confidence *)
(* of the supporting observations reaches the rule's minimum.              *)
Dormancy(state, rule, matched, sure) ==
    LET held == IF state.held < 0 THEN 0 ELSE state.held IN
    CASE ~matched -> [state EXCEPT !.held = -1]
      [] matched /\ state.cool > 0 -> state
      [] matched /\ state.cool = 0 /\ (held < rule.stable \/ ~sure) -> [state EXCEPT !.held = held]
      [] OTHER -> [state EXCEPT !.n = state.ids + 1, !.ids = @ + 1, !.active = TRUE, !.held = 0]

(* Mutant of Activity: the grace period is taken the wrong way round.      *)
ActivityInGrace(state, rule, matched) ==
    IF matched \/ grace = 0 THEN state
    ELSE [state EXCEPT !.active = FALSE, !.held = -1, !.cool = rule.cooldown]

(* _evaluate_rule with one.                                                *)
Activity(state, rule, matched) ==
    IF matched \/ grace > 0 THEN state
    ELSE [state EXCEPT !.active = FALSE, !.held = -1, !.cool = rule.cooldown]

(* evaluate: every rule against the window. news are the rules whose       *)
(* confidence suffices, or whose active situation has new support.         *)
Evaluated(w, news) ==
    [r \in DOMAIN rules |->
        IF engine[r].active THEN Activity(engine[r], rules[r], Matches(w, rules[r]))
        ELSE Dormancy(engine[r], rules[r], Matches(w, rules[r]), r \in news)]

(* The changes evaluate returns: the situations to be saved, in the order  *)
(* of the rules: a set of one sequence. A resolved situation keeps its     *)
(* number.                                                                 *)
Changed(w, news, r) ==
    \/ Evaluated(w, news)[r].active # engine[r].active
    \/ engine[r].active /\ Matches(w, rules[r]) /\ r \in news

Changes(w, news) ==
    LET changed == {r \in DOMAIN rules : Changed(w, news, r)}
        change(r) == [rule |-> r, n |-> Evaluated(w, news)[r].n,
                      active |-> Evaluated(w, news)[r].active]
        InOrder(f) == \A j, k \in DOMAIN f : j < k => f[j] < f[k]
    IN  {[k \in DOMAIN f |-> change(f[k])] :
            f \in {g \in [1..Cardinality(changed) -> changed] : InOrder(g)}}

-----------------------------------------------------------------------------
(* Observations grow older, cooldowns and the grace period run off.        *)
Older(seq) == [k \in DOMAIN seq |->
                  [seq[k] EXCEPT !.age = IF @ < Horizon THEN @ + 1 ELSE @]]

LeftOver(ticks) == IF ticks > 0 THEN ticks - 1 ELSE 0

CorrelationTime ==
    /\ table' = Older(table) /\ window' = Older(window)
    /\ grace' = LeftOver(grace)
    /\ engine' = [r \in DOMAIN rules |->
          [engine[r] EXCEPT !.cool = LeftOver(@),
                            !.held = IF @ >= 0 /\ @ < rules[r].stable THEN @ + 1 ELSE @]]
    /\ UNCHANGED rules

(* Mutant of Restored: every rule starts without a situation.              *)
RestoredNever(r, rows) == [Dormant EXCEPT !.ids = engine[r].ids]

(* active_situations, oldest update first: of several active situations of *)
(* a rule the first is kept. Cooldowns are forgotten.                      *)
ActiveSituations(r, rows) == {row \in rows : row.rule = r /\ row.active}

Restored(r, rows) ==
    LET active == ActiveSituations(r, rows)
    IN  IF active = {} THEN [Dormant EXCEPT !.ids = engine[r].ids]
        ELSE LET first == CHOOSE row \in active : \A other \in active : row.n <= other.n
             IN  [Dormant EXCEPT !.n = first.n, !.active = TRUE, !.held = 0,
                                 !.ids = engine[r].ids]

(* recent_observations, newest first, and load_recent, which appends them  *)
(* to the window in that order.                                            *)
RecentObservations == Reverse(table)

LoadRecent(rows) ==
    /\ window' = RecentObservations
    /\ grace' = Grace
    /\ engine' = [r \in DOMAIN rules |-> Restored(r, rows)]
    /\ UNCHANGED <<rules, table>>
=============================================================================
