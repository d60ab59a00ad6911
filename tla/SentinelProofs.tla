----------------------------- MODULE SentinelProofs -----------------------------
(***************************************************************************)
(* What holds of Sentinel's tables for every rules.yaml, every set of      *)
(* devices and observers, and any number of observations, database errors  *)
(* and restarts between the steps of its tasks.                            *)
(***************************************************************************)
EXTENDS SentinelRuntime, TLAPS, FiniteSetTheorems, SequenceTheorems, WellFoundedInduction

(* Types.                                                                  *)
IsSeq(seq) == \E S : seq \in Seq(S)

AgesIn(seq) == \A k \in DOMAIN seq : seq[k] = [what |-> seq[k].what, age |-> seq[k].age] /\ seq[k].age \in 0..Horizon

Device == [online : BOOLEAN, age : 0..OfflineAfter + 1, ver : Nat]
EngineRow == [n : Nat, active : BOOLEAN, held : Int, cool : Nat, ids : Nat]
SituationRow == [rule : DOMAIN rules, n : Nat, active : BOOLEAN]

EnginesAre ==
    /\ rules \in RuleFiles
    /\ IsSeq(window) /\ Len(window) <= WindowSize /\ AgesIn(window)
    /\ IsSeq(table) /\ Len(table) <= WindowSize /\ AgesIn(table)
    /\ grace \in 0..Grace
    /\ engine \in [DOMAIN rules -> EngineRow]

OthersAre ==
    /\ house \in {"unknown", "multiple_users", "home_occupied", "unknown_present", "nobody_home"}
    /\ dead \subseteq Ticks /\ stale \in BOOLEAN /\ events \in 0..MaxEvents

(* Everything that is still to be done, by any task.                       *)
Ops == UNION {ToSet(todo[t]) : t \in Tasks}

IsOp(op) ==
    /\ op.op \in {"hear", "device", "event", "refresh", "situation"}
    /\ op.op = "device" => op.device \in DOMAIN devices /\ op.copy \in Device /\ op = SaveDevice(op.device, op.copy)
    /\ op.op = "situation" => op.change \in SituationRow /\ op = SaveSituation(op.change)

TasksAre ==
    /\ todo = [t \in Tasks |-> todo[t]]
    /\ \A t \in Tasks : IsSeq(todo[t])

(* A situation that is active is stored, or will be, and nothing says it   *)
(* is resolved; one that is over is resolved in the table, or will be.     *)
Live(r, n) == engine[r].active /\ engine[r].n = n
Saving(r, n, active) == SaveSituation([rule |-> r, n |-> n, active |-> active]) \in Ops
IsStored(r, n, active) == [rule |-> r, n |-> n, active |-> active] \in situations

SituationIs(r, n) ==
    /\ Live(r, n) => /\ ~Saving(r, n, FALSE) /\ ~IsStored(r, n, FALSE)
                     /\ IsStored(r, n, TRUE) \/ Saving(r, n, TRUE)
    /\ ~Live(r, n) => /\ IsStored(r, n, TRUE) => Saving(r, n, FALSE)
                      /\ Saving(r, n, TRUE) => Saving(r, n, FALSE) \/ IsStored(r, n, FALSE)

SituationsAre ==
    /\ situations \subseteq SituationRow
    /\ \A x, y \in situations : x.rule = y.rule /\ x.n = y.n => x = y
    /\ \A r \in DOMAIN rules : engine[r].n <= engine[r].ids
    /\ \A row \in situations : row.n <= engine[row.rule].ids
    /\ \A op \in Ops : op.op = "situation" => op.change.n <= engine[op.change.rule].ids
    /\ ~stale => \A r \in DOMAIN rules, n \in Nat : SituationIs(r, n)

(* A copy of a device is as old as it says: of two with one version none   *)
(* is online unless the other is. The newest is stored, or will be.        *)
Versioned(d, copy) ==
    copy.ver <= devices[d].ver /\ (copy.ver = devices[d].ver => copy.online = devices[d].online)

DeviceIs(d) ==
    \/ d \in DOMAIN deviceRows /\ deviceRows[d].ver = devices[d].ver
    \/ \E op \in Ops : op.op = "device" /\ op.device = d /\ op.copy.ver = devices[d].ver

DevicesAre ==
    /\ IsFiniteSet(DOMAIN devices) /\ DOMAIN devices \subseteq Devices
    /\ devices \in [DOMAIN devices -> Device]
    /\ DOMAIN deviceRows \subseteq DOMAIN devices
    /\ deviceRows \in [DOMAIN deviceRows -> Device]
    /\ \A d \in DOMAIN deviceRows : Versioned(d, deviceRows[d])
    /\ \A op \in Ops : op.op = "device" => Versioned(op.device, op.copy)
    /\ ~stale => \A d \in DOMAIN devices : DeviceIs(d)

SentinelInv ==
    /\ EnginesAre /\ OthersAre /\ TasksAre /\ \A op \in Ops : IsOp(op)
    /\ SituationsAre /\ DevicesAre

-----------------------------------------------------------------------------
(* Sequences, and what is left to do when one task goes on.                *)

LEMMA EmptyIs == IsSeq(<<>>) /\ ToSet(<<>>) = {}
  BY DEF IsSeq, ToSet

LEMMA OneIs == ASSUME NEW x PROVE IsSeq(<<x>>) /\ ToSet(<<x>>) = {x}
<1>1. <<x>> \in Seq({x}) /\ <<x>>[1] = x /\ DOMAIN <<x>> = {1}
  OBVIOUS
<1>2. IsSeq(<<x>>)
  BY <1>1 DEF IsSeq
<1> DEFINE one == <<x>>
<1>3. one[1] = x /\ DOMAIN one = {1}
  BY <1>1
<1> HIDE DEF one
<1>4. ToSet(one) = {x}
  BY <1>3 DEF ToSet
<1> QED
  BY <1>2, <1>4 DEF one

LEMMA ConcatIs ==
    ASSUME NEW s, NEW t, IsSeq(s), IsSeq(t)
    PROVE  IsSeq(s \o t) /\ ToSet(s \o t) = ToSet(s) \cup ToSet(t)
<1>1. PICK S : s \in Seq(S)
  BY DEF IsSeq
<1>2. PICK T : t \in Seq(T)
  BY DEF IsSeq
<1>3. s \in Seq(S \cup T) /\ t \in Seq(S \cup T)
  BY <1>1, <1>2, SeqMonotonic
<1> DEFINE st == s \o t
<1>4. /\ st \in Seq(S \cup T) /\ Len(st) = Len(s) + Len(t)
      /\ \A i \in 1 .. Len(s) + Len(t) : st[i] = IF i <= Len(s) THEN s[i] ELSE t[i - Len(s)]
  BY <1>3, ConcatProperties
<1>5. /\ Len(s) \in Nat /\ Len(t) \in Nat /\ DOMAIN s = 1 .. Len(s) /\ DOMAIN t = 1 .. Len(t)
      /\ DOMAIN st = 1 .. Len(s) + Len(t)
  BY <1>3, <1>4, LenProperties
<1> HIDE DEF st
<1>6. \A i \in DOMAIN s : i \in DOMAIN st /\ st[i] = s[i]
  BY <1>4, <1>5
<1>7. \A i \in DOMAIN t : Len(s) + i \in DOMAIN st /\ st[Len(s) + i] = t[i]
  BY <1>4, <1>5
<1>8. \A i \in DOMAIN st : st[i] \in ToSet(s) \cup ToSet(t)
  <2> TAKE i \in DOMAIN st
  <2>1. CASE i <= Len(s)
    BY <1>4, <1>5, <2>1 DEF ToSet
  <2>2. CASE ~(i <= Len(s))
    <3>1. i - Len(s) \in DOMAIN t /\ st[i] = t[i - Len(s)]
      BY <1>4, <1>5, <2>2
    <3> QED
      BY <3>1 DEF ToSet
  <2> QED
    BY <2>1, <2>2
<1>9. ToSet(st) = ToSet(s) \cup ToSet(t)
  BY <1>6, <1>7, <1>8 DEF ToSet
<1> QED
  BY <1>4, <1>9 DEF st, IsSeq

LEMMA TailIs ==
    ASSUME NEW s, IsSeq(s), s # <<>>
    PROVE  IsSeq(Tail(s)) /\ ToSet(s) = {Head(s)} \cup ToSet(Tail(s))
<1>1. PICK S : s \in Seq(S)
  BY DEF IsSeq
<1>2. /\ Tail(s) \in Seq(S) /\ Len(Tail(s)) = Len(s) - 1 /\ Len(s) \in Nat \ {0} /\ DOMAIN s = 1 .. Len(s)
      /\ \A i \in 1 .. Len(Tail(s)) : Tail(s)[i] = s[i + 1]
  BY <1>1, HeadTailProperties, EmptySeq, LenProperties
<1>3. Head(s) = s[1]
  BY <1>1
<1>4. DOMAIN Tail(s) = 1 .. Len(s) - 1
  BY <1>2, LenProperties
<1> DEFINE rest == Tail(s)
           first == Head(s)
<1> HIDE DEF rest, first
<1>5. ToSet(s) \subseteq {first} \cup ToSet(rest)
  <2> SUFFICES ASSUME NEW i \in DOMAIN s PROVE s[i] = first \/ s[i] \in ToSet(rest)
    BY DEF ToSet
  <2>1. i = 1 \/ (i - 1 \in DOMAIN rest /\ rest[i - 1] = s[i])
    BY <1>2, <1>4 DEF rest
  <2> QED
    BY <2>1, <1>3 DEF ToSet, first
<1>6. {first} \cup ToSet(rest) \subseteq ToSet(s)
  <2>1. 1 \in DOMAIN s /\ first = s[1]
    BY <1>2, <1>3 DEF first
  <2>2. \A i \in DOMAIN rest : i + 1 \in DOMAIN s /\ rest[i] = s[i + 1]
    BY <1>2, <1>4 DEF rest
  <2> QED
    BY <2>1, <2>2 DEF ToSet
<1> QED
  BY <1>2, <1>5, <1>6 DEF first, rest, IsSeq

(* A list of operations, one for each element of another.                  *)
LEMMA ListIs ==
    ASSUME NEW m \in Nat, NEW list, DOMAIN list = 1 .. m, list = [k \in DOMAIN list |-> list[k]]
    PROVE  IsSeq(list)
<1>1. list \in [1 .. m -> ToSet(list)]
  BY DEF ToSet
<1>2. list \in Seq(ToSet(list))
  BY <1>1, SeqDef
<1> QED
  BY <1>2 DEF IsSeq

LEMMA TodoReplaced ==
    ASSUME TasksAre, NEW t \in Tasks, NEW list, IsSeq(list), todo' = [todo EXCEPT ![t] = list]
    PROVE  /\ TasksAre' /\ ToSet(list) \subseteq Ops' /\ Ops' \subseteq Ops \cup ToSet(list)
           /\ Ops \subseteq Ops' \cup ToSet(todo[t])
<1>1. /\ todo' = [u \in Tasks |-> IF u = t THEN list ELSE todo[u]]
  BY DEF TasksAre
<1>2. \A u \in Tasks : todo'[u] = IF u = t THEN list ELSE todo[u]
  BY <1>1
<1>3. TasksAre'
  BY <1>1, <1>2 DEF TasksAre
<1>4. ToSet(list) \subseteq Ops'
  BY <1>2 DEF Ops
<1>5. Ops' \subseteq Ops \cup ToSet(list)
  BY <1>2 DEF Ops
<1>6. Ops \subseteq Ops' \cup ToSet(todo[t])
  BY <1>2 DEF Ops
<1> QED
  BY <1>3, <1>4, <1>5, <1>6

LEMMA ThenIs ==
    ASSUME TasksAre, NEW t \in Tasks, todo[t] # <<>>, NEW more, IsSeq(more), Then(t, more)
    PROVE  /\ TasksAre' /\ First(t) \in Ops
           /\ ToSet(more) \subseteq Ops' /\ Ops' \subseteq Ops \cup ToSet(more)
           /\ Ops \subseteq Ops' \cup {First(t)}
<1>1. IsSeq(todo[t])
  BY DEF TasksAre
<1>2. IsSeq(Tail(todo[t])) /\ ToSet(todo[t]) = {First(t)} \cup ToSet(Tail(todo[t]))
  BY <1>1, TailIs DEF First
<1> DEFINE list == more \o Tail(todo[t])
<1>3. IsSeq(list) /\ ToSet(list) = ToSet(more) \cup ToSet(Tail(todo[t]))
  BY <1>2, ConcatIs
<1>4. todo' = [todo EXCEPT ![t] = list]
  BY DEF Then
<1> HIDE DEF list
<1>5. /\ TasksAre' /\ ToSet(list) \subseteq Ops' /\ Ops' \subseteq Ops \cup ToSet(list)
      /\ Ops \subseteq Ops' \cup ToSet(todo[t])
  BY <1>3, <1>4, TodoReplaced
<1>6. ToSet(todo[t]) \subseteq Ops
  BY DEF Ops
<1> QED
  BY <1>2, <1>3, <1>5, <1>6

-----------------------------------------------------------------------------
(* The engine.                                                             *)

LEMMA RulesAre ==
    ASSUME EnginesAre
    PROVE  /\ Len(rules) \in Nat /\ DOMAIN rules = 1 .. Len(rules)
           /\ \A r \in DOMAIN rules : /\ rules[r].stable \in Nat /\ rules[r].cooldown \in Nat
                                      /\ engine[r] \in EngineRow
<1>1. rules \in RuleFiles /\ engine \in [DOMAIN rules -> EngineRow]
  BY DEF EnginesAre
<1>2. Len(rules) \in Nat /\ DOMAIN rules = 1 .. Len(rules) /\ \A r \in DOMAIN rules : IsRule(rules[r])
  BY <1>1, CorrelationAssumption DEF CorrelationAssumption
<1> QED
  BY <1>1, <1>2 DEF IsRule

(* What evaluating the rules makes of the state of one.                    *)
Turned(old, new) ==
    /\ new \in EngineRow
    /\ \/ new.active = old.active /\ new.n = old.n /\ new.ids = old.ids
       \/ ~old.active /\ new.active /\ new.n = old.ids + 1 /\ new.ids = old.ids + 1
       \/ old.active /\ ~new.active /\ new.n = old.n /\ new.ids = old.ids

LEMMA RowIs ==
    ASSUME NEW state, state = [x \in DOMAIN state |-> state[x]],
           DOMAIN state = {"n", "active", "held", "cool", "ids"},
           state.n \in Nat, state.active \in BOOLEAN, state.held \in Int, state.cool \in Nat, state.ids \in Nat
    PROVE  state \in EngineRow
  BY DEF EngineRow

LEMMA DormancyTurns ==
    ASSUME NEW state \in EngineRow, ~state.active, NEW rule, rule.stable \in Nat,
           NEW matched \in BOOLEAN, NEW sure \in BOOLEAN
    PROVE  Turned(state, Dormancy(state, rule, matched, sure))
<1> DEFINE held == IF state.held < 0 THEN 0 ELSE state.held
<1>1. held \in Int
  BY DEF EngineRow
<1>2. Turned(state, [state EXCEPT !.held = -1]) /\ Turned(state, state) /\ Turned(state, [state EXCEPT !.held = held])
  BY <1>1 DEF Turned, EngineRow
<1> DEFINE opened == [state EXCEPT !.n = state.ids + 1, !.ids = @ + 1, !.active = TRUE, !.held = 0]
<1>3. opened \in EngineRow /\ opened.active /\ opened.n = state.ids + 1 /\ opened.ids = state.ids + 1
  <2>1. /\ opened.n = state.ids + 1 /\ opened.active /\ opened.held = 0
        /\ opened.cool = state.cool /\ opened.ids = state.ids + 1
    BY DEF EngineRow
  <2>2. opened = [x \in DOMAIN opened |-> opened[x]] /\ DOMAIN opened = {"n", "active", "held", "cool", "ids"}
    BY DEF EngineRow
  <2>3. /\ opened.n \in Nat /\ opened.active \in BOOLEAN /\ opened.held \in Int
        /\ opened.cool \in Nat /\ opened.ids \in Nat
    BY DEF EngineRow
  <2> HIDE DEF opened
  <2>4. opened \in EngineRow
    BY <2>2, <2>3, RowIs
  <2> QED
    BY <2>1, <2>4
<1> HIDE DEF opened
<1>4. Turned(state, opened)
  BY <1>3 DEF Turned
<1> QED
  BY <1>2, <1>4 DEF Dormancy, opened

LEMMA ActivityTurns ==
    ASSUME NEW state \in EngineRow, state.active, NEW rule, rule.cooldown \in Nat, NEW matched \in BOOLEAN
    PROVE  /\ Turned(state, Activity(state, rule, matched))
           /\ matched => Activity(state, rule, matched) = state
<1> DEFINE closed == [state EXCEPT !.active = FALSE, !.held = -1, !.cool = rule.cooldown]
<1>1. closed \in EngineRow /\ ~closed.active /\ closed.n = state.n /\ closed.ids = state.ids
  <2>1. /\ closed.n = state.n /\ ~closed.active /\ closed.held = -1
        /\ closed.cool = rule.cooldown /\ closed.ids = state.ids
    BY DEF EngineRow
  <2>2. closed = [x \in DOMAIN closed |-> closed[x]] /\ DOMAIN closed = {"n", "active", "held", "cool", "ids"}
    BY DEF EngineRow
  <2>3. state.ids \in Nat /\ state.n \in Nat /\ closed.active \in BOOLEAN
    BY DEF EngineRow
  <2> HIDE DEF closed
  <2>4. closed \in EngineRow
    BY <2>1, <2>2, <2>3 DEF EngineRow
  <2> QED
    BY <2>1, <2>4
<1> HIDE DEF closed
<1>2. Turned(state, state) /\ Turned(state, closed)
  BY <1>1 DEF Turned
<1> QED
  BY <1>2 DEF Activity, closed

LEMMA EvaluatedTurns ==
    ASSUME EnginesAre, NEW w, NEW news
    PROVE  /\ Evaluated(w, news) \in [DOMAIN rules -> EngineRow]
           /\ \A r \in DOMAIN rules :
                /\ Turned(engine[r], Evaluated(w, news)[r])
                /\ engine[r].active /\ Matches(w, rules[r]) => Evaluated(w, news)[r] = engine[r]
<1> SUFFICES ASSUME NEW r \in DOMAIN rules
             PROVE  /\ Turned(engine[r], Evaluated(w, news)[r])
                    /\ engine[r].active /\ Matches(w, rules[r]) => Evaluated(w, news)[r] = engine[r]
  BY DEF Turned, Evaluated
<1> DEFINE matched == Matches(w, rules[r])
           sure == r \in news
<1>1. matched \in BOOLEAN /\ sure \in BOOLEAN
  BY DEF Matches
<1>2. engine[r] \in EngineRow /\ rules[r].stable \in Nat /\ rules[r].cooldown \in Nat
  BY RulesAre
<1>3. Evaluated(w, news)[r] = IF engine[r].active THEN Activity(engine[r], rules[r], matched)
                              ELSE Dormancy(engine[r], rules[r], matched, sure)
  BY DEF Evaluated
<1> HIDE DEF matched, sure
<1>4. CASE engine[r].active
  BY <1>1, <1>2, <1>3, <1>4, ActivityTurns DEF matched
<1>5. CASE ~engine[r].active
  BY <1>1, <1>2, <1>3, <1>5, DormancyTurns
<1> QED
  BY <1>4, <1>5

(* Every situation that changed is saved.                                  *)
ChangeOf(w, news, r) ==
    [rule |-> r, n |-> Evaluated(w, news)[r].n, active |-> Evaluated(w, news)[r].active]

LEMMA SavesAre ==
    ASSUME EnginesAre, NEW w, NEW news, NEW saves \in Saves(w, news)
    PROVE  /\ IsSeq(saves)
           /\ ToSet(saves) = {SaveSituation(ChangeOf(w, news, r)) : r \in {q \in DOMAIN rules : Changed(w, news, q)}}
<1> DEFINE changed == {r \in DOMAIN rules : Changed(w, news, r)}
           c == Cardinality(changed)
<1>1. PICK f \in [1..c -> changed] :
        /\ \A j, k \in DOMAIN f : j < k => f[j] < f[k]
        /\ saves = [k \in DOMAIN [i \in DOMAIN f |-> ChangeOf(w, news, f[i])] |->
                      SaveSituation([i \in DOMAIN f |-> ChangeOf(w, news, f[i])][k])]
  BY DEF Saves, Changes, ChangeOf
<1>2. IsFiniteSet(changed) /\ changed \subseteq Nat /\ c \in Nat
  <2>1. DOMAIN rules = 1 .. Len(rules) /\ Len(rules) \in Nat
    BY RulesAre
  <2>2. IsFiniteSet(DOMAIN rules)
    BY <2>1, FS_Interval
  <2>3. changed \in SUBSET DOMAIN rules
    OBVIOUS
  <2>4. IsFiniteSet(changed)
    BY <2>2, <2>3, FS_Subset
  <2> QED
    BY <2>1, <2>3, <2>4, FS_CardinalityType
<1> HIDE DEF changed
<1>3. f \in Injection(1..c, changed)
  <2>1. ASSUME NEW j \in 1..c, NEW k \in 1..c, j # k PROVE f[j] # f[k]
    <3>1. j < k \/ k < j
      BY <1>2, <2>1
    <3>2. f[j] \in Nat /\ f[k] \in Nat
      BY <1>2
    <3> QED
      BY <1>1, <3>1, <3>2
  <2> QED
    BY <2>1 DEF Injection, IsInjective
<1>4. f \in Surjection(1..c, changed)
  <2>1. IsFiniteSet(1..c) /\ Cardinality(1..c) = c
    BY <1>2, FS_Interval
  <2> QED
    BY <1>2, <1>3, <2>1, FS_Injection
<1>5. \A r \in changed : \E k \in 1..c : f[k] = r
  BY <1>4 DEF Surjection
<1>6. saves = [k \in 1..c |-> SaveSituation(ChangeOf(w, news, f[k]))]
  BY <1>1
<1>7. DOMAIN saves = 1..c /\ \A k \in 1..c : saves[k] = SaveSituation(ChangeOf(w, news, f[k]))
  BY <1>6
<1>8. IsSeq(saves)
  <2>1. saves = [k \in DOMAIN saves |-> saves[k]]
    BY <1>6
  <2> QED
    BY <1>2, <1>7, <2>1, ListIs
<1>9. ToSet(saves) = {SaveSituation(ChangeOf(w, news, r)) : r \in changed}
  BY <1>5, <1>7 DEF ToSet
<1> QED
  BY <1>8, <1>9 DEF changed

-----------------------------------------------------------------------------
(* Situations.                                                             *)

LEMMA OpStays ==
    ASSUME NEW op, IsOp(op), DOMAIN devices \subseteq DOMAIN devices', rules' = rules
    PROVE  IsOp(op)'
  BY DEF IsOp, SituationRow, Device

LEMMA SituationsShape ==
    ASSUME SentinelInv
    PROVE  /\ \A r \in DOMAIN rules : /\ engine[r] \in EngineRow /\ engine[r].n \in Nat /\ engine[r].ids \in Nat
                                      /\ engine[r].active \in BOOLEAN /\ engine[r].n <= engine[r].ids
           /\ \A row \in situations : /\ row = [rule |-> row.rule, n |-> row.n, active |-> row.active]
                                      /\ row.rule \in DOMAIN rules /\ row.n \in Nat /\ row.active \in BOOLEAN
           /\ \A op \in Ops : op.op = "situation" =>
                /\ op = SaveSituation(op.change)
                /\ op.change = [rule |-> op.change.rule, n |-> op.change.n, active |-> op.change.active]
                /\ op.change.rule \in DOMAIN rules /\ op.change.n \in Nat /\ op.change.active \in BOOLEAN
                /\ op.change.n <= engine[op.change.rule].ids
<1>1. \A r \in DOMAIN rules : engine[r] \in EngineRow
  BY RulesAre DEF SentinelInv
<1>2. \A row \in SituationRow : /\ row = [rule |-> row.rule, n |-> row.n, active |-> row.active]
                                /\ row.rule \in DOMAIN rules /\ row.n \in Nat /\ row.active \in BOOLEAN
  BY DEF SituationRow
<1>3. \A op \in Ops : op.op = "situation" => op.change \in SituationRow /\ op = SaveSituation(op.change)
  BY DEF SentinelInv, IsOp
<1>4. \A r \in DOMAIN rules : engine[r].n \in Nat /\ engine[r].ids \in Nat /\ engine[r].active \in BOOLEAN
  BY <1>1 DEF EngineRow
<1> QED
  BY <1>1, <1>2, <1>3, <1>4 DEF SentinelInv, SituationsAre

LEMMA SaveIs ==
    ASSUME NEW r, NEW n, NEW a, NEW q, NEW m, NEW b
    PROVE  /\ SaveSituation([rule |-> r, n |-> n, active |-> a]).op = "situation"
           /\ SaveSituation([rule |-> r, n |-> n, active |-> a]).change = [rule |-> r, n |-> n, active |-> a]
           /\ SaveSituation([rule |-> r, n |-> n, active |-> a]) = SaveSituation([rule |-> q, n |-> m, active |-> b])
                => r = q /\ n = m /\ a = b
<1>1. /\ SaveSituation([rule |-> r, n |-> n, active |-> a]).op = "situation"
      /\ SaveSituation([rule |-> r, n |-> n, active |-> a]).change = [rule |-> r, n |-> n, active |-> a]
      /\ SaveSituation([rule |-> q, n |-> m, active |-> b]).change = [rule |-> q, n |-> m, active |-> b]
  BY DEF SaveSituation
<1>2. [rule |-> r, n |-> n, active |-> a] = [rule |-> q, n |-> m, active |-> b] => r = q /\ n = m /\ a = b
  <2> DEFINE one == [rule |-> r, n |-> n, active |-> a]
             two == [rule |-> q, n |-> m, active |-> b]
  <2>1. one.rule = r /\ one.n = n /\ two.rule = q /\ two.n = m
    OBVIOUS
  <2>2. one["active"] = a /\ two["active"] = b
    BY Zenon
  <2> HIDE DEF one, two
  <2>3. one = two => r = q /\ n = m /\ a = b
    BY <2>1, <2>2
  <2> QED
    BY <2>3 DEF one, two
<1> QED
  BY <1>1, <1>2

(* A number no situation has had is in no table and no hand.               *)
LEMMA NumbersAreFresh ==
    ASSUME SentinelInv, NEW r \in DOMAIN rules, NEW n \in Nat, n > engine[r].ids, NEW a
    PROVE  ~Saving(r, n, a) /\ ~IsStored(r, n, a)
<1>1. engine[r].ids \in Nat
  BY SituationsShape
<1> DEFINE row == [rule |-> r, n |-> n, active |-> a]
<1>2. row.rule = r /\ row.n = n
  OBVIOUS
<1>3. SaveSituation(row).op = "situation" /\ SaveSituation(row).change = row
  BY DEF SaveSituation
<1> HIDE DEF row
<1>4. row \notin situations
  BY <1>1, <1>2 DEF SentinelInv, SituationsAre
<1>5. SaveSituation(row) \notin Ops
  BY <1>1, <1>2, <1>3 DEF SentinelInv, SituationsAre
<1> QED
  BY <1>4, <1>5 DEF row, Saving, IsStored

LEMMA SituationsRest ==
    ASSUME SentinelInv, UNCHANGED <<rules, situations>>, ~stale' => ~stale,
           \A r \in DOMAIN rules : /\ engine'[r].n = engine[r].n /\ engine'[r].ids = engine[r].ids
                                   /\ engine'[r].active = engine[r].active,
           \A op \in Ops' : op.op = "situation" => op \in Ops,
           \A op \in Ops : op.op = "situation" => op \in Ops' \/ stale'
    PROVE  SituationsAre'
<1>1. /\ situations' \subseteq SituationRow' /\ \A x, y \in situations' : x.rule = y.rule /\ x.n = y.n => x = y
  BY DEF SentinelInv, SituationsAre, SituationRow
<1>2. \A r \in DOMAIN rules : engine'[r].n <= engine'[r].ids
  BY DEF SentinelInv, SituationsAre
<1>3. \A row \in situations' : row.n <= engine'[row.rule].ids
  BY SituationsShape DEF SentinelInv, SituationsAre
<1>4. \A op \in Ops' : op.op = "situation" => op.change.n <= engine'[op.change.rule].ids
  BY SituationsShape DEF SentinelInv, SituationsAre
<1>5. ASSUME ~stale', NEW r \in DOMAIN rules, NEW n \in Nat PROVE SituationIs(r, n)'
  <2>1. SituationIs(r, n)
    BY <1>5 DEF SentinelInv, SituationsAre
  <2>2. \A a : Saving(r, n, a)' <=> Saving(r, n, a)
    BY <1>5, SaveIs DEF Saving
  <2>3. \A a : IsStored(r, n, a)' <=> IsStored(r, n, a)
    BY DEF IsStored
  <2>4. Live(r, n)' <=> Live(r, n)
    BY DEF Live
  <2> QED
    BY <2>1, <2>2, <2>3, <2>4 DEF SituationIs
<1> QED
  BY <1>1, <1>2, <1>3, <1>4, <1>5 DEF SituationsAre

(* The rules are evaluated, and what changed is to be saved.               *)
LEMMA SituationsFed ==
    ASSUME SentinelInv, NEW w, NEW news, NEW saves \in Saves(w, news), engine' = Evaluated(w, news),
           UNCHANGED <<rules, situations>>, stale' = stale,
           ToSet(saves) \subseteq Ops',
           \A op \in Ops' : op.op = "situation" => op \in Ops \/ op \in ToSet(saves),
           \A op \in Ops : op.op = "situation" => op \in Ops'
    PROVE  SituationsAre' /\ \A op \in ToSet(saves) : IsOp(op)'
<1>1. \A r \in DOMAIN rules : Turned(engine[r], engine'[r])
  BY EvaluatedTurns DEF SentinelInv
<1>2. ToSet(saves) = {SaveSituation(ChangeOf(w, news, r)) : r \in {q \in DOMAIN rules : Changed(w, news, q)}}
  BY SavesAre DEF SentinelInv
<1>3. \A r \in DOMAIN rules :
        /\ ChangeOf(w, news, r) = [rule |-> r, n |-> engine'[r].n, active |-> engine'[r].active]
        /\ Changed(w, news, r) => engine'[r].active # engine[r].active \/ (engine[r].active /\ engine'[r] = engine[r])
        /\ engine'[r].active # engine[r].active => Changed(w, news, r)
  BY EvaluatedTurns DEF ChangeOf, Changed, SentinelInv
<1>4. \A r \in DOMAIN rules : /\ engine'[r].n \in Nat /\ engine'[r].ids \in Nat /\ engine'[r].active \in BOOLEAN
                              /\ engine'[r].n <= engine'[r].ids /\ engine[r].ids <= engine'[r].ids
  BY <1>1, SituationsShape DEF Turned, EngineRow
<1>5. \A op \in ToSet(saves) : /\ op.op = "situation" /\ op = SaveSituation(op.change)
                               /\ op.change \in SituationRow /\ op.change.n <= engine'[op.change.rule].ids
  <2> SUFFICES ASSUME NEW r \in DOMAIN rules, NEW change, change = ChangeOf(w, news, r)
               PROVE  /\ SaveSituation(change).op = "situation" /\ SaveSituation(change) = SaveSituation(SaveSituation(change).change)
                      /\ SaveSituation(change).change \in SituationRow
                      /\ SaveSituation(change).change.n <= engine'[SaveSituation(change).change.rule].ids
    BY <1>2
  <2>1. SaveSituation(change).op = "situation" /\ SaveSituation(change).change = change
    BY DEF SaveSituation
  <2>2. change \in SituationRow /\ change.n <= engine'[change.rule].ids
    BY <1>3, <1>4 DEF SituationRow
  <2> QED
    BY <2>1, <2>2
<1>6. /\ situations' \subseteq SituationRow' /\ \A x, y \in situations' : x.rule = y.rule /\ x.n = y.n => x = y
  BY DEF SentinelInv, SituationsAre, SituationRow
<1>7. \A row \in situations' : row.n <= engine'[row.rule].ids
  <2> TAKE row \in situations'
  <2>1. row.rule \in DOMAIN rules /\ row.n \in Nat /\ row.n <= engine[row.rule].ids
    BY SituationsShape DEF SentinelInv, SituationsAre
  <2> QED
    BY <1>4, <2>1, SituationsShape
<1>8. \A op \in Ops' : op.op = "situation" => op.change.n <= engine'[op.change.rule].ids
  <2> SUFFICES ASSUME NEW op \in Ops, op.op = "situation" PROVE op.change.n <= engine'[op.change.rule].ids
    BY <1>5
  <2>1. op.change.rule \in DOMAIN rules /\ op.change.n \in Nat /\ op.change.n <= engine[op.change.rule].ids
    BY SituationsShape
  <2> QED
    BY <1>4, <2>1, SituationsShape
<1>9. ASSUME ~stale', NEW r \in DOMAIN rules, NEW n \in Nat PROVE SituationIs(r, n)'
  <2>1. SituationIs(r, n)
    BY <1>9 DEF SentinelInv, SituationsAre
  <2>2. \A a : IsStored(r, n, a)' <=> IsStored(r, n, a)
    BY DEF IsStored
  <2>3. \A a : Saving(r, n, a)' <=> Saving(r, n, a) \/ (Changed(w, news, r) /\ n = engine'[r].n /\ a = engine'[r].active)
    <3> TAKE a
    <3> DEFINE op == SaveSituation([rule |-> r, n |-> n, active |-> a])
    <3>1. op \in ToSet(saves) <=> Changed(w, news, r) /\ n = engine'[r].n /\ a = engine'[r].active
      <4>1. \A q \in DOMAIN rules : op = SaveSituation(ChangeOf(w, news, q)) => r = q /\ n = engine'[r].n /\ a = engine'[r].active
        BY <1>3, SaveIs
      <4>2. n = engine'[r].n /\ a = engine'[r].active => op = SaveSituation(ChangeOf(w, news, r))
        BY <1>3
      <4> HIDE DEF op
      <4> QED
        BY <1>2, <4>1, <4>2
    <3>2. op.op = "situation"
      BY SaveIs
    <3> QED
      BY <3>1, <3>2 DEF Saving
  <2>4. Live(r, n)' <=> engine'[r].active /\ engine'[r].n = n
    BY DEF Live
  <2>5. CASE engine'[r].active = engine[r].active /\ engine'[r].n = engine[r].n
    BY <1>3, <2>1, <2>2, <2>3, <2>4, <2>5, SituationsShape DEF SituationIs, Live
  <2>6. CASE ~engine[r].active /\ engine'[r].active /\ engine'[r].n = engine[r].ids + 1
    <3>1. Changed(w, news, r) /\ ~Live(r, n)
      BY <1>3, <2>6 DEF Live
    <3>2. CASE n = engine'[r].n
      <4>1. n > engine[r].ids
        BY <2>6, <3>2, SituationsShape
      <4>2. ~Saving(r, n, FALSE) /\ ~IsStored(r, n, FALSE)
        BY <4>1, NumbersAreFresh
      <4>3. Saving(r, n, TRUE)' /\ ~Saving(r, n, FALSE)' /\ Live(r, n)'
        BY <2>3, <2>4, <2>6, <3>1, <3>2, <4>2, <1>4
      <4> QED
        BY <2>2, <4>2, <4>3 DEF SituationIs
    <3>3. CASE n # engine'[r].n
      BY <2>1, <2>2, <2>3, <2>4, <3>1, <3>3 DEF SituationIs
    <3> QED
      BY <3>2, <3>3
  <2>7. CASE engine[r].active /\ ~engine'[r].active /\ engine'[r].n = engine[r].n
    <3>1. Changed(w, news, r) /\ ~Live(r, n)'
      BY <1>3, <2>4, <2>7
    <3>2. CASE n = engine'[r].n
      <4>1. Saving(r, n, FALSE)'
        BY <1>4, <2>3, <2>7, <3>1, <3>2
      <4> QED
        BY <3>1, <4>1 DEF SituationIs
    <3>3. CASE n # engine'[r].n
      BY <2>1, <2>2, <2>3, <2>7, <3>1, <3>3 DEF SituationIs, Live
    <3> QED
      BY <3>2, <3>3
  <2> QED
    BY <1>1, <2>5, <2>6, <2>7 DEF Turned
<1>10. \A op \in ToSet(saves) : IsOp(op)'
  BY <1>5 DEF IsOp, SituationRow
<1>11. SituationsAre'
  BY <1>4, <1>6, <1>7, <1>8, <1>9 DEF SituationsAre
<1> QED
  BY <1>10, <1>11

LEMMA SituationStored ==
    ASSUME SentinelInv, NEW t \in Tasks, Save(t)
    PROVE  /\ SituationsAre' /\ TasksAre' /\ Ops' \subseteq Ops
           /\ \A op \in Ops : op.op # "situation" => op \in Ops'
<1>1. /\ todo[t] # <<>> /\ First(t).op = "situation" /\ Then(t, <<>>)
      /\ situations' = (situations \ Copies(First(t).change)) \cup {First(t).change}
      /\ stale' = (stale \/ (First(t).change.active /\ \E row \in Copies(First(t).change) : ~row.active))
      /\ rules' = rules /\ engine' = engine
  BY DEF Save, Running, First, correlationVars
<1>2. TasksAre' /\ First(t) \in Ops /\ Ops' \subseteq Ops /\ Ops \subseteq Ops' \cup {First(t)}
  BY <1>1, EmptyIs, ThenIs DEF SentinelInv
<1>3. PICK r0 \in DOMAIN rules, n0 \in Nat, a0 \in BOOLEAN :
        First(t) = SaveSituation([rule |-> r0, n |-> n0, active |-> a0])
  <2> DEFINE given == First(t).change
  <2>1. /\ First(t) = SaveSituation(given) /\ given = [rule |-> given.rule, n |-> given.n, active |-> given.active]
        /\ given.rule \in DOMAIN rules /\ given.n \in Nat /\ given.active \in BOOLEAN
    BY <1>1, <1>2, SituationsShape
  <2> HIDE DEF given
  <2> QED
    BY <2>1
<1> DEFINE change == [rule |-> r0, n |-> n0, active |-> a0]
<1>4. First(t).change = change /\ change.rule = r0 /\ change.n = n0 /\ change.active = a0 /\ change \in SituationRow
  BY <1>3, SaveIs DEF SituationRow
<1>5. n0 <= engine[r0].ids
  BY <1>1, <1>2, <1>4, SituationsShape
<1>6. Saving(r0, n0, a0)
  BY <1>2, <1>3 DEF Saving
<1> DEFINE copies == Copies(change)
<1>7. copies = {row \in situations : row.rule = r0 /\ row.n = n0} /\ situations' = (situations \ copies) \cup {change}
  BY <1>1, <1>4 DEF Copies
<1>8. stale' = (stale \/ (a0 /\ \E row \in copies : ~row.active))
  BY <1>1, <1>4
<1>9. \A r, n, a : IsStored(r, n, a)' <=> IF r = r0 /\ n = n0 THEN a = a0 ELSE IsStored(r, n, a)
  <2> TAKE r, n, a
  <2> DEFINE row == [rule |-> r, n |-> n, active |-> a]
  <2>1. row.rule = r /\ row.n = n
    OBVIOUS
  <2>2. row = change <=> r = r0 /\ n = n0 /\ a = a0
    BY SaveIs
  <2> HIDE DEF row, change, copies
  <2>3. row \in situations' <=> IF r = r0 /\ n = n0 THEN a = a0 ELSE row \in situations
    BY <1>7, <2>1, <2>2
  <2> QED
    BY <2>3 DEF row, IsStored
<1>10. /\ \A r, n, a : Saving(r, n, a)' => Saving(r, n, a)
       /\ \A r, n, a : Saving(r, n, a) => Saving(r, n, a)' \/ (r = r0 /\ n = n0 /\ a = a0)
  BY <1>2, <1>3, SaveIs DEF Saving
<1> HIDE DEF change, copies
<1>11. situations' \subseteq SituationRow' /\ \A x, y \in situations' : x.rule = y.rule /\ x.n = y.n => x = y
  BY <1>1, <1>4, <1>7 DEF SentinelInv, SituationsAre, SituationRow
<1>12. /\ \A r \in DOMAIN rules' : engine'[r].n <= engine'[r].ids
       /\ \A row \in situations' : row.n <= engine'[row.rule].ids
       /\ \A op \in Ops' : op.op = "situation" => op.change.n <= engine'[op.change.rule].ids
  BY <1>1, <1>2, <1>4, <1>5, <1>7 DEF SentinelInv, SituationsAre
<1>13. ASSUME ~stale', NEW r \in DOMAIN rules, NEW n \in Nat PROVE SituationIs(r, n)'
  <2>1. SituationIs(r, n) /\ ~stale
    BY <1>8, <1>13 DEF SentinelInv, SituationsAre
  <2>2. Live(r, n)' <=> Live(r, n)
    BY <1>1 DEF Live
  <2>3. CASE ~(r = r0 /\ n = n0)
    <3>1. /\ IsStored(r, n, TRUE)' <=> IsStored(r, n, TRUE)
          /\ IsStored(r, n, FALSE)' <=> IsStored(r, n, FALSE)
      BY <1>9, <2>3
    <3>2. Saving(r, n, TRUE)' <=> Saving(r, n, TRUE)
      BY <1>10, <2>3
    <3>3. Saving(r, n, FALSE)' <=> Saving(r, n, FALSE)
      <4>1. Saving(r, n, FALSE)' => Saving(r, n, FALSE)
        BY <1>10, Zenon
      <4>2. Saving(r, n, FALSE) => Saving(r, n, FALSE)' \/ (r = r0 /\ n = n0 /\ FALSE = a0)
        BY <1>10, Zenon
      <4> QED
        BY <2>3, <4>1, <4>2
    <3> QED
      BY <2>1, <2>2, <3>1, <3>2, <3>3 DEF SituationIs
  <2>4. CASE r = r0 /\ n = n0 /\ a0
    <3>1. a0 = TRUE
      BY <2>4
    <3>2. ~IsStored(r, n, FALSE)
      <4>1. [rule |-> r, n |-> n, active |-> FALSE] \notin situations
        <5> DEFINE row == [rule |-> r, n |-> n, active |-> FALSE]
        <5>1. row.rule = r /\ row.n = n /\ ~row.active
          OBVIOUS
        <5> HIDE DEF row
        <5>2. row \notin situations
          BY <1>7, <1>8, <1>13, <2>4, <5>1
        <5> QED
          BY <5>2 DEF row
      <4> QED
        BY <4>1 DEF IsStored
    <3>3. ~IsStored(r, n, FALSE)' /\ IsStored(r, n, TRUE)' /\ (Saving(r, n, FALSE)' <=> Saving(r, n, FALSE))
      BY <1>9, <1>10, <2>4, <3>1
    <3> QED
      BY <1>6, <2>1, <2>2, <2>4, <3>1, <3>2, <3>3 DEF SituationIs
  <2>5. CASE r = r0 /\ n = n0 /\ ~a0
    <3>1. a0 = FALSE
      BY <2>5
    <3>2. ~Live(r, n)
      BY <1>6, <2>1, <2>5, <3>1 DEF SituationIs
    <3>3. ~IsStored(r, n, TRUE)' /\ IsStored(r, n, FALSE)'
      BY <1>9, <2>5, <3>1
    <3> QED
      BY <2>2, <3>2, <3>3 DEF SituationIs
  <2> QED
    BY <2>3, <2>4, <2>5
<1>14. \A op \in Ops : op.op # "situation" => op \in Ops'
  BY <1>1, <1>2
<1>15. SituationsAre'
  BY <1>1, <1>11, <1>12, <1>13 DEF SituationsAre
<1> QED
  BY <1>2, <1>14, <1>15

(* A set of numbers that is not empty has a least one.                     *)
LEMMA LeastNumber ==
    ASSUME NEW S \in SUBSET Nat, S # {}
    PROVE  \E x \in S : \A y \in S : x <= y
<1> DEFINE R == OpToRel(<, Nat)
<1>1. IsWellFoundedOn(R, Nat)
  BY NatLessThanWellFounded
<1>2. PICK x \in S : \A y \in S : ~ (<<y, x>> \in R)
  BY <1>1, WFMin, Zenon
<1>3. \A y \in S : ~ (y < x)
  BY <1>2 DEF OpToRel
<1> QED
  BY <1>3

LEMMA RestoredIs ==
    ASSUME SentinelInv, NEW r \in DOMAIN rules
    PROVE  /\ Restored(r, situations) \in EngineRow
           /\ Restored(r, situations).ids = engine[r].ids
           /\ Restored(r, situations).n <= engine[r].ids
           /\ Restored(r, situations).active <=> ActiveSituations(r, situations) # {}
           /\ Restored(r, situations).active =>
                \E row \in ActiveSituations(r, situations) : Restored(r, situations).n = row.n
<1> DEFINE active == ActiveSituations(r, situations)
<1>1. engine[r].ids \in Nat
  BY SituationsShape
<1>2. \A row \in active : row.n \in Nat /\ row.n <= engine[r].ids
  BY SituationsShape DEF SentinelInv, SituationsAre, ActiveSituations
<1>3. Dormant = [n |-> 0, active |-> FALSE, held |-> -1, cool |-> 0, ids |-> 0]
  BY DEF Dormant
<1>4. CASE active = {}
  <2>1. Restored(r, situations) = [Dormant EXCEPT !.ids = engine[r].ids]
    BY <1>4 DEF Restored
  <2> DEFINE state == [Dormant EXCEPT !.ids = engine[r].ids]
  <2>2. /\ state.n = 0 /\ ~state.active /\ state.ids = engine[r].ids
        /\ state = [x \in DOMAIN state |-> state[x]] /\ DOMAIN state = {"n", "active", "held", "cool", "ids"}
        /\ state.active \in BOOLEAN /\ state.held \in Int /\ state.cool \in Nat
    BY DEF Dormant
  <2> HIDE DEF state
  <2>3. state \in EngineRow
    BY <1>1, <2>2, RowIs
  <2>4. Restored(r, situations) = state
    BY <2>1 DEF state
  <2> QED
    BY <1>1, <1>4, <2>2, <2>3, <2>4
<1>5. CASE active # {}
  <2> DEFINE first == CHOOSE row \in active : \A other \in active : row.n <= other.n
             numbers == {row.n : row \in active}
  <2>1. PICK m \in numbers : \A k \in numbers : m <= k
    <3>1. numbers \in SUBSET Nat /\ numbers # {}
      BY <1>2, <1>5
    <3> HIDE DEF numbers
    <3> QED
      BY <3>1, LeastNumber
  <2>2. \E row \in active : \A other \in active : row.n <= other.n
    BY <2>1
  <2>3. first \in active
    BY <2>2
  <2>4. Restored(r, situations) = [Dormant EXCEPT !.n = first.n, !.active = TRUE, !.held = 0, !.ids = engine[r].ids]
    BY <1>5 DEF Restored
  <2> HIDE DEF first
  <2> DEFINE state == [Dormant EXCEPT !.n = first.n, !.active = TRUE, !.held = 0, !.ids = engine[r].ids]
  <2>5. /\ state.n = first.n /\ state.active /\ state.ids = engine[r].ids
        /\ state = [x \in DOMAIN state |-> state[x]] /\ DOMAIN state = {"n", "active", "held", "cool", "ids"}
        /\ state.active \in BOOLEAN /\ state.held \in Int /\ state.cool \in Nat
    <3>1. state = [x \in DOMAIN state |-> state[x]] /\ DOMAIN state = {"n", "active", "held", "cool", "ids"}
      BY DEF Dormant
    <3>2. state.active = TRUE /\ state.active \in BOOLEAN
      BY DEF Dormant
    <3>3. state.n = first.n
      BY DEF Dormant
    <3>4. state.held = 0 /\ state.cool = 0
      BY DEF Dormant
    <3>5. state.ids = engine[r].ids
      BY DEF Dormant
    <3> HIDE DEF state
    <3> QED
      BY <3>1, <3>2, <3>3, <3>4, <3>5
  <2> HIDE DEF state
  <2>6. state \in EngineRow
    BY <1>1, <1>2, <2>3, <2>5, RowIs
  <2>7. Restored(r, situations) = state
    BY <2>4 DEF state
  <2> QED
    BY <1>2, <1>5, <2>3, <2>5, <2>6, <2>7
<1> QED
  BY <1>4, <1>5

LEMMA SituationsRestored ==
    ASSUME SentinelInv, UNCHANGED <<rules, situations>>, Ops' = {},
           engine' = [r \in DOMAIN rules |-> Restored(r, situations)],
           stale' = (stale \/ Superseded)
    PROVE  SituationsAre'
<1>1. \A r \in DOMAIN rules : engine'[r] = Restored(r, situations)
  OBVIOUS
<1>2. situations' \subseteq SituationRow' /\ \A x, y \in situations' : x.rule = y.rule /\ x.n = y.n => x = y
  BY DEF SentinelInv, SituationsAre, SituationRow
<1>3. \A r \in DOMAIN rules : engine'[r].n <= engine'[r].ids
  BY <1>1, RestoredIs
<1>4. \A row \in situations' : row.n <= engine'[row.rule].ids
  BY <1>1, RestoredIs, SituationsShape DEF SentinelInv, SituationsAre
<1>5. ASSUME ~stale', NEW r \in DOMAIN rules, NEW n \in Nat PROVE SituationIs(r, n)'
  <2>1. ~Superseded /\ \A m \in Nat : SituationIs(r, m)
    BY <1>5 DEF SentinelInv, SituationsAre
  <2>2. \A op \in Ops : op.op = "situation" => op.change.n = engine[op.change.rule].n
    BY <2>1 DEF Superseded, Ops, ToSet
  <2>3. \A m \in Nat : IsStored(r, m, TRUE) => m = engine[r].n
    <3> SUFFICES ASSUME NEW m \in Nat, IsStored(r, m, TRUE) PROVE m = engine[r].n
      OBVIOUS
    <3>1. CASE Live(r, m)
      BY <3>1 DEF Live
    <3>2. CASE ~Live(r, m)
      <4>1. Saving(r, m, FALSE)
        BY <2>1, <3>2 DEF SituationIs
      <4> QED
        BY <2>2, <4>1, SaveIs DEF Saving
    <3> QED
      BY <3>1, <3>2
  <2>4. \A row \in ActiveSituations(r, situations) : row = [rule |-> r, n |-> row.n, active |-> TRUE] /\ row.n \in Nat
    BY SituationsShape DEF ActiveSituations
  <2>5. \A row \in ActiveSituations(r, situations) : IsStored(r, row.n, TRUE) /\ row.n = engine[r].n
    BY <2>3, <2>4 DEF ActiveSituations, IsStored
  <2>6. \A a : ~Saving(r, n, a)'
    BY DEF Saving
  <2>7. \A a : IsStored(r, n, a)' <=> IsStored(r, n, a)
    BY DEF IsStored
  <2>8. CASE Live(r, n)'
    <3>1. engine'[r].active /\ engine'[r].n = n
      BY <2>8 DEF Live
    <3>2. IsStored(r, n, TRUE)
      BY <1>1, <2>5, <3>1, RestoredIs
    <3>3. ~IsStored(r, n, FALSE)
      <4> DEFINE one == [rule |-> r, n |-> n, active |-> TRUE]
                 two == [rule |-> r, n |-> n, active |-> FALSE]
      <4>1. one.rule = r /\ one.n = n /\ two.rule = r /\ two.n = n /\ one.active /\ ~two.active
        OBVIOUS
      <4> HIDE DEF one, two
      <4>2. one \in situations => two \notin situations
        BY <4>1 DEF SentinelInv, SituationsAre
      <4> QED
        BY <3>2, <4>2 DEF IsStored, one, two
    <3> QED
      BY <2>6, <2>7, <2>8, <3>2, <3>3 DEF SituationIs
  <2>9. CASE ~Live(r, n)'
    <3>1. ~IsStored(r, n, TRUE)
      <4> SUFFICES ASSUME IsStored(r, n, TRUE) PROVE FALSE
        OBVIOUS
      <4> DEFINE row == [rule |-> r, n |-> n, active |-> TRUE]
      <4>1. row.rule = r /\ row.active /\ row \in situations
        BY DEF IsStored
      <4> HIDE DEF row
      <4>2. row \in ActiveSituations(r, situations)
        BY <4>1 DEF ActiveSituations
      <4>3. engine'[r].active /\ engine'[r].n = engine[r].n
        BY <1>1, <2>5, <4>2, RestoredIs
      <4>4. n = engine[r].n
        BY <2>3
      <4> QED
        BY <2>9, <4>3, <4>4 DEF Live
    <3> QED
      BY <2>6, <2>7, <2>9, <3>1 DEF SituationIs
  <2> QED
    BY <2>8, <2>9
<1> QED
  BY <1>2, <1>3, <1>4, <1>5 DEF SituationsAre


-----------------------------------------------------------------------------
(* The window, the table and the engine's memory.                          *)

Bounded(seq) == IsSeq(seq) /\ Len(seq) <= WindowSize /\ AgesIn(seq)

LEMMA PushIs ==
    ASSUME NEW seq, Bounded(seq), NEW object, NEW state
    PROVE  Bounded(Push(seq, Observation(object, state)))
<1> DEFINE o == Observation(object, state)
<1>1. o = [what |-> o.what, age |-> o.age] /\ o.age = 0 /\ 0 \in 0..Horizon
  BY CorrelationAssumption DEF Observation, CorrelationAssumption
<1> HIDE DEF o
<1>2. PICK S : seq \in Seq(S)
  BY DEF Bounded, IsSeq
<1>3. seq \in Seq(S \cup {o}) /\ o \in S \cup {o} /\ Len(seq) \in Nat /\ DOMAIN seq = 1..Len(seq) /\ WindowSize \in Nat \ {0}
  BY <1>2, SeqMonotonic, LenProperties, CorrelationAssumption DEF CorrelationAssumption
<1>4. \A s \in Seq(S \cup {o}) : /\ Append(s, o) \in Seq(S \cup {o}) /\ Len(Append(s, o)) = Len(s) + 1
                                  /\ DOMAIN Append(s, o) = 1..Len(s) + 1
                                  /\ \A k \in 1..Len(s) : Append(s, o)[k] = s[k]
                                  /\ Append(s, o)[Len(s) + 1] = o
  BY <1>3, AppendProperties, LenProperties
<1>5. ASSUME NEW s \in Seq(S \cup {o}), AgesIn(s), Len(s) < WindowSize PROVE Bounded(Append(s, o))
  <2>1. Len(s) \in Nat /\ DOMAIN s = 1..Len(s)
    BY LenProperties
  <2>2. Len(Append(s, o)) <= WindowSize /\ IsSeq(Append(s, o))
    BY <1>3, <1>4, <1>5, <2>1 DEF IsSeq
  <2>3. ASSUME NEW k \in DOMAIN Append(s, o) PROVE Append(s, o)[k] = o \/ (k \in DOMAIN s /\ Append(s, o)[k] = s[k])
    BY <1>4, <2>1
  <2>4. AgesIn(Append(s, o))
    BY <1>1, <1>5, <2>3 DEF AgesIn
  <2> QED
    BY <2>2, <2>4 DEF Bounded
<1>6. CASE Len(seq) < WindowSize
  BY <1>3, <1>5, <1>6 DEF Bounded, Push, o
<1>7. CASE ~(Len(seq) < WindowSize)
  <2>1. seq # <<>>
    BY <1>3, <1>7
  <2>2. /\ Tail(seq) \in Seq(S \cup {o}) /\ Len(Tail(seq)) = Len(seq) - 1
        /\ \A k \in 1..Len(Tail(seq)) : Tail(seq)[k] = seq[k + 1]
    BY <1>3, <2>1, HeadTailProperties
  <2>3. DOMAIN Tail(seq) = 1..Len(seq) - 1
    BY <2>2, LenProperties
  <2>4. \A k \in DOMAIN Tail(seq) : k + 1 \in DOMAIN seq /\ Tail(seq)[k] = seq[k + 1]
    BY <1>3, <2>2, <2>3
  <2>5. AgesIn(Tail(seq))
    BY <2>4 DEF Bounded, AgesIn
  <2>6. Len(Tail(seq)) < WindowSize
    BY <1>3, <2>2 DEF Bounded
  <2> QED
    BY <1>5, <1>7, <2>2, <2>5, <2>6 DEF Push, o
<1> QED
  BY <1>6, <1>7

LEMMA OlderIs ==
    ASSUME NEW seq, Bounded(seq) PROVE Bounded(Older(seq))
<1>1. PICK S : seq \in Seq(S)
  BY DEF Bounded, IsSeq
<1>2. Len(seq) \in Nat /\ DOMAIN seq = 1..Len(seq) /\ Horizon \in Nat
  BY <1>1, LenProperties, CorrelationAssumption DEF CorrelationAssumption
<1>3. DOMAIN Older(seq) = 1..Len(seq) /\ Older(seq) = [k \in DOMAIN Older(seq) |-> Older(seq)[k]]
  BY <1>2 DEF Older
<1>4. IsSeq(Older(seq))
  BY <1>2, <1>3, ListIs
<1>5. Len(Older(seq)) = Len(seq)
  <2>1. PICK T : Older(seq) \in Seq(T)
    BY <1>4 DEF IsSeq
  <2>2. Len(Older(seq)) \in Nat /\ DOMAIN Older(seq) = 1..Len(Older(seq))
    BY <2>1, LenProperties
  <2> QED
    BY <1>2, <1>3, <2>2
<1>6. ASSUME NEW k \in DOMAIN seq
      PROVE  Older(seq)[k] = [what |-> Older(seq)[k].what, age |-> Older(seq)[k].age] /\ Older(seq)[k].age \in 0..Horizon
  <2> DEFINE o == seq[k]
             grown == [o EXCEPT !.age = IF @ < Horizon THEN @ + 1 ELSE @]
  <2>1. o = [what |-> o.what, age |-> o.age] /\ o.age \in 0..Horizon
    BY DEF Bounded, AgesIn
  <2>2. Older(seq)[k] = grown
    BY DEF Older
  <2> HIDE DEF o
  <2>3. grown = [what |-> o.what, age |-> IF o.age < Horizon THEN o.age + 1 ELSE o.age]
    BY <2>1
  <2>4. (IF o.age < Horizon THEN o.age + 1 ELSE o.age) \in 0..Horizon
    BY <1>2, <2>1
  <2> HIDE DEF grown
  <2> QED
    BY <2>2, <2>3, <2>4
<1>7. AgesIn(Older(seq))
  BY <1>2, <1>3, <1>6 DEF AgesIn
<1> QED
  BY <1>4, <1>5, <1>7 DEF Bounded

LEMMA ReverseIs ==
    ASSUME NEW seq, Bounded(seq) PROVE Bounded(Reverse(seq))
<1>1. PICK S : seq \in Seq(S)
  BY DEF Bounded, IsSeq
<1>2. Len(seq) \in Nat /\ DOMAIN seq = 1..Len(seq)
  BY <1>1, LenProperties
<1>3. DOMAIN Reverse(seq) = 1..Len(seq) /\ Reverse(seq) = [k \in DOMAIN Reverse(seq) |-> Reverse(seq)[k]]
  BY <1>2 DEF Reverse
<1>4. IsSeq(Reverse(seq))
  BY <1>2, <1>3, ListIs
<1>5. Len(Reverse(seq)) = Len(seq)
  <2>1. PICK T : Reverse(seq) \in Seq(T)
    BY <1>4 DEF IsSeq
  <2>2. Len(Reverse(seq)) \in Nat /\ DOMAIN Reverse(seq) = 1..Len(Reverse(seq))
    BY <2>1, LenProperties
  <2> QED
    BY <1>2, <1>3, <2>2
<1>6. \A k \in 1..Len(seq) : \E j \in DOMAIN seq : Reverse(seq)[k] = seq[j]
  <2> TAKE k \in 1..Len(seq)
  <2>1. Len(seq) - k + 1 \in DOMAIN seq /\ Reverse(seq)[k] = seq[Len(seq) - k + 1]
    BY <1>2 DEF Reverse
  <2> QED
    BY <2>1
<1>7. AgesIn(Reverse(seq))
  BY <1>3, <1>6 DEF Bounded, AgesIn
<1> QED
  BY <1>4, <1>5, <1>7 DEF Bounded

LEMMA FeedIs ==
    ASSUME SentinelInv, NEW object, NEW state, NEW news, Feed(Observation(object, state), news)
    PROVE  EnginesAre'
<1>1. Bounded(table) /\ Bounded(window)
  BY DEF SentinelInv, EnginesAre, Bounded
<1>2. Bounded(table') /\ Bounded(window')
  BY <1>1, PushIs DEF Feed
<1>3. engine' \in [DOMAIN rules -> EngineRow] /\ rules' = rules /\ grace' = grace
  BY EvaluatedTurns DEF SentinelInv, Feed
<1> QED
  BY <1>2, <1>3 DEF SentinelInv, EnginesAre, Bounded, AgesIn, IsSeq

LEMMA LeftOverIs ==
    ASSUME NEW ticks \in Nat PROVE LeftOver(ticks) \in 0..ticks
  BY DEF LeftOver

LEMMA EnginesAge ==
    ASSUME SentinelInv, CorrelationTime
    PROVE  /\ EnginesAre'
           /\ \A r \in DOMAIN rules : /\ engine'[r].n = engine[r].n /\ engine'[r].ids = engine[r].ids
                                      /\ engine'[r].active = engine[r].active
<1>1. Bounded(table) /\ Bounded(window) /\ grace \in 0..Grace /\ Grace \in Nat
  BY CorrelationAssumption DEF SentinelInv, EnginesAre, Bounded, CorrelationAssumption
<1>2. Bounded(table') /\ Bounded(window')
  BY <1>1, OlderIs DEF CorrelationTime
<1>3. grace' \in 0..Grace
  <2>1. grace' = LeftOver(grace)
    BY DEF CorrelationTime
  <2>2. grace \in 0..Grace /\ Grace \in Nat
    BY <1>1
  <2> QED
    BY <2>1, <2>2 DEF LeftOver
<1>4. ASSUME NEW r \in DOMAIN rules
      PROVE  /\ engine'[r] \in EngineRow
             /\ engine'[r].n = engine[r].n /\ engine'[r].ids = engine[r].ids /\ engine'[r].active = engine[r].active
  <2> DEFINE old == engine[r]
             new == [old EXCEPT !.cool = LeftOver(@),
                                !.held = IF @ >= 0 /\ @ < rules[r].stable THEN @ + 1 ELSE @]
  <2>1. engine'[r] = new
    BY DEF CorrelationTime
  <2>2. /\ old \in EngineRow /\ old.n \in Nat /\ old.active \in BOOLEAN /\ old.held \in Int
        /\ old.cool \in Nat /\ old.ids \in Nat
    <3>1. old \in EngineRow
      BY RulesAre DEF SentinelInv
    <3> HIDE DEF old
    <3> QED
      BY <3>1 DEF EngineRow
  <2>3. DOMAIN old = {"n", "active", "held", "cool", "ids"}
    <3> HIDE DEF old
    <3> QED
      BY <2>2 DEF EngineRow
  <2> HIDE DEF old
  <2>4. new = [x \in DOMAIN new |-> new[x]] /\ DOMAIN new = {"n", "active", "held", "cool", "ids"}
    BY <2>2, <2>3 DEF EngineRow
  <2>5. new.n = old.n /\ new.ids = old.ids
    BY <2>3
  <2>6. new.active = old.active
    BY <2>3
  <2>7. new.cool = LeftOver(old.cool)
    BY <2>3
  <2>8. new.held = IF old.held >= 0 /\ old.held < rules[r].stable THEN old.held + 1 ELSE old.held
    BY <2>3
  <2>9. new.held \in Int /\ new.cool \in Nat
    BY <2>2, <2>7, <2>8, LeftOverIs
  <2> HIDE DEF new
  <2>10. new \in EngineRow
    BY <2>2, <2>4, <2>5, <2>6, <2>9, RowIs
  <2> QED
    BY <2>1, <2>5, <2>6, <2>10 DEF old
<1>5. engine' \in [DOMAIN rules -> EngineRow]
  BY <1>4 DEF CorrelationTime
<1> QED
  BY <1>2, <1>3, <1>4, <1>5 DEF SentinelInv, EnginesAre, Bounded, AgesIn, IsSeq, CorrelationTime

LEMMA EnginesRestored ==
    ASSUME SentinelInv, LoadRecent(situations) PROVE EnginesAre'
<1>1. Bounded(table) /\ Grace \in 0..Grace
  BY CorrelationAssumption DEF SentinelInv, EnginesAre, Bounded, CorrelationAssumption
<1>2. Bounded(window') /\ Bounded(table')
  BY <1>1, ReverseIs DEF LoadRecent, RecentObservations
<1>3. engine' \in [DOMAIN rules -> EngineRow]
  BY RestoredIs DEF LoadRecent
<1> QED
  BY <1>1, <1>2, <1>3 DEF SentinelInv, EnginesAre, Bounded, AgesIn, IsSeq, LoadRecent

-----------------------------------------------------------------------------
(* Devices.                                                                *)

LEMMA DevicesShape ==
    ASSUME DevicesAre
    PROVE  /\ \A d \in DOMAIN devices : /\ devices[d] \in Device /\ devices[d].ver \in Nat /\ devices[d].online \in BOOLEAN
           /\ \A d \in DOMAIN deviceRows : d \in DOMAIN devices /\ deviceRows[d] \in Device /\ deviceRows[d].ver \in Nat
           /\ devices = [d \in DOMAIN devices |-> devices[d]]
           /\ deviceRows = [d \in DOMAIN deviceRows |-> deviceRows[d]]
<1>1. \A d \in DOMAIN devices : devices[d] \in Device
  BY DEF DevicesAre
<1>2. \A d \in DOMAIN deviceRows : d \in DOMAIN devices /\ deviceRows[d] \in Device
  BY DEF DevicesAre
<1>3. \A copy \in Device : copy.ver \in Nat /\ copy.online \in BOOLEAN
  BY DEF Device
<1> QED
  BY <1>1, <1>2, <1>3 DEF DevicesAre

LEMMA DevicesRest ==
    ASSUME DevicesAre, UNCHANGED <<devices, deviceRows>>, ~stale' => ~stale,
           \A op \in Ops' : op.op = "device" => op \in Ops,
           \A op \in Ops : op.op = "device" => op \in Ops' \/ stale'
    PROVE  DevicesAre'
<1>1. \A d \in DOMAIN devices : ~stale' /\ DeviceIs(d) => DeviceIs(d)'
  BY DEF DeviceIs
<1>2. \A d \in DOMAIN deviceRows' : Versioned(d, deviceRows[d])'
  BY DEF DevicesAre, Versioned
<1>3. \A op \in Ops' : op.op = "device" => Versioned(op.device, op.copy)'
  BY DEF DevicesAre, Versioned
<1> QED
  BY <1>1, <1>2, <1>3 DEF DevicesAre

(* What the trackers change: devices becomes new, and the copies of what   *)
(* has changed are to be saved.                                            *)
LEMMA DevicesChange ==
    ASSUME DevicesAre, NEW new, devices' = [d \in DOMAIN new |-> new[d]],
           DOMAIN devices \subseteq DOMAIN new, IsFiniteSet(DOMAIN new), DOMAIN new \subseteq Devices,
           \A op \in Ops : op.op = "device" => op.device \in DOMAIN devices /\ op.copy \in Device,
           \A d \in DOMAIN new : new[d] \in Device,
           \A d \in DOMAIN devices : /\ new[d].ver >= devices[d].ver
                                     /\ new[d].ver = devices[d].ver => new[d].online = devices[d].online,
           UNCHANGED <<deviceRows, stale>>,
           \A op \in Ops : op \in Ops',
           \A op \in Ops' : op.op = "device" =>
                \/ op \in Ops
                \/ op.device \in DOMAIN new /\ op.copy = new[op.device],
           \A d \in DOMAIN new :
                \/ d \in DOMAIN devices /\ new[d].ver = devices[d].ver
                \/ SaveDevice(d, new[d]) \in Ops'
    PROVE  DevicesAre'
<1>1. DOMAIN devices' = DOMAIN new /\ \A d \in DOMAIN new : devices'[d] = new[d]
  OBVIOUS
<1>2. devices' \in [DOMAIN devices' -> Device]
  BY <1>1
<1>3. \A copy \in Device : copy.ver \in Nat
  BY DEF Device
<1>4. \A d \in DOMAIN devices, copy \in Device : Versioned(d, copy) =>
        copy.ver <= new[d].ver /\ (copy.ver = new[d].ver => copy.online = new[d].online)
  <2> TAKE d \in DOMAIN devices, copy \in Device
  <2> HAVE Versioned(d, copy)
  <2>1. copy.ver \in Nat /\ devices[d].ver \in Nat /\ new[d].ver \in Nat
    BY <1>3, DevicesShape
  <2>2. copy.ver <= devices[d].ver /\ (copy.ver = devices[d].ver => copy.online = devices[d].online)
    BY DEF Versioned
  <2>3. new[d].ver >= devices[d].ver /\ (new[d].ver = devices[d].ver => new[d].online = devices[d].online)
    OBVIOUS
  <2> QED
    BY <2>1, <2>2, <2>3
<1>5. \A d \in DOMAIN deviceRows' : Versioned(d, deviceRows[d])'
  BY <1>1, <1>4, DevicesShape DEF DevicesAre, Versioned
<1>6. \A op \in Ops' : op.op = "device" => Versioned(op.device, op.copy)'
  <2> TAKE op \in Ops'
  <2> HAVE op.op = "device"
  <2>1. CASE op \in Ops
    BY <1>1, <1>4, <2>1 DEF DevicesAre, Versioned
  <2>2. CASE op \notin Ops
    BY <1>1, <1>3, <2>2 DEF Versioned
  <2> QED
    BY <2>1, <2>2
<1>7. ASSUME ~stale', NEW d \in DOMAIN devices' PROVE DeviceIs(d)'
  <2>1. CASE d \in DOMAIN devices /\ new[d].ver = devices[d].ver
    <3>1. DeviceIs(d)
      BY <1>7, <2>1 DEF DevicesAre
    <3> QED
      BY <1>1, <2>1, <3>1 DEF DeviceIs
  <2>2. CASE SaveDevice(d, new[d]) \in Ops'
    <3>1. /\ SaveDevice(d, new[d]).op = "device" /\ SaveDevice(d, new[d]).device = d
          /\ SaveDevice(d, new[d]).copy = new[d]
      BY DEF SaveDevice
    <3> QED
      BY <1>1, <1>7, <2>2, <3>1 DEF DeviceIs
  <2> QED
    BY <1>1, <1>7, <2>1, <2>2
<1>8. DOMAIN deviceRows' \subseteq DOMAIN devices' /\ deviceRows' \in [DOMAIN deviceRows' -> Device]
  BY <1>1 DEF DevicesAre
<1> QED
  BY <1>1, <1>2, <1>5, <1>6, <1>7, <1>8 DEF DevicesAre

LEMMA DeviceStored ==
    ASSUME SentinelInv, NEW t \in Tasks, UpsertDevice(t)
    PROVE  DevicesAre' /\ TasksAre' /\ Ops' \subseteq Ops /\ \A op \in Ops : op.op # "device" => op \in Ops'
<1>1. /\ todo[t] # <<>> /\ First(t).op = "device" /\ Then(t, <<>>) /\ devices' = devices
  BY DEF UpsertDevice, Running, First
<1>2. TasksAre' /\ First(t) \in Ops /\ Ops' \subseteq Ops /\ Ops \subseteq Ops' \cup {First(t)}
  BY <1>1, EmptyIs, ThenIs DEF SentinelInv
<1>3. \A op \in Ops : op.op # "device" => op \in Ops'
  BY <1>1, <1>2
<1> DEFINE d0 == First(t).device
           copy == First(t).copy
<1>4. d0 \in DOMAIN devices /\ copy \in Device /\ Versioned(d0, copy)
  BY <1>1, <1>2 DEF SentinelInv, IsOp, DevicesAre
<1>5. /\ deviceRows' = [e \in DOMAIN deviceRows \cup {d0} |-> IF e = d0 THEN copy ELSE deviceRows[e]]
      /\ stale' = (stale \/ (d0 \in DOMAIN deviceRows /\ deviceRows[d0].ver > copy.ver))
  BY DEF UpsertDevice
<1>6. copy.ver \in Nat
  BY <1>4 DEF Device
<1>7. \A op \in Ops : op \notin Ops' => op.device = d0 /\ op.copy = copy
  BY <1>2
<1> HIDE DEF d0, copy
<1>8. /\ DOMAIN deviceRows' = DOMAIN deviceRows \cup {d0}
      /\ \A e \in DOMAIN deviceRows' : deviceRows'[e] = IF e = d0 THEN copy ELSE deviceRows[e]
  BY <1>5
<1>9. DevicesAre /\ \A e \in DOMAIN devices : devices[e].ver \in Nat
  BY DevicesShape DEF SentinelInv
<1>10. deviceRows' \in [DOMAIN deviceRows' -> Device] /\ DOMAIN deviceRows' \subseteq DOMAIN devices'
  BY <1>1, <1>4, <1>5, <1>8, <1>9 DEF DevicesAre
<1>11. \A e \in DOMAIN deviceRows' : Versioned(e, deviceRows[e])'
  BY <1>1, <1>4, <1>8, <1>9 DEF DevicesAre, Versioned
<1>12. \A op \in Ops' : op.op = "device" => Versioned(op.device, op.copy)'
  BY <1>1, <1>2, <1>9 DEF DevicesAre, Versioned
<1>13. ASSUME ~stale', NEW e \in DOMAIN devices' PROVE DeviceIs(e)'
  <2>1. DeviceIs(e) /\ ~stale
    BY <1>1, <1>5, <1>9, <1>13 DEF DevicesAre
  <2>2. CASE \E op \in Ops : op.op = "device" /\ op.device = e /\ op.copy.ver = devices[e].ver
    <3>1. PICK op \in Ops : op.op = "device" /\ op.device = e /\ op.copy.ver = devices[e].ver
      BY <2>2
    <3>2. CASE op \in Ops'
      BY <1>1, <3>1, <3>2 DEF DeviceIs
    <3>3. CASE op \notin Ops'
      BY <1>1, <1>7, <1>8, <3>1, <3>3 DEF DeviceIs
    <3> QED
      BY <3>2, <3>3
  <2>3. CASE e \in DOMAIN deviceRows /\ deviceRows[e].ver = devices[e].ver
    <3>1. CASE e = d0
      <4>1. ~(deviceRows[d0].ver > copy.ver)
        BY <1>5, <1>13, <2>3, <3>1
      <4>2. copy.ver = devices[e].ver
        BY <1>4, <1>6, <1>9, <2>3, <3>1, <4>1 DEF Versioned
      <4> QED
        BY <1>1, <1>8, <3>1, <4>2 DEF DeviceIs
    <3>2. CASE e # d0
      BY <1>1, <1>8, <2>3, <3>2 DEF DeviceIs
    <3> QED
      BY <3>1, <3>2
  <2> QED
    BY <2>1, <2>2, <2>3 DEF DeviceIs
<1>14. DevicesAre'
  BY <1>1, <1>9, <1>10, <1>11, <1>12, <1>13 DEF DevicesAre
<1> QED
  BY <1>2, <1>3, <1>14

-----------------------------------------------------------------------------
(* The steps.                                                              *)

Houses == {"unknown", "multiple_users", "home_occupied", "unknown_present", "nobody_home"}

LEMMA StatusIs == Status \in Houses
  BY DEF Status, Houses

LEMMA OpsStay ==
    ASSUME SentinelInv, Ops' \subseteq Ops, UNCHANGED <<rules, devices>>
    PROVE  \A op \in Ops' : IsOp(op)'
  BY OpStays DEF SentinelInv

(* A task of its own, or what comes first in it, has the rules evaluated.  *)
LEMMA RulesEvaluated ==
    ASSUME SentinelInv, NEW w, NEW news, NEW saves \in Saves(w, news), engine' = Evaluated(w, news),
           EnginesAre', UNCHANGED <<rules, devices, rows, dead, stale, events>>, house' \in Houses,
           TasksAre', ToSet(saves) \subseteq Ops', Ops' \subseteq Ops \cup ToSet(saves),
           \A op \in Ops : op.op \in {"situation", "device"} => op \in Ops'
    PROVE  SentinelInv'
<1>1. \A op \in ToSet(saves) : op.op = "situation"
  <2>1. \A change : SaveSituation(change).op = "situation"
    BY DEF SaveSituation
  <2> QED
    BY <2>1, SavesAre DEF SentinelInv
<1>2. SituationsAre' /\ \A op \in ToSet(saves) : IsOp(op)'
  BY <1>1, SituationsFed DEF rows
<1>3. \A op \in Ops' : IsOp(op)'
  BY <1>2, OpStays DEF SentinelInv
<1>4. DevicesAre'
  BY <1>1, DevicesRest DEF SentinelInv, rows
<1>5. OthersAre'
  BY DEF SentinelInv, OthersAre, Houses
<1> QED
  BY <1>2, <1>3, <1>4, <1>5 DEF SentinelInv

LEMMA FedNext ==
    ASSUME SentinelInv, NEW t \in Tasks, todo[t] # <<>>, First(t).op \notin {"situation", "device"},
           NEW object, NEW state, NEW news, FeedNext(t, object, state, news),
           UNCHANGED <<devices, rows, dead, stale, events>>, house' \in Houses
    PROVE  SentinelInv'
<1> DEFINE o == Observation(object, state)
           w == Push(window, o)
<1>1. Feed(o, news) /\ engine' = Evaluated(w, news) /\ rules' = rules
  BY DEF FeedNext, Feed
<1>2. PICK saves \in Saves(w, news) : Then(t, saves)
  BY DEF FeedNext
<1>3. EnginesAre'
  BY <1>1, FeedIs
<1> HIDE DEF w, o
<1>4. IsSeq(saves)
  BY SavesAre DEF SentinelInv
<1>5. /\ TasksAre' /\ ToSet(saves) \subseteq Ops' /\ Ops' \subseteq Ops \cup ToSet(saves)
      /\ Ops \subseteq Ops' \cup {First(t)}
  BY <1>2, <1>4, ThenIs DEF SentinelInv
<1> QED
  BY <1>1, <1>3, <1>5, RulesEvaluated

LEMMA HearOneInv ==
    ASSUME SentinelInv, NEW t \in Tasks, NEW news, HearOne(t, news) PROVE SentinelInv'
<1>1. /\ todo[t] # <<>> /\ First(t).op = "hear" /\ house' \in Houses
      /\ UNCHANGED <<devices, rows, dead, stale, events>>
      /\ FeedNext(t, First(t).what[1], First(t).what[2], news)
  BY DEF HearOne, Running, First, SentinelInv, OthersAre, Houses
<1> QED
  BY <1>1, FedNext

LEMMA RefreshPresenceInv ==
    ASSUME SentinelInv, NEW t \in Tasks, NEW news, RefreshPresence(t, news) PROVE SentinelInv'
<1>1. /\ todo[t] # <<>> /\ First(t).op = "refresh" /\ house' \in Houses
      /\ UNCHANGED <<devices, rows, dead, stale, events>>
      /\ FeedNext(t, "house", Status, news)
  BY StatusIs DEF RefreshPresence, Running, First
<1> QED
  BY <1>1, FedNext

LEMMA ApplyEventInv ==
    ASSUME SentinelInv, NEW t \in Tasks, NEW news, ApplyEvent(t, news) PROVE SentinelInv'
<1>1. /\ todo[t] # <<>> /\ First(t).op = "event" /\ house' \in Houses
      /\ UNCHANGED <<devices, rows, house, dead, stale, events>>
  BY DEF ApplyEvent, Running, First, SentinelInv, OthersAre, Houses
<1>2. CASE FeedNext(t, First(t).device, First(t).state, news)
  BY <1>1, <1>2, FedNext
<1>3. CASE Then(t, <<>>) /\ UNCHANGED correlationVars
  <2>1. TasksAre' /\ Ops' \subseteq Ops /\ Ops \subseteq Ops' \cup {First(t)}
    BY <1>1, <1>3, EmptyIs, ThenIs DEF SentinelInv
  <2>2. \A op \in Ops' : IsOp(op)'
    BY <1>1, <1>3, <2>1, OpsStay DEF correlationVars
  <2>3. SituationsAre'
    BY <1>1, <1>3, <2>1, SituationsRest DEF correlationVars, rows
  <2>4. DevicesAre'
    BY <1>1, <2>1, DevicesRest DEF SentinelInv, rows
  <2>5. EnginesAre' /\ OthersAre'
    BY <1>1, <1>3 DEF SentinelInv, EnginesAre, AgesIn, OthersAre, Houses, correlationVars
  <2> QED
    BY <2>1, <2>2, <2>3, <2>4, <2>5 DEF SentinelInv
<1> QED
  BY <1>2, <1>3 DEF ApplyEvent

LEMMA UpsertDeviceInv ==
    ASSUME SentinelInv, NEW t \in Tasks, UpsertDevice(t) PROVE SentinelInv'
<1>1. UNCHANGED <<correlationVars, devices, situations, house, dead, events>> /\ (~stale' => ~stale) /\ stale' \in BOOLEAN
  BY DEF UpsertDevice, SentinelInv, OthersAre
<1>2. DevicesAre' /\ TasksAre' /\ Ops' \subseteq Ops /\ \A op \in Ops : op.op # "device" => op \in Ops'
  BY DeviceStored
<1>3. \A op \in Ops' : IsOp(op)'
  BY <1>1, <1>2, OpsStay DEF correlationVars
<1>4. SituationsAre'
  BY <1>1, <1>2, SituationsRest DEF correlationVars
<1>5. EnginesAre' /\ OthersAre'
  BY <1>1 DEF SentinelInv, EnginesAre, AgesIn, OthersAre, correlationVars
<1> QED
  BY <1>2, <1>3, <1>4, <1>5 DEF SentinelInv

LEMMA SaveInv ==
    ASSUME SentinelInv, NEW t \in Tasks, Save(t) PROVE SentinelInv'
<1>1. UNCHANGED <<correlationVars, devices, deviceRows, house, dead, events>> /\ (~stale' => ~stale) /\ stale' \in BOOLEAN
  BY DEF Save, SentinelInv, OthersAre
<1>2. SituationsAre' /\ TasksAre' /\ Ops' \subseteq Ops /\ \A op \in Ops : op.op # "situation" => op \in Ops'
  BY SituationStored
<1>3. \A op \in Ops' : IsOp(op)'
  BY <1>1, <1>2, OpsStay DEF correlationVars
<1>4. DevicesAre'
  BY <1>1, <1>2, DevicesRest DEF SentinelInv
<1>5. EnginesAre' /\ OthersAre'
  BY <1>1 DEF SentinelInv, EnginesAre, AgesIn, OthersAre, correlationVars
<1> QED
  BY <1>2, <1>3, <1>4, <1>5 DEF SentinelInv

LEMMA QuietTickInv ==
    ASSUME SentinelInv, NEW news, QuietTick(news) PROVE SentinelInv'
<1> DEFINE o == Observation("house", Status)
           w == Push(window, o)
<1>1. /\ todo["presence"] = <<>> /\ house' = Status /\ Feed(o, news) /\ engine' = Evaluated(w, news) /\ rules' = rules
      /\ UNCHANGED <<devices, rows, dead, stale, events>>
  BY DEF QuietTick, Feed, Idle
<1>2. PICK saves \in Saves(w, news) : todo' = [todo EXCEPT !["presence"] = saves]
  BY DEF QuietTick
<1>3. EnginesAre'
  BY <1>1, FeedIs
<1> HIDE DEF w, o
<1>4. IsSeq(saves) /\ "presence" \in Tasks
  BY SavesAre DEF SentinelInv, Tasks, Ticks
<1>5. /\ TasksAre' /\ ToSet(saves) \subseteq Ops' /\ Ops' \subseteq Ops \cup ToSet(saves)
      /\ Ops \subseteq Ops' \cup ToSet(<<>>)
  BY <1>1, <1>2, <1>4, TodoReplaced DEF SentinelInv
<1>6. Ops \subseteq Ops'
  BY <1>5, EmptyIs
<1> QED
  BY <1>1, <1>3, <1>5, <1>6, StatusIs, RulesEvaluated

LEMMA CorrelationTickInv ==
    ASSUME SentinelInv, NEW news, CorrelationTick(news) PROVE SentinelInv'
<1>1. /\ todo["correlation"] = <<>> /\ engine' = Evaluated(window, news)
      /\ UNCHANGED <<rules, table, window, grace, devices, rows, house, dead, stale, events>>
  BY DEF CorrelationTick, Idle
<1>2. PICK saves \in Saves(window, news) : todo' = [todo EXCEPT !["correlation"] = saves]
  BY DEF CorrelationTick
<1>3. engine' \in [DOMAIN rules -> EngineRow]
  BY <1>1, EvaluatedTurns DEF SentinelInv
<1>4. EnginesAre'
  BY <1>1, <1>3 DEF SentinelInv, EnginesAre, AgesIn
<1>5. IsSeq(saves) /\ "correlation" \in Tasks /\ house' \in Houses
  BY <1>1, SavesAre DEF SentinelInv, Tasks, Ticks, OthersAre, Houses
<1>6. /\ TasksAre' /\ ToSet(saves) \subseteq Ops' /\ Ops' \subseteq Ops \cup ToSet(saves)
      /\ Ops \subseteq Ops' \cup ToSet(<<>>)
  BY <1>1, <1>2, <1>5, TodoReplaced DEF SentinelInv
<1>7. Ops \subseteq Ops'
  BY <1>6, EmptyIs
<1> QED
  BY <1>1, <1>4, <1>5, <1>6, <1>7, RulesEvaluated

LEMMA FaultInv ==
    ASSUME SentinelInv, NEW t \in Tasks, Fault(t) PROVE SentinelInv'
<1>1. /\ UNCHANGED <<correlationVars, devices, rows, house>> /\ stale' /\ stale' \in BOOLEAN
      /\ todo' = [todo EXCEPT ![t] = <<>>]
  BY DEF Fault
<1>2. TasksAre' /\ Ops' \subseteq Ops
  BY <1>1, EmptyIs, TodoReplaced DEF SentinelInv
<1>3. \A op \in Ops' : IsOp(op)'
  BY <1>1, <1>2, OpsStay DEF correlationVars
<1>4. SituationsAre'
  BY <1>1, <1>2, SituationsRest DEF correlationVars, rows
<1>5. DevicesAre'
  BY <1>1, <1>2, DevicesRest DEF SentinelInv, rows
<1>6. EnginesAre'
  BY <1>1 DEF SentinelInv, EnginesAre, AgesIn, correlationVars
<1>7. dead' \subseteq Ticks /\ events' \in 0..MaxEvents
  BY RuntimeAssumption DEF Fault, Event, SentinelInv, OthersAre, RuntimeAssumption
<1>8. OthersAre'
  BY <1>1, <1>7 DEF SentinelInv, OthersAre
<1> QED
  BY <1>2, <1>3, <1>4, <1>5, <1>6, <1>8 DEF SentinelInv

LEMMA RestartInv ==
    ASSUME SentinelInv, Restart PROVE SentinelInv'
<1>1. /\ devices' = deviceRows /\ UNCHANGED rows /\ todo' = [t \in Tasks |-> <<>>]
      /\ LoadRecent(situations) /\ UNCHANGED rules /\ engine' = [r \in DOMAIN rules |-> Restored(r, situations)]
      /\ stale' = (stale \/ Superseded)
  BY DEF Restart, LoadRecent
<1>2. Ops' = {} /\ TasksAre'
  <2>1. \A t \in Tasks : todo'[t] = <<>>
    BY <1>1
  <2>2. Ops' = {}
    BY <2>1, EmptyIs DEF Ops
  <2>3. TasksAre'
    BY <1>1, <2>1, EmptyIs DEF TasksAre
  <2> QED
    BY <2>2, <2>3
<1>3. SituationsAre'
  BY <1>1, <1>2, SituationsRestored DEF rows
<1>4. EnginesAre'
  BY <1>1, EnginesRestored
<1>5. DevicesAre'
  <2>1. /\ DOMAIN devices' = DOMAIN deviceRows /\ deviceRows' = deviceRows /\ IsFiniteSet(DOMAIN deviceRows)
        /\ DOMAIN deviceRows \subseteq Devices /\ deviceRows \in [DOMAIN deviceRows -> Device]
    <3>1. IsFiniteSet(DOMAIN devices) /\ DOMAIN deviceRows \in SUBSET DOMAIN devices
      BY DEF SentinelInv, DevicesAre
    <3>2. IsFiniteSet(DOMAIN deviceRows)
      BY <3>1, FS_Subset
    <3> QED
      BY <1>1, <3>2 DEF SentinelInv, DevicesAre, rows
  <2>2. \A d \in DOMAIN deviceRows' : Versioned(d, deviceRows[d])'
    BY <1>1, <2>1, DevicesShape DEF SentinelInv, Versioned
  <2>3. \A d \in DOMAIN devices' : DeviceIs(d)'
    BY <1>1, <2>1 DEF DeviceIs
  <2> QED
    BY <1>1, <1>2, <2>1, <2>2, <2>3 DEF DevicesAre
<1>6. house' = "unknown" /\ dead' \subseteq Ticks /\ events' \in 0..MaxEvents /\ stale' \in BOOLEAN
  <2>1. house' = "unknown" /\ dead' = {}
    BY DEF Restart
  <2>2. events' \in 0..MaxEvents
    BY RuntimeAssumption DEF Restart, Event, SentinelInv, OthersAre, RuntimeAssumption
  <2>3. stale' \in BOOLEAN
    BY <1>1 DEF SentinelInv, OthersAre
  <2> QED
    BY <2>1, <2>2, <2>3
<1>7. OthersAre'
  BY <1>6 DEF OthersAre
<1> QED
  BY <1>2, <1>3, <1>4, <1>5, <1>7 DEF SentinelInv

(* A device that has grown older is the same device.                       *)
LEMMA AgedIs ==
    ASSUME NEW device \in Device
    PROVE  Aged(device) \in Device /\ Aged(device).ver = device.ver /\ Aged(device).online = device.online
<1>1. OfflineAfter \in Nat
  BY RuntimeAssumption DEF RuntimeAssumption
<1>2. device.age \in 0..OfflineAfter + 1
  BY DEF Device
<1> DEFINE age == IF device.age <= OfflineAfter THEN device.age + 1 ELSE device.age
<1>3. age \in 0..OfflineAfter + 1
  BY <1>1, <1>2
<1>4. Aged(device) = [device EXCEPT !.age = age]
  BY DEF Aged
<1> HIDE DEF age
<1> QED
  BY <1>3, <1>4 DEF Device

LEMMA OpsAge ==
    ASSUME SentinelInv, Time
    PROVE  /\ TasksAre'
           /\ \A op \in Ops : AgedCopy(op) \in Ops'
           /\ \A op \in Ops' : \E old \in Ops : op = AgedCopy(old)
<1>1. todo' = [t \in Tasks |-> [k \in DOMAIN todo[t] |-> AgedCopy(todo[t][k])]]
  BY DEF Time
<1>2. \A t \in Tasks : /\ DOMAIN todo'[t] = DOMAIN todo[t]
                       /\ todo'[t] = [k \in DOMAIN todo'[t] |-> todo'[t][k]]
                       /\ \A k \in DOMAIN todo[t] : todo'[t][k] = AgedCopy(todo[t][k])
  BY <1>1
<1>3. ASSUME NEW t \in Tasks PROVE IsSeq(todo'[t])
  <2>1. PICK S : todo[t] \in Seq(S)
    BY DEF SentinelInv, TasksAre, IsSeq
  <2>2. Len(todo[t]) \in Nat /\ DOMAIN todo[t] = 1..Len(todo[t])
    BY <2>1, LenProperties
  <2> QED
    BY <1>2, <2>2, ListIs
<1>4. todo' = [t \in Tasks |-> todo'[t]]
  BY <1>1
<1>5. TasksAre'
  BY <1>3, <1>4 DEF TasksAre, IsSeq
<1>6. \A x : x \in Ops <=> \E t \in Tasks : \E k \in DOMAIN todo[t] : x = todo[t][k]
  BY DEF Ops, ToSet
<1>7. \A x : x \in Ops' <=> \E t \in Tasks : \E k \in DOMAIN todo'[t] : x = todo'[t][k]
  BY DEF Ops, ToSet
<1>8. \A op \in Ops : AgedCopy(op) \in Ops'
  <2> TAKE op \in Ops
  <2>1. PICK t \in Tasks : \E k \in DOMAIN todo[t] : op = todo[t][k]
    BY <1>6
  <2>2. PICK k \in DOMAIN todo[t] : op = todo[t][k]
    BY <2>1
  <2>3. k \in DOMAIN todo'[t] /\ todo'[t][k] = AgedCopy(op)
    BY <1>2, <2>2
  <2> QED
    BY <1>7, <2>3
<1>9. \A op \in Ops' : \E old \in Ops : op = AgedCopy(old)
  <2> TAKE op \in Ops'
  <2>1. PICK t \in Tasks : \E k \in DOMAIN todo'[t] : op = todo'[t][k]
    BY <1>7
  <2>2. PICK k \in DOMAIN todo'[t] : op = todo'[t][k]
    BY <2>1
  <2>3. todo[t][k] \in Ops /\ op = AgedCopy(todo[t][k])
    BY <1>2, <1>6, <2>2
  <2> QED
    BY <2>3
<1> QED
  BY <1>5, <1>8, <1>9

(* What an operation is after time has passed.                             *)
LEMMA AgedCopyIs ==
    ASSUME SentinelInv, NEW op \in Ops
    PROVE  /\ op.op # "device" => AgedCopy(op) = op
           /\ op.op = "device" => /\ AgedCopy(op).op = "device" /\ AgedCopy(op).device = op.device
                                  /\ AgedCopy(op) = SaveDevice(op.device, AgedCopy(op).copy)
                                  /\ op.device \in DOMAIN devices
                                  /\ AgedCopy(op).copy \in Device /\ AgedCopy(op).copy.ver = op.copy.ver
                                  /\ AgedCopy(op).copy.online = op.copy.online
<1>1. op.op # "device" => AgedCopy(op) = op
  BY DEF AgedCopy
<1>2. ASSUME op.op = "device"
      PROVE  /\ AgedCopy(op) = SaveDevice(op.device, Aged(op.copy))
             /\ op.device \in DOMAIN devices /\ op.copy \in Device
  <2>1. op.device \in DOMAIN devices /\ op.copy \in Device /\ op = SaveDevice(op.device, op.copy)
    BY <1>2 DEF SentinelInv, IsOp
  <2>2. AgedCopy(op) = [op EXCEPT !.copy = Aged(op.copy)]
    BY <1>2 DEF AgedCopy
  <2>3. \A d, copy, new : [SaveDevice(d, copy) EXCEPT !.copy = new] = SaveDevice(d, new)
    BY DEF SaveDevice
  <2> QED
    BY <2>1, <2>2, <2>3
<1>3. \A d, copy : /\ SaveDevice(d, copy).op = "device" /\ SaveDevice(d, copy).device = d
                   /\ SaveDevice(d, copy).copy = copy
  BY DEF SaveDevice
<1>4. CASE op.op = "device"
  BY <1>2, <1>3, <1>4, AgedIs
<1> QED
  BY <1>1, <1>4

LEMMA DevicesAge ==
    ASSUME SentinelInv, Time PROVE DevicesAre'
<1>1. /\ devices' = [d \in DOMAIN devices |-> Aged(devices[d])]
      /\ deviceRows' = [d \in DOMAIN deviceRows |-> Aged(deviceRows[d])]
      /\ stale' = stale
  BY DEF Time
<1>2. /\ \A op \in Ops : AgedCopy(op) \in Ops'
      /\ \A op \in Ops' : \E old \in Ops : op = AgedCopy(old)
  BY OpsAge
<1>3. DevicesAre
  BY DEF SentinelInv
<1>4. /\ \A d \in DOMAIN devices : /\ devices'[d] \in Device /\ devices'[d].ver = devices[d].ver
                                   /\ devices'[d].online = devices[d].online
      /\ \A d \in DOMAIN deviceRows : /\ deviceRows'[d] \in Device /\ deviceRows'[d].ver = deviceRows[d].ver
                                      /\ deviceRows'[d].online = deviceRows[d].online
  BY <1>1, <1>3, DevicesShape, AgedIs
<1>5. DOMAIN devices' = DOMAIN devices /\ DOMAIN deviceRows' = DOMAIN deviceRows
  BY <1>1
<1>6. \A d \in DOMAIN deviceRows' : Versioned(d, deviceRows[d])'
  BY <1>3, <1>4, <1>5 DEF DevicesAre, Versioned
<1>7. \A op \in Ops' : op.op = "device" => Versioned(op.device, op.copy)'
  <2> TAKE op \in Ops'
  <2> HAVE op.op = "device"
  <2>1. PICK old \in Ops : op = AgedCopy(old)
    BY <1>2
  <2>2. /\ old.op = "device" /\ op.device = old.device /\ op.device \in DOMAIN devices
        /\ op.copy.ver = old.copy.ver /\ op.copy.online = old.copy.online
    BY <2>1, AgedCopyIs
  <2>3. Versioned(old.device, old.copy)
    BY <1>3, <2>2 DEF DevicesAre
  <2> QED
    BY <1>4, <2>2, <2>3 DEF Versioned
<1>8. ASSUME ~stale', NEW d \in DOMAIN devices' PROVE DeviceIs(d)'
  <2>1. DeviceIs(d)
    BY <1>1, <1>3, <1>5, <1>8 DEF DevicesAre
  <2>2. CASE d \in DOMAIN deviceRows /\ deviceRows[d].ver = devices[d].ver
    BY <1>4, <1>5, <1>8, <2>2 DEF DeviceIs
  <2>3. CASE \E op \in Ops : op.op = "device" /\ op.device = d /\ op.copy.ver = devices[d].ver
    <3>1. PICK op \in Ops : op.op = "device" /\ op.device = d /\ op.copy.ver = devices[d].ver
      BY <2>3
    <3>2. /\ AgedCopy(op) \in Ops' /\ AgedCopy(op).op = "device" /\ AgedCopy(op).device = d
          /\ AgedCopy(op).copy.ver = devices'[d].ver
      BY <1>2, <1>4, <1>5, <1>8, <3>1, AgedCopyIs
    <3> QED
      BY <3>2 DEF DeviceIs
  <2> QED
    BY <2>1, <2>2, <2>3 DEF DeviceIs
<1>9. devices' \in [DOMAIN devices' -> Device] /\ deviceRows' \in [DOMAIN deviceRows' -> Device]
  BY <1>1, <1>4, <1>5
<1> QED
  BY <1>3, <1>5, <1>6, <1>7, <1>8, <1>9 DEF DevicesAre

LEMMA TimeInv ==
    ASSUME SentinelInv, Time PROVE SentinelInv'
<1>1. CorrelationTime /\ rules' = rules /\ UNCHANGED <<situations, house, dead, stale, events>>
  BY DEF Time, CorrelationTime
<1>2. /\ TasksAre' /\ \A op \in Ops : AgedCopy(op) \in Ops'
      /\ \A op \in Ops' : \E old \in Ops : op = AgedCopy(old)
  BY OpsAge
<1>3. DevicesAre' /\ DOMAIN devices' = DOMAIN devices
  BY DevicesAge DEF Time
<1>4. EnginesAre'
  BY <1>1, EnginesAge
<1>5. \A op \in Ops' : op.op = "situation" => op \in Ops
  BY <1>2, AgedCopyIs
<1>6. \A op \in Ops : op.op = "situation" => op \in Ops'
  BY <1>2, AgedCopyIs
<1>7. SituationsAre'
  <2>1. \A r \in DOMAIN rules : /\ engine'[r].n = engine[r].n /\ engine'[r].ids = engine[r].ids
                                /\ engine'[r].active = engine[r].active
    BY <1>1, EnginesAge
  <2>2. UNCHANGED <<rules, situations>> /\ (~stale' => ~stale)
    BY <1>1
  <2> HIDE DEF SituationsAre
  <2> QED
    BY <1>5, <1>6, <2>1, <2>2, SituationsRest
<1>8. \A op \in Ops' : IsOp(op)'
  <2> TAKE op \in Ops'
  <2>1. PICK old \in Ops : op = AgedCopy(old)
    BY <1>2
  <2>2. IsOp(old)
    BY DEF SentinelInv
  <2>3. CASE old.op # "device"
    BY <1>1, <1>3, <2>1, <2>2, <2>3, AgedCopyIs, OpStays
  <2>4. CASE old.op = "device"
    BY <1>3, <2>1, <2>4, AgedCopyIs DEF IsOp
  <2> QED
    BY <2>3, <2>4
<1>9. OthersAre'
  BY <1>1 DEF SentinelInv, OthersAre
<1> QED
  BY <1>2, <1>3, <1>4, <1>7, <1>8, <1>9 DEF SentinelInv

(* An observation of a device, and the event it is.                        *)
LEMMA SightedIs ==
    ASSUME DevicesAre, NEW d, NEW state, NEW news \in BOOLEAN
    PROVE  /\ Sighted(d, state) \in Device
           /\ d \in DOMAIN devices =>
                /\ Sighted(d, state).ver >= devices[d].ver
                /\ Sighted(d, state).ver = devices[d].ver <=> Sighted(d, state).online = devices[d].online
                /\ EventOf(d, state, news) = <<>> => Sighted(d, state).online = devices[d].online
           /\ EventOf(d, state, news) \in {<<>>, <<"joined">>, <<"left">>, <<"seen">>}
<1> DEFINE old == IF d \in DOMAIN devices THEN devices[d] ELSE Absent
           online == state \in OnlineStates
           new == Sighted(d, state)
<1>1. old \in Device /\ old.ver \in Nat /\ old.online \in BOOLEAN /\ old.age \in 0..OfflineAfter + 1
  <2>1. Absent \in Device
    BY RuntimeAssumption DEF Absent, Device, RuntimeAssumption
  <2>2. old \in Device
    BY <2>1, DevicesShape
  <2> HIDE DEF old
  <2> QED
    BY <2>2 DEF Device
<1>2. online \in BOOLEAN
  BY DEF OnlineStates
<1>3. new = [online |-> online, age |-> IF online THEN 0 ELSE old.age,
             ver |-> IF online # old.online THEN old.ver + 1 ELSE old.ver]
  BY DEF Sighted
<1>4. d \in DOMAIN devices => old = devices[d]
  OBVIOUS
<1> HIDE DEF old, online, new
<1>5. new.online = online /\ new.ver = IF online # old.online THEN old.ver + 1 ELSE old.ver
  BY <1>3
<1>6. new \in Device
  <2>1. 0 \in 0..OfflineAfter + 1
    BY RuntimeAssumption DEF RuntimeAssumption
  <2>2. (IF online THEN 0 ELSE old.age) \in 0..OfflineAfter + 1
    BY <1>1, <2>1
  <2>3. (IF online # old.online THEN old.ver + 1 ELSE old.ver) \in Nat
    BY <1>1
  <2> QED
    BY <1>2, <1>3, <2>2, <2>3 DEF Device
<1>7. new.ver >= old.ver /\ (new.ver = old.ver <=> new.online = old.online)
  BY <1>1, <1>5
<1>8. EventOf(d, state, news) \in {<<>>, <<"joined">>, <<"left">>, <<"seen">>}
  BY DEF EventOf
<1>9. ASSUME d \in DOMAIN devices, EventOf(d, state, news) = <<>> PROVE new.online = old.online
  <2> DEFINE was == d \in DOMAIN devices /\ devices[d].online
             is == Sighted(d, state).online
  <2>1. was = old.online /\ is = new.online
    BY <1>1, <1>4, <1>9 DEF new
  <2>2. ~(is /\ ~was)
    <3>1. is /\ ~was => EventOf(d, state, news) = <<"joined">>
      BY DEF EventOf
    <3> QED
      BY <1>9, <3>1
  <2>3. ~(was /\ ~is)
    <3>1. was /\ ~is => EventOf(d, state, news) = <<"left">>
      BY DEF EventOf
    <3> QED
      BY <1>9, <3>1
  <2> HIDE DEF was, is
  <2> QED
    BY <1>1, <1>2, <1>5, <2>1, <2>2, <2>3
<1> QED
  BY <1>4, <1>6, <1>7, <1>8, <1>9 DEF new

OpsOf(d, state, saved, happened) ==
    (IF saved THEN <<SaveDevice(d, Sighted(d, state))>> ELSE <<>>)
    \o [k \in DOMAIN happened |-> Announce(d, happened[k])]
    \o <<Hear(d, state)>>
    \o [k \in DOMAIN happened |-> Refresh]

LEMMA IngestTodo ==
    ASSUME NEW d, NEW state, NEW saved \in BOOLEAN, NEW happened \in {<<>>, <<"joined">>, <<"left">>, <<"seen">>},
           NEW list, list = OpsOf(d, state, saved, happened)
    PROVE  /\ IsSeq(list)
           /\ saved => SaveDevice(d, Sighted(d, state)) \in ToSet(list)
           /\ \A op \in ToSet(list) : \/ op.op \in {"event", "hear", "refresh"}
                                      \/ op = SaveDevice(d, Sighted(d, state))
<1> DEFINE save == SaveDevice(d, Sighted(d, state))
           saves == IF saved THEN <<save>> ELSE <<>>
           announces == [k \in DOMAIN happened |-> Announce(d, happened[k])]
           hears == <<Hear(d, state)>>
           refreshes == [k \in DOMAIN happened |-> Refresh]
<1>1. list = saves \o announces \o hears \o refreshes
  BY DEF OpsOf
<1>2. PICK m \in {0, 1} : DOMAIN happened = 1..m
  OBVIOUS
<1>3. IsSeq(saves) /\ ToSet(saves) \subseteq {save} /\ (saved => save \in ToSet(saves))
  BY EmptyIs, OneIs
<1>4. IsSeq(announces) /\ \A op \in ToSet(announces) : op.op = "event"
  <2>1. DOMAIN announces = 1..m /\ announces = [k \in DOMAIN announces |-> announces[k]] /\ m \in Nat
    BY <1>2
  <2>2. \A k \in DOMAIN announces : announces[k].op = "event"
    BY DEF Announce
  <2> HIDE DEF announces
  <2>3. IsSeq(announces)
    BY <2>1, ListIs
  <2> QED
    BY <2>2, <2>3 DEF ToSet
<1>5. IsSeq(hears) /\ \A op \in ToSet(hears) : op.op = "hear"
  BY OneIs DEF Hear
<1>6. IsSeq(refreshes) /\ \A op \in ToSet(refreshes) : op.op = "refresh"
  <2>1. DOMAIN refreshes = 1..m /\ refreshes = [k \in DOMAIN refreshes |-> refreshes[k]] /\ m \in Nat
    BY <1>2
  <2>2. \A k \in DOMAIN refreshes : refreshes[k].op = "refresh"
    BY DEF Refresh
  <2> HIDE DEF refreshes
  <2>3. IsSeq(refreshes)
    BY <2>1, ListIs
  <2> QED
    BY <2>2, <2>3 DEF ToSet
<1> HIDE DEF saves, announces, hears, refreshes, save
<1>7. IsSeq(saves \o announces) /\ ToSet(saves \o announces) = ToSet(saves) \cup ToSet(announces)
  BY <1>3, <1>4, ConcatIs
<1>8. /\ IsSeq(saves \o announces \o hears)
      /\ ToSet(saves \o announces \o hears) = ToSet(saves) \cup ToSet(announces) \cup ToSet(hears)
  BY <1>5, <1>7, ConcatIs
<1>9. /\ IsSeq(list)
      /\ ToSet(list) = ToSet(saves) \cup ToSet(announces) \cup ToSet(hears) \cup ToSet(refreshes)
  BY <1>1, <1>6, <1>8, ConcatIs
<1> QED
  BY <1>3, <1>4, <1>5, <1>6, <1>9 DEF save

(* The trackers change devices, and the task's operations are list.        *)
LEMMA Tracked ==
    ASSUME SentinelInv, NEW t \in Tasks, todo[t] = <<>>, NEW list, IsSeq(list), todo' = [todo EXCEPT ![t] = list],
           NEW new, devices' = [d \in DOMAIN new |-> new[d]],
           DOMAIN devices \subseteq DOMAIN new, IsFiniteSet(DOMAIN new), DOMAIN new \subseteq Devices,
           \A d \in DOMAIN new : new[d] \in Device,
           \A d \in DOMAIN devices : /\ new[d].ver >= devices[d].ver
                                     /\ new[d].ver = devices[d].ver => new[d].online = devices[d].online,
           \A d \in DOMAIN new :
                \/ d \in DOMAIN devices /\ new[d].ver = devices[d].ver
                \/ SaveDevice(d, new[d]) \in ToSet(list),
           \A op \in ToSet(list) :
                \/ op.op \in {"event", "hear", "refresh"}
                \/ \E d \in DOMAIN new : op = SaveDevice(d, new[d]),
           UNCHANGED <<correlationVars, rows, house, dead, stale>>, events' \in 0..MaxEvents
    PROVE  SentinelInv'
<1>1. /\ TasksAre' /\ ToSet(list) \subseteq Ops' /\ Ops' \subseteq Ops \cup ToSet(list)
      /\ Ops \subseteq Ops' \cup ToSet(<<>>)
  BY TodoReplaced DEF SentinelInv
<1>2. Ops \subseteq Ops'
  BY <1>1, EmptyIs
<1>3. \A d, copy : /\ SaveDevice(d, copy).op = "device" /\ SaveDevice(d, copy).device = d
                   /\ SaveDevice(d, copy).copy = copy
  BY DEF SaveDevice
<1>4. \A op \in ToSet(list) : /\ op.op \in {"event", "hear", "refresh", "device"}
                              /\ op.op = "device" => /\ op.device \in DOMAIN new /\ op.copy = new[op.device]
                                                     /\ op = SaveDevice(op.device, op.copy)
  BY <1>3
<1>5. DOMAIN devices' = DOMAIN new
  OBVIOUS
<1>6. \A op \in Ops' : IsOp(op)'
  <2> TAKE op \in Ops'
  <2>1. CASE op \in Ops
    BY <1>5, <2>1, OpStays DEF SentinelInv, correlationVars
  <2>2. CASE op \in ToSet(list)
    BY <1>4, <1>5, <2>2 DEF IsOp
  <2> QED
    BY <1>1, <2>1, <2>2
<1>7. DevicesAre'
  <2>1. \A op \in Ops : op.op = "device" => op.device \in DOMAIN devices /\ op.copy \in Device
    BY DEF SentinelInv, IsOp
  <2>2. \A op \in Ops' : op.op = "device" => op \in Ops \/ (op.device \in DOMAIN new /\ op.copy = new[op.device])
    BY <1>1, <1>4
  <2>3. \A d \in DOMAIN new : \/ d \in DOMAIN devices /\ new[d].ver = devices[d].ver
                              \/ SaveDevice(d, new[d]) \in Ops'
    BY <1>1
  <2>4. DevicesAre /\ UNCHANGED <<deviceRows, stale>> /\ \A op \in Ops : op \in Ops'
    BY <1>2 DEF SentinelInv, rows
  <2> QED
    BY <2>1, <2>2, <2>3, <2>4, DevicesChange
<1>8. SituationsAre'
  BY <1>1, <1>2, <1>4, SituationsRest DEF correlationVars, rows
<1>9. EnginesAre' /\ OthersAre'
  BY DEF SentinelInv, EnginesAre, AgesIn, OthersAre, correlationVars
<1> QED
  BY <1>1, <1>6, <1>7, <1>8, <1>9 DEF SentinelInv

LEMMA IngestInv ==
    ASSUME SentinelInv, NEW o \in Tasks, NEW what, NEW news \in BOOLEAN, Ingest(o, what, news)
    PROVE  SentinelInv'
<1> DEFINE d == what[1]
           happened == EventOf(d, what[2], news)
           saved == d \notin DOMAIN devices \/ happened # <<>>
           save == SaveDevice(d, Sighted(d, what[2]))
<1>1. /\ todo[o] = <<>> /\ UNCHANGED <<correlationVars, rows, house, dead, stale>>
  BY DEF Ingest, Idle
<1>2. events' \in 0..MaxEvents
  BY RuntimeAssumption DEF Ingest, Event, SentinelInv, OthersAre, RuntimeAssumption
<1>3. DevicesAre /\ IsFiniteSet(DOMAIN devices) /\ DOMAIN devices \subseteq Devices
  BY DEF SentinelInv, DevicesAre
<1>4. CASE d \in Devices
  <2> DEFINE list == (IF saved THEN <<save>> ELSE <<>>)
                     \o [k \in DOMAIN happened |-> Announce(d, happened[k])]
                     \o <<Hear(d, what[2])>>
                     \o [k \in DOMAIN happened |-> Refresh]
             new == [e \in DOMAIN devices \cup {d} |-> IF e = d THEN Sighted(d, what[2]) ELSE devices[e]]
  <2>1. devices' = new /\ todo' = [todo EXCEPT ![o] = list]
    BY <1>4 DEF Ingest
  <2>2. /\ Sighted(d, what[2]) \in Device
        /\ d \in DOMAIN devices =>
             /\ Sighted(d, what[2]).ver >= devices[d].ver
             /\ Sighted(d, what[2]).ver = devices[d].ver <=> Sighted(d, what[2]).online = devices[d].online
             /\ happened = <<>> => Sighted(d, what[2]).online = devices[d].online
        /\ happened \in {<<>>, <<"joined">>, <<"left">>, <<"seen">>}
    BY <1>3, SightedIs
  <2>3. /\ IsSeq(list) /\ (saved => save \in ToSet(list))
        /\ \A op \in ToSet(list) : op.op \in {"event", "hear", "refresh"} \/ op = save
    <3> HIDE DEF happened
    <3>1. saved \in BOOLEAN
      OBVIOUS
    <3> HIDE DEF saved
    <3>2. list = OpsOf(d, what[2], saved, happened)
      BY DEF OpsOf
    <3>3. happened \in {<<>>, <<"joined">>, <<"left">>, <<"seen">>}
      BY <2>2
    <3> HIDE DEF list, d
    <3> QED
      BY <3>1, <3>2, <3>3, IngestTodo
  <2>4. DOMAIN new = DOMAIN devices \cup {d} /\ new = [e \in DOMAIN new |-> new[e]]
    OBVIOUS
  <2>5. new[d] = Sighted(d, what[2]) /\ \A e \in DOMAIN devices : e # d => new[e] = devices[e]
    OBVIOUS
  <2>6. IsFiniteSet(DOMAIN new) /\ DOMAIN new \subseteq Devices
    BY <1>3, <1>4, <2>4, FS_AddElement
  <2> HIDE DEF list, new, happened
  <2>7. \A e \in DOMAIN new : new[e] \in Device
    BY <1>3, <2>2, <2>4, <2>5, DevicesShape
  <2>8. \A e \in DOMAIN devices : /\ new[e].ver >= devices[e].ver
                                  /\ new[e].ver = devices[e].ver => new[e].online = devices[e].online
    <3> TAKE e \in DOMAIN devices
    <3>1. CASE e = d
      BY <2>2, <2>5, <3>1
    <3>2. CASE e # d
      BY <1>3, <2>5, <3>2, DevicesShape
    <3> QED
      BY <3>1, <3>2
  <2>9. \A e \in DOMAIN new : \/ e \in DOMAIN devices /\ new[e].ver = devices[e].ver
                              \/ SaveDevice(e, new[e]) \in ToSet(list)
    BY <2>2, <2>3, <2>4, <2>5
  <2>10. \A op \in ToSet(list) : \/ op.op \in {"event", "hear", "refresh"}
                                 \/ \E e \in DOMAIN new : op = SaveDevice(e, new[e])
    BY <2>3, <2>4, <2>5
  <2>11. devices' = [e \in DOMAIN new |-> new[e]] /\ DOMAIN devices \subseteq DOMAIN new
    BY <2>1, <2>4
  <2> QED
    BY <1>1, <1>2, <2>1, <2>3, <2>6, <2>7, <2>8, <2>9, <2>10, <2>11, Tracked
<1>5. CASE d \notin Devices
  <2> DEFINE list == <<Hear(what[1], what[2])>>
  <2>1. devices' = devices /\ todo' = [todo EXCEPT ![o] = list]
    BY <1>5 DEF Ingest
  <2>2. IsSeq(list) /\ \A op \in ToSet(list) : op.op \in {"event", "hear", "refresh"}
    BY OneIs DEF Hear
  <2>3. devices' = [e \in DOMAIN devices |-> devices[e]]
    BY <1>3, <2>1, DevicesShape
  <2>4. \A e \in DOMAIN devices : devices[e] \in Device /\ devices[e].ver >= devices[e].ver
    BY <1>3, DevicesShape
  <2> HIDE DEF list
  <2> QED
    BY <1>1, <1>2, <1>3, <2>1, <2>2, <2>3, <2>4, Tracked
<1> QED
  BY <1>4, <1>5

LEMMA LeftIs ==
    ASSUME DevicesAre, NEW d \in DOMAIN devices
    PROVE  Left(d) \in Device /\ Left(d).ver = devices[d].ver + 1
<1> DEFINE old == devices[d]
<1>1. old \in Device
  BY DevicesShape
<1>2. Left(d) = [old EXCEPT !.online = FALSE, !.ver = old.ver + 1]
  BY DEF Left
<1> HIDE DEF old
<1>3. old = [online |-> old.online, age |-> old.age, ver |-> old.ver] /\ old.ver \in Nat /\ old.age \in 0..OfflineAfter + 1
  BY <1>1 DEF Device
<1>4. Left(d) = [online |-> FALSE, age |-> old.age, ver |-> old.ver + 1]
  BY <1>2, <1>3
<1> QED
  BY <1>3, <1>4 DEF Device, old

LEMMA PresenceTickInv ==
    ASSUME SentinelInv, NEW order \in Orders, PresenceTick(order) PROVE SentinelInv'
<1> DEFINE g == Cardinality(Gone)
           saves == [k \in DOMAIN order |-> SaveDevice(order[k], Left(order[k]))]
           announces == [k \in DOMAIN order |-> Announce(order[k], "left")]
           refreshes == <<Refresh>>
           list == saves \o announces \o refreshes
           new == [d \in DOMAIN devices |-> IF d \in Gone THEN Left(d) ELSE devices[d]]
<1>1. /\ todo["presence"] = <<>> /\ UNCHANGED <<correlationVars, rows, house, dead, stale, events>>
      /\ devices' = new /\ todo' = [todo EXCEPT !["presence"] = list]
  BY DEF PresenceTick, Idle
<1>2. DevicesAre /\ IsFiniteSet(DOMAIN devices) /\ DOMAIN devices \subseteq Devices
  BY DEF SentinelInv, DevicesAre
<1>3. Gone \in SUBSET DOMAIN devices
  BY DEF Gone
<1>4. IsFiniteSet(Gone) /\ g \in Nat
  BY <1>2, <1>3, FS_Subset, FS_CardinalityType
<1>5. order \in [1..g -> Gone] /\ \A d \in Gone : \E k \in 1..g : order[k] = d
  <2>1. order \in Injection(1..g, Gone)
    BY DEF Orders, Injection
  <2>2. IsFiniteSet(1..g) /\ Cardinality(1..g) = g
    BY <1>4, FS_Interval
  <2>3. order \in Surjection(1..g, Gone)
    BY <1>4, <2>1, <2>2, FS_Injection
  <2> QED
    BY <2>1, <2>3 DEF Injection, Surjection
<1>6. IsSeq(saves) /\ ToSet(saves) = {SaveDevice(d, Left(d)) : d \in Gone}
  <2>1. DOMAIN saves = 1..g /\ saves = [k \in DOMAIN saves |-> saves[k]]
    BY <1>5
  <2>2. \A k \in 1..g : saves[k] = SaveDevice(order[k], Left(order[k]))
    BY <1>5
  <2> HIDE DEF saves, g
  <2>3. IsSeq(saves)
    BY <1>4, <2>1, ListIs
  <2> QED
    BY <1>5, <2>1, <2>2, <2>3 DEF ToSet
<1>7. IsSeq(announces) /\ \A op \in ToSet(announces) : op.op = "event"
  <2>1. DOMAIN announces = 1..g /\ announces = [k \in DOMAIN announces |-> announces[k]]
    BY <1>5
  <2>2. \A k \in 1..g : announces[k].op = "event"
    BY <1>5 DEF Announce
  <2> HIDE DEF announces, g
  <2>3. IsSeq(announces)
    BY <1>4, <2>1, ListIs
  <2> QED
    BY <2>1, <2>2, <2>3 DEF ToSet
<1>8. IsSeq(refreshes) /\ \A op \in ToSet(refreshes) : op.op = "refresh"
  BY OneIs DEF Refresh
<1>9. DOMAIN new = DOMAIN devices /\ new = [d \in DOMAIN new |-> new[d]]
      /\ \A d \in DOMAIN devices : new[d] = IF d \in Gone THEN Left(d) ELSE devices[d]
  OBVIOUS
<1> HIDE DEF saves, announces, refreshes, new
<1>10. IsSeq(saves \o announces) /\ ToSet(saves \o announces) = ToSet(saves) \cup ToSet(announces)
  BY <1>6, <1>7, ConcatIs
<1>11. IsSeq(list) /\ ToSet(list) = ToSet(saves) \cup ToSet(announces) \cup ToSet(refreshes)
  BY <1>8, <1>10, ConcatIs
<1> HIDE DEF list
<1>12. \A d \in DOMAIN new : new[d] \in Device
  BY <1>2, <1>9, DevicesShape, LeftIs
<1>13. \A d \in DOMAIN devices : /\ new[d].ver >= devices[d].ver
                                 /\ new[d].ver = devices[d].ver => new[d].online = devices[d].online
  <2> TAKE d \in DOMAIN devices
  <2>1. CASE d \in Gone
    BY <1>2, <1>9, <2>1, DevicesShape, LeftIs
  <2>2. CASE d \notin Gone
    BY <1>2, <1>9, <2>2, DevicesShape
  <2> QED
    BY <2>1, <2>2
<1>14. \A d \in DOMAIN new : \/ d \in DOMAIN devices /\ new[d].ver = devices[d].ver
                             \/ SaveDevice(d, new[d]) \in ToSet(list)
  BY <1>6, <1>9, <1>11
<1>15. \A op \in ToSet(list) : \/ op.op \in {"event", "hear", "refresh"}
                               \/ \E d \in DOMAIN new : op = SaveDevice(d, new[d])
  BY <1>3, <1>6, <1>7, <1>8, <1>9, <1>11
<1>16. /\ devices' = [d \in DOMAIN new |-> new[d]] /\ DOMAIN devices \subseteq DOMAIN new
       /\ IsFiniteSet(DOMAIN new) /\ DOMAIN new \subseteq Devices
  BY <1>1, <1>2, <1>9
<1>17. events' \in 0..MaxEvents /\ "presence" \in Tasks
  BY <1>1 DEF SentinelInv, OthersAre, Tasks, Ticks
<1> QED
  BY <1>1, <1>11, <1>12, <1>13, <1>14, <1>15, <1>16, <1>17, Tracked

-----------------------------------------------------------------------------
LEMMA SentinelInvInit == Init => SentinelInv
<1> SUFFICES ASSUME Init PROVE SentinelInv
  OBVIOUS
<1>1. /\ rules \in RuleFiles /\ table = <<>> /\ window = <<>> /\ grace = Grace
      /\ engine = [r \in DOMAIN rules |-> Dormant]
      /\ devices = [d \in {} |-> Absent] /\ deviceRows = [d \in {} |-> Absent]
      /\ house = "unknown" /\ situations = {} /\ todo = [t \in Tasks |-> <<>>]
      /\ dead = {} /\ stale = FALSE /\ events = 0
  BY DEF Init, CorrelationInit
<1>2. EnginesAre
  <2>1. IsSeq(<<>>) /\ Len(<<>>) <= WindowSize /\ AgesIn(<<>>)
    BY EmptyIs, CorrelationAssumption DEF AgesIn, CorrelationAssumption
  <2>2. Dormant \in EngineRow /\ grace \in 0..Grace
    BY <1>1, CorrelationAssumption DEF Dormant, EngineRow, CorrelationAssumption
  <2> QED
    BY <1>1, <2>1, <2>2 DEF EnginesAre
<1>3. OthersAre
  <2>1. 0 \in 0..MaxEvents /\ dead \subseteq Ticks
    BY <1>1, RuntimeAssumption DEF RuntimeAssumption
  <2>2. house = "unknown" /\ stale \in BOOLEAN /\ events = 0
    BY <1>1
  <2> QED
    BY <2>1, <2>2 DEF OthersAre
<1>4. TasksAre /\ Ops = {}
  <2>1. \A t \in Tasks : todo[t] = <<>>
    BY <1>1
  <2> QED
    BY <1>1, <2>1, EmptyIs DEF TasksAre, Ops
<1>5. SituationsAre
  <2>1. \A r \in DOMAIN rules : engine[r].n = 0 /\ engine[r].ids = 0 /\ ~engine[r].active
    BY <1>1 DEF Dormant
  <2>2. \A r \in DOMAIN rules, n \in Nat : SituationIs(r, n)
    BY <1>1, <1>4, <2>1 DEF SituationIs, Live, Saving, IsStored
  <2> QED
    BY <1>1, <1>4, <2>1, <2>2 DEF SituationsAre
<1>6. DevicesAre
  <2>1. DOMAIN devices = {} /\ DOMAIN deviceRows = {} /\ IsFiniteSet({})
    BY <1>1, FS_EmptySet
  <2> QED
    BY <1>1, <1>4, <2>1 DEF DevicesAre
<1> QED
  BY <1>2, <1>3, <1>4, <1>5, <1>6 DEF SentinelInv

LEMMA SentinelInvNext == SentinelInv /\ [Next]_vars => SentinelInv'
<1> SUFFICES ASSUME SentinelInv, [Next]_vars PROVE SentinelInv'
  OBVIOUS
<1>1. ASSUME NEW finding \in Findings, NEW what \in Collected(finding), NEW news \in BOOLEAN,
             Ingest(finding.observer, what, news)
      PROVE  SentinelInv'
  <2>1. finding.observer \in Tasks
    BY DEF Tasks, Observers
  <2> QED
    BY <1>1, <2>1, IngestInv
<1>2. ASSUME NEW t \in Tasks, NEW news \in News, Step(t, news) PROVE SentinelInv'
  BY <1>2, HearOneInv, UpsertDeviceInv, ApplyEventInv, RefreshPresenceInv, SaveInv DEF Step
<1>3. ASSUME NEW news \in News, Tick(news) PROVE SentinelInv'
  BY <1>3, PresenceTickInv, QuietTickInv DEF Tick
<1>4. ASSUME NEW news \in News, CorrelationTick(news) PROVE SentinelInv'
  BY <1>4, CorrelationTickInv
<1>5. CASE Time
  BY <1>5, TimeInv
<1>6. CASE Restart
  BY <1>6, RestartInv
<1>7. ASSUME NEW t \in Tasks, Fault(t) PROVE SentinelInv'
  BY <1>7, FaultInv
<1>8. CASE UNCHANGED vars
  <2>1. /\ UNCHANGED <<rules, table, window, grace, engine, house, dead, stale, events>>
        /\ UNCHANGED <<todo, situations, devices, deviceRows>>
    BY <1>8 DEF vars, correlationVars, rows, taskVars
  <2>2. Ops' = Ops /\ TasksAre'
    BY <2>1 DEF SentinelInv, Ops, TasksAre
  <2>3. SituationsAre'
    BY <2>1, <2>2, SituationsRest
  <2>4. DevicesAre'
    BY <2>1, <2>2, DevicesRest DEF SentinelInv
  <2>5. EnginesAre' /\ OthersAre'
    BY <2>1 DEF SentinelInv, EnginesAre, AgesIn, OthersAre
  <2>6. \A op \in Ops' : IsOp(op)'
    BY <2>1, <2>2, OpsStay
  <2> QED
    BY <2>2, <2>3, <2>4, <2>5, <2>6 DEF SentinelInv
<1> QED
  BY <1>1, <1>2, <1>3, <1>4, <1>5, <1>6, <1>7, <1>8 DEF Next

(* TypeOK, and what is stored is what the engines know.                    *)
LEMMA InvTypes == SentinelInv => TypeOK
<1> SUFFICES ASSUME SentinelInv PROVE TypeOK
  OBVIOUS
<1>1. \A t \in Tasks : \A k \in DOMAIN todo[t] : todo[t][k] \in Ops
  BY DEF Ops, ToSet
<1>2. \A t \in Tasks : \A k \in DOMAIN todo[t] :
        todo[t][k].op \in {"hear", "device", "event", "refresh", "situation"}
  BY <1>1 DEF SentinelInv, IsOp
<1>3. \A k \in DOMAIN window : window[k].age \in 0..Horizon
  BY DEF SentinelInv, EnginesAre, AgesIn
<1>4. engine \in [DOMAIN rules -> [n : Nat, active : BOOLEAN, held : Int, cool : Nat, ids : Nat]]
  BY DEF SentinelInv, EnginesAre, EngineRow
<1>5. /\ DOMAIN devices \subseteq Devices /\ DOMAIN deviceRows \subseteq DOMAIN devices
      /\ \A d \in DOMAIN devices : devices[d] \in [online : BOOLEAN, age : 0..OfflineAfter + 1, ver : Nat]
  BY DevicesShape DEF SentinelInv, DevicesAre, Device
<1>6. situations \subseteq [rule : DOMAIN rules, n : Nat, active : BOOLEAN]
  BY DEF SentinelInv, SituationsAre, SituationRow
<1> QED
  BY <1>2, <1>3, <1>4, <1>5, <1>6 DEF TypeOK, SentinelInv, EnginesAre, OthersAre

LEMMA InvRows == SentinelInv => RowsFollowEngines
<1> SUFFICES ASSUME SentinelInv, ~stale PROVE RowsFollowEngines
  BY DEF RowsFollowEngines
<1>1. \A op \in Ops : \E t \in Tasks : \E k \in DOMAIN todo[t] : op = todo[t][k]
  BY DEF Ops, ToSet
<1>2. ASSUME NEW r \in DOMAIN rules,
             \A t \in Tasks : \A k \in DOMAIN todo[t] : todo[t][k].op = "situation" => todo[t][k].change.rule # r
      PROVE  {row.n : row \in {x \in situations : x.rule = r /\ x.active}}
                = IF engine[r].active THEN {engine[r].n} ELSE {}
  <2>1. \A op \in Ops : op.op = "situation" => op.change.rule # r
    BY <1>1, <1>2
  <2>2. \A n, a : ~Saving(r, n, a)
    <3> TAKE n, a
    <3>1. [rule |-> r, n |-> n, active |-> a].rule = r
      OBVIOUS
    <3> QED
      BY <2>1, <3>1, SaveIs DEF Saving
  <2>3. \A n \in Nat : SituationIs(r, n)
    BY DEF SentinelInv, SituationsAre
  <2>4. \A n \in Nat : IsStored(r, n, TRUE) <=> Live(r, n)
    BY <2>2, <2>3 DEF SituationIs
  <2>5. \A row \in situations : row.rule = r /\ row.active => row.n \in Nat /\ IsStored(r, row.n, TRUE)
    <3> TAKE row \in situations
    <3>1. row = [rule |-> row.rule, n |-> row.n, active |-> row.active] /\ row.n \in Nat /\ row.active \in BOOLEAN
      BY SituationsShape
    <3> QED
      BY <3>1 DEF IsStored
  <2>6. engine[r].n \in Nat /\ engine[r].active \in BOOLEAN
    BY SituationsShape
  <2>7. engine[r].active => \E row \in situations : row.rule = r /\ row.active /\ row.n = engine[r].n
    <3> SUFFICES ASSUME engine[r].active PROVE \E row \in situations : row.rule = r /\ row.active /\ row.n = engine[r].n
      OBVIOUS
    <3> DEFINE row == [rule |-> r, n |-> engine[r].n, active |-> TRUE]
    <3>1. row.rule = r /\ row.active /\ row.n = engine[r].n
      OBVIOUS
    <3>2. row \in situations
      BY <2>4, <2>6 DEF IsStored, Live
    <3> HIDE DEF row
    <3> QED
      BY <3>1, <3>2
  <2>8. \A row \in situations : row.rule = r /\ row.active => engine[r].active /\ row.n = engine[r].n
    BY <2>4, <2>5 DEF Live
  <2> QED
    BY <2>7, <2>8
<1>3. ASSUME NEW d \in DOMAIN devices,
             \A t \in Tasks : \A k \in DOMAIN todo[t] : todo[t][k].op = "device" => todo[t][k].device # d
      PROVE  d \in DOMAIN deviceRows /\ deviceRows[d].online = devices[d].online
  <2>1. \A op \in Ops : op.op = "device" => op.device # d
    BY <1>1, <1>3
  <2>2. d \in DOMAIN deviceRows /\ deviceRows[d].ver = devices[d].ver
    BY <2>1 DEF SentinelInv, DevicesAre, DeviceIs
  <2> QED
    BY <2>2 DEF SentinelInv, DevicesAre, Versioned
<1> QED
  BY <1>2, <1>3 DEF RowsFollowEngines

(* For every rules.yaml, set of devices, window size and number of faults  *)
(* and restarts: an active situation has its row and every other row is    *)
(* resolved, and a device's row says whether it is online, unless a save   *)
(* is under way, was lost or was overtaken by an older copy                *)
(* (CorrelationEngine.evaluate and active_situations against               *)
(* save_situation, DeviceTracker against upsert_device); every variable    *)
(* stays in its type.                                                      *)
THEOREM TablesStaySound == Spec => []TablesAreSound
<1>1. Init => SentinelInv
  BY SentinelInvInit
<1>2. SentinelInv /\ [Next]_vars => SentinelInv'
  BY SentinelInvNext
<1>3. SentinelInv => TablesAreSound
  BY InvTypes, InvRows DEF TablesAreSound
<1> QED
  BY <1>1, <1>2, <1>3, PTL DEF Spec
===============================================================================
