-------------------------- MODULE HermesOutboxProofs --------------------------
(***************************************************************************)
(* What holds of HermesOutbox for every number of events, workers,         *)
(* providers and attempts, every rules file and every number of failures.  *)
(***************************************************************************)
EXTENDS HermesOutbox, TLAPS, FiniteSetTheorems, SequenceTheorems

(* The ids a sweep or a start queues are events, in some order.            *)
LEMMA BatchType ==
    ASSUME TypeOK, NEW batch \in OldestFirst(PendingBatch)
    PROVE  batch \in Seq(Events)
<1>1. PendingBatch \subseteq Events
  BY DEF PendingBatch, Pending
<1>2. Cardinality(PendingBatch) \in Nat
  BY <1>1, OutboxAssumption, FS_Subset, FS_CardinalityType DEF OutboxAssumption
<1>3. batch \in [1..Cardinality(PendingBatch) -> PendingBatch]
  BY DEF OldestFirst
<1>4. batch \in [1..Cardinality(PendingBatch) -> Events]
  BY <1>1, <1>3
<1>. QED
  BY <1>2, <1>4, SeqDef

(* A rank is a number: only finitely many events are stored.               *)
LEMMA StoredFinite == Cardinality(Stored) \in Nat
BY OutboxAssumption, FS_Subset, FS_CardinalityType DEF OutboxAssumption, Stored

(* The rule of a worker that has a job is a Rule.                          *)
LEMMA RuleType ==
    ASSUME TypeOK, NEW w \in Workers, job[w] \in Events
    PROVE  /\ RuleOf(w).action \in {"ignore", "log", "notify", "remediate"}
           /\ RuleOf(w).targets \subseteq Providers
<1>1. rules \in [Events -> Rule]
  BY OutboxAssumption DEF OutboxAssumption, TypeOK
<1>2. rules[job[w]] \in Rule
  BY <1>1
<1>. QED
  BY <1>2 DEF RuleOf, Rule

LEMMA AggregateType ==
    ASSUME NEW targets, NEW res
    PROVE  Aggregate(targets, res) \in Outcomes
BY DEF Aggregate, Outcomes

(* Moving a worker on, to its next stage or to the except branch.          *)
LEMMA AdvanceType ==
    ASSUME TypeOK, NEW w \in Workers, NEW next \in Stages, NEW ack \in BOOLEAN,
           Advance(w, next, ack)
    PROVE  stage' \in [Workers -> Stages] /\ mishaps' \in Nat
BY DEF Advance, Acknowledged, Mishap, TypeOK, Stages, Claimed

(* Changing one entry of a table of tables.                                *)
LEMMA EntryType ==
    ASSUME NEW S, NEW T, NEW V, NEW f \in [S -> [T -> V]],
           NEW i \in S, NEW j \in T, NEW v \in V
    PROVE  [f EXCEPT ![i][j] = v] \in [S -> [T -> V]]
<1>1. [f[i] EXCEPT ![j] = v] \in [T -> V]
  OBVIOUS
<1>. QED
  BY <1>1

LEMMA MishapType ==
    ASSUME TypeOK, Mishap
    PROVE  mishaps' \in Nat
BY DEF Mishap, TypeOK

LEMMA IdleType ==
    ASSUME TypeOK, NEW w \in Workers, Idle(w)
    PROVE  /\ job' \in [Workers -> Events \cup {NoEvent}]
           /\ turn' \in [Workers -> Nat]
           /\ tries' \in [Workers -> [Providers -> Nat]]
           /\ result' \in [Workers -> [Providers -> {"open", "sent", "failed"}]]
           /\ verdict' \in [Workers -> Outcomes \cup {"none"}]
           /\ \A v \in Workers : v # w => job'[v] = job[v]
BY DEF Idle, TypeOK, Untried, Open

-----------------------------------------------------------------------------
(* No operation on the outbox, and no failure of one, leaves the types.    *)
THEOREM TypeCorrect == Spec => []TypeOK
<1>1. Init => TypeOK
  <2>. SUFFICES ASSUME Init PROVE TypeOK
    OBVIOUS
  <2>1. <<>> \in Seq(Events)
    BY EmptySeq
  <2>. QED
    BY <2>1 DEF Init, TypeOK, Stages, Claimed, Outcomes, Untried, Open, Row
<1>2. TypeOK /\ [Next]_vars => TypeOK'
  <2>. SUFFICES ASSUME TypeOK, [Next]_vars PROVE TypeOK'
    OBVIOUS
  <2>. USE DEF vars, dbVars, jobVars, historyVars, processVars
  <2>1. ASSUME NEW e \in Events, NEW put \in BOOLEAN, Create(e, put) PROVE TypeOK'
    <3>1. born' \in [Events -> Nat]
      BY <2>1, StoredFinite DEF Create, TypeOK
    <3>2. queue' \in Seq(Events)
      BY <2>1, AppendProperties DEF Create, TypeOK
    <3>3. mishaps' \in Nat
      BY <2>1 DEF Create, Acknowledged, Mishap, TypeOK
    <3>4. state' \in [Events -> {"new", "pending", "processing", "done"}]
      BY <2>1 DEF Create, TypeOK
    <3>. QED
      BY <2>1, <3>1, <3>2, <3>3, <3>4 DEF Create, TypeOK
  <2>2. CASE Sweep
    <3>1. PICK batch \in OldestFirst(PendingBatch) : queue' = queue \o batch
      BY <2>2 DEF Sweep
    <3>2. queue' \in Seq(Events)
      BY <3>1, BatchType, ConcatProperties DEF TypeOK
    <3>. QED
      BY <2>2, <3>2 DEF Sweep, TypeOK
  <2>3. ASSUME NEW w \in Workers, Get(w) PROVE TypeOK'
    <3>1. Head(queue) \in Events /\ queue' \in Seq(Events)
      BY <2>3, HeadTailProperties DEF Get, TypeOK
    <3>2. stage' \in [Workers -> Stages]
      BY <2>3 DEF Get, TypeOK, Stages
    <3>. QED
      BY <2>3, <3>1, <3>2 DEF Get, TypeOK
  <2>4. ASSUME NEW w \in Workers, NEW ack \in BOOLEAN, Claim(w, ack) PROVE TypeOK'
    <3>1. stage' \in [Workers -> Stages] /\ mishaps' \in Nat
      BY <2>4, AdvanceType DEF Claim, Stages, Claimed
    <3>2. job[w] \in Events
      BY <2>4 DEF Claim, TypeOK
    <3>3. claims' \in [Events -> Nat] /\ turn' \in [Workers -> Nat]
      BY <2>4, <3>2 DEF Claim, TypeOK
    <3>4. \A v \in Workers : stage'[v] # "idle" => job[v] \in Events
      BY <2>4, <3>2 DEF Claim, Advance, TypeOK
    <3>. QED
      BY <2>4, <3>1, <3>2, <3>3, <3>4 DEF Claim, TypeOK
  <2>5. ASSUME NEW w \in Workers, ClaimRefused(w) PROVE TypeOK'
    <3>1. stage' \in [Workers -> Stages]
      BY <2>5 DEF ClaimRefused, TypeOK, Stages
    <3>. QED
      BY <2>5, <3>1, IdleType DEF ClaimRefused, TypeOK
  <2>6. ASSUME NEW w \in Workers, NEW ack \in BOOLEAN, Route(w, ack) PROVE TypeOK'
    <3>1. job[w] \in Events
      BY <2>6 DEF Route, TypeOK
    <3>2. PICK next \in {"finish", "send", "remedy"} : Advance(w, next, ack)
      BY <2>6 DEF Route
    <3>3. stage' \in [Workers -> Stages] /\ mishaps' \in Nat
      BY <3>2, AdvanceType DEF Stages, Claimed
    <3>4. rows' \subseteq Row
      <4>1. NewRows(job[w], turn[w], RuleOf(w).targets) \subseteq Row
        BY <3>1, RuleType DEF NewRows, Row, TypeOK
      <4>. QED
        BY <2>6, <4>1 DEF Route, TypeOK
    <3>5. verdict' \in [Workers -> Outcomes \cup {"none"}]
      BY <2>6 DEF Route, TypeOK, Outcomes
    <3>6. \A v \in Workers : stage'[v] # "idle" => job[v] \in Events
      BY <3>1, <3>2 DEF Advance, TypeOK
    <3>. QED
      BY <2>6, <3>3, <3>4, <3>5, <3>6 DEF Route, TypeOK
  <2>7. ASSUME NEW w \in Workers, NEW ok \in BOOLEAN, Remedy(w, ok) PROVE TypeOK'
    <3>1. job[w] \in Events
      BY <2>7 DEF Remedy, TypeOK
    <3>2. stage' \in [Workers -> Stages]
      BY <2>7 DEF Remedy, TypeOK, Stages, Claimed
    <3>3. verdict' \in [Workers -> Outcomes \cup {"none"}]
      BY <2>7 DEF Remedy, TypeOK, Outcomes
    <3>. QED
      BY <2>7, <3>1, <3>2, <3>3 DEF Remedy, TypeOK
  <2>8. ASSUME NEW w \in Workers, NEW ack \in BOOLEAN, RecordRemedy(w, ack) PROVE TypeOK'
    <3>1. PICK next \in {"finish", "send"} : Advance(w, next, ack)
      BY <2>8 DEF RecordRemedy
    <3>2. stage' \in [Workers -> Stages] /\ mishaps' \in Nat
      BY <3>1, AdvanceType DEF Stages, Claimed
    <3>3. \A v \in Workers : stage'[v] # "idle" => job[v] \in Events
      BY <2>8, <3>1 DEF RecordRemedy, Advance, TypeOK
    <3>. QED
      BY <2>8, <3>2, <3>3 DEF RecordRemedy, TypeOK
  <2>9. ASSUME NEW w \in Workers, NEW p \in Providers, Send(w, p) PROVE TypeOK'
    <3>1. job[w] \in Events
      BY <2>9 DEF Send, TypeOK
    <3>2. [reached EXCEPT ![job[w]] = @ \cup {p}] \in [Events -> SUBSET Providers]
      BY <3>1 DEF TypeOK
    <3>3. reached' \in [Events -> SUBSET Providers]
      BY <2>9, <3>2 DEF Send, TypeOK
    <3>4. result' \in [Workers -> [Providers -> {"open", "sent", "failed"}]]
      <4>1. PICK s \in {"open", "sent", "failed"} :
               result' = result \/ result' = [result EXCEPT ![w][p] = s]
        BY <2>9 DEF Send
      <4>2. result \in [Workers -> [Providers -> {"open", "sent", "failed"}]]
        BY DEF TypeOK
      <4>. QED
        BY <4>1, <4>2, EntryType
    <3>5. tries' \in [Workers -> [Providers -> Nat]]
      <4>1. tries' = tries \/ tries' = [tries EXCEPT ![w][p] = tries[w][p] + 1]
        BY <2>9 DEF Send
      <4>2. tries \in [Workers -> [Providers -> Nat]]
        BY DEF TypeOK
      <4>3. tries[w][p] + 1 \in Nat
        BY <4>2
      <4>4. [tries EXCEPT ![w][p] = tries[w][p] + 1] \in [Workers -> [Providers -> Nat]]
        BY <4>2, <4>3, EntryType
      <4>. QED
        BY <4>1, <4>2, <4>4
    <3>. QED
      BY <2>9, <3>3, <3>4, <3>5 DEF Send, TypeOK
  <2>10. ASSUME NEW w \in Workers, NEW ack \in BOOLEAN, RecordResults(w, ack) PROVE TypeOK'
    <3>1. job[w] \in Events
      BY <2>10 DEF RecordResults, TypeOK
    <3>2. stage' \in [Workers -> Stages] /\ mishaps' \in Nat
      BY <2>10, AdvanceType DEF RecordResults, Stages, Claimed
    <3>3. verdict' \in [Workers -> Outcomes \cup {"none"}]
      BY <2>10, AggregateType DEF RecordResults, TypeOK
    <3>4. rows' \subseteq Row
      <4>1. ASSUME NEW row \in rows PROVE Settled(row, w) \in Row
        <5>1. row \in Row
          BY DEF TypeOK
        <5>2. CASE row.provider \in RuleOf(w).targets
          <6>1. result[w][row.provider] \in {"sent", "failed"}
            BY <2>10, <5>1, <5>2 DEF RecordResults, TypeOK, Row
          <6>2. [row EXCEPT !.status = result[w][row.provider]] \in Row
            BY <5>1, <6>1 DEF Row
          <6>. QED
            BY <5>1, <6>2 DEF Settled
        <5>3. CASE row.provider \notin RuleOf(w).targets
          BY <5>1, <5>3 DEF Settled
        <5>. QED
          BY <5>2, <5>3
      <4>. QED
        BY <2>10, <4>1 DEF RecordResults
    <3>5. \A v \in Workers : stage'[v] # "idle" => job[v] \in Events
      BY <2>10, <3>1 DEF RecordResults, Advance, TypeOK
    <3>. QED
      BY <2>10, <3>2, <3>3, <3>4, <3>5 DEF RecordResults, TypeOK
  <2>11. ASSUME NEW w \in Workers, NEW ack \in BOOLEAN, Finish(w, ack) PROVE TypeOK'
    <3>1. job[w] \in Events
      BY <2>11 DEF Finish, TypeOK
    <3>2. stage' \in [Workers -> Stages] /\ mishaps' \in Nat
      BY <2>11, AdvanceType DEF Finish, Stages
    <3>3. state' \in [Events -> {"new", "pending", "processing", "done"}]
      BY <2>11 DEF Finish, TypeOK
    <3>4. outcome' \in [Events -> Outcomes \cup {"none"}]
      BY <2>11 DEF Finish, TypeOK
    <3>5. CASE ack
      BY <2>11, <3>2, <3>3, <3>4, <3>5, IdleType DEF Finish, Advance, TypeOK
    <3>6. CASE ~ack
      BY <2>11, <3>1, <3>2, <3>3, <3>4, <3>6 DEF Finish, Advance, TypeOK
    <3>. QED
      BY <3>5, <3>6
  <2>12. ASSUME NEW w \in Workers, Fault(w) PROVE TypeOK'
    <3>1. stage' \in [Workers -> Stages] /\ mishaps' \in Nat
      BY <2>12, MishapType DEF Fault, TypeOK, Stages, Claimed
    <3>2. \A v \in Workers : stage'[v] # "idle" => job[v] \in Events
      BY <2>12 DEF Fault, TypeOK
    <3>. QED
      BY <2>12, <3>1, <3>2 DEF Fault, TypeOK
  <2>13. ASSUME NEW w \in Workers, ReleaseRow(w) \/ UNCHANGED <<state, blind>>,
                job[w] \in Events
         PROVE  /\ state' \in [Events -> {"new", "pending", "processing", "done"}]
                /\ blind' \subseteq Events
    <3>1. state' = state \/ state' = [state EXCEPT ![job[w]] = "pending"]
      BY <2>13 DEF ReleaseRow
    <3>2. blind' = blind \/ blind' = blind \cup {job[w]}
      BY <2>13 DEF ReleaseRow
    <3>. QED
      BY <2>13, <3>1, <3>2 DEF TypeOK
  <2>14. ASSUME NEW w \in Workers, Release(w) PROVE TypeOK'
    <3>1. job[w] \in Events
      BY <2>14 DEF Release, TypeOK
    <3>2. state' \in [Events -> {"new", "pending", "processing", "done"}] /\ blind' \subseteq Events
      BY <2>13, <2>14, <3>1 DEF Release
    <3>3. stage' \in [Workers -> Stages]
      BY <2>14 DEF Release, TypeOK, Stages
    <3>. QED
      BY <2>14, <3>2, <3>3, IdleType DEF Release, TypeOK
  <2>15. ASSUME NEW w \in Workers, ReleaseFails(w) PROVE TypeOK'
    <3>1. job[w] \in Events
      BY <2>15 DEF ReleaseFails, TypeOK
    <3>2. state' \in [Events -> {"new", "pending", "processing", "done"}] /\ blind' \subseteq Events
      BY <2>13, <2>15, <3>1 DEF ReleaseFails
    <3>3. stage' \in [Workers -> Stages] /\ mishaps' \in Nat
      BY <2>15, MishapType DEF ReleaseFails, TypeOK, Stages
    <3>. QED
      BY <2>15, <3>1, <3>2, <3>3 DEF ReleaseFails, TypeOK
  <2>16. CASE Crash
    <3>1. queue' \in Seq(Events)
      BY <2>16, EmptySeq DEF Crash
    <3>2. mishaps' \in Nat
      BY <2>16, MishapType DEF Crash
    <3>. QED
      BY <2>16, <3>1, <3>2 DEF Crash, TypeOK, Stages, Untried, Open
  <2>17. CASE RecoverStale
    BY <2>17 DEF RecoverStale, TypeOK
  <2>18. CASE StartWorkers
    <3>1. queue' \in Seq(Events)
      BY <2>18, BatchType DEF StartWorkers
    <3>. QED
      BY <2>18, <3>1 DEF StartWorkers, TypeOK
  <2>19. CASE UNCHANGED vars
    BY <2>19 DEF TypeOK
  <2>. QED
    BY <2>1, <2>2, <2>3, <2>4, <2>5, <2>6, <2>7, <2>8, <2>9, <2>10, <2>11, <2>12,
       <2>14, <2>15, <2>16, <2>17, <2>18, <2>19 DEF Next, WorkerStep
<1>. QED
  BY <1>1, <1>2, PTL DEF Spec
-----------------------------------------------------------------------------
(* The claim protocol.  ExclusiveUnlessBlind and ProcessingIsOwned are not *)
(* inductive: a worker that releases must be the only one on its event,    *)
(* and one that claims must find nobody there, which follows only if a     *)
(* held event is never seen as pending.                                    *)
Quiet == phase # "up" => \A w \in Workers : stage[w] = "idle"

HeldIsClaimed ==
    \A w \in Workers :
        stage[w] \in Claimed => state[job[w]] \in {"processing", "done"} \/ job[w] \in blind

ClaimInv == Quiet /\ HeldIsClaimed /\ ExclusiveUnlessBlind /\ ProcessingIsOwned

(* A worker that holds a claim moves on and keeps it.                      *)
LEMMA KeepsClaim ==
    ASSUME TypeOK, ClaimInv, NEW w \in Workers, stage[w] \in Claimed,
           NEW s \in Claimed, stage' = [stage EXCEPT ![w] = s],
           UNCHANGED <<state, job, blind, phase>>
    PROVE  ClaimInv'
<1>1. Quiet'
  BY DEF ClaimInv, Quiet, TypeOK, Claimed
<1>2. \A v \in Workers : stage'[v] \in Claimed <=> stage[v] \in Claimed
  BY DEF TypeOK
<1>3. HeldIsClaimed' /\ ExclusiveUnlessBlind'
  BY <1>2 DEF ClaimInv, HeldIsClaimed, ExclusiveUnlessBlind, Holds
<1>4. \A v \in Workers : stage[v] \in Claimed \cup {"dead"} => stage'[v] \in Claimed \cup {"dead"}
  BY DEF TypeOK
<1>5. ProcessingIsOwned'
  BY <1>4 DEF ClaimInv, ProcessingIsOwned
<1>. QED
  BY <1>1, <1>3, <1>5 DEF ClaimInv

(* A worker without a claim does something else, still without one.        *)
LEMMA StaysUnclaimed ==
    ASSUME TypeOK, ClaimInv, NEW w \in Workers, stage[w] \notin Claimed \cup {"dead"},
           NEW s \in Stages \ Claimed, stage' = [stage EXCEPT ![w] = s],
           \A v \in Workers : v # w => job'[v] = job[v],
           phase = "up", UNCHANGED <<state, blind, phase>>
    PROVE  ClaimInv'
<1>1. \A v \in Workers : stage'[v] \in Claimed => v # w /\ stage[v] \in Claimed /\ job'[v] = job[v]
  BY DEF TypeOK
<1>2. HeldIsClaimed' /\ ExclusiveUnlessBlind'
  BY <1>1 DEF ClaimInv, HeldIsClaimed, ExclusiveUnlessBlind, Holds
<1>3. \A v \in Workers : stage[v] \in Claimed \cup {"dead"} =>
          stage'[v] \in Claimed \cup {"dead"} /\ job'[v] = job[v]
  BY DEF TypeOK
<1>4. ProcessingIsOwned'
  BY <1>3 DEF ClaimInv, ProcessingIsOwned
<1>. QED
  BY <1>2, <1>4 DEF ClaimInv, Quiet

(* A worker that works belongs to a running process.                       *)
LEMMA BusyIsUp ==
    ASSUME ClaimInv, NEW w \in Workers, stage[w] # "idle"
    PROVE  phase = "up"
BY DEF ClaimInv, Quiet

(* The UPDATE of _claim admits one worker at a time.                       *)
LEMMA ClaimKeeps ==
    ASSUME TypeOK, ClaimInv, NEW w \in Workers, NEW ack \in BOOLEAN, Claim(w, ack)
    PROVE  ClaimInv'
<1>. DEFINE e == job[w]
<1>1. e \in Events /\ state[e] = "pending" /\ stage[w] = "prepare" /\ phase = "up"
  BY BusyIsUp DEF Claim, TypeOK
<1>2. PICK s \in Claimed : stage' = [stage EXCEPT ![w] = s]
  BY DEF Claim, Advance, Claimed
<1>3. UNCHANGED <<job, blind, phase>> /\ state' = [state EXCEPT ![e] = "processing"]
  BY DEF Claim, processVars
<1>4. \A v \in Workers : stage[v] \in Claimed /\ job[v] = e => e \in blind
  BY <1>1 DEF ClaimInv, HeldIsClaimed
<1>5. \A v \in Workers : v # w => stage'[v] = stage[v]
  BY <1>2 DEF TypeOK
<1>6. stage'[w] \in Claimed /\ state'[e] = "processing"
  BY <1>1, <1>2, <1>3 DEF TypeOK
<1>7. \A f \in Events : f # e => state'[f] = state[f]
  BY <1>3 DEF TypeOK
<1>8. HeldIsClaimed'
  <2>. SUFFICES ASSUME NEW v \in Workers, stage'[v] \in Claimed
                PROVE  state'[job[v]] \in {"processing", "done"} \/ job[v] \in blind
    BY <1>3 DEF HeldIsClaimed
  <2>1. CASE job[v] = e
    BY <1>6, <2>1
  <2>2. CASE job[v] # e
    <3>1. v # w /\ stage[v] \in Claimed /\ job[v] \in Events
      BY <1>5, <2>2 DEF TypeOK, Claimed
    <3>. QED
      BY <1>7, <2>2, <3>1 DEF ClaimInv, HeldIsClaimed
  <2>. QED
    BY <2>1, <2>2
<1>9. ExclusiveUnlessBlind'
  BY <1>3, <1>4, <1>5 DEF ClaimInv, ExclusiveUnlessBlind, Holds
<1>10. ProcessingIsOwned'
  BY <1>3, <1>5, <1>6, <1>7 DEF ClaimInv, ProcessingIsOwned
<1>. QED
  BY <1>1, <1>3, <1>8, <1>9, <1>10 DEF ClaimInv, Quiet

(* A worker lets go of its event: to "idle" or "dead", or (Finish, raising *)
(* after the commit) to "release".                                         *)
LEMMA FinishKeeps ==
    ASSUME TypeOK, ClaimInv, NEW w \in Workers, NEW ack \in BOOLEAN, Finish(w, ack)
    PROVE  ClaimInv'
<1>. DEFINE e == job[w]
<1>1. e \in Events /\ stage[w] = "finish" /\ phase = "up"
  BY BusyIsUp DEF Finish, TypeOK
<1>2. \A v \in Workers : v # w => stage'[v] = stage[v] /\ job'[v] = job[v]
  BY IdleType DEF Finish, Advance, TypeOK
<1>3. state' = [state EXCEPT ![e] = "done"] /\ UNCHANGED <<blind, phase>>
  BY DEF Finish, historyVars, processVars
<1>4. stage'[w] = "idle" \/ (stage'[w] = "release" /\ job'[w] = e)
  BY DEF Finish, Advance, TypeOK
<1>5. state'[e] = "done" /\ \A f \in Events : f # e => state'[f] = state[f]
  BY <1>1, <1>3 DEF TypeOK
<1>6. \A v \in Workers : stage'[v] \in Claimed =>
          stage[v] \in Claimed /\ job'[v] = job[v] /\ job[v] \in Events
  BY <1>1, <1>2, <1>4 DEF Claimed, TypeOK
<1>7. HeldIsClaimed'
  BY <1>3, <1>5, <1>6 DEF ClaimInv, HeldIsClaimed
<1>8. ExclusiveUnlessBlind'
  BY <1>3, <1>6 DEF ClaimInv, ExclusiveUnlessBlind, Holds
<1>9. ProcessingIsOwned'
  BY <1>2, <1>3, <1>5 DEF ClaimInv, ProcessingIsOwned
<1>. QED
  BY <1>1, <1>3, <1>7, <1>8, <1>9 DEF ClaimInv, Quiet

(* _release makes an event pending again only if nobody else is on it, or  *)
(* if it is recorded as released blindly.                                  *)
LEMMA ReleaseKeeps ==
    ASSUME TypeOK, ClaimInv, NEW w \in Workers, Release(w) \/ ReleaseFails(w)
    PROVE  ClaimInv'
<1>. DEFINE e == job[w]
<1>1. e \in Events /\ stage[w] \in {"release", "blind"} /\ phase = "up"
  BY BusyIsUp DEF Release, ReleaseFails, TypeOK
<1>2. ReleaseRow(w) \/ UNCHANGED <<state, blind>>
  BY DEF Release, ReleaseFails
<1>3. UNCHANGED phase
  BY DEF Release, ReleaseFails, processVars
<1>4. \A v \in Workers : v # w => stage'[v] = stage[v] /\ job'[v] = job[v]
  BY IdleType DEF Release, ReleaseFails, TypeOK
<1>5. \/ stage'[w] = "idle" /\ ReleaseRow(w)
      \/ stage'[w] = "dead" /\ job'[w] = e
  BY DEF Release, ReleaseFails, TypeOK
<1>6. \A v \in Workers : stage'[v] \in Claimed =>
          v # w /\ stage[v] \in Claimed /\ job'[v] = job[v] /\ job[v] \in Events
  BY <1>4, <1>5 DEF Claimed, TypeOK
<1>7. \A f \in Events : f # e => state'[f] = state[f]
  BY <1>2 DEF ReleaseRow, TypeOK
<1>8. blind \subseteq blind'
  BY <1>2 DEF ReleaseRow
<1>9. \A v \in Workers : v # w /\ stage[v] \in Claimed /\ job[v] = e =>
          state'[e] = state[e] \/ e \in blind'
  <2>. SUFFICES ASSUME NEW v \in Workers, v # w, stage[v] \in Claimed, job[v] = e,
                       state'[e] # state[e]
                PROVE  e \in blind'
    OBVIOUS
  <2>1. CASE stage[w] = "release"
    <3>1. e \in blind
      BY <1>1, <2>1 DEF ClaimInv, ExclusiveUnlessBlind, Holds, Claimed
    <3>. QED
      BY <1>8, <3>1
  <2>2. CASE stage[w] = "blind"
    BY <1>2, <2>2 DEF ReleaseRow
  <2>. QED
    BY <1>1, <2>1, <2>2
<1>10. HeldIsClaimed'
  BY <1>6, <1>7, <1>8, <1>9 DEF ClaimInv, HeldIsClaimed
<1>11. ExclusiveUnlessBlind'
  BY <1>6, <1>8 DEF ClaimInv, ExclusiveUnlessBlind, Holds
<1>12. ProcessingIsOwned'
  <2>. SUFFICES ASSUME NEW f \in Events, state'[f] = "processing"
                PROVE  \E v \in Workers : job'[v] = f /\ stage'[v] \in Claimed \cup {"dead"}
    BY DEF ProcessingIsOwned
  <2>1. CASE f = e
    <3>1. stage'[w] = "dead" /\ job'[w] = e
      BY <1>1, <1>5, <2>1 DEF ReleaseRow, TypeOK
    <3>. QED
      BY <2>1, <3>1
  <2>2. CASE f # e
    <3>1. PICK v \in Workers : job[v] = f /\ stage[v] \in Claimed \cup {"dead"}
      BY <1>1, <1>7, <2>2 DEF ClaimInv, ProcessingIsOwned
    <3>. QED
      BY <1>4, <2>2, <3>1
  <2>. QED
    BY <2>1, <2>2
<1>. QED
  BY <1>1, <1>3, <1>10, <1>11, <1>12 DEF ClaimInv, Quiet

LEMMA ClaimInvInit == Init => ClaimInv
BY DEF Init, ClaimInv, Quiet, HeldIsClaimed, ExclusiveUnlessBlind, Holds, ProcessingIsOwned,
       Claimed

LEMMA ClaimInvNext == TypeOK /\ ClaimInv /\ [Next]_vars => ClaimInv'
<1>. SUFFICES ASSUME TypeOK, ClaimInv, [Next]_vars PROVE ClaimInv'
  OBVIOUS
<1>. USE DEF vars, dbVars, jobVars, historyVars, processVars
<1>1. ASSUME UNCHANGED <<state, stage, job, blind, phase>> PROVE ClaimInv'
  BY <1>1 DEF ClaimInv, Quiet, HeldIsClaimed, ExclusiveUnlessBlind, Holds, ProcessingIsOwned
<1>2. ASSUME NEW e \in Events, NEW put \in BOOLEAN, Create(e, put) PROVE ClaimInv'
  <2>1. /\ state[e] = "new" /\ state' = [state EXCEPT ![e] = "pending"]
        /\ UNCHANGED <<stage, job, blind, phase>>
    BY <1>2 DEF Create
  <2>2. \A f \in Events : f # e => state'[f] = state[f]
    BY <2>1 DEF TypeOK
  <2>3. \A f \in Events : state'[f] = "processing" => state[f] = "processing"
    BY <2>1 DEF TypeOK
  <2>4. \A w \in Workers : stage[w] \in Claimed => job[w] \in Events
    BY DEF TypeOK, Claimed
  <2>5. HeldIsClaimed'
    BY <2>1, <2>2, <2>4 DEF ClaimInv, HeldIsClaimed
  <2>. QED
    BY <2>1, <2>3, <2>5
       DEF ClaimInv, Quiet, ExclusiveUnlessBlind, Holds, ProcessingIsOwned
<1>3. CASE Sweep
  BY <1>1, <1>3 DEF Sweep
<1>4. ASSUME NEW w \in Workers, Get(w) PROVE ClaimInv'
  BY <1>4, StaysUnclaimed DEF Get, Claimed, Stages, TypeOK
<1>5. ASSUME NEW w \in Workers, NEW ack \in BOOLEAN, Claim(w, ack) PROVE ClaimInv'
  BY <1>5, ClaimKeeps
<1>6. ASSUME NEW w \in Workers, ClaimRefused(w) PROVE ClaimInv'
  BY <1>6, StaysUnclaimed, BusyIsUp, IdleType DEF ClaimRefused, Claimed, Stages
<1>7. ASSUME NEW w \in Workers, NEW ack \in BOOLEAN, Route(w, ack) PROVE ClaimInv'
  <2>1. PICK s \in Claimed : stage' = [stage EXCEPT ![w] = s]
    BY <1>7 DEF Route, Advance, Claimed
  <2>. QED
    BY <1>7, <2>1, KeepsClaim DEF Route, Claimed
<1>8. ASSUME NEW w \in Workers, NEW ok \in BOOLEAN, Remedy(w, ok) PROVE ClaimInv'
  BY <1>8, KeepsClaim DEF Remedy, Claimed
<1>9. ASSUME NEW w \in Workers, NEW ack \in BOOLEAN, RecordRemedy(w, ack) PROVE ClaimInv'
  <2>1. PICK s \in Claimed : stage' = [stage EXCEPT ![w] = s]
    BY <1>9 DEF RecordRemedy, Advance, Claimed
  <2>. QED
    BY <1>9, <2>1, KeepsClaim DEF RecordRemedy, Claimed
<1>10. ASSUME NEW w \in Workers, NEW p \in Providers, Send(w, p) PROVE ClaimInv'
  BY <1>1, <1>10 DEF Send
<1>11. ASSUME NEW w \in Workers, NEW ack \in BOOLEAN, RecordResults(w, ack) PROVE ClaimInv'
  <2>1. PICK s \in Claimed : stage' = [stage EXCEPT ![w] = s]
    BY <1>11 DEF RecordResults, Advance, Claimed
  <2>. QED
    BY <1>11, <2>1, KeepsClaim DEF RecordResults, Claimed
<1>12. ASSUME NEW w \in Workers, NEW ack \in BOOLEAN, Finish(w, ack) PROVE ClaimInv'
  BY <1>12, FinishKeeps
<1>13. ASSUME NEW w \in Workers, Fault(w) PROVE ClaimInv'
  <2>1. CASE stage[w] = "prepare"
    BY <1>13, <2>1, StaysUnclaimed, BusyIsUp DEF Fault, Claimed, Stages
  <2>2. CASE stage[w] # "prepare"
    BY <1>13, <2>2, KeepsClaim DEF Fault, Claimed
  <2>. QED
    BY <2>1, <2>2
<1>14. ASSUME NEW w \in Workers, Release(w) \/ ReleaseFails(w) PROVE ClaimInv'
  BY <1>14, ReleaseKeeps
<1>15. CASE Crash
  BY <1>15 DEF Crash, ClaimInv, Quiet, HeldIsClaimed, ExclusiveUnlessBlind, Holds,
               ProcessingIsOwned, Claimed
<1>16. CASE RecoverStale
  <2>1. /\ phase = "down" /\ phase' = "requeue" /\ UNCHANGED <<stage, job, blind>>
        /\ \A e \in Events : state'[e] # "processing"
    BY <1>16 DEF RecoverStale
  <2>2. \A w \in Workers : stage[w] = "idle"
    BY <2>1 DEF ClaimInv, Quiet
  <2>. QED
    BY <2>1, <2>2 DEF ClaimInv, Quiet, HeldIsClaimed, ExclusiveUnlessBlind, Holds,
                      ProcessingIsOwned, Claimed
<1>17. CASE StartWorkers
  <2>1. phase = "requeue" /\ phase' = "up" /\ UNCHANGED <<state, stage, job, blind>>
    BY <1>17 DEF StartWorkers
  <2>. QED
    BY <2>1 DEF ClaimInv, Quiet, HeldIsClaimed, ExclusiveUnlessBlind, Holds, ProcessingIsOwned
<1>18. CASE UNCHANGED vars
  BY <1>1, <1>18
<1>. QED
  BY <1>2, <1>3, <1>4, <1>5, <1>6, <1>7, <1>8, <1>9, <1>10, <1>11, <1>12, <1>13, <1>14,
     <1>15, <1>16, <1>17, <1>18 DEF Next, WorkerStep

(* Whatever fails and whenever the process dies, two workers are on one    *)
(* event only after a worker released it that had never claimed it.        *)
THEOREM ClaimsAreExclusive == Spec => []ExclusiveUnlessBlind
<1>1. TypeOK /\ ClaimInv /\ [Next]_vars => ClaimInv'
  BY ClaimInvNext
<1>2. ClaimInv => ExclusiveUnlessBlind
  BY DEF ClaimInv
<1>. QED
  BY <1>1, <1>2, ClaimInvInit, TypeCorrect, PTL DEF Spec

(* No event is stuck in 'processing' without a task to answer for it or a  *)
(* start that will reset it.                                               *)
THEOREM NothingStranded == Spec => []ProcessingIsOwned
<1>1. TypeOK /\ ClaimInv /\ [Next]_vars => ClaimInv'
  BY ClaimInvNext
<1>2. ClaimInv => ProcessingIsOwned
  BY DEF ClaimInv
<1>. QED
  BY <1>1, <1>2, ClaimInvInit, TypeCorrect, PTL DEF Spec

-----------------------------------------------------------------------------
(* The notification rows of an event that was claimed at most once: one    *)
(* dispatch inserted them, it has all of them in its hands until it has    *)
(* settled them, and it finishes the event only after that.                *)
Sending == {"remedy", "remedied", "send"}

NoneOpen(e) == \A row \in rows : row.event = e => row.status # "pending"

Young(e) ==
    claims[e] <= 1 =>
        /\ \A row \in rows : row.event = e => claims[e] = 1 /\ row.turn = 1
        /\ \A w \in Workers : Holds(w, e) =>
              /\ claims[e] = 1 /\ turn[w] = 1
              /\ \A v \in Workers : Holds(v, e) => v = w
              /\ stage[w] # "release" => state[e] # "done"
              /\ stage[w] = "route" => \A row \in rows : row.event # e
              /\ stage[w] \in Sending =>
                    \A row \in rows : row.event = e => row.provider \in RuleOf(w).targets
              /\ stage[w] = "finish" => NoneOpen(e)
        /\ state[e] = "done" => NoneOpen(e)

RowsInv == \A e \in Events : Young(e)

(* The rows of an event stay, and so does the dispatch that has them in    *)
(* its hands, or it gives up.                                              *)
LEMMA YoungStays ==
    ASSUME NEW e, Young(e), claims'[e] = claims[e],
           state'[e] = "done" => state[e] = "done",
           \A row \in rows' : row.event = e => row \in rows,
           \A w \in Workers : Holds(w, e)' =>
               /\ Holds(w, e) /\ turn'[w] = turn[w] /\ RuleOf(w)' = RuleOf(w)
               /\ \/ stage'[w] \in {stage[w], "release"}
                  \/ stage[w] \in Sending /\ stage'[w] \in Sending
    PROVE  Young(e)'
<1>. SUFFICES ASSUME claims[e] <= 1 PROVE Young(e)'
  BY DEF Young
<1>1. \A row \in rows' : row.event = e => claims'[e] = 1 /\ row.turn = 1
  BY DEF Young
<1>2. NoneOpen(e) => NoneOpen(e)'
  BY DEF NoneOpen
<1>3. state'[e] = "done" => NoneOpen(e)'
  BY <1>2 DEF Young
<1>4. ASSUME NEW w \in Workers, Holds(w, e)'
      PROVE  /\ claims'[e] = 1 /\ turn'[w] = 1
             /\ \A v \in Workers : Holds(v, e)' => v = w
             /\ stage'[w] # "release" => state'[e] # "done"
             /\ stage'[w] = "route" => \A row \in rows' : row.event # e
             /\ stage'[w] \in Sending =>
                   \A row \in rows' : row.event = e => row.provider \in RuleOf(w)'.targets
             /\ stage'[w] = "finish" => NoneOpen(e)'
  <2>1. /\ Holds(w, e) /\ turn'[w] = turn[w] /\ RuleOf(w)' = RuleOf(w)
        /\ \/ stage'[w] \in {stage[w], "release"}
           \/ stage[w] \in Sending /\ stage'[w] \in Sending
    BY <1>4
  <2>2. /\ claims[e] = 1 /\ turn[w] = 1
        /\ \A v \in Workers : Holds(v, e) => v = w
        /\ stage[w] # "release" => state[e] # "done"
        /\ stage[w] = "route" => \A row \in rows : row.event # e
        /\ stage[w] \in Sending =>
              \A row \in rows : row.event = e => row.provider \in RuleOf(w).targets
        /\ stage[w] = "finish" => NoneOpen(e)
    BY <2>1 DEF Young
  <2>3. CASE stage'[w] = "release"
    BY <2>1, <2>2, <2>3 DEF Sending
  <2>4. CASE stage'[w] = stage[w]
    BY <1>2, <2>1, <2>2, <2>4
  <2>5. CASE stage[w] \in Sending /\ stage'[w] \in Sending
    BY <2>1, <2>2, <2>5 DEF Sending
  <2>. QED
    BY <2>1, <2>3, <2>4, <2>5
<1>. QED
  BY <1>1, <1>3, <1>4 DEF Young

(* A worker that holds an event moves on, and its dispatch is the only one.*)
LEMMA HolderIs ==
    ASSUME TypeOK, RowsInv, NEW w \in Workers, stage[w] \in Claimed
    PROVE  /\ job[w] \in Events /\ Young(job[w]) /\ Holds(w, job[w])
           /\ claims[job[w]] \in Nat
BY DEF TypeOK, RowsInv, Holds, Claimed

(* The other events do not notice a step of a worker on its own.           *)
LEMMA OthersStay ==
    ASSUME TypeOK, RowsInv, NEW w \in Workers, job[w] \in Events,
           \A v \in Workers : v # w =>
               stage'[v] = stage[v] /\ job'[v] = job[v] /\ turn'[v] = turn[v],
           stage'[w] \in Claimed => job'[w] = job[w],
           UNCHANGED rules,
           NEW e \in Events, e # job[w],
           claims'[e] = claims[e], state'[e] = state[e],
           \A row \in rows' : row.event = e => row \in rows
    PROVE  Young(e)'
<1>1. Young(e)
  BY DEF RowsInv
<1>2. ASSUME NEW v \in Workers, Holds(v, e)'
      PROVE  Holds(v, e) /\ turn'[v] = turn[v] /\ RuleOf(v)' = RuleOf(v) /\ stage'[v] = stage[v]
  BY <1>2 DEF Holds, RuleOf
<1>. QED
  BY <1>1, <1>2, YoungStays

LEMMA ClaimRows ==
    ASSUME TypeOK, RowsInv, NEW w \in Workers, NEW ack \in BOOLEAN, Claim(w, ack)
    PROVE  RowsInv'
<1>. PICK e : e = job[w]
  OBVIOUS
<1>1. /\ stage[w] = "prepare" /\ e \in Events /\ claims[e] \in Nat /\ Young(e)
      /\ state' = [state EXCEPT ![e] = "processing"]
      /\ claims' = [claims EXCEPT ![e] = claims[e] + 1]
      /\ turn' = [turn EXCEPT ![w] = claims[e] + 1]
      /\ stage' = [stage EXCEPT ![w] = IF ack THEN "route" ELSE "release"]
      /\ UNCHANGED <<rows, rules, job>>
  BY DEF Claim, Advance, TypeOK, RowsInv, processVars
<1>2. /\ \A v \in Workers : v # w =>
            stage'[v] = stage[v] /\ job'[v] = job[v] /\ turn'[v] = turn[v]
      /\ stage'[w] \in {"route", "release"} /\ turn'[w] = claims[e] + 1
      /\ claims'[e] = claims[e] + 1 /\ state'[e] = "processing" /\ job'[w] = e
      /\ \A f \in Events : f # e => claims'[f] = claims[f] /\ state'[f] = state[f]
  BY <1>1 DEF TypeOK
<1>3. ASSUME NEW f \in Events, f # e PROVE Young(f)'
  BY <1>1, <1>2, <1>3, OthersStay
<1>4. Young(e)'
  <2>. SUFFICES ASSUME claims[e] = 0 PROVE Young(e)'
    BY <1>1, <1>2 DEF Young
  <2>1. (\A row \in rows : row.event # e) /\ \A v \in Workers : ~ Holds(v, e)
    BY <1>1 DEF Young
  <2>2. \A v \in Workers : Holds(v, e)' => v = w
    BY <1>2, <2>1 DEF Holds
  <2>3. claims'[e] = 1 /\ turn'[w] = 1 /\ stage'[w] \notin Sending /\ stage'[w] # "finish"
    BY <1>2 DEF Sending
  <2>. QED
    BY <1>1, <1>2, <2>1, <2>2, <2>3 DEF Young
<1>. QED
  BY <1>3, <1>4 DEF RowsInv

LEMMA RouteRows ==
    ASSUME TypeOK, RowsInv, NEW w \in Workers, NEW ack \in BOOLEAN, Route(w, ack)
    PROVE  RowsInv'
<1>. PICK e : e = job[w]
  OBVIOUS
<1>1. /\ stage[w] = "route" /\ e \in Events /\ Young(e) /\ Holds(w, e) /\ claims[e] \in Nat
      /\ UNCHANGED <<state, claims, rules, job, turn>>
  BY HolderIs DEF Route, Claimed, processVars, historyVars
<1>2. /\ \A v \in Workers : v # w => stage'[v] = stage[v]
      /\ \/ rows' = rows /\ stage'[w] = "finish"
         \/ rows' = rows \cup NewRows(e, turn[w], RuleOf(w).targets)
            /\ stage'[w] \in {"send", "remedy", "release"}
  BY <1>1 DEF Route, Advance, TypeOK
<1>3. \A row \in rows' : row \in rows \/ row \in NewRows(e, turn[w], RuleOf(w).targets)
  BY <1>2
<1>4. \A row \in NewRows(e, turn[w], RuleOf(w).targets) :
         row.event = e /\ row.turn = turn[w] /\ row.provider \in RuleOf(w).targets
  BY DEF NewRows
<1>5. ASSUME NEW f \in Events, f # e PROVE Young(f)'
  <2>1. \A row \in rows' : row.event = f => row \in rows
    BY <1>3, <1>4, <1>5
  <2>. QED
    BY <1>1, <1>2, <1>5, <2>1, OthersStay
<1>6. Young(e)'
  <2>. SUFFICES ASSUME claims[e] <= 1 PROVE Young(e)'
    BY <1>1 DEF Young
  <2>1. /\ claims[e] = 1 /\ turn[w] = 1 /\ state[e] # "done"
        /\ \A v \in Workers : Holds(v, e) => v = w
        /\ \A row \in rows : row.event # e
    BY <1>1 DEF Young
  <2>2. \A v \in Workers : Holds(v, e)' => v = w
    BY <1>1, <1>2, <2>1 DEF Holds
  <2>3. \A row \in rows' : row.event = e => row.turn = 1 /\ row.provider \in RuleOf(w).targets
    BY <1>3, <1>4, <2>1
  <2>4. stage'[w] = "finish" => NoneOpen(e)'
    BY <1>2, <2>1 DEF NoneOpen
  <2>5. RuleOf(w)' = RuleOf(w) /\ stage'[w] # "route"
    BY <1>1, <1>2 DEF RuleOf
  <2>. QED
    BY <1>1, <2>1, <2>2, <2>3, <2>4, <2>5 DEF Young
<1>. QED
  BY <1>5, <1>6 DEF RowsInv

(* The rows that gather has waited for are settled, all of them.           *)
LEMMA ResultRows ==
    ASSUME TypeOK, RowsInv, NEW w \in Workers, NEW ack \in BOOLEAN, RecordResults(w, ack)
    PROVE  RowsInv'
<1>. PICK e : e = job[w]
  OBVIOUS
<1>1. /\ stage[w] = "send" /\ e \in Events /\ Young(e) /\ Holds(w, e) /\ claims[e] \in Nat
      /\ UNCHANGED <<state, claims, rules, job, turn>>
      /\ rows' = {Settled(row, w) : row \in rows}
      /\ \A p \in RuleOf(w).targets : result[w][p] # "open"
  BY HolderIs DEF RecordResults, Claimed, processVars, historyVars
<1>2. /\ \A v \in Workers : v # w => stage'[v] = stage[v]
      /\ stage'[w] \in {"finish", "release"}
  BY DEF RecordResults, Advance, TypeOK
<1>3. ASSUME NEW row \in rows
      PROVE  /\ Settled(row, w).event = row.event /\ Settled(row, w).turn = row.turn
             /\ row.event # e => Settled(row, w) = row
             /\ row.event = e /\ row.turn = turn[w] /\ row.provider \in RuleOf(w).targets
                   => Settled(row, w).status = result[w][row.provider]
  <2>1. row \in Row
    BY DEF TypeOK
  <2>. QED
    BY <2>1 DEF Settled, Row
<1>4. ASSUME NEW f \in Events, f # e PROVE Young(f)'
  <2>1. \A row \in rows' : row.event = f => row \in rows
    BY <1>1, <1>3, <1>4
  <2>. QED
    BY <1>1, <1>2, <1>4, <2>1, OthersStay
<1>5. Young(e)'
  <2>. SUFFICES ASSUME claims[e] <= 1 PROVE Young(e)'
    BY <1>1 DEF Young
  <2>1. /\ claims[e] = 1 /\ turn[w] = 1 /\ state[e] # "done"
        /\ \A v \in Workers : Holds(v, e) => v = w
        /\ \A row \in rows : row.event = e => row.turn = 1 /\ row.provider \in RuleOf(w).targets
    BY <1>1 DEF Young, Sending
  <2>2. \A v \in Workers : Holds(v, e)' => v = w
    BY <1>1, <1>2, <2>1 DEF Holds
  <2>3. \A p \in RuleOf(w).targets : result[w][p] # "pending"
    <3>1. RuleOf(w).targets \subseteq Providers
      BY <1>1, RuleType DEF RuleOf, Rule
    <3>. QED
      BY <3>1 DEF TypeOK
  <2>4. NoneOpen(e)'
    BY <1>1, <1>3, <2>1, <2>3 DEF NoneOpen
  <2>5. \A row \in rows' : row.event = e => row.turn = 1
    BY <1>1, <1>3, <2>1
  <2>6. stage'[w] # "route" /\ stage'[w] \notin Sending
    BY <1>2 DEF Sending
  <2>. QED
    BY <1>1, <2>1, <2>2, <2>4, <2>5, <2>6 DEF Young
<1>. QED
  BY <1>4, <1>5 DEF RowsInv

LEMMA FinishRows ==
    ASSUME TypeOK, RowsInv, NEW w \in Workers, NEW ack \in BOOLEAN, Finish(w, ack)
    PROVE  RowsInv'
<1>. PICK e : e = job[w]
  OBVIOUS
<1>1. /\ stage[w] = "finish" /\ e \in Events /\ Young(e) /\ Holds(w, e) /\ claims[e] \in Nat
      /\ UNCHANGED <<claims, rules, rows>> /\ state' = [state EXCEPT ![e] = "done"]
  BY HolderIs DEF Finish, Claimed, processVars, historyVars
<1>2. /\ \A v \in Workers : v # w =>
            stage'[v] = stage[v] /\ job'[v] = job[v] /\ turn'[v] = turn[v]
      /\ \/ stage'[w] = "idle"
         \/ stage'[w] = "release" /\ job'[w] = e /\ turn'[w] = turn[w]
      /\ \A f \in Events : f # e => state'[f] = state[f]
  BY <1>1 DEF Finish, Advance, Idle, TypeOK
<1>3. ASSUME NEW f \in Events, f # e PROVE Young(f)'
  BY <1>1, <1>2, <1>3, OthersStay DEF Claimed
<1>4. Young(e)'
  <2>. SUFFICES ASSUME claims[e] <= 1 PROVE Young(e)'
    BY <1>1 DEF Young
  <2>1. /\ claims[e] = 1 /\ turn[w] = 1 /\ NoneOpen(e)
        /\ \A v \in Workers : Holds(v, e) => v = w
        /\ \A row \in rows : row.event = e => row.turn = 1
    BY <1>1 DEF Young
  <2>2. \A v \in Workers : Holds(v, e)' => v = w /\ stage'[v] = "release" /\ turn'[v] = turn[v]
    BY <1>2, <2>1 DEF Holds, Claimed
  <2>3. NoneOpen(e)'
    BY <1>1, <2>1 DEF NoneOpen
  <2>. QED
    BY <1>1, <2>1, <2>2, <2>3 DEF Young, Sending
<1>. QED
  BY <1>3, <1>4 DEF RowsInv

(* A rule without providers leaves no row behind.                          *)
LEMMA RemedyRows ==
    ASSUME TypeOK, RowsInv, NEW w \in Workers, NEW ack \in BOOLEAN, RecordRemedy(w, ack)
    PROVE  RowsInv'
<1>. PICK e : e = job[w]
  OBVIOUS
<1>1. /\ stage[w] = "remedied" /\ e \in Events /\ Young(e) /\ Holds(w, e) /\ claims[e] \in Nat
      /\ UNCHANGED <<state, claims, rules, rows, job, turn>>
  BY HolderIs DEF RecordRemedy, Claimed, dbVars, processVars, historyVars
<1>2. /\ \A v \in Workers : v # w => stage'[v] = stage[v]
      /\ \/ stage'[w] \in {"send", "release"}
         \/ stage'[w] = "finish" /\ RuleOf(w).targets = {}
  BY DEF RecordRemedy, Advance, TypeOK
<1>3. ASSUME NEW f \in Events, f # e PROVE Young(f)'
  BY <1>1, <1>2, <1>3, OthersStay
<1>4. Young(e)'
  <2>. SUFFICES ASSUME claims[e] <= 1 PROVE Young(e)'
    BY <1>1 DEF Young
  <2>1. /\ claims[e] = 1 /\ turn[w] = 1 /\ state[e] # "done"
        /\ \A v \in Workers : Holds(v, e) => v = w
        /\ \A row \in rows : row.event = e => row.turn = 1 /\ row.provider \in RuleOf(w).targets
    BY <1>1 DEF Young, Sending
  <2>2. \A v \in Workers : Holds(v, e)' => v = w
    BY <1>1, <1>2, <2>1 DEF Holds
  <2>3. stage'[w] = "finish" => NoneOpen(e)'
    BY <1>1, <1>2, <2>1 DEF NoneOpen
  <2>4. RuleOf(w)' = RuleOf(w) /\ stage'[w] # "route"
    BY <1>1, <1>2 DEF RuleOf
  <2>. QED
    BY <1>1, <2>1, <2>2, <2>3, <2>4 DEF Young
<1>. QED
  BY <1>3, <1>4 DEF RowsInv

LEMMA RowsInvInit == Init => RowsInv
BY DEF Init, RowsInv, Young, Holds, Claimed

LEMMA RowsInvNext == TypeOK /\ ClaimInv /\ RowsInv /\ [Next]_vars => RowsInv'
<1>. SUFFICES ASSUME TypeOK, ClaimInv, RowsInv, [Next]_vars PROVE RowsInv'
  OBVIOUS
<1>. USE DEF vars, dbVars, jobVars, historyVars, processVars
<1>1. ASSUME UNCHANGED <<claims, rows, rules>>,
             \A e \in Events : state'[e] = "done" => state[e] = "done",
             \A w \in Workers : stage'[w] \in Claimed =>
                 /\ stage[w] \in Claimed /\ job'[w] = job[w] /\ turn'[w] = turn[w]
                 /\ \/ stage'[w] \in {stage[w], "release"}
                    \/ stage[w] \in Sending /\ stage'[w] \in Sending
      PROVE  RowsInv'
  <2>. SUFFICES ASSUME NEW e \in Events PROVE Young(e)'
    BY DEF RowsInv
  <2>1. Young(e)
    BY DEF RowsInv
  <2>2. \A w \in Workers : Holds(w, e)' =>
            /\ Holds(w, e) /\ turn'[w] = turn[w] /\ RuleOf(w)' = RuleOf(w)
            /\ \/ stage'[w] \in {stage[w], "release"}
               \/ stage[w] \in Sending /\ stage'[w] \in Sending
    BY <1>1 DEF Holds, RuleOf
  <2>. QED
    BY <1>1, <2>1, <2>2, YoungStays
<1>2. ASSUME UNCHANGED <<claims, rows, rules, state, stage, job, turn>> PROVE RowsInv'
  BY <1>1, <1>2
<1>3. ASSUME NEW e \in Events, NEW put \in BOOLEAN, Create(e, put) PROVE RowsInv'
  <2>1. \A f \in Events : state'[f] = "done" => state[f] = "done"
    BY <1>3 DEF Create, TypeOK
  <2>. QED
    BY <1>1, <1>3, <2>1 DEF Create
<1>4. ASSUME NEW w \in Workers, Get(w) PROVE RowsInv'
  <2>1. \A v \in Workers : stage'[v] \in Claimed => v # w /\ stage'[v] = stage[v] /\ job'[v] = job[v]
    BY <1>4 DEF Get, TypeOK, Claimed
  <2>. QED
    BY <1>1, <1>4, <2>1 DEF Get
<1>5. ASSUME NEW w \in Workers, ClaimRefused(w) PROVE RowsInv'
  <2>1. \A v \in Workers : stage'[v] \in Claimed =>
           v # w /\ stage'[v] = stage[v] /\ job'[v] = job[v] /\ turn'[v] = turn[v]
    BY <1>5 DEF ClaimRefused, Idle, TypeOK, Claimed
  <2>. QED
    BY <1>1, <1>5, <2>1 DEF ClaimRefused
<1>6. ASSUME NEW w \in Workers, NEW ok \in BOOLEAN, Remedy(w, ok) PROVE RowsInv'
  <2>1. \A v \in Workers : \/ stage'[v] = stage[v]
                           \/ stage[v] = "remedy" /\ stage'[v] = "remedied"
    BY <1>6 DEF Remedy, TypeOK
  <2>. QED
    BY <1>1, <1>6, <2>1 DEF Remedy, Sending, Claimed
<1>7. ASSUME NEW w \in Workers, Fault(w) PROVE RowsInv'
  <2>1. \A v \in Workers : \/ stage'[v] = stage[v]
                           \/ stage'[v] = "blind"
                           \/ stage[v] \in Claimed /\ stage'[v] = "release"
    BY <1>7 DEF Fault, TypeOK, Claimed
  <2>. QED
    BY <1>1, <1>7, <2>1 DEF Fault, Claimed
<1>8. ASSUME NEW w \in Workers, Release(w) \/ ReleaseFails(w) PROVE RowsInv'
  <2>1. \A f \in Events : state'[f] = "done" => state[f] = "done"
    BY <1>8 DEF Release, ReleaseFails, ReleaseRow, TypeOK
  <2>2. \A v \in Workers : stage'[v] \in Claimed =>
           stage'[v] = stage[v] /\ job'[v] = job[v] /\ turn'[v] = turn[v]
    BY <1>8 DEF Release, ReleaseFails, Idle, TypeOK, Claimed
  <2>. QED
    BY <1>1, <1>8, <2>1, <2>2 DEF Release, ReleaseFails
<1>9. CASE Crash
  BY <1>1, <1>9 DEF Crash, Claimed
<1>10. CASE RecoverStale
  <2>1. \A w \in Workers : stage[w] = "idle"
    BY <1>10 DEF RecoverStale, ClaimInv, Quiet
  <2>2. \A f \in Events : state'[f] = "done" => state[f] = "done"
    BY <1>10 DEF RecoverStale
  <2>. SUFFICES ASSUME NEW e \in Events PROVE Young(e)'
    BY DEF RowsInv
  <2>3. \A w \in Workers : ~ Holds(w, e)'
    BY <1>10, <2>1 DEF RecoverStale, Holds, Claimed
  <2>4. Young(e)
    BY DEF RowsInv
  <2>. QED
    BY <1>10, <2>2, <2>3, <2>4, YoungStays DEF RecoverStale
<1>11. ASSUME NEW w \in Workers, NEW p \in Providers, Send(w, p) PROVE RowsInv'
  BY <1>2, <1>11 DEF Send
<1>12. CASE Sweep
  BY <1>2, <1>12 DEF Sweep
<1>13. CASE StartWorkers
  BY <1>2, <1>13 DEF StartWorkers
<1>14. CASE UNCHANGED vars
  BY <1>2, <1>14
<1>. QED
  BY <1>3, <1>4, <1>5, <1>6, <1>7, <1>8, <1>9, <1>10, <1>11, <1>12, <1>13, <1>14,
     ClaimRows, RouteRows, ResultRows, FinishRows, RemedyRows DEF Next, WorkerStep

(* A notification row is left pending on a finished event only if the event*)
(* was dispatched more than once.                                          *)
THEOREM RowsAreSettled == Spec => []OrphansOnlyAfterRedelivery
<1>1. TypeOK /\ ClaimInv /\ [Next]_vars => ClaimInv'
  BY ClaimInvNext
<1>2. TypeOK /\ RowsInv => OrphansOnlyAfterRedelivery
  <2>. SUFFICES ASSUME TypeOK, RowsInv, NEW row \in rows, row.status = "pending",
                       state[row.event] = "done"
                PROVE  claims[row.event] > 1
    BY DEF OrphansOnlyAfterRedelivery
  <2>1. row.event \in Events
    BY DEF TypeOK, Row
  <2>2. claims[row.event] \in Nat /\ Young(row.event)
    BY <2>1 DEF TypeOK, RowsInv
  <2>. QED
    BY <2>2 DEF Young, NoneOpen
<1>. QED
  BY <1>1, <1>2, ClaimInvInit, RowsInvInit, RowsInvNext, TypeCorrect, PTL DEF Spec

-----------------------------------------------------------------------------
(* HermesOutbox implements EventDelivery, for every value of its           *)
(* constants. A step of the outbox is a step of the contract or invisible  *)
(* to it; the one that needs an invariant is _finish, whose outcome must   *)
(* be honest.                                                              *)

(* Only events that are in the database are queued.                        *)
QueueStored == \A i \in 1..Len(queue) : state[queue[i]] # "new"

JobStored(w) == stage[w] # "idle" => state[job[w]] # "new"

IdleIsBlank(w) ==
    stage[w] = "idle" => verdict[w] = "none" /\ \A p \in Providers : result[w][p] = "open"

(* What a worker has noted down has happened.                              *)
NotedIsTrue(w) ==
    /\ \A p \in Providers : result[w][p] = "sent" => p \in reached[job[w]]
    /\ verdict[w] = "remediated" => job[w] \in repaired

(* A worker is where the rule of its event has sent it.                    *)
OnRoute(w) ==
    /\ stage[w] \in {"remedy", "remedied"} => RuleOf(w).action = "remediate"
    /\ stage[w] = "send" => RuleOf(w).action \in {"notify", "remediate"}
    /\ stage[w] = "remedied" \/ (stage[w] = "send" /\ RuleOf(w).action = "remediate")
          => verdict[w] \in {"remediated", "remediation_failed"}

(* The outcome about to be written is honest.                              *)
FinishIsHonest(w) == stage[w] = "finish" => Delivery!Honest(job[w], verdict[w])

HonestWorker(w) ==
    JobStored(w) /\ IdleIsBlank(w) /\ NotedIsTrue(w) /\ OnRoute(w) /\ FinishIsHonest(w)

HonestInv == QueueStored /\ \A w \in Workers : HonestWorker(w)

-----------------------------------------------------------------------------
(* More deliveries and repairs leave an honest outcome honest.             *)
LEMMA HonestyGrows ==
    ASSUME TypeOK, NEW e \in Events, NEW o, Delivery!Honest(e, o),
           rules' = rules, reached[e] \subseteq reached'[e], repaired \subseteq repaired'
    PROVE  Delivery!Honest(e, o)'
BY DEF Delivery!Honest

(* What _aggregate says of results that are true is honest.                *)
LEMMA AggregateHonest ==
    ASSUME TypeOK, NEW w \in Workers, NotedIsTrue(w), job[w] \in Events,
           RuleOf(w).action = "notify"
    PROVE  Delivery!Honest(job[w], Aggregate(RuleOf(w).targets, result[w]))
<1>. DEFINE T == RuleOf(w).targets
            o == Aggregate(T, result[w])
<1>1. T \subseteq Providers
  BY RuleType
<1>2. \A p \in T : result[w][p] = "sent" => p \in reached[job[w]]
  BY <1>1 DEF NotedIsTrue
<1>3. CASE T = {}
  <2>1. o = "skipped"
    BY <1>3 DEF Aggregate
  <2>. QED
    BY <1>3, <2>1 DEF Delivery!Honest, RuleOf
<1>4. CASE T # {} /\ \A p \in T : result[w][p] = "sent"
  <2>1. o = "notified"
    BY <1>4 DEF Aggregate
  <2>. QED
    BY <1>2, <1>4, <2>1 DEF Delivery!Honest, RuleOf
<1>5. CASE T # {} /\ \A p \in T : result[w][p] # "sent"
  <2>1. o = "failed"
    BY <1>5 DEF Aggregate
  <2>. QED
    BY <1>5, <2>1 DEF Delivery!Honest, RuleOf
<1>6. CASE \E p \in T : result[w][p] = "sent" /\ \E q \in T : result[w][q] # "sent"
  <2>1. o = "partial"
    BY <1>6 DEF Aggregate
  <2>2. T \cap reached[job[w]] # {}
    BY <1>2, <1>6
  <2>. QED
    BY <2>1, <2>2 DEF Delivery!Honest, RuleOf
<1>. QED
  BY <1>3, <1>4, <1>5, <1>6

(* A worker that does not move stays honest while others work.             *)
LEMMA BystanderHonest ==
    ASSUME TypeOK, NEW v \in Workers, HonestWorker(v),
           stage'[v] = stage[v], job'[v] = job[v], result'[v] = result[v],
           verdict'[v] = verdict[v], rules' = rules,
           \A e \in Events : state'[e] = "new" => state[e] = "new",
           \A e \in Events : reached[e] \subseteq reached'[e],
           repaired \subseteq repaired'
    PROVE  HonestWorker(v)'
<1>1. CASE stage[v] = "idle"
  BY <1>1 DEF HonestWorker, JobStored, IdleIsBlank, NotedIsTrue, OnRoute, FinishIsHonest
<1>2. CASE stage[v] # "idle"
  <2>1. job[v] \in Events
    BY <1>2 DEF TypeOK
  <2>2. FinishIsHonest(v)'
    BY <2>1, HonestyGrows DEF HonestWorker, FinishIsHonest, Delivery!Honest
  <2>3. JobStored(v)' /\ IdleIsBlank(v)' /\ NotedIsTrue(v)'
    BY <1>2, <2>1 DEF HonestWorker, JobStored, IdleIsBlank, NotedIsTrue
  <2>4. OnRoute(v)'
    BY DEF HonestWorker, OnRoute, RuleOf
  <2>. QED
    BY <2>2, <2>3, <2>4 DEF HonestWorker
<1>. QED
  BY <1>1, <1>2

(* A step of one worker: it is enough to look at that worker.              *)
LEMMA StepHonest ==
    ASSUME TypeOK, HonestInv, NEW w \in Workers, HonestWorker(w)',
           \A v \in Workers : v # w => /\ stage'[v] = stage[v] /\ job'[v] = job[v]
                                       /\ result'[v] = result[v] /\ verdict'[v] = verdict[v],
           rules' = rules, queue' = queue,
           \A e \in Events : state'[e] = "new" => state[e] = "new",
           \A e \in Events : reached[e] \subseteq reached'[e],
           repaired \subseteq repaired'
    PROVE  HonestInv'
<1>1. \A v \in Workers : HonestWorker(v)'
  BY BystanderHonest DEF HonestInv
<1>2. \A i \in 1..Len(queue) : queue[i] \in Events
  BY ElementOfSeq DEF TypeOK
<1>3. QueueStored'
  BY <1>2 DEF HonestInv, QueueStored
<1>. QED
  BY <1>1, <1>3 DEF HonestInv

(* Ids put in the queue are those of pending events.                       *)
LEMMA BatchStored ==
    ASSUME TypeOK, NEW batch \in OldestFirst(PendingBatch), NEW i \in 1..Len(batch)
    PROVE  state[batch[i]] = "pending"
<1>1. batch \in [1..Cardinality(PendingBatch) -> PendingBatch]
  BY DEF OldestFirst
<1>2. DOMAIN batch = 1..Len(batch)
  BY BatchType, LenProperties
<1>3. batch[i] \in PendingBatch
  BY <1>1, <1>2
<1>. QED
  BY <1>3 DEF PendingBatch, Pending

-----------------------------------------------------------------------------
LEMMA HonestInit == Init => HonestInv
<1>. SUFFICES ASSUME Init PROVE HonestInv
  OBVIOUS
<1>1. QueueStored
  BY DEF Init, QueueStored
<1>2. \A w \in Workers : HonestWorker(w)
  BY DEF Init, HonestWorker, JobStored, IdleIsBlank, NotedIsTrue, OnRoute, FinishIsHonest, Open
<1>. QED
  BY <1>1, <1>2 DEF HonestInv

(* A worker that becomes idle, or goes to _release, or dies.               *)
LEMMA LeavingHonest ==
    ASSUME TypeOK, HonestInv, NEW w \in Workers, job[w] \in Events, stage[w] # "idle",
           \/ stage'[w] = "idle" /\ Idle(w)
           \/ stage'[w] \in {"release", "blind", "dead"} /\ UNCHANGED <<job, result, verdict>>,
           \A e \in Events : state'[e] = "new" => state[e] = "new",
           \A e \in Events : reached[e] \subseteq reached'[e],
           repaired \subseteq repaired'
    PROVE  HonestWorker(w)'
<1>1. CASE stage'[w] = "idle" /\ Idle(w)
  <2>1. verdict'[w] = "none" /\ \A p \in Providers : result'[w][p] = "open"
    BY <1>1 DEF Idle, Open, TypeOK
  <2>. QED
    BY <1>1, <2>1 DEF HonestWorker, JobStored, IdleIsBlank, NotedIsTrue, OnRoute, FinishIsHonest
<1>2. CASE stage'[w] \in {"release", "blind", "dead"} /\ UNCHANGED <<job, result, verdict>>
  BY <1>2 DEF HonestInv, HonestWorker, JobStored, IdleIsBlank, NotedIsTrue, OnRoute,
              FinishIsHonest
<1>. QED
  BY <1>1, <1>2

LEMMA HonestNext == TypeOK /\ TypeOK' /\ ClaimInv /\ HonestInv /\ [Next]_vars => HonestInv'
<1>. SUFFICES ASSUME TypeOK, TypeOK', ClaimInv, HonestInv, [Next]_vars PROVE HonestInv'
  OBVIOUS
<1>. USE DEF vars, dbVars, jobVars, historyVars, processVars
<1>0. \A w \in Workers : stage[w] # "idle" => job[w] \in Events /\ state[job[w]] # "new"
  BY DEF TypeOK, HonestInv, HonestWorker, JobStored
<1>1. ASSUME NEW e \in Events, NEW put \in BOOLEAN, Create(e, put) PROVE HonestInv'
  <2>1. /\ UNCHANGED <<stage, job, result, verdict, rules, reached, repaired>>
        /\ state' = [state EXCEPT ![e] = "pending"]
    BY <1>1 DEF Create
  <2>2. \A f \in Events : state'[f] = "new" => state[f] = "new"
    BY <2>1 DEF TypeOK
  <2>3. \A v \in Workers : HonestWorker(v)'
    BY <2>1, <2>2, BystanderHonest DEF HonestInv
  <2>4. \A i \in 1..Len(queue) : queue[i] \in Events
    BY ElementOfSeq DEF TypeOK
  <2>5. \A i \in 1..Len(queue') : queue'[i] \in Events /\ state'[queue'[i]] # "new"
    <3>1. CASE put
      BY <1>1, <2>1, <2>2, <2>4, <3>1, AppendProperties DEF Create, HonestInv, QueueStored, TypeOK
    <3>2. CASE ~put
      BY <1>1, <2>2, <2>4, <3>2 DEF Create, HonestInv, QueueStored
    <3>. QED
      BY <3>1, <3>2
  <2>. QED
    BY <2>3, <2>5 DEF HonestInv, QueueStored
<1>2. CASE Sweep
  <2>1. \A v \in Workers : HonestWorker(v)'
    BY <1>2, BystanderHonest DEF Sweep, HonestInv
  <2>2. PICK batch \in OldestFirst(PendingBatch) : queue' = queue \o batch
    BY <1>2 DEF Sweep
  <2>3. batch \in Seq(Events) /\ \A i \in 1..Len(batch) : state[batch[i]] # "new"
    BY BatchType, BatchStored
  <2>4. QueueStored'
    BY <1>2, <2>2, <2>3, ConcatProperties DEF Sweep, HonestInv, QueueStored, TypeOK
  <2>. QED
    BY <2>1, <2>4 DEF HonestInv
<1>3. ASSUME NEW w \in Workers, Get(w) PROVE HonestInv'
  <2>1. /\ queue # <<>> /\ queue' = Tail(queue) /\ stage[w] = "idle"
        /\ stage' = [stage EXCEPT ![w] = "prepare"] /\ job' = [job EXCEPT ![w] = Head(queue)]
        /\ UNCHANGED <<state, rules, result, verdict, reached, repaired>>
    BY <1>3 DEF Get
  <2>2. QueueStored'
    BY <2>1, HeadTailProperties DEF HonestInv, QueueStored, TypeOK
  <2>3. state[Head(queue)] # "new"
    <3>1. 1 \in 1..Len(queue) /\ Head(queue) = queue[1]
      BY <2>1, EmptySeq DEF TypeOK
    <3>. QED
      BY <3>1 DEF HonestInv, QueueStored
  <2>4. stage'[w] = "prepare" /\ job'[w] = Head(queue)
    BY <2>1 DEF TypeOK
  <2>5. HonestWorker(w)'
    BY <2>1, <2>3, <2>4
       DEF HonestInv, HonestWorker, JobStored, IdleIsBlank, NotedIsTrue, OnRoute, FinishIsHonest
  <2>6. \A v \in Workers : v # w => HonestWorker(v)'
    BY <2>1, BystanderHonest DEF HonestInv, TypeOK
  <2>. QED
    BY <2>2, <2>5, <2>6 DEF HonestInv
<1>4. ASSUME NEW w \in Workers, NEW ack \in BOOLEAN, Claim(w, ack) PROVE HonestInv'
  <2>1. PICK s \in {"route", "release"} : stage' = [stage EXCEPT ![w] = s]
    BY <1>4 DEF Claim, Advance
  <2>2. /\ UNCHANGED <<job, rules, queue, result, verdict, reached, repaired>>
        /\ stage[w] # "idle" /\ state' = [state EXCEPT ![job[w]] = "processing"]
    BY <1>4 DEF Claim
  <2>3. \A f \in Events : state'[f] = "new" => state[f] = "new"
    BY <2>2 DEF TypeOK
  <2>4. stage'[w] = s /\ state'[job[w]] # "new"
    BY <1>0, <2>1, <2>2 DEF TypeOK
  <2>5. HonestWorker(w)'
    BY <2>1, <2>2, <2>4
       DEF HonestInv, HonestWorker, JobStored, IdleIsBlank, NotedIsTrue, OnRoute, FinishIsHonest
  <2>. QED
    BY <2>1, <2>2, <2>3, <2>5, StepHonest DEF TypeOK
<1>5. ASSUME NEW w \in Workers, ClaimRefused(w) PROVE HonestInv'
  <2>1. /\ UNCHANGED <<state, rules, queue, reached, repaired>> /\ stage[w] # "idle" /\ Idle(w)
        /\ stage' = [stage EXCEPT ![w] = "idle"]
    BY <1>5 DEF ClaimRefused
  <2>2. HonestWorker(w)'
    BY <1>0, <2>1, LeavingHonest DEF TypeOK
  <2>. QED
    BY <2>1, <2>2, StepHonest DEF TypeOK, Idle
<1>6. ASSUME NEW w \in Workers, NEW ack \in BOOLEAN, Route(w, ack) PROVE HonestInv'
  <2>1. /\ UNCHANGED <<state, job, rules, queue, result, reached, repaired>>
        /\ stage[w] = "route"
    BY <1>6 DEF Route
  <2>2. /\ stage' = [stage EXCEPT ![w] = stage'[w]] /\ verdict' = [verdict EXCEPT ![w] = verdict'[w]]
        /\ \/ stage'[w] = "finish" /\ RuleOf(w).action = "ignore" /\ verdict'[w] = "ignored"
           \/ stage'[w] = "finish" /\ RuleOf(w).action = "log" /\ verdict'[w] = "logged"
           \/ stage'[w] = "send" /\ RuleOf(w).action = "notify" /\ verdict'[w] = verdict[w]
           \/ stage'[w] = "remedy" /\ RuleOf(w).action = "remediate" /\ verdict'[w] = verdict[w]
           \/ stage'[w] = "release" /\ verdict'[w] = verdict[w]
    BY <1>6 DEF Route, Advance, TypeOK
  <2>3. RuleOf(w)' = RuleOf(w)
    BY <2>1 DEF RuleOf
  <2>4. FinishIsHonest(w)'
    BY <2>1, <2>2 DEF FinishIsHonest, Delivery!Honest, RuleOf
  <2>5. HonestWorker(w)'
    BY <1>0, <2>1, <2>2, <2>3, <2>4
       DEF HonestInv, HonestWorker, JobStored, IdleIsBlank, NotedIsTrue, OnRoute
  <2>. QED
    BY <2>1, <2>2, <2>5, StepHonest DEF TypeOK
<1>7. ASSUME NEW w \in Workers, NEW ok \in BOOLEAN, Remedy(w, ok) PROVE HonestInv'
  <2>1. /\ UNCHANGED <<state, job, rules, queue, result, reached>> /\ stage[w] = "remedy"
        /\ stage' = [stage EXCEPT ![w] = "remedied"]
        /\ verdict' = [verdict EXCEPT ![w] = IF ok THEN "remediated" ELSE "remediation_failed"]
        /\ repaired' = IF ok THEN repaired \cup {job[w]} ELSE repaired
    BY <1>7 DEF Remedy
  <2>2. /\ stage'[w] = "remedied" /\ repaired \subseteq repaired'
        /\ \/ verdict'[w] = "remediated" /\ job[w] \in repaired'
           \/ verdict'[w] = "remediation_failed"
    BY <2>1 DEF TypeOK
  <2>3. HonestWorker(w)'
    BY <1>0, <2>1, <2>2
       DEF HonestInv, HonestWorker, JobStored, IdleIsBlank, NotedIsTrue, OnRoute, FinishIsHonest,
           RuleOf
  <2>. QED
    BY <2>1, <2>2, <2>3, StepHonest DEF TypeOK
<1>8. ASSUME NEW w \in Workers, NEW ack \in BOOLEAN, RecordRemedy(w, ack) PROVE HonestInv'
  <2>1. /\ UNCHANGED <<state, job, rules, queue, result, verdict, reached, repaired>>
        /\ stage[w] = "remedied"
    BY <1>8 DEF RecordRemedy
  <2>2. PICK s \in {"finish", "send", "release"} : stage' = [stage EXCEPT ![w] = s]
    BY <1>8 DEF RecordRemedy, Advance
  <2>3. /\ stage'[w] = s /\ RuleOf(w).action = "remediate"
        /\ \/ verdict[w] = "remediated" /\ job[w] \in repaired
           \/ verdict[w] = "remediation_failed"
    BY <2>1, <2>2 DEF HonestInv, HonestWorker, OnRoute, NotedIsTrue, TypeOK
  <2>4. FinishIsHonest(w)'
    BY <2>1, <2>3 DEF FinishIsHonest, Delivery!Honest, RuleOf
  <2>5. HonestWorker(w)'
    BY <1>0, <2>1, <2>2, <2>3, <2>4
       DEF HonestInv, HonestWorker, JobStored, IdleIsBlank, NotedIsTrue, OnRoute, RuleOf
  <2>. QED
    BY <2>1, <2>2, <2>5, StepHonest DEF TypeOK
<1>9. ASSUME NEW w \in Workers, NEW p \in Providers, Send(w, p) PROVE HonestInv'
  <2>1. UNCHANGED <<state, stage, job, rules, queue, verdict, repaired>> /\ stage[w] = "send"
    BY <1>9 DEF Send
  <2>2. job[w] \in Events
    BY <1>0, <2>1
  <2>3. \A e \in Events : reached[e] \subseteq reached'[e]
    <3>1. reached' = reached \/ reached' = [reached EXCEPT ![job[w]] = @ \cup {p}]
      BY <1>9 DEF Send
    <3>2. \A e \in Events : reached'[e] = IF e = job[w] /\ reached' # reached
                                           THEN reached[e] \cup {p} ELSE reached[e]
      BY <2>2, <3>1, ZenonT(30) DEF TypeOK
    <3>. QED
      BY <3>2
  <2>4. \A v \in Workers : v # w => result'[v] = result[v]
    BY <1>9 DEF Send, TypeOK
  <2>5. ASSUME NEW q \in Providers, result'[w][q] = "sent" PROVE q \in reached'[job[w]]
    <3>1. CASE result[w][q] = "sent"
      BY <2>2, <2>3, <3>1 DEF HonestInv, HonestWorker, NotedIsTrue
    <3>2. CASE result[w][q] # "sent"
      <4>1. result' = [result EXCEPT ![w][p] = "sent"]
            /\ reached' = [reached EXCEPT ![job[w]] = @ \cup {p}]
        <5>1. result' # result
          BY <2>5, <3>2
        <5>2. result' # [result EXCEPT ![w][p] = "failed"]
          BY <2>5, <3>2 DEF TypeOK
        <5>. QED
          BY <1>9, <5>1, <5>2 DEF Send
      <4>2. q = p
        BY <2>5, <3>2, <4>1 DEF TypeOK
      <4>. QED
        BY <2>2, <4>1, <4>2 DEF TypeOK
    <3>. QED
      BY <3>1, <3>2
  <2>6. HonestWorker(w)'
    BY <2>1, <2>5
       DEF HonestInv, HonestWorker, JobStored, IdleIsBlank, NotedIsTrue, OnRoute, FinishIsHonest,
           RuleOf
  <2>. QED
    BY <2>1, <2>3, <2>4, <2>6, StepHonest
<1>10. ASSUME NEW w \in Workers, NEW ack \in BOOLEAN, RecordResults(w, ack) PROVE HonestInv'
  <2>1. UNCHANGED <<state, job, rules, queue, result, reached, repaired>> /\ stage[w] = "send"
    BY <1>10 DEF RecordResults
  <2>2. PICK s \in {"finish", "release"} : stage' = [stage EXCEPT ![w] = s]
    BY <1>10 DEF RecordResults, Advance
  <2>3. /\ stage'[w] = s
        /\ \A v \in Workers : v # w => verdict'[v] = verdict[v]
        /\ verdict'[w] = IF RuleOf(w).action = "remediate" THEN verdict[w]
                         ELSE Aggregate(RuleOf(w).targets, result[w])
    BY <1>10, <2>2 DEF RecordResults, TypeOK
  <2>4. HonestWorker(w) /\ job[w] \in Events /\ state[job[w]] # "new"
    BY <1>0, <2>1 DEF HonestInv
  <2>5. ASSUME RuleOf(w).action = "remediate" PROVE HonestWorker(w)'
    <3>1. \/ verdict[w] = "remediated" /\ job[w] \in repaired
          \/ verdict[w] = "remediation_failed"
      BY <2>1, <2>4, <2>5 DEF HonestWorker, OnRoute, NotedIsTrue
    <3>2. FinishIsHonest(w)'
      BY <2>1, <2>3, <2>5, <3>1 DEF FinishIsHonest, Delivery!Honest, RuleOf
    <3>3. NotedIsTrue(w)'
      BY <2>1, <2>3, <2>4, <2>5 DEF HonestWorker, NotedIsTrue
    <3>4. JobStored(w)' /\ IdleIsBlank(w)' /\ OnRoute(w)'
      BY <2>1, <2>2, <2>3, <2>4 DEF JobStored, IdleIsBlank, OnRoute
    <3>. QED
      BY <3>2, <3>3, <3>4 DEF HonestWorker
  <2>6. ASSUME RuleOf(w).action = "notify" PROVE HonestWorker(w)'
    <3>. DEFINE o == Aggregate(RuleOf(w).targets, result[w])
    <3>1. verdict'[w] = o /\ Delivery!Honest(job[w], o)
      BY <2>3, <2>4, <2>6, AggregateHonest DEF HonestWorker
    <3>2. FinishIsHonest(w)'
      BY <2>1, <3>1 DEF FinishIsHonest, Delivery!Honest
    <3>3. o # "remediated"
      BY <2>6, <3>1 DEF Delivery!Honest, RuleOf
    <3>4. NotedIsTrue(w)'
      BY <2>1, <2>4, <3>1, <3>3 DEF HonestWorker, NotedIsTrue
    <3>5. JobStored(w)' /\ IdleIsBlank(w)' /\ OnRoute(w)'
      BY <2>1, <2>2, <2>3, <2>4 DEF JobStored, IdleIsBlank, OnRoute
    <3>. QED
      BY <3>2, <3>4, <3>5 DEF HonestWorker
  <2>7. RuleOf(w).action \in {"notify", "remediate"}
    BY <2>1, <2>4 DEF HonestWorker, OnRoute
  <2>. QED
    BY <2>1, <2>2, <2>3, <2>5, <2>6, <2>7, StepHonest DEF TypeOK
<1>11. ASSUME NEW w \in Workers, NEW ack \in BOOLEAN, Finish(w, ack) PROVE HonestInv'
  <2>1. /\ UNCHANGED <<rules, queue, reached, repaired>> /\ stage[w] # "idle"
        /\ state' = [state EXCEPT ![job[w]] = "done"]
    BY <1>11 DEF Finish
  <2>2. \/ stage' = [stage EXCEPT ![w] = "idle"] /\ Idle(w)
        \/ stage' = [stage EXCEPT ![w] = "release"] /\ UNCHANGED <<job, result, verdict>>
    BY <1>11 DEF Finish, Advance
  <2>3. \A f \in Events : state'[f] = "new" => state[f] = "new"
    BY <2>1 DEF TypeOK
  <2>4. HonestWorker(w)'
    BY <1>0, <2>1, <2>2, <2>3, LeavingHonest DEF TypeOK
  <2>5. \A v \in Workers : v # w => /\ stage'[v] = stage[v] /\ job'[v] = job[v]
                                    /\ result'[v] = result[v] /\ verdict'[v] = verdict[v]
    <3>1. CASE Idle(w) /\ stage' = [stage EXCEPT ![w] = "idle"]
      BY <3>1 DEF TypeOK, Idle
    <3>2. CASE UNCHANGED <<job, result, verdict>> /\ stage' = [stage EXCEPT ![w] = "release"]
      BY <3>2 DEF TypeOK
    <3>. QED
      BY <2>2, <3>1, <3>2
  <2>. QED
    BY <2>1, <2>3, <2>4, <2>5, StepHonest
<1>12. ASSUME NEW w \in Workers, Fault(w) PROVE HonestInv'
  <2>1. /\ UNCHANGED <<state, job, rules, queue, result, verdict, reached, repaired>>
        /\ stage[w] # "idle"
    BY <1>12 DEF Fault
  <2>2. PICK s \in {"blind", "release"} : stage' = [stage EXCEPT ![w] = s]
    BY <1>12 DEF Fault
  <2>3. HonestWorker(w)'
    BY <1>0, <2>1, <2>2, LeavingHonest DEF TypeOK
  <2>. QED
    BY <2>1, <2>2, <2>3, StepHonest DEF TypeOK
<1>13. ASSUME NEW w \in Workers, Release(w) \/ ReleaseFails(w) PROVE HonestInv'
  <2>1. UNCHANGED <<rules, queue, reached, repaired>> /\ stage[w] # "idle"
    BY <1>13 DEF Release, ReleaseFails
  <2>2. \/ stage' = [stage EXCEPT ![w] = "idle"] /\ Idle(w)
        \/ stage' = [stage EXCEPT ![w] = "dead"] /\ UNCHANGED <<job, result, verdict>>
    BY <1>13 DEF Release, ReleaseFails
  <2>3. \A f \in Events : state'[f] = "new" => state[f] = "new"
    BY <1>13 DEF Release, ReleaseFails, ReleaseRow, TypeOK
  <2>4. HonestWorker(w)'
    <3>1. job[w] \in Events
      BY <2>1 DEF TypeOK
    <3>2. \/ stage'[w] = "idle" /\ Idle(w)
          \/ stage'[w] \in {"release", "blind", "dead"} /\ UNCHANGED <<job, result, verdict>>
      BY <2>2 DEF TypeOK
    <3>3. /\ \A e \in Events : reached[e] \subseteq reached'[e]
          /\ repaired \subseteq repaired'
      BY <2>1
    <3>. QED
      BY <1>0, <2>1, <2>3, <3>1, <3>2, <3>3, LeavingHonest, ZenonT(30)
  <2>5. \A v \in Workers : v # w => /\ stage'[v] = stage[v] /\ job'[v] = job[v]
                                    /\ result'[v] = result[v] /\ verdict'[v] = verdict[v]
    <3>1. CASE Idle(w) /\ stage' = [stage EXCEPT ![w] = "idle"]
      BY <3>1 DEF TypeOK, Idle
    <3>2. CASE UNCHANGED <<job, result, verdict>> /\ stage' = [stage EXCEPT ![w] = "dead"]
      BY <3>2 DEF TypeOK
    <3>. QED
      BY <2>2, <3>1, <3>2
  <2>. QED
    BY <2>1, <2>3, <2>4, <2>5, StepHonest
<1>14. CASE Crash
  <2>1. QueueStored'
    BY <1>14 DEF Crash, QueueStored
  <2>2. \A w \in Workers : HonestWorker(w)'
    BY <1>14 DEF Crash, HonestWorker, JobStored, IdleIsBlank, NotedIsTrue, OnRoute,
                 FinishIsHonest, Open
  <2>. QED
    BY <2>1, <2>2 DEF HonestInv
<1>15. CASE RecoverStale
  <2>1. /\ UNCHANGED <<stage, job, queue, result, verdict>>
        /\ \A f \in Events : state'[f] = "new" => state[f] = "new"
        /\ \A w \in Workers : stage[w] = "idle"
    BY <1>15 DEF RecoverStale, ClaimInv, Quiet
  <2>2. \A w \in Workers : HonestWorker(w)'
    BY <2>1 DEF HonestInv, HonestWorker, JobStored, IdleIsBlank, NotedIsTrue, OnRoute,
                FinishIsHonest
  <2>3. \A i \in 1..Len(queue) : queue[i] \in Events
    BY ElementOfSeq DEF TypeOK
  <2>4. QueueStored'
    BY <2>1, <2>3 DEF HonestInv, QueueStored
  <2>. QED
    BY <2>2, <2>4 DEF HonestInv
<1>16. CASE StartWorkers
  <2>1. \A v \in Workers : HonestWorker(v)'
    BY <1>16, BystanderHonest DEF StartWorkers, HonestInv
  <2>2. PICK batch \in OldestFirst(PendingBatch) : queue' = batch
    BY <1>16 DEF StartWorkers
  <2>3. QueueStored'
    BY <1>16, <2>2, BatchStored DEF StartWorkers, QueueStored
  <2>. QED
    BY <2>1, <2>3 DEF HonestInv
<1>17. CASE UNCHANGED vars
  BY <1>17, BystanderHonest DEF HonestInv, QueueStored
<1>. QED
  BY <1>1, <1>2, <1>3, <1>4, <1>5, <1>6, <1>7, <1>8, <1>9, <1>10, <1>11, <1>12, <1>13,
     <1>14, <1>15, <1>16, <1>17 DEF Next, WorkerStep

-----------------------------------------------------------------------------
(* What is true of the contract when a step does not show.                 *)
LEMMA Invisible ==
    ASSUME UNCHANGED <<outcome, reached, repaired, rules>>,
           \A e \in Events : StatusOf(e)' = StatusOf(e)
    PROVE  UNCHANGED Delivery!deliveryVars
BY DEF Delivery!deliveryVars

LEMMA RefineInit == Init => Delivery!Init
BY DEF Init, Delivery!Init, StatusOf

(* The UPDATE of _finish is a Settle with the outcome the worker worked    *)
(* out, which FinishIsHonest says is honest.                               *)
LEMMA FinishSettles ==
    ASSUME TypeOK, HonestInv, NEW w \in Workers, NEW ack \in BOOLEAN, Finish(w, ack)
    PROVE  Delivery!Next
<1>. DEFINE e == job[w]
<1>1. e \in Events /\ state[e] # "new" /\ stage[w] = "finish"
  BY DEF Finish, TypeOK, HonestInv, HonestWorker, JobStored
<1>2. Delivery!Honest(e, verdict[w])
  BY <1>1 DEF HonestInv, HonestWorker, FinishIsHonest
<1>3. state' = [state EXCEPT ![e] = "done"] /\ outcome' = [outcome EXCEPT ![e] = verdict[w]]
      /\ UNCHANGED <<reached, repaired, rules>>
  BY DEF Finish, historyVars, processVars
<1>4. [f \in Events |-> StatusOf(f)'] = [[f \in Events |-> StatusOf(f)] EXCEPT ![e] = "settled"]
  BY <1>1, <1>3 DEF StatusOf, TypeOK
<1>5. [f \in Events |-> StatusOf(f)][e] # "absent"
  BY <1>1 DEF StatusOf
<1>6. Delivery!Settle(e, verdict[w])
  BY <1>2, <1>3, <1>4, <1>5 DEF Delivery!Settle
<1>7. verdict[w] \in {"ignored", "logged", "skipped", "notified", "partial",
                      "failed", "remediated", "remediation_failed"}
  BY <1>2 DEF Delivery!Honest
<1>. QED
  BY <1>1, <1>6, <1>7 DEF Delivery!Next

LEMMA RefineNext ==
    TypeOK /\ ClaimInv /\ HonestInv /\ [Next]_vars => [Delivery!Next]_(Delivery!deliveryVars)
<1>. SUFFICES ASSUME TypeOK, ClaimInv, HonestInv, [Next]_vars
              PROVE  Delivery!Next \/ UNCHANGED Delivery!deliveryVars
  OBVIOUS
<1>. USE DEF vars, dbVars, jobVars, historyVars, processVars
<1>0. \A w \in Workers : stage[w] # "idle" => job[w] \in Events /\ state[job[w]] # "new"
  BY DEF TypeOK, HonestInv, HonestWorker, JobStored
<1>1. ASSUME UNCHANGED <<state, outcome, reached, repaired, rules>>
      PROVE  UNCHANGED Delivery!deliveryVars
  BY <1>1, Invisible DEF StatusOf
<1>2. ASSUME NEW e \in Events, NEW put \in BOOLEAN, Create(e, put) PROVE Delivery!Next
  <2>1. /\ state[e] = "new" /\ state' = [state EXCEPT ![e] = "pending"]
        /\ UNCHANGED <<reached, repaired, rules, outcome>>
    BY <1>2 DEF Create
  <2>2. [f \in Events |-> StatusOf(f)'] = [[f \in Events |-> StatusOf(f)] EXCEPT ![e] = "owed"]
    BY <2>1 DEF StatusOf, TypeOK
  <2>3. [f \in Events |-> StatusOf(f)][e] = "absent"
    BY <2>1 DEF StatusOf
  <2>4. Delivery!Accept(e)
    BY <2>1, <2>2, <2>3 DEF Delivery!Accept
  <2>. QED
    BY <2>4 DEF Delivery!Next
<1>3. ASSUME NEW w \in Workers, NEW ack \in BOOLEAN, Claim(w, ack)
      PROVE  UNCHANGED Delivery!deliveryVars
  <2>1. /\ state[job[w]] = "pending" /\ state' = [state EXCEPT ![job[w]] = "processing"]
        /\ UNCHANGED <<outcome, reached, repaired, rules>>
    BY <1>3 DEF Claim
  <2>2. \A e \in Events : StatusOf(e)' = StatusOf(e)
    BY <2>1 DEF StatusOf, TypeOK
  <2>. QED
    BY <2>1, <2>2, Invisible
<1>4. ASSUME NEW w \in Workers, NEW ok \in BOOLEAN, Remedy(w, ok)
      PROVE  Delivery!Next \/ UNCHANGED Delivery!deliveryVars
  <2>1. /\ UNCHANGED <<state, outcome, reached, rules>> /\ stage[w] = "remedy"
        /\ repaired' = repaired \/ repaired' = repaired \cup {job[w]}
    BY <1>4 DEF Remedy
  <2>2. CASE repaired' = repaired
    BY <1>1, <2>1, <2>2
  <2>3. CASE repaired' = repaired \cup {job[w]}
    <3>1. job[w] \in Events /\ rules[job[w]].action = "remediate" /\ state[job[w]] # "new"
      BY <1>0, <2>1 DEF HonestInv, HonestWorker, OnRoute, RuleOf
    <3>2. [f \in Events |-> StatusOf(f)][job[w]] # "absent"
      BY <3>1 DEF StatusOf
    <3>3. [f \in Events |-> StatusOf(f)]' = [f \in Events |-> StatusOf(f)]
      BY <2>1 DEF StatusOf
    <3>4. Delivery!Repair(job[w])
      BY <2>1, <2>3, <3>1, <3>2, <3>3 DEF Delivery!Repair
    <3>. QED
      BY <3>1, <3>4 DEF Delivery!Next
  <2>. QED
    BY <2>1, <2>2, <2>3
<1>5. ASSUME NEW w \in Workers, NEW p \in Providers, Send(w, p)
      PROVE  Delivery!Next \/ UNCHANGED Delivery!deliveryVars
  <2>1. /\ UNCHANGED <<state, outcome, repaired, rules>> /\ stage[w] = "send"
        /\ p \in RuleOf(w).targets
        /\ reached' = reached \/ reached' = [reached EXCEPT ![job[w]] = @ \cup {p}]
    BY <1>5 DEF Send
  <2>2. CASE reached' = reached
    BY <1>1, <2>1, <2>2
  <2>3. CASE reached' = [reached EXCEPT ![job[w]] = @ \cup {p}]
    <3>1. job[w] \in Events /\ state[job[w]] # "new"
      BY <1>0, <2>1
    <3>2. [f \in Events |-> StatusOf(f)][job[w]] # "absent"
      BY <3>1 DEF StatusOf
    <3>3. [f \in Events |-> StatusOf(f)]' = [f \in Events |-> StatusOf(f)]
      BY <2>1 DEF StatusOf
    <3>4. Delivery!Reach(job[w], p)
      BY <2>1, <2>3, <3>1, <3>2, <3>3 DEF Delivery!Reach, RuleOf
    <3>. QED
      BY <3>1, <3>4 DEF Delivery!Next
  <2>. QED
    BY <2>1, <2>2, <2>3
<1>6. ASSUME NEW w \in Workers, NEW ack \in BOOLEAN, Finish(w, ack) PROVE Delivery!Next
  BY <1>6, FinishSettles
<1>7. ASSUME NEW w \in Workers, Release(w) \/ ReleaseFails(w)
      PROVE  UNCHANGED Delivery!deliveryVars
  <2>1. /\ UNCHANGED <<outcome, reached, repaired, rules>>
        /\ state' = state \/ (/\ state[job[w]] = "processing"
                              /\ state' = [state EXCEPT ![job[w]] = "pending"])
    BY <1>7 DEF Release, ReleaseFails, ReleaseRow
  <2>2. \A e \in Events : StatusOf(e)' = StatusOf(e)
    BY <2>1 DEF StatusOf, TypeOK
  <2>. QED
    BY <2>1, <2>2, Invisible
<1>8. CASE RecoverStale
  <2>1. /\ UNCHANGED <<outcome, reached, repaired>> /\ rules' \in RuleSets
        /\ state' = [e \in Events |-> IF state[e] = "processing" THEN "pending" ELSE state[e]]
    BY <1>8 DEF RecoverStale
  <2>2. \A e \in Events : StatusOf(e)' = StatusOf(e)
    BY <2>1 DEF StatusOf
  <2>3. Delivery!Reload
    BY <2>1, <2>2 DEF Delivery!Reload
  <2>. QED
    BY <2>3 DEF Delivery!Next
<1>9. CASE UNCHANGED vars
  BY <1>1, <1>9
<1>10. ASSUME NEW w \in Workers, NEW ack \in BOOLEAN,
              \/ Get(w) \/ ClaimRefused(w) \/ Route(w, ack) \/ RecordRemedy(w, ack)
              \/ RecordResults(w, ack) \/ Fault(w)
       PROVE  UNCHANGED Delivery!deliveryVars
  BY <1>1, <1>10 DEF Get, ClaimRefused, Route, RecordRemedy, RecordResults, Fault
<1>11. CASE Sweep \/ Crash \/ StartWorkers
  BY <1>1, <1>11 DEF Sweep, Crash, StartWorkers
<1>. QED
  BY <1>2, <1>3, <1>4, <1>5, <1>6, <1>7, <1>8, <1>9, <1>10, <1>11 DEF Next, WorkerStep

(* Hermes keeps what EventDelivery promises a producer: an accepted event  *)
(* stays owed until it is settled, over any number of crashes, and its     *)
(* outcome never claims a delivery or repair that did not happen.          *)
THEOREM Delivers == Spec => DeliveryContract
<1>1. TypeOK /\ ClaimInv /\ [Next]_vars => ClaimInv'
  BY ClaimInvNext
<1>2. TypeOK /\ TypeOK' /\ ClaimInv /\ HonestInv /\ [Next]_vars => HonestInv'
  BY HonestNext
<1>3. TypeOK /\ ClaimInv /\ HonestInv /\ [Next]_vars => [Delivery!Next]_(Delivery!deliveryVars)
  BY RefineNext
<1>. QED
  BY <1>1, <1>2, <1>3, ClaimInvInit, HonestInit, RefineInit, TypeCorrect, PTL
     DEF Spec, DeliveryContract, Delivery!Spec
=============================================================================
