------------------------------ MODULE ForgeProofs ------------------------------
(***************************************************************************)
(* What holds of Forge's gate for every set of requests, every forge.yaml  *)
(* and every length of the windows, of its tools for every number of calls *)
(* that overlap, and of its approvals and the watchdog's proposals on      *)
(* their way through Hermes for every number of them.                      *)
(***************************************************************************)
EXTENDS ForgeGate, ForgeTools, ApprovalFlow, TLAPS, FiniteSetTheorems, SequenceTheorems

(* A set of numbers that is not empty has a least one.                     *)
LEMMA Least ==
    ASSUME NEW S \in SUBSET Nat, S # {}
    PROVE  \E x \in S : \A y \in S : x <= y
<1>. DEFINE R == OpToRel(<, Nat)
<1>1. IsWellFoundedOn(R, Nat)
  BY NatLessThanWellFounded
<1>2. PICK x \in S : \A y \in S : ~ (<<y, x>> \in R)
  BY <1>1, WFMin, Zenon
<1>3. \A y \in S : ~ (y < x)
  BY <1>2 DEF OpToRel
<1>. QED
  BY <1>3

(* A finite one that is not empty has a greatest.                          *)
LEMMA Greatest ==
    ASSUME NEW S \in SUBSET Nat, S # {}, NEW n \in Nat, \A y \in S : y <= n
    PROVE  \E x \in S : \A y \in S : y <= x
<1>. DEFINE U == {m \in Nat : \A y \in S : y <= m}
<1>1. PICK m \in U : \A k \in U : m <= k
  <2>1. n \in U
    OBVIOUS
  <2>2. U \in SUBSET Nat
    OBVIOUS
  <2>. HIDE DEF U
  <2>. QED
    BY <2>1, <2>2, Least
<1>2. m \in S
  <2>. SUFFICES ASSUME m \notin S PROVE FALSE
    OBVIOUS
  <2>1. m # 0
    <3>1. PICK y \in S : TRUE
      OBVIOUS
    <3>2. y <= m /\ y # m /\ y \in Nat /\ m \in Nat
      BY <3>1
    <3>. QED
      BY <3>2
  <2>2. m - 1 \in U
    BY <1>1, <2>1
  <2>. QED
    BY <1>1, <2>2
<1>. QED
  BY <1>1, <1>2

LEMMA PartOfInterval ==
    ASSUME NEW n \in Nat, NEW T \in SUBSET (1..n)
    PROVE  IsFiniteSet(T) /\ Cardinality(T) \in Nat
<1>1. IsFiniteSet(1..n)
  BY FS_Interval
<1>2. IsFiniteSet(T)
  BY <1>1, FS_Subset
<1>. QED
  BY <1>2, FS_CardinalityType

LEMMA FirstIsLeast ==
    ASSUME NEW S \in SUBSET Nat, S # {}
    PROVE  First(S) \in S
BY Least DEF First

-----------------------------------------------------------------------------
(* The gate.                                                               *)

(* What runs has been started by a decision: the type of the rows that     *)
(* will be written when it ends depends on it.                             *)
RunsHaveStarted == \A c \in running : started[c].decision # "none"

(* What GateTypeOK says of the rows.                                           *)
RowType == [tool : Tools, target : Targets,
            decision : {"auto", "approval", "blocked"}, ran : BOOLEAN,
            at : Nat, began : Nat, seen : Nat]

LEMMA NoteType ==
    ASSUME GateTypeOK, NEW c \in Calls, NEW d \in {"approval", "blocked"}
    PROVE  Note(c, d) \in RowType
<1>1. Len(audit) \in Nat
  BY LenProperties DEF GateTypeOK
<1>. QED
  BY <1>1 DEF GateTypeOK, Note, Row, RowType, Tools, Targets

(* What a step may write: rows for calls that do not run, or one row of an *)
(* execution that ends.                                                    *)
Notes(rows) ==
    /\ rows \in Seq(RowType)
    /\ \A i \in 1..Len(rows) :
         /\ rows[i].ran = FALSE /\ rows[i].at = now
         /\ rows[i].began = now /\ rows[i].seen = Len(audit)

Recorded(c, row) ==
    /\ c \in running /\ row \in RowType
    /\ row = Row(c, started[c].decision, TRUE, started[c].at, started[c].seen)

LEMMA AskWrites ==
    ASSUME GateTypeOK, NEW c \in Calls, NEW before, Notes(before), Ask(c, before)
    PROVE  \E rows : Notes(rows) /\ audit' = audit \o rows
<1>1. CASE Pending(c)
  <2>. DEFINE last == <<Note(c, "approval")>>
              rows == before \o last
  <2>1. last \in Seq(RowType) /\ Len(last) = 1 /\ last[1] = Note(c, "approval")
    BY NoteType
  <2>2. audit \in Seq(RowType) /\ before \in Seq(RowType)
    BY DEF GateTypeOK, Notes, RowType
  <2>3. audit' = audit \o rows
    <3>1. audit' = (audit \o before) \o last
      BY <1>1 DEF Ask
    <3>. QED
      BY <2>1, <2>2, <3>1, ConcatAssociative
  <2>4. /\ rows \in Seq(RowType)
        /\ Len(rows) = Len(before) + 1
        /\ \A i \in 1..(Len(before) + 1) :
             rows[i] = IF i <= Len(before) THEN before[i] ELSE last[i - Len(before)]
    BY <2>1, <2>2, ConcatProperties
  <2>5. Len(before) \in Nat
    BY <2>2, LenProperties
  <2>6. ASSUME NEW i \in 1..Len(rows)
        PROVE  (i \in 1..Len(before) /\ rows[i] = before[i]) \/ rows[i] = Note(c, "approval")
    BY <2>1, <2>4, <2>5
  <2>7. Notes(rows)
    <3>. HIDE DEF rows
    <3>. QED
      BY <2>4, <2>6 DEF Notes, Note, Row
  <2>. QED
    BY <2>3, <2>7
<1>2. CASE ~Pending(c)
  BY <1>2 DEF Ask
<1>. QED
  BY <1>1, <1>2

(* Every step extends the log, by notes or by the row of one execution.    *)
LEMMA StepWrites ==
    ASSUME GateTypeOK, RunsHaveStarted, [GateNext]_gateVars
    PROVE  \/ \E rows : Notes(rows) /\ audit' = audit \o rows
           \/ \E c \in Calls, row \in RowType : Recorded(c, row) /\ audit' = Append(audit, row)
<1>. DEFINE Quietly == audit' = audit
            Noting == \E rows : Notes(rows) /\ audit' = audit \o rows
<1>1. ASSUME Quietly PROVE Noting
  <2>1. audit' = audit \o <<>>
    BY <1>1, ConcatEmptySeq DEF GateTypeOK
  <2>2. Notes(<<>>)
    BY DEF Notes
  <2>. QED
    BY <2>1, <2>2
<1>2. ASSUME NEW c \in Calls, NEW d \in {"approval", "blocked"}
      PROVE  Notes(<<Note(c, d)>>)
  <2>1. /\ <<Note(c, d)>> \in Seq(RowType)
        /\ Len(<<Note(c, d)>>) = 1 /\ <<Note(c, d)>>[1] = Note(c, d)
    BY NoteType
  <2>. QED
    BY <2>1 DEF Notes, Note, Row
<1>3. ASSUME NEW c \in Calls, NEW d \in {"approval", "blocked"},
             audit' = Append(audit, Note(c, d))
      PROVE  Noting
  <2>1. audit' = audit \o <<Note(c, d)>>
    BY <1>3, NoteType, AppendIsConcat DEF GateTypeOK, RowType
  <2>. QED
    BY <1>2, <2>1
<1>4. ASSUME NEW c \in Calls, Receive(c) PROVE Noting
  <2>1. CASE Decide(c) = "auto" /\ Gated(c)
    <3>1. Ask(c, <<Note(c, "approval")>>)
      BY <1>4, <2>1 DEF Receive
    <3>. QED
      BY <1>2, <3>1, AskWrites
  <2>2. CASE Decide(c) = "approval"
    <3>1. Ask(c, <<>>)
      BY <1>4, <2>2 DEF Receive
    <3>2. Notes(<<>>)
      BY DEF Notes
    <3>. QED
      BY <3>1, <3>2, AskWrites
  <2>3. CASE Decide(c) = "auto" /\ ~Gated(c)
    BY <1>1, <1>4, <2>3 DEF Receive
  <2>4. CASE Decide(c) = "blocked"
    BY <1>3, <1>4, <2>4 DEF Receive
  <2>. QED
    BY <1>4, <2>1, <2>2, <2>3, <2>4 DEF Receive
<1>5. ASSUME NEW c \in Calls, Finish(c)
      PROVE  \E row \in RowType : Recorded(c, row) /\ audit' = Append(audit, row)
  <2>. DEFINE row == Row(c, started[c].decision, TRUE, started[c].at, started[c].seen)
  <2>1. row \in RowType
    BY <1>5 DEF RunsHaveStarted, Finish, GateTypeOK, Row, RowType, Tools, Targets
  <2>. QED
    BY <1>5, <2>1 DEF Finish, Recorded
<1>6. ASSUME NEW c \in Calls, NEW sent \in BOOLEAN, ApprovalPosted(c, sent) PROVE Noting
  BY <1>3, <1>6 DEF ApprovalPosted
<1>7. ASSUME NEW c \in Calls, NEW approved \in BOOLEAN, ResolveCall(c, approved) PROVE Noting
  BY <1>1, <1>3, <1>7 DEF ResolveCall
<1>8. ASSUME NEW c \in Calls, Expire(c) PROVE Noting
  BY <1>3, <1>8 DEF Expire
<1>9. CASE ClockTicks \/ Restart \/ UNCHANGED gateVars
  BY <1>1, <1>9 DEF ClockTicks, Restart, gateVars
<1>. QED
  BY <1>4, <1>5, <1>6, <1>7, <1>8, <1>9 DEF GateNext

LEMMA StartedType ==
    ASSUME GateTypeOK, NEW c \in Calls, NEW d \in {"auto", "approval"}, Start(c, d)
    PROVE  /\ running' \subseteq Calls
           /\ started' \in [Calls -> [decision : {"none", "auto", "approval"},
                                      at : Nat, seen : Nat]]
           /\ starts' \in [Calls -> Nat]
           /\ RunsHaveStarted => RunsHaveStarted'
<1>1. Len(audit) \in Nat
  BY LenProperties DEF GateTypeOK
<1>. QED
  BY <1>1 DEF Start, GateTypeOK, RunsHaveStarted

(* The types, for every level, allowance and number of calls.              *)
THEOREM GateTypes == GateSpec => [](GateTypeOK /\ RunsHaveStarted)
<1>1. GateInit => GateTypeOK /\ RunsHaveStarted
  BY GateAssumption DEF GateInit, GateTypeOK, RunsHaveStarted, NotStarted, GateAssumption
<1>2. GateTypeOK /\ RunsHaveStarted /\ [GateNext]_gateVars => GateTypeOK' /\ RunsHaveStarted'
  <2>. SUFFICES ASSUME GateTypeOK, RunsHaveStarted, [GateNext]_gateVars
                PROVE  GateTypeOK' /\ RunsHaveStarted'
    OBVIOUS
  <2>1. audit' \in Seq(RowType)
    <3>1. audit \in Seq(RowType)
      BY DEF GateTypeOK, RowType
    <3>2. CASE \E rows : Notes(rows) /\ audit' = audit \o rows
      BY <3>1, <3>2, ConcatProperties DEF Notes
    <3>3. CASE \E c \in Calls, row \in RowType : Recorded(c, row) /\ audit' = Append(audit, row)
      <4>1. PICK c \in Calls, row \in RowType : Recorded(c, row) /\ audit' = Append(audit, row)
        BY <3>3
      <4>2. row \in RowType
        BY <4>1 DEF Recorded
      <4>. QED
        BY <3>1, <4>1, <4>2, AppendProperties
    <3>. QED
      BY <3>2, <3>3, StepWrites
  <2>. DEFINE Rest ==
         /\ level' \in Levels
         /\ idle' \subseteq Calls /\ posting' \subseteq Calls /\ running' \subseteq Calls
         /\ started' \in [Calls -> [decision : {"none", "auto", "approval"},
                                    at : Nat, seen : Nat]]
         /\ starts' \in [Calls -> Nat]
         /\ approval' \in [Calls -> {"none", "pending", "approved", "rejected", "expired"}]
         /\ now' \in Nat /\ restarts' \in Nat
         /\ RunsHaveStarted'
  <2>2. ASSUME NEW c \in Calls, NEW before, Ask(c, before),
               UNCHANGED <<running, started, starts>>
        PROVE  /\ approval' \in [Calls -> {"none", "pending", "approved", "rejected", "expired"}]
               /\ posting' \subseteq Calls /\ RunsHaveStarted'
    BY <2>2 DEF Ask, GateTypeOK, RunsHaveStarted
  <2>3. ASSUME NEW c \in Calls, Receive(c) PROVE Rest
    <3>1. CASE Decide(c) = "auto" /\ ~Gated(c)
      BY <2>3, <3>1, StartedType DEF Receive, GateTypeOK
    <3>2. CASE Decide(c) = "auto" /\ Gated(c)
      BY <2>2, <2>3, <3>2 DEF Receive, GateTypeOK
    <3>3. CASE Decide(c) = "approval"
      BY <2>2, <2>3, <3>3 DEF Receive, GateTypeOK
    <3>4. CASE Decide(c) = "blocked"
      BY <2>3, <3>4 DEF Receive, GateTypeOK, RunsHaveStarted
    <3>. QED
      BY <2>3, <3>1, <3>2, <3>3, <3>4 DEF Receive
  <2>4. ASSUME NEW c \in Calls, Finish(c) PROVE Rest
    BY <2>4 DEF Finish, GateTypeOK, RunsHaveStarted, NotStarted
  <2>5. ASSUME NEW c \in Calls, NEW sent \in BOOLEAN, ApprovalPosted(c, sent) PROVE Rest
    BY <2>5 DEF ApprovalPosted, GateTypeOK, RunsHaveStarted
  <2>6. ASSUME NEW c \in Calls, NEW approved \in BOOLEAN, ResolveCall(c, approved) PROVE Rest
    BY <2>6, StartedType DEF ResolveCall, GateTypeOK, RunsHaveStarted
  <2>7. ASSUME NEW c \in Calls, Expire(c) PROVE Rest
    BY <2>7 DEF Expire, GateTypeOK, RunsHaveStarted
  <2>8. ASSUME ClockTicks \/ Restart \/ UNCHANGED gateVars PROVE Rest
    <3>1. CASE ClockTicks
      BY <3>1 DEF ClockTicks, GateTypeOK, RunsHaveStarted
    <3>2. CASE Restart
      BY <3>2 DEF Restart, GateTypeOK, RunsHaveStarted, NotStarted
    <3>3. CASE UNCHANGED gateVars
      BY <3>3 DEF gateVars, GateTypeOK, RunsHaveStarted
    <3>. QED
      BY <2>8, <3>1, <3>2, <3>3
  <2>9. Rest
    BY <2>3, <2>4, <2>5, <2>6, <2>7, <2>8 DEF GateNext
  <2>. QED
    BY <2>1, <2>9 DEF GateTypeOK, RowType
<1>. QED
  BY <1>1, <1>2, PTL DEF GateSpec

(* Forge never has two open questions about one tool and one target,       *)
(* whatever arrives, fails to be posted, expires or is answered between.   *)
THEOREM OneQuestion == GateSpec => []OneQuestionPerTarget
<1>1. GateInit => OneQuestionPerTarget
  BY DEF GateInit, OneQuestionPerTarget
<1>2. GateTypeOK /\ OneQuestionPerTarget /\ [GateNext]_gateVars => OneQuestionPerTarget'
  <2>. SUFFICES ASSUME GateTypeOK, OneQuestionPerTarget, [GateNext]_gateVars
                PROVE  OneQuestionPerTarget'
    OBVIOUS
  <2>. USE DEF GateTypeOK, OneQuestionPerTarget
  <2>1. ASSUME NEW c \in Calls, NEW before, Ask(c, before) PROVE OneQuestionPerTarget'
    BY <2>1 DEF Ask, Pending
  <2>2. ASSUME NEW c \in Calls, Receive(c) PROVE OneQuestionPerTarget'
    BY <2>1, <2>2 DEF Receive
  <2>3. ASSUME NEW c \in Calls, NEW sent \in BOOLEAN, ApprovalPosted(c, sent)
        PROVE  OneQuestionPerTarget'
    BY <2>3 DEF ApprovalPosted
  <2>4. ASSUME NEW c \in Calls, NEW approved \in BOOLEAN, ResolveCall(c, approved)
        PROVE  OneQuestionPerTarget'
    BY <2>4 DEF ResolveCall
  <2>5. ASSUME NEW c \in Calls, Finish(c) \/ Expire(c) PROVE OneQuestionPerTarget'
    BY <2>5 DEF Finish, Expire
  <2>6. CASE ClockTicks \/ Restart \/ UNCHANGED gateVars
    BY <2>6 DEF ClockTicks, Restart, gateVars
  <2>. QED
    BY <2>2, <2>3, <2>4, <2>5, <2>6 DEF GateNext
<1>. QED
  BY <1>1, <1>2, GateTypes, PTL DEF GateSpec

(* A request is asked about, started and answered only after it has been   *)
(* received; that is what keeps one that runs by itself from being run     *)
(* a second time, by an answer.                                            *)
IdleIsUntouched == \A c \in idle : c \notin running /\ approval[c] = "none" /\ starts[c] = 0

(* Forge starts a tool at most once for a request, and for one it has      *)
(* asked about only on an answer that approves: whatever fails to be       *)
(* posted, expires, is answered twice or is cut off by a restart.          *)
THEOREM RunsHaveGrounds == GateSpec => []RunsOnGrounds
<1>1. GateInit => RunsOnGrounds /\ IdleIsUntouched
  BY DEF GateInit, RunsOnGrounds, IdleIsUntouched
<1>2. GateTypeOK /\ RunsOnGrounds /\ IdleIsUntouched /\ [GateNext]_gateVars
        => RunsOnGrounds' /\ IdleIsUntouched'
  <2>. SUFFICES ASSUME GateTypeOK, RunsOnGrounds, IdleIsUntouched, [GateNext]_gateVars
                PROVE  RunsOnGrounds' /\ IdleIsUntouched'
    OBVIOUS
  <2>. USE DEF GateTypeOK, RunsOnGrounds, IdleIsUntouched
  <2>1. ASSUME NEW c \in Calls, NEW before, Ask(c, before), c \in idle,
               UNCHANGED <<running, started, starts>>, idle' = idle \ {c}
        PROVE  RunsOnGrounds' /\ IdleIsUntouched'
    BY <2>1 DEF Ask
  <2>2. ASSUME NEW c \in Calls, Receive(c) PROVE RunsOnGrounds' /\ IdleIsUntouched'
    <3>1. CASE Decide(c) = "auto" /\ ~Gated(c)
      BY <2>2, <3>1 DEF Receive, Start
    <3>2. CASE (Decide(c) = "auto" /\ Gated(c)) \/ Decide(c) = "approval"
      BY <2>1, <2>2, <3>2 DEF Receive
    <3>3. CASE Decide(c) = "blocked"
      BY <2>2, <3>3 DEF Receive
    <3>. QED
      BY <2>2, <3>1, <3>2, <3>3 DEF Receive
  <2>3. ASSUME NEW c \in Calls, NEW sent \in BOOLEAN, ApprovalPosted(c, sent)
        PROVE  RunsOnGrounds' /\ IdleIsUntouched'
    BY <2>3 DEF ApprovalPosted
  <2>4. ASSUME NEW c \in Calls, NEW approved \in BOOLEAN, ResolveCall(c, approved)
        PROVE  RunsOnGrounds' /\ IdleIsUntouched'
    <3>1. c \notin idle /\ c \notin running
      BY <2>4 DEF ResolveCall
    <3>2. CASE approved
      <4>1. started'[c].decision = "approval" /\ approval'[c] = "approved"
        BY <2>4, <3>2 DEF ResolveCall, Start
      <4>a. starts[c] = 0 /\ starts' = [starts EXCEPT ![c] = 1]
        BY <2>4, <3>2 DEF ResolveCall, Start
      <4>b. \A b \in Calls : b # c => approval'[b] = approval[b] /\ starts'[b] = starts[b]
        BY <2>4, <3>2, <4>a DEF ResolveCall
      <4>2. \A b \in running : started'[b] = started[b] /\ approval'[b] = approval[b]
        BY <2>4, <3>1, <3>2 DEF ResolveCall, Start
      <4>4. running' = running \cup {c} /\ idle' = idle
        BY <2>4, <3>2 DEF ResolveCall, Start
      <4>5. IdleIsUntouched'
        BY <3>1, <4>b, <4>4
      <4>6. RunsOnGrounds'
        BY <3>1, <4>1, <4>2, <4>4, <4>a, <4>b DEF RunsOnGrounds
      <4>. QED
        BY <4>5, <4>6
    <3>3. CASE ~approved
      BY <2>4, <3>1, <3>3 DEF ResolveCall
    <3>. QED
      BY <3>2, <3>3
  <2>5. ASSUME NEW c \in Calls, Finish(c) \/ Expire(c)
        PROVE  RunsOnGrounds' /\ IdleIsUntouched'
    BY <2>5 DEF Finish, Expire
  <2>6. CASE ClockTicks \/ Restart \/ UNCHANGED gateVars
    BY <2>6 DEF ClockTicks, Restart, gateVars
  <2>. QED
    BY <2>2, <2>3, <2>4, <2>5, <2>6 DEF GateNext
<1>. QED
  BY <1>1, <1>2, GateTypes, PTL DEF GateSpec

-----------------------------------------------------------------------------
(* What the audit log says, and what the gate has read in it.              *)

(* A step leaves the rows as they are, and what it adds is of now.         *)
LEMMA LogGrows ==
    ASSUME GateTypeOK, RunsHaveStarted, [GateNext]_gateVars
    PROVE  /\ Len(audit) \in Nat /\ Len(audit') \in Nat /\ Len(audit) <= Len(audit')
           /\ \A i \in 1..Len(audit) : audit'[i] = audit[i]
           /\ \A i \in 1..Len(audit') : i > Len(audit) =>
                /\ audit'[i].at = now
                /\ \/ audit'[i].ran = FALSE /\ audit'[i].began = now /\ audit'[i].seen = Len(audit)
                   \/ \E c \in running :
                        audit'[i] = Row(c, started[c].decision, TRUE, started[c].at, started[c].seen)
<1>1. audit \in Seq(RowType) /\ Len(audit) \in Nat
  BY LenProperties DEF GateTypeOK, RowType
<1>2. CASE \E rows : Notes(rows) /\ audit' = audit \o rows
  <2>1. PICK rows : Notes(rows) /\ audit' = audit \o rows
    BY <1>2
  <2>2. rows \in Seq(RowType) /\ Len(rows) \in Nat
    BY <2>1, LenProperties DEF Notes
  <2>3. /\ Len(audit') = Len(audit) + Len(rows)
        /\ \A i \in 1..(Len(audit) + Len(rows)) :
             audit'[i] = IF i <= Len(audit) THEN audit[i] ELSE rows[i - Len(audit)]
    BY <1>1, <2>1, <2>2, ConcatProperties
  <2>4. \A i \in 1..Len(audit') : i > Len(audit) =>
           i - Len(audit) \in 1..Len(rows) /\ audit'[i] = rows[i - Len(audit)]
    BY <1>1, <2>2, <2>3
  <2>5. ASSUME NEW i \in 1..Len(audit'), i > Len(audit)
        PROVE  /\ audit'[i].at = now /\ audit'[i].ran = FALSE
               /\ audit'[i].began = now /\ audit'[i].seen = Len(audit)
    BY <2>1, <2>4, <2>5 DEF Notes
  <2>6. \A i \in 1..Len(audit) : i \in 1..(Len(audit) + Len(rows)) /\ i <= Len(audit)
    BY <1>1, <2>2
  <2>7. \A i \in 1..Len(audit) : audit'[i] = audit[i]
    BY <2>3, <2>6
  <2>8. Len(audit') \in Nat /\ Len(audit) <= Len(audit')
    BY <1>1, <2>2, <2>3
  <2>. QED
    BY <1>1, <2>5, <2>7, <2>8
<1>3. CASE \E c \in Calls, row \in RowType : Recorded(c, row) /\ audit' = Append(audit, row)
  <2>1. PICK c \in Calls, row \in RowType : Recorded(c, row) /\ audit' = Append(audit, row)
    BY <1>3
  <2>2. row \in RowType /\ row.at = now /\ c \in running
    BY <2>1 DEF Recorded, Row
  <2>3. /\ Len(audit') = Len(audit) + 1
        /\ \A i \in 1..Len(audit) : audit'[i] = audit[i]
        /\ audit'[Len(audit) + 1] = row
    BY <1>1, <2>1, <2>2, AppendProperties
  <2>4. \A i \in 1..Len(audit') : i > Len(audit) => i = Len(audit) + 1
    BY <1>1, <2>3
  <2>5. ASSUME NEW i \in 1..Len(audit'), i > Len(audit)
        PROVE  /\ audit'[i].at = now
               /\ \E b \in running :
                    audit'[i] = Row(b, started[b].decision, TRUE, started[b].at, started[b].seen)
    <3>1. audit'[i] = row
      BY <2>3, <2>4, <2>5
    <3>. QED
      BY <2>1, <2>2, <3>1 DEF Recorded
  <2>6. Len(audit') \in Nat /\ Len(audit) <= Len(audit')
    BY <1>1, <2>3
  <2>. QED
    BY <1>1, <2>3, <2>5, <2>6
<1>. QED
  BY <1>2, <1>3, StepWrites

(* What runs after a step ran before it, or has just been started and has  *)
(* read the log as it is.                                                  *)
LEMMA WhatStarts ==
    ASSUME GateTypeOK, [GateNext]_gateVars, NEW c \in running'
    PROVE  \/ c \in running /\ started'[c] = started[c]
           \/ /\ c \in Calls /\ audit' = audit
              /\ started'[c].at = now /\ started'[c].seen = Len(audit)
              /\ started'[c].decision = "auto" => Decide(c) = "auto" /\ ~Gated(c)
<1>. DEFINE Goal == \/ c \in running /\ started'[c] = started[c]
                    \/ /\ c \in Calls /\ audit' = audit
                       /\ started'[c].at = now /\ started'[c].seen = Len(audit)
                       /\ started'[c].decision = "auto" => Decide(c) = "auto" /\ ~Gated(c)
<1>1. ASSUME NEW b \in Calls, Receive(b) PROVE Goal
  <2>1. CASE Decide(b) = "auto" /\ ~Gated(b)
    BY <1>1, <2>1 DEF Receive, Start, GateTypeOK
  <2>2. CASE ~(Decide(b) = "auto" /\ ~Gated(b))
    BY <1>1, <2>2 DEF Receive
  <2>. QED
    BY <2>1, <2>2
<1>2. ASSUME NEW b \in Calls, Finish(b) PROVE Goal
  BY <1>2 DEF Finish, GateTypeOK
<1>3. ASSUME NEW b \in Calls, NEW sent \in BOOLEAN, ApprovalPosted(b, sent) PROVE Goal
  BY <1>3 DEF ApprovalPosted
<1>4. ASSUME NEW b \in Calls, NEW approved \in BOOLEAN, ResolveCall(b, approved) PROVE Goal
  BY <1>4 DEF ResolveCall, Start, GateTypeOK
<1>5. ASSUME NEW b \in Calls, Expire(b) PROVE Goal
  BY <1>5 DEF Expire
<1>6. CASE ClockTicks \/ Restart \/ UNCHANGED gateVars
  BY <1>6 DEF ClockTicks, Restart, gateVars
<1>. QED
  BY <1>1, <1>2, <1>3, <1>4, <1>5, <1>6 DEF GateNext

LEMMA TimePasses == ASSUME GateTypeOK, [GateNext]_gateVars PROVE now' \in Nat /\ now <= now'
<1>1. now' = now \/ now' = now + 1
  BY DEF GateNext, gateVars, Receive, Finish, ApprovalPosted, ResolveCall, Expire, ClockTicks, Restart
<1>. QED
  BY <1>1 DEF GateTypeOK

(* The log is written in the order of time, and every row about a run is   *)
(* of a run that began before it was written and saw less of the log.      *)
Orderly ==
    /\ \A i, j \in 1..Len(audit) : i <= j => audit[i].at <= audit[j].at
    /\ \A i \in 1..Len(audit) :
         audit[i].at <= now /\ audit[i].began <= audit[i].at /\ audit[i].seen < i
    /\ \A c \in running : started[c].at <= now /\ started[c].seen <= Len(audit)

LEMMA OrderlyStep ==
    ASSUME GateTypeOK, RunsHaveStarted, Orderly, GateTypeOK', [GateNext]_gateVars
    PROVE  Orderly'
<1>1. now \in Nat /\ now' \in Nat /\ now <= now'
  BY TimePasses DEF GateTypeOK
<1>. DEFINE old == Len(audit)
            new == Len(audit')
<1>2. /\ old \in Nat /\ new \in Nat /\ old <= new
      /\ \A i \in 1..old : audit'[i] = audit[i]
  BY LogGrows
<1>3. ASSUME NEW i \in 1..new, i > old
      PROVE  audit'[i].at = now /\ audit'[i].began <= now /\ audit'[i].seen < i
  <2>1. CASE audit'[i].ran = FALSE /\ audit'[i].began = now /\ audit'[i].seen = old
    <3>1. audit'[i].at = now
      BY <1>3, LogGrows
    <3>. QED
      BY <1>1, <1>2, <1>3, <2>1, <3>1
  <2>2. CASE \E c \in running :
               audit'[i] = Row(c, started[c].decision, TRUE, started[c].at, started[c].seen)
    <3>1. PICK c \in running :
               audit'[i] = Row(c, started[c].decision, TRUE, started[c].at, started[c].seen)
      BY <2>2
    <3>2. started[c].at <= now /\ started[c].seen <= old /\ started[c].seen \in Nat
      BY DEF Orderly, GateTypeOK
    <3>3. audit'[i].at = now /\ audit'[i].began = started[c].at /\ audit'[i].seen = started[c].seen
      BY <3>1 DEF Row
    <3>. QED
      BY <1>1, <1>2, <1>3, <3>2, <3>3
  <2>. QED
    BY <1>3, <2>1, <2>2, LogGrows
<1>4. \A i \in 1..old : /\ audit[i].at \in Nat /\ audit[i].began \in Nat
                        /\ audit[i].seen \in Nat /\ audit[i].at <= now
  <2>1. ASSUME NEW i \in 1..old PROVE audit[i] \in RowType
    BY ElementOfSeq DEF GateTypeOK, RowType
  <2>. QED
    BY <2>1 DEF Orderly, RowType
<1>5. \A i \in 1..new : i \in 1..old \/ i > old
  BY <1>2
<1>6. ASSUME NEW i \in 1..new, NEW j \in 1..new, i <= j
      PROVE  audit'[i].at <= audit'[j].at
  <2>1. CASE j \in 1..old
    <3>1. i \in 1..old
      BY <1>2, <1>6, <2>1
    <3>. QED
      BY <1>2, <1>6, <2>1, <3>1 DEF Orderly
  <2>2. CASE j > old /\ i \in 1..old
    BY <1>1, <1>2, <1>3, <1>4, <2>2
  <2>3. CASE j > old /\ i > old
    BY <1>1, <1>3, <2>3
  <2>. QED
    BY <1>5, <2>1, <2>2, <2>3
<1>7. ASSUME NEW i \in 1..new
      PROVE  audit'[i].at <= now' /\ audit'[i].began <= audit'[i].at /\ audit'[i].seen < i
  <2>1. CASE i \in 1..old
    BY <1>1, <1>2, <1>4, <2>1 DEF Orderly
  <2>2. CASE i > old
    BY <1>1, <1>3, <2>2
  <2>. QED
    BY <1>5, <2>1, <2>2
<1>8. ASSUME NEW c \in running' PROVE started'[c].at <= now' /\ started'[c].seen <= new
  <2>1. started'[c].at \in Nat /\ started'[c].seen \in Nat
    BY DEF GateTypeOK
  <2>2. CASE c \in running /\ started'[c] = started[c]
    BY <1>1, <1>2, <2>1, <2>2 DEF Orderly
  <2>3. CASE started'[c].at = now /\ started'[c].seen = old
    BY <1>1, <1>2, <2>1, <2>3
  <2>. QED
    BY <2>2, <2>3, WhatStarts
<1>. QED
  BY <1>6, <1>7, <1>8 DEF Orderly

(* What the gate has found when it lets a run begin at a time, with so many *)
(* rows in the log: the cooldown is over, and neither the allowance nor the *)
(* threshold is reached.                                                   *)
Counted(log, tool, target, at, rows, seconds) ==
    {i \in 1..rows : /\ log[i].tool = tool /\ log[i].target = target
                     /\ log[i].decision \in {"auto", "approval"}
                     /\ at - log[i].at <= seconds}

Granted(log, tool, target, at, rows) ==
    /\ \E e \in DOMAIN Preapproved : Preapproved[e].tool = tool
    /\ \A i \in 1..rows :
         log[i].tool = tool /\ log[i].target = target => at - log[i].at >= TargetSeconds
    /\ Cardinality(Counted(log, tool, target, at, rows, Hour)) < Preapproved[FirstFor(tool)].max
    /\ tool \in RestartFamily =>
         Cardinality(Counted(log, tool, target, at, rows, CrashloopWindow)) < CrashloopThreshold

(* Every automatic run, under way or recorded, was granted.                *)
AllGranted ==
    /\ \A c \in running : started[c].decision = "auto" =>
         Granted(audit, ToolOf[c], TargetOf[c], started[c].at, started[c].seen)
    /\ \A i \in 1..Len(audit) : audit[i].ran /\ audit[i].decision = "auto" =>
         Granted(audit, audit[i].tool, audit[i].target, audit[i].began, audit[i].seen)

(* What is added to the log later does not matter to it.                   *)
LEMMA GrantedKept ==
    ASSUME NEW log, NEW longer, NEW n \in Nat, \A i \in 1..n : longer[i] = log[i],
           NEW tool, NEW target, NEW at, NEW rows \in Nat, rows <= n,
           Granted(log, tool, target, at, rows)
    PROVE  Granted(longer, tool, target, at, rows)
<1>1. \A i \in 1..rows : longer[i] = log[i]
  OBVIOUS
<1>2. ASSUME NEW seconds
      PROVE  Counted(longer, tool, target, at, rows, seconds) = Counted(log, tool, target, at, rows, seconds)
  BY <1>1 DEF Counted
<1>. QED
  BY <1>1, <1>2 DEF Granted

LEMMA AllowanceType ==
    ASSUME NEW tool, \E i \in DOMAIN Preapproved : Preapproved[i].tool = tool
    PROVE  Preapproved[FirstFor(tool)].max \in Nat
<1>. DEFINE S == {i \in DOMAIN Preapproved : Preapproved[i].tool = tool}
<1>1. DOMAIN Preapproved = 1..Len(Preapproved) /\ Len(Preapproved) \in Nat
  BY GateAssumption, LenProperties DEF GateAssumption
<1>2. First(S) \in S
  <2>1. S \in SUBSET Nat /\ S # {}
    BY <1>1
  <2>. HIDE DEF S
  <2>. QED
    BY <2>1, FirstIsLeast
<1>3. Preapproved[First(S)] \in Entry
  BY <1>1, <1>2, GateAssumption, ElementOfSeq DEF GateAssumption
<1>. QED
  BY <1>3 DEF FirstFor, Entry

(* _auto_gate has found no reason.                                         *)
LEMMA GateGrants ==
    ASSUME GateTypeOK, Orderly, NEW c \in Calls, Decide(c) = "auto", ~Gated(c)
    PROVE  Granted(audit, ToolOf[c], TargetOf[c], now, Len(audit))
<1>. DEFINE rows == RowsOf(c)
            n == Len(audit)
<1>1. /\ audit \in Seq(RowType) /\ n \in Nat /\ DOMAIN audit = 1..n
      /\ \A i \in 1..n : audit[i].at \in Nat
      /\ now \in Nat
  <2>1. audit \in Seq(RowType)
    BY DEF GateTypeOK, RowType
  <2>2. ASSUME NEW i \in 1..n PROVE audit[i] \in RowType
    BY <2>1, ElementOfSeq
  <2>. QED
    BY <2>1, <2>2, LenProperties DEF GateTypeOK, RowType
<1>2. ASSUME NEW i \in 1..n, audit[i].tool = ToolOf[c], audit[i].target = TargetOf[c]
      PROVE  now - audit[i].at >= TargetSeconds
  <2>1. rows \in SUBSET Nat /\ i \in rows /\ (\A j \in rows : j <= n) /\ rows \subseteq 1..n
    BY <1>1, <1>2 DEF RowsOf
  <2>2. PICK k \in rows : \A j \in rows : j <= k
    <3>1. rows # {}
      BY <2>1
    <3>. HIDE DEF rows
    <3>. QED
      BY <1>1, <2>1, <3>1, Greatest
  <2>3. ~ (now - audit[k].at < TargetSeconds)
    BY <2>2 DEF Gated, CoolingDown
  <2>4. audit[i].at <= audit[k].at
    BY <2>1, <2>2 DEF Orderly
  <2>. QED
    BY <1>1, <2>1, <2>2, <2>3, <2>4, GateAssumption DEF GateAssumption
<1>3. ASSUME NEW seconds \in Nat
      PROVE  /\ CountRecent(c, seconds)
                  = Cardinality(Counted(audit, ToolOf[c], TargetOf[c], now, n, seconds))
             /\ CountRecent(c, seconds) \in Nat
  <2>1. {i \in RowsOf(c) :
             audit[i].decision \in {"auto", "approval"} /\ now - audit[i].at <= seconds}
          = Counted(audit, ToolOf[c], TargetOf[c], now, n, seconds)
    BY <1>1 DEF RowsOf, Counted
  <2>2. Counted(audit, ToolOf[c], TargetOf[c], now, n, seconds) \in SUBSET (1..n)
    BY DEF Counted
  <2>. QED
    BY <1>1, <2>1, <2>2, PartOfInterval DEF CountRecent
<1>4. /\ \E i \in DOMAIN Preapproved : Preapproved[i].tool = ToolOf[c]
      /\ CountRecent(c, Hour) < Preapproved[FirstFor(ToolOf[c])].max
  <2>1. \E i \in DOMAIN Preapproved : Preapproved[i].tool = ToolOf[c]
    BY DEF Decide, EntriesFor
  <2>2. ~ (CountRecent(c, Hour) >= Preapproved[FirstFor(ToolOf[c])].max)
    BY <2>1 DEF Gated, UsedUp, FirstFor
  <2>. QED
    <3>1. Preapproved[FirstFor(ToolOf[c])].max \in Nat
      BY <2>1, AllowanceType
    <3>2. CountRecent(c, Hour) \in Nat
      BY <1>3, GateAssumption DEF GateAssumption
    <3>. QED
      BY <2>1, <2>2, <3>1, <3>2
<1>5. ToolOf[c] \in RestartFamily => CountRecent(c, CrashloopWindow) < CrashloopThreshold
  BY <1>3, GateAssumption DEF Gated, CrashLooping, GateAssumption
<1>. QED
  BY <1>2, <1>3, <1>4, <1>5, GateAssumption DEF Granted, GateAssumption

LEMMA GrantedStep ==
    ASSUME GateTypeOK, RunsHaveStarted, Orderly, AllGranted, GateTypeOK', [GateNext]_gateVars
    PROVE  AllGranted'
<1>. DEFINE old == Len(audit)
            new == Len(audit')
<1>1. /\ old \in Nat /\ new \in Nat /\ old <= new
      /\ \A i \in 1..old : audit'[i] = audit[i]
  BY LogGrows
<1>2. ASSUME NEW tool, NEW target, NEW at, NEW rows \in Nat, rows <= old,
             Granted(audit, tool, target, at, rows)
      PROVE  Granted(audit', tool, target, at, rows)
  BY <1>1, <1>2, GrantedKept
<1>3. ASSUME NEW c \in running, started[c].decision = "auto"
      PROVE  Granted(audit', ToolOf[c], TargetOf[c], started[c].at, started[c].seen)
  BY <1>2, <1>3 DEF AllGranted, Orderly, GateTypeOK
<1>4. ASSUME NEW c \in running', started'[c].decision = "auto"
      PROVE  Granted(audit', ToolOf[c], TargetOf[c], started'[c].at, started'[c].seen)
  <2>1. CASE c \in running /\ started'[c] = started[c]
    BY <1>3, <1>4, <2>1
  <2>2. CASE /\ c \in Calls /\ audit' = audit
             /\ started'[c].at = now /\ started'[c].seen = old
             /\ started'[c].decision = "auto" => Decide(c) = "auto" /\ ~Gated(c)
    BY <1>4, <2>2, GateGrants
  <2>. QED
    BY <2>1, <2>2, WhatStarts
<1>5. ASSUME NEW i \in 1..new, audit'[i].ran, audit'[i].decision = "auto"
      PROVE  Granted(audit', audit'[i].tool, audit'[i].target, audit'[i].began, audit'[i].seen)
  <2>1. CASE i \in 1..old
    <3>1. audit[i] \in RowType
      BY <2>1, ElementOfSeq DEF GateTypeOK, RowType
    <3>2. audit[i].seen \in Nat /\ audit[i].seen <= old
      BY <1>1, <2>1, <3>1 DEF Orderly, RowType
    <3>. QED
      BY <1>1, <1>2, <1>5, <2>1, <3>2 DEF AllGranted
  <2>2. CASE i > old
    <3>1. PICK c \in running :
            audit'[i] = Row(c, started[c].decision, TRUE, started[c].at, started[c].seen)
      BY <1>5, <2>2, LogGrows
    <3>2. /\ started[c].decision = "auto"
          /\ audit'[i].tool = ToolOf[c] /\ audit'[i].target = TargetOf[c]
          /\ audit'[i].began = started[c].at /\ audit'[i].seen = started[c].seen
      BY <1>5, <3>1 DEF Row
    <3>. QED
      BY <1>3, <3>2
  <2>. QED
    BY <1>1, <2>1, <2>2
<1>. QED
  BY <1>4, <1>5 DEF AllGranted

LEMMA GrantedAreApart ==
    ASSUME GateTypeOK, AllGranted
    PROVE  AutoRunsKeepDistance
<1>. SUFFICES ASSUME NEW tool \in Tools, NEW target \in Targets,
                     NEW i \in AutoRuns(tool, target), NEW j \in AutoRuns(tool, target),
                     Follows(j, i)
              PROVE  audit[j].began - audit[i].at >= TargetSeconds
  BY DEF AutoRunsKeepDistance
<1>. audit \in Seq(RowType)
  BY DEF GateTypeOK, RowType
<1>. i \in 1..Len(audit) /\ j \in 1..Len(audit)
  BY DEF AutoRuns
<1>1. i \in 1..Len(audit) /\ j \in 1..Len(audit) /\ audit[j] \in RowType /\ Len(audit) \in Nat
  BY LenProperties, ElementOfSeq
<1>2. i \in 1..audit[j].seen
  BY <1>1 DEF Follows, RowType
<1>3. Granted(audit, tool, target, audit[j].began, audit[j].seen)
  BY <1>1 DEF AllGranted, AutoRuns
<1>. QED
  BY <1>2, <1>3 DEF Granted, AutoRuns

(* Of runs that do not overlap the last has counted all the others.        *)
LEMMA LastHasCounted ==
    ASSUME GateTypeOK, Orderly, NEW tool, NEW target, NEW seconds \in Nat, NEW limit \in Nat,
           NEW i \in AutoRuns(tool, target), Serial(AutoRuns(tool, target)),
           \A k \in AutoRuns(tool, target) :
               Cardinality(Counted(audit, tool, target, audit[k].began, audit[k].seen, seconds)) < limit
    PROVE  Cardinality(Within(AutoRuns(tool, target), i, seconds)) <= limit
<1>. DEFINE S == AutoRuns(tool, target)
            W == Within(S, i, seconds)
            n == Len(audit)
<1>1. n \in Nat /\ \A k \in 1..n : audit[k] \in RowType
  BY LenProperties, ElementOfSeq DEF GateTypeOK, RowType
<1>2. S \subseteq 1..n /\ W \subseteq S
  <2>1. S \subseteq 1..n
    BY DEF AutoRuns
  <2>2. W \subseteq S
    BY DEF Within
  <2>. QED
    BY <2>1, <2>2
<1>3. i \in W
  <2>1. audit[i].began <= audit[i].at /\ audit[i].began \in Nat /\ audit[i].at \in Nat
    BY <1>1, <1>2 DEF Orderly, RowType
  <2>. QED
    BY <1>1, <1>2, <2>1 DEF Within
<1>4. PICK k \in W : \A m \in W : m <= k
  <2>1. W \in SUBSET Nat /\ W # {} /\ \A m \in W : m <= n
    BY <1>1, <1>2, <1>3
  <2>. HIDE DEF W
  <2>. QED
    BY <1>1, <2>1, Greatest
<1>. DEFINE C == Counted(audit, tool, target, audit[k].began, audit[k].seen, seconds)
<1>5. IsFiniteSet(C) /\ Cardinality(C) \in Nat /\ Cardinality(C) < limit
  <2>1. audit[k].seen \in Nat
    BY <1>1, <1>2, <1>4 DEF RowType
  <2>2. C \in SUBSET (1..audit[k].seen)
    BY DEF Counted
  <2>. QED
    BY <1>2, <1>4, <2>1, <2>2, PartOfInterval
<1>6. W \ {k} \subseteq C
  <2>. SUFFICES ASSUME NEW m \in W, m # k PROVE m \in C
    OBVIOUS
  <2>1. m \in 1..n /\ k \in 1..n /\ i \in 1..n /\ m <= k /\ m < k
    BY <1>1, <1>2, <1>3, <1>4
  <2>2. m <= audit[k].seen
    BY <1>2, <1>4, <2>1 DEF Serial, Follows
  <2>3. audit[i].at <= audit[m].at
    BY <2>1 DEF Orderly, Within
  <2>4. audit[k].began <= audit[i].at + seconds
    BY <1>4 DEF Within
  <2>5. audit[k].began - audit[m].at <= seconds
    <3>1. audit[i].at \in Nat /\ audit[m].at \in Nat /\ audit[k].began \in Nat
      BY <1>1, <2>1 DEF RowType
    <3>. QED
      BY <2>3, <2>4, <3>1
  <2>6. audit[m].tool = tool /\ audit[m].target = target /\ audit[m].decision = "auto"
    BY <1>2 DEF AutoRuns
  <2>7. m \in 1..audit[k].seen
    BY <1>1, <2>1, <2>2 DEF RowType
  <2>. QED
    BY <2>5, <2>6, <2>7 DEF Counted
<1>7. IsFiniteSet(W) /\ Cardinality(W) \in Nat
  <2>1. W \in SUBSET (1..n)
    BY <1>2
  <2>. QED
    BY <1>1, <2>1, PartOfInterval
<1>8. Cardinality(W \ {k}) = Cardinality(W) - 1
  BY <1>4, <1>7, FS_RemoveElement
<1>9. Cardinality(W \ {k}) <= Cardinality(C)
  BY <1>5, <1>6, FS_Subset
<1>10. Cardinality(W) <= limit
  <2>. HIDE DEF W, C
  <2>. QED
    BY <1>5, <1>7, <1>8, <1>9
<1>. QED
  BY <1>10

LEMMA GrantedAreRationed ==
    ASSUME GateTypeOK, Orderly, AllGranted
    PROVE  AutoRunsAreRationed
<1>. SUFFICES ASSUME NEW tool \in Tools, NEW target \in Targets,
                     Serial(AutoRuns(tool, target)), NEW i \in AutoRuns(tool, target)
              PROVE  LET S == AutoRuns(tool, target) IN
                     /\ Cardinality(Within(S, i, Hour)) <= Preapproved[FirstFor(tool)].max
                     /\ tool \in RestartFamily =>
                          Cardinality(Within(S, i, CrashloopWindow)) <= CrashloopThreshold
  BY DEF AutoRunsAreRationed
<1>1. ASSUME NEW k \in AutoRuns(tool, target)
      PROVE  Granted(audit, tool, target, audit[k].began, audit[k].seen)
  BY LenProperties DEF AllGranted, AutoRuns, GateTypeOK
<1>2. Preapproved[FirstFor(tool)].max \in Nat
  BY <1>1, AllowanceType DEF Granted
<1>3. Cardinality(Within(AutoRuns(tool, target), i, Hour)) <= Preapproved[FirstFor(tool)].max
  <2>1. \A k \in AutoRuns(tool, target) :
          Cardinality(Counted(audit, tool, target, audit[k].began, audit[k].seen, Hour))
            < Preapproved[FirstFor(tool)].max
    BY <1>1 DEF Granted
  <2>2. Hour \in Nat
    BY GateAssumption DEF GateAssumption
  <2>. QED
    BY <1>2, <2>1, <2>2, LastHasCounted
<1>4. ASSUME tool \in RestartFamily
      PROVE  Cardinality(Within(AutoRuns(tool, target), i, CrashloopWindow)) <= CrashloopThreshold
  <2>1. \A k \in AutoRuns(tool, target) :
          Cardinality(Counted(audit, tool, target, audit[k].began, audit[k].seen, CrashloopWindow))
            < CrashloopThreshold
    BY <1>1, <1>4 DEF Granted
  <2>2. CrashloopWindow \in Nat /\ CrashloopThreshold \in Nat
    BY GateAssumption DEF GateAssumption
  <2>. QED
    BY <2>1, <2>2, LastHasCounted
<1>. QED
  BY <1>3, <1>4

(* Runs Forge starts by itself keep the cooldown and the allowance of an   *)
(* hour, and restarts the crash-loop brake, for every setting of them, as  *)
(* far as the gate can see: AutoRunsAreLimited says which runs it counts.  *)
THEOREM AutoRunsStayLimited == GateSpec => []AutoRunsAreLimited
<1>1. GateInit => Orderly /\ AllGranted
  BY DEF GateInit, Orderly, AllGranted
<1>2. /\ GateTypeOK /\ RunsHaveStarted /\ Orderly /\ AllGranted /\ GateTypeOK' /\ [GateNext]_gateVars
      => Orderly' /\ AllGranted'
  BY OrderlyStep, GrantedStep
<1>3. GateTypeOK /\ Orderly /\ AllGranted => AutoRunsAreLimited
  BY GrantedAreApart, GrantedAreRationed DEF AutoRunsAreLimited
<1>. QED
  BY <1>1, <1>2, <1>3, GateTypes, PTL DEF GateSpec

-----------------------------------------------------------------------------
(* The tools.                                                              *)

ToolsSpec == ToolsInit /\ [][ToolsNext]_toolVars

Baselines == Commits \cup Images \cup {None}

ToolsTypes ==
    /\ errand \in [Slots -> [tool : ToolNames \cup {"none"},
                             pc : {"idle", "start", "note", "tag", "deploy"}, read : Baselines]]
    /\ repo \in [head : Baselines, tag : Baselines, deployed : Baselines]
    /\ container \in [up : BOOLEAN, image : Baselines]
    /\ known \in [image : Baselines, ref : Baselines]
    /\ file \in [image : Baselines, ref : Baselines]

(* What a call is about to write down as good has been seen: between its   *)
(* reading and its writing nothing it has read becomes unseen.             *)
ReadIsSeen == \A s \in Slots : errand[s].pc \in {"tag", "note"} => errand[s].read \in seen

ToolsInv == ToolsTypes /\ ReadIsSeen /\ RollbacksLeadBack

(* A rollback leads back to what was seen working, however many calls      *)
(* overlap, fail or are cut off by a restart.                              *)
THEOREM RollbacksAreSafe == ToolsSpec => []RollbacksLeadBack
<1>1. ToolsInit => ToolsInv
  BY DEF ToolsInit, ToolsInv, ToolsTypes, ReadIsSeen, RollbacksLeadBack, NoErrand, NothingKnown,
         Baselines, At
<1>2. ToolsInv /\ [ToolsNext]_toolVars => ToolsInv'
  <2>. SUFFICES ASSUME ToolsInv, [ToolsNext]_toolVars PROVE ToolsInv'
    OBVIOUS
  <2>. USE DEF ToolsInv, ToolsTypes, ReadIsSeen, RollbacksLeadBack, NoErrand, At, Ends,
               HistoryRest, HostRest, NotesRest
  <2>1. ASSUME NEW s \in Slots, NEW tool \in ToolNames, CallTool(s, tool) PROVE ToolsInv'
    <3>. DEFINE e == [NoErrand EXCEPT !.tool = tool, !.pc = "start"]
    <3>1. e \in [tool : ToolNames \cup {"none"},
                 pc : {"idle", "start", "note", "tag", "deploy"}, read : Baselines]
      BY DEF Baselines
    <3>2. e.pc = "start"
      OBVIOUS
    <3>3. /\ errand' = [errand EXCEPT ![s] = e]
          /\ astray' = astray \ {s} /\ UNCHANGED <<repo, container, known, file, seen>>
      BY <2>1 DEF CallTool
    <3>. HIDE DEF e
    <3>. QED
      BY <3>1, <3>2, <3>3
  <2>2. ASSUME NEW s \in Slots, Lifecycle(s) PROVE ToolsInv'
    <3>1. errand' = [errand EXCEPT ![s] = [tool |-> "none", pc |-> "idle", read |-> None]]
      BY <2>2 DEF Lifecycle
    <3>2. container' \in [up : BOOLEAN, image : Baselines]
      BY <2>2 DEF Lifecycle
    <3>3. UNCHANGED <<repo, known, file, seen, astray>>
      BY <2>2 DEF Lifecycle
    <3>. QED
      BY <3>1, <3>2, <3>3 DEF Baselines
  <2>3. ASSUME NEW s \in Slots, NEW number \in Replicas, Scale(s, number) PROVE ToolsInv'
    BY <2>3 DEF Scale, Baselines
  <2>4. ASSUME NEW s \in Slots, ToolFails(s) PROVE ToolsInv'
    BY <2>4 DEF ToolFails, Baselines
  <2>5. ASSUME NEW s \in Slots, ReadImage(s) PROVE ToolsInv'
    BY <2>5 DEF ReadImage, Baselines
  <2>6. ASSUME NEW s \in Slots, NoteImage(s) PROVE ToolsInv'
    BY <2>6 DEF NoteImage, KeepNotes, Baselines
  <2>7. ASSUME NEW s \in Slots, ReadHead(s) PROVE ToolsInv'
    <3>1. /\ errand' = [errand EXCEPT ![s].pc = "tag", ![s].read = repo.head]
          /\ seen' = seen \cup {repo.head}
          /\ UNCHANGED <<repo, container, known, file, astray>>
      BY <2>7 DEF ReadHead
    <3>2. errand' \in [Slots -> [tool : ToolNames \cup {"none"},
                                 pc : {"idle", "start", "note", "tag", "deploy"}, read : Baselines]]
      BY <3>1, ZenonT(30)
    <3>3. errand'[s].pc = "tag" /\ errand'[s].read = repo.head
      BY <3>1
    <3>4. \A t \in Slots \ {s} : errand'[t] = errand[t]
      BY <3>1
    <3>5. ToolsTypes' /\ ReadIsSeen'
      BY <3>1, <3>2, <3>3, <3>4
    <3>6. RollbacksLeadBack'
      BY <3>1, <3>3, <3>4
    <3>. QED
      BY <3>5, <3>6
  <2>8. ASSUME NEW s \in Slots, TagHead(s) PROVE ToolsInv'
    <3>1. /\ errand[s].tool = "git_mark_good" /\ errand[s].pc = "tag"
          /\ repo' = [repo EXCEPT !.tag = errand[s].read]
          /\ UNCHANGED <<container, known, file, seen, astray>>
      BY <2>8 DEF TagHead, Tagged
    <3>2. /\ repo' \in [head : Baselines, tag : Baselines, deployed : Baselines]
          /\ repo'.tag \in seen /\ repo'.head = repo.head
      BY <3>1
    <3>3. CASE errand' = [errand EXCEPT ![s].pc = "note"]
      <4>. PICK e : e = [errand[s] EXCEPT !.pc = "note"]
        OBVIOUS
      <4>1. /\ e \in [tool : ToolNames \cup {"none"},
                      pc : {"idle", "start", "note", "tag", "deploy"}, read : Baselines]
            /\ e.pc = "note" /\ e.read = errand[s].read
        OBVIOUS
      <4>2. errand' = [errand EXCEPT ![s] = e]
        BY <3>3
      <4>3. ToolsTypes'
        BY <3>1, <3>2, <4>1, <4>2
      <4>4. ReadIsSeen'
        BY <3>1, <4>1, <4>2
      <4>5. RollbacksLeadBack'
        BY <3>1, <3>2, <4>1, <4>2
      <4>. QED
        BY <4>3, <4>4, <4>5
    <3>4. CASE errand' = [errand EXCEPT ![s] = NoErrand]
      <4>1. ToolsTypes'
        BY <3>1, <3>2, <3>4 DEF Baselines
      <4>2. ReadIsSeen' /\ RollbacksLeadBack'
        BY <3>1, <3>2, <3>4
      <4>. QED
        BY <4>1, <4>2
    <3>. QED
      BY <2>8, <3>3, <3>4 DEF TagHead
  <2>9. ASSUME NEW s \in Slots, NoteRef(s) PROVE ToolsInv'
    BY <2>9 DEF NoteRef, KeepNotes, Baselines
  <2>10. ASSUME NEW s \in Slots, Checkout(s) PROVE ToolsInv'
    BY <2>10 DEF Checkout, Baselines
  <2>11. ASSUME NEW s \in Slots, Deploy(s) PROVE ToolsInv'
    BY <2>11 DEF Deploy, Baselines
  <2>12. ASSUME NEW s \in Slots, RollbackImage(s) PROVE ToolsInv'
    BY <2>12 DEF RollbackImage, Baselines
  <2>13. ASSUME NEW commit \in Commits, CommitByHand(commit) PROVE ToolsInv'
    BY <2>13 DEF CommitByHand, Baselines
  <2>14. ASSUME NEW image \in Images, DeployByHand(image) PROVE ToolsInv'
    BY <2>14 DEF DeployByHand, Baselines
  <2>15. ASSUME ForgeRestarts PROVE ToolsInv'
    BY <2>15 DEF ForgeRestarts, Baselines
  <2>16. ASSUME UNCHANGED toolVars PROVE ToolsInv'
    BY <2>16 DEF toolVars
  <2>. QED
    BY <2>1, <2>2, <2>3, <2>4, <2>5, <2>6, <2>7, <2>8, <2>9, <2>10, <2>11, <2>12, <2>13,
       <2>14, <2>15, <2>16 DEF ToolsNext
<1>3. ToolsInv => RollbacksLeadBack
  BY DEF ToolsInv
<1>. QED
  BY <1>1, <1>2, <1>3, PTL DEF ToolsSpec

-------------------------------------------------------------------------------
(* Approvals and proposals: ApprovalFlow.                                  *)

Single(seq) == \A j, k \in DOMAIN seq : seq[j] = seq[k] => j = k

(* An item is appended once, and keeps its queue free of doubles.          *)
LEMMA AppendJoins ==
    ASSUME NEW S, NEW seq \in Seq(S), NEW i \in S
    PROVE  /\ Append(seq, i) \in Seq(S)
           /\ ToSet(Append(seq, i)) = ToSet(seq) \cup {i}
           /\ Single(seq) /\ i \notin ToSet(seq) => Single(Append(seq, i))
<1> DEFINE new == Append(seq, i)
<1>1. /\ new \in Seq(S) /\ Len(new) = Len(seq) + 1 /\ new[Len(seq) + 1] = i
      /\ \A k \in 1 .. Len(seq) : new[k] = seq[k]
    OBVIOUS
<1>2. /\ DOMAIN new = 1 .. Len(seq) + 1 /\ DOMAIN seq = 1 .. Len(seq) /\ Len(seq) \in Nat
    BY <1>1
<1> HIDE DEF new
<1>3. ToSet(new) = ToSet(seq) \cup {i}
    BY <1>1, <1>2 DEF ToSet
<1>4. ASSUME Single(seq), i \notin ToSet(seq) PROVE Single(new)
    BY <1>1, <1>2, <1>4 DEF ToSet, Single
<1> QED
    BY <1>1, <1>3, <1>4 DEF new

(* A queue without doubles loses exactly the item that is popped.          *)
LEMMA WithoutLoses ==
    ASSUME NEW S, NEW seq \in Seq(S), NEW i, Single(seq)
    PROVE  /\ Without(seq, i) \in Seq(S)
           /\ ToSet(Without(seq, i)) = ToSet(seq) \ {i}
           /\ Single(Without(seq, i))
<1>1. CASE i \notin ToSet(seq)
    BY <1>1 DEF Without
<1>2. CASE i \in ToSet(seq)
  <2>1. PICK at \in DOMAIN seq : at = (CHOOSE k \in DOMAIN seq : seq[k] = i) /\ seq[at] = i
      BY <1>2 DEF ToSet
  <2> DEFINE front == SubSeq(seq, 1, at - 1)
             back == SubSeq(seq, at + 1, Len(seq))
             new == front \o back
  <2>2. Without(seq, i) = new
      BY <1>2, <2>1 DEF Without, RemoveAt
  <2>3. DOMAIN seq = 1 .. Len(seq) /\ Len(seq) \in Nat /\ at \in 1 .. Len(seq)
      BY <2>1
  <2>4. /\ front \in Seq(S) /\ Len(front) = at - 1
        /\ \A k \in 1 .. at - 1 : front[k] = seq[k]
      BY <2>3
  <2>5. /\ back \in Seq(S) /\ Len(back) = Len(seq) - at
        /\ \A k \in 1 .. Len(seq) - at : back[k] = seq[at + k]
      BY <2>3
  <2> HIDE DEF front, back
  <2>6. /\ new \in Seq(S) /\ Len(new) = Len(seq) - 1
        /\ DOMAIN new = 1 .. Len(seq) - 1
        /\ \A k \in 1 .. Len(seq) - 1 : new[k] = IF k < at THEN seq[k] ELSE seq[k + 1]
    <3>1. /\ new \in Seq(S) /\ Len(new) = Len(front) + Len(back)
          /\ \A k \in 1 .. Len(front) + Len(back) :
               new[k] = IF k <= Len(front) THEN front[k] ELSE back[k - Len(front)]
        BY <2>4, <2>5
    <3> HIDE DEF new
    <3>2. Len(new) = Len(seq) - 1 /\ DOMAIN new = 1 .. Len(seq) - 1
        BY <3>1, <2>3, <2>4, <2>5
    <3>3. ASSUME NEW k \in 1 .. Len(seq) - 1
          PROVE  new[k] = IF k < at THEN seq[k] ELSE seq[k + 1]
      <4>1. CASE k < at
          BY <4>1, <3>1, <2>3, <2>4, <2>5
      <4>2. CASE ~(k < at)
        <5>1. new[k] = back[k - (at - 1)]
            BY <4>2, <3>1, <2>3, <2>4, <2>5
        <5>2. k - (at - 1) \in 1 .. Len(seq) - at /\ at + (k - (at - 1)) = k + 1
            BY <4>2, <2>3
        <5> QED
            BY <5>1, <5>2, <4>2, <2>5
      <4> QED
          BY <4>1, <4>2
    <3> QED
        BY <3>1, <3>2, <3>3
  <2> HIDE DEF new
  <2>7. Single(new)
    <3> SUFFICES ASSUME NEW j \in 1 .. Len(seq) - 1, NEW k \in 1 .. Len(seq) - 1, new[j] = new[k]
                 PROVE  j = k
        BY <2>6 DEF Single
    <3> DEFINE from(m) == IF m < at THEN m ELSE m + 1
    <3>1. /\ from(j) \in DOMAIN seq /\ new[j] = seq[from(j)]
          /\ from(k) \in DOMAIN seq /\ new[k] = seq[from(k)]
        BY <2>3, <2>6
    <3>2. from(j) = from(k)
      <4> HIDE DEF from
      <4> QED
          BY <3>1 DEF Single
    <3> QED
        BY <2>3, <3>2
  <2>8. ASSUME NEW x \in ToSet(new) PROVE x \in ToSet(seq) \ {i}
    <3>1. PICK k \in 1 .. Len(seq) - 1 : x = new[k]
        BY <2>6 DEF ToSet
    <3>2. PICK j \in DOMAIN seq : x = seq[j] /\ j # at
        BY <3>1, <2>3, <2>6
    <3> QED
        BY <3>2, <2>1 DEF Single, ToSet
  <2>9. ASSUME NEW x \in ToSet(seq) \ {i} PROVE x \in ToSet(new)
    <3>1. PICK j \in 1 .. Len(seq) : x = seq[j] /\ j # at
        BY <2>1, <2>3 DEF ToSet
    <3>2. CASE j < at
        BY <3>1, <3>2, <2>3, <2>6 DEF ToSet
    <3>3. CASE j > at
      <4>1. j - 1 \in 1 .. Len(seq) - 1 /\ new[j - 1] = x
          BY <3>1, <3>3, <2>3, <2>6
      <4> QED
          BY <4>1, <2>6 DEF ToSet
    <3> QED
        BY <3>1, <3>2, <3>3, <2>3
  <2> QED
      BY <2>2, <2>6, <2>7, <2>8, <2>9
<1> QED
    BY <1>1, <1>2

(* The newest item is one of them.                                         *)
LEMMA LastIsThere ==
    ASSUME NEW S, NEW seq \in Seq(S), seq # << >>
    PROVE  Last(seq) \in ToSet(seq) /\ Last(seq) \in S
    BY DEF Last, ToSet

(* What is left behind the first n.                                        *)
LEMMA RestIsTyped ==
    ASSUME NEW S, NEW seq \in Seq(S), NEW n \in 0 .. Len(seq)
    PROVE  /\ SubSeq(seq, n + 1, Len(seq)) \in Seq(S)
           /\ n < Len(seq) => seq[n + 1] \in S
    OBVIOUS

LEMMA MembersAreTyped ==
    ASSUME NEW S, NEW seq \in Seq(S)
    PROVE  ToSet(seq) \subseteq S
    BY DEF ToSet

-----------------------------------------------------------------------------
(* The types, and what makes the queues dicts: an item is in one at most   *)
(* once. Whoever is being posted has been taken out of its queue.          *)
Queues ==
    /\ Single(pending) /\ Single(proposed)
    /\ bot.on = Nothing => answer = "none"

(* Forge has closed a, or forgotten it, and has not run it.                *)
NeverRuns(a) == ran[a] = 0 /\ store[a] \notin {"new", "pending"}

(* No verdict on a has reached Forge yet: it has not been relayed, or it   *)
(* waits in the bridge, or the bot's POST has not been handled.            *)
Undecided(a) ==
    relay[a] = "none" \/ a \in ToSet(pending) \/ (bot.on = a /\ answer = "none")

ApprovalIs(a) ==
    /\ request[a] = "none" => store[a] = "new"
    /\ request[a] = "posting" \/ relay[a] # "none" => store[a] # "new"
    /\ a \in ToSet(pending) \/ bot.on = a => relay[a] # "none"
    /\ bot.on = a => a \notin ToSet(pending)
    /\ Undecided(a) \/ store[a] \in {"new", "pending", "rejected", "expired"} => ran[a] = 0
    /\ ran[a] <= 1
    /\ bot.on = a /\ bot.word = "no" =>
          /\ answer \notin {"running", "result"}
          /\ answer \in {"null", "missing"} => NeverRuns(a)
    /\ "rejected" \in told[a] => NeverRuns(a)

ProposalIs(p) ==
    /\ notice[p] = "none" => p \notin ToSet(proposed)
    /\ p \in armed => p \in ToSet(proposed)
    /\ notice[p] = "none" \/ p \in ToSet(proposed) =>
          acted[p] = 0 /\ "cancelled" \notin told[p]
    /\ acted[p] <= 1
    /\ "cancelled" \in told[p] => acted[p] = 0

Inv ==
    /\ TypeOK
    /\ Queues
    /\ \A a \in Approvals : ApprovalIs(a)
    /\ \A p \in Proposals : ProposalIs(p)

-----------------------------------------------------------------------------
(* What a message adds to what was told.                                   *)
TellsOnly(i, what) ==
    /\ told' \in [Items -> SUBSET Messages]
    /\ mishaps' \in 0 .. MaxMishaps
    /\ \A j \in Items : \A m \in told'[j] : m \in told[j] \/ (j = i /\ m = what)

LEMMA MishapIs ==
    ASSUME TypeOK, Mishap
    PROVE  mishaps' \in 0 .. MaxMishaps
BY FlowAssumption DEF FlowAssumption, TypeOK, Mishap

LEMMA TellIs ==
    ASSUME TypeOK, NEW i \in Items, NEW what \in Messages,
           told' \in {told, [told EXCEPT ![i] = @ \cup {what}]}, mishaps' \in 0 .. MaxMishaps
    PROVE  TellsOnly(i, what)
<1>1. told \in [Items -> SUBSET Messages]
    BY DEF TypeOK
<1>2. \A j \in Items : told'[j] = told[j] \/ (j = i /\ told'[j] = told[j] \cup {what})
    BY <1>1
<1>3. told' \in [Items -> SUBSET Messages]
  <2>1. told[i] \cup {what} \in SUBSET Messages
      BY <1>1
  <2> QED
      BY <1>1, <2>1
<1>4. ASSUME NEW j \in Items, NEW m \in told'[j]
      PROVE  m \in told[j] \/ (j = i /\ m = what)
    BY <1>2, <1>4
<1> QED
    BY <1>3, <1>4 DEF TellsOnly

LEMMA TellTells ==
    ASSUME TypeOK, NEW i \in Items, NEW what \in Messages, Tell(i, what)
    PROVE  TellsOnly(i, what)
<1>1. told' \in {told, [told EXCEPT ![i] = @ \cup {what}]}
    BY DEF Tell
<1>2. mishaps' \in 0 .. MaxMishaps
    BY MishapIs DEF Tell, TypeOK
<1> QED
    BY <1>1, <1>2, TellIs

(* A message that is not a rejection leaves every approval as it was, if   *)
(* nothing else has changed.                                               *)
LEMMA ApprovalsStay ==
    ASSUME Inv, UNCHANGED <<forgeVars, relay, pending, bot, answer>>,
           \A a \in Approvals : "rejected" \in told'[a] => "rejected" \in told[a]
    PROVE  \A a \in Approvals : ApprovalIs(a)'
BY DEF Inv, ApprovalIs, Undecided, NeverRuns, forgeVars

LEMMA ProposalsStay ==
    ASSUME Inv, UNCHANGED <<proposed, notice, armed, acted>>,
           \A p \in Proposals : "cancelled" \in told'[p] => "cancelled" \in told[p]
    PROVE  \A p \in Proposals : ProposalIs(p)'
BY DEF Inv, ProposalIs

LEMMA InvInit == Init => Inv
<1> SUFFICES ASSUME Init PROVE Inv
    OBVIOUS
<1>1. TypeOK
    BY FlowAssumption DEF FlowAssumption, Init, TypeOK, NotPosting, Words, Items
<1>2. ToSet(pending) = {} /\ ToSet(proposed) = {}
    BY DEF Init, ToSet
<1>3. Queues
    BY DEF Init, Queues, Single, NotPosting
<1>4. \A a \in Approvals : ApprovalIs(a)
    BY <1>2, FlowAssumption DEF FlowAssumption, Init, ApprovalIs, Undecided, NeverRuns, NotPosting, Items
<1>5. \A p \in Proposals : ProposalIs(p)
    BY <1>2 DEF Init, ProposalIs, Items
<1> QED
    BY <1>1, <1>3, <1>4, <1>5 DEF Inv

-----------------------------------------------------------------------------
(* Forge.                                                                  *)

LEMMA CallStep == ASSUME Inv, NEW a \in Approvals, Call(a) PROVE Inv'
<1> USE DEF Call, bridgeVars, watchdogVars, chatVars
<1>1. TypeOK'
    BY DEF Inv, TypeOK, Items
<1>2. Queues'
    BY DEF Inv, Queues
<1>3. ASSUME NEW b \in Approvals PROVE ApprovalIs(b)'
    BY DEF Inv, TypeOK, ApprovalIs, Undecided, NeverRuns
<1>4. \A p \in Proposals : ProposalIs(p)'
    BY ProposalsStay
<1> QED
    BY <1>1, <1>2, <1>3, <1>4 DEF Inv

LEMMA RelayStep == ASSUME Inv, NEW a \in Approvals, Relay(a) PROVE Inv'
<1> USE DEF Relay, forgeVars, sweepVars, watchdogVars, chatVars
<1>1. a \notin ToSet(pending) /\ bot.on # a
    BY DEF Inv, ApprovalIs
<1>2. pending \in Seq(Approvals) /\ Single(pending)
    BY DEF Inv, TypeOK, Queues
<1>3. pending' \in Seq(Approvals) /\ Single(pending') /\ ToSet(pending') = ToSet(pending) \cup {a}
    BY <1>1, <1>2, AppendJoins
<1>4. TypeOK'
    BY <1>3 DEF Inv, TypeOK, Items
<1>5. Queues'
    BY <1>3 DEF Inv, Queues
<1>6. ASSUME NEW b \in Approvals PROVE ApprovalIs(b)'
    BY <1>1, <1>3 DEF Inv, TypeOK, ApprovalIs, Undecided, NeverRuns
<1>7. \A p \in Proposals : ProposalIs(p)'
    BY ProposalsStay
<1> QED
    BY <1>4, <1>5, <1>6, <1>7 DEF Inv

LEMMA NotifyStep == ASSUME Inv, NEW a \in Approvals, Notify(a) PROVE Inv'
<1> USE DEF Notify, forgeVars, sweepVars, watchdogVars, chatVars
<1>1. TellsOnly(a, "asked")
  <2>1. CASE Tell(a, "asked")
      BY <2>1, TellTells DEF Inv, Items, Messages
  <2>2. CASE Mishap /\ told' \in {told, [told EXCEPT ![a] = @ \cup {"asked"}]}
      BY <2>2, MishapIs, TellIs DEF Inv, Items, Messages
  <2> QED
      BY <2>1, <2>2
<1>2. relay' \in [Approvals -> {"none", "notifying", "accepted", "error"}]
      /\ \A b \in Approvals : relay'[b] = "none" <=> relay[b] = "none"
    BY DEF Inv, TypeOK
<1>3. TypeOK'
    BY <1>1, <1>2 DEF Inv, TypeOK, TellsOnly, Items
<1>4. Queues'
    BY DEF Inv, Queues
<1>5. ASSUME NEW b \in Approvals PROVE ApprovalIs(b)'
    BY <1>1, <1>2 DEF Inv, TypeOK, ApprovalIs, Undecided, NeverRuns, TellsOnly, Items
<1>6. \A p \in Proposals : ProposalIs(p)'
    BY <1>1, ProposalsStay DEF TellsOnly, Items
<1> QED
    BY <1>3, <1>4, <1>5, <1>6 DEF Inv

LEMMA PostedStep == ASSUME Inv, NEW a \in Approvals, Posted(a) PROVE Inv'
<1> USE DEF Posted, bridgeVars, watchdogVars, chatVars
<1>1. /\ mishaps' \in 0 .. MaxMishaps
      /\ request' \in [Approvals ->
                           {"none", "posting", "waiting", "duplicate", "not_run", "broken"}]
      /\ \A b \in Approvals : b = a \/ request'[b] = request[b]
      /\ request'[a] \in {"waiting", "not_run"}
    BY MishapIs DEF Inv, TypeOK
<1>2. /\ store' \in [Approvals ->
                         {"new", "pending", "approved", "rejected", "expired", "lost"}]
      /\ \A b \in Approvals : \/ store'[b] = store[b]
                              \/ store[b] = "pending" /\ store'[b] = "expired"
    BY ZenonT(30) DEF Inv, TypeOK, Close
<1>3. TypeOK'
    BY <1>1, <1>2 DEF Inv, TypeOK, Items
<1>4. Queues'
    BY DEF Inv, Queues
<1>5. ASSUME NEW b \in Approvals PROVE ApprovalIs(b)'
    BY <1>1, <1>2 DEF Inv, TypeOK, ApprovalIs, Undecided, NeverRuns
<1>6. \A p \in Proposals : ProposalIs(p)'
    BY ProposalsStay
<1> QED
    BY <1>3, <1>4, <1>5, <1>6 DEF Inv

LEMMA ForgeSweepStep == ASSUME Inv, ForgeSweep PROVE Inv'
<1> USE DEF ForgeSweep, bridgeVars, watchdogVars, chatVars
<1>1. TypeOK'
    BY DEF Inv, TypeOK, Items
<1>2. Queues'
    BY DEF Inv, Queues
<1>3. ASSUME NEW b \in Approvals PROVE ApprovalIs(b)'
    BY DEF Inv, TypeOK, ApprovalIs, Undecided, NeverRuns, Overdue
<1>4. \A p \in Proposals : ProposalIs(p)'
    BY ProposalsStay
<1> QED
    BY <1>1, <1>2, <1>3, <1>4 DEF Inv

LEMMA TickStep == ASSUME Inv, Tick PROVE Inv'
<1> USE DEF Tick, forgeVars, bridgeVars, watchdogVars, chatVars
<1>1. age' \in [Approvals -> 0 .. BridgeTimeout]
    BY FlowAssumption DEF FlowAssumption, Inv, TypeOK
<1>2. TypeOK'
    BY <1>1 DEF Inv, TypeOK, Items
<1>3. Queues'
    BY DEF Inv, Queues
<1>4. \A b \in Approvals : ApprovalIs(b)'
    BY ApprovalsStay
<1>5. \A p \in Proposals : ProposalIs(p)'
    BY ProposalsStay
<1> QED
    BY <1>2, <1>3, <1>4, <1>5 DEF Inv

(* A yes runs what is still pending; everything else closes it for good.   *)
LEMMA ResolveStep == ASSUME Inv, Resolve PROVE Inv'
<1> USE DEF Resolve, bridgeVars, watchdogVars, chatVars
<1>1. PICK a \in Approvals : bot.on = a
    BY DEF Inv, TypeOK
<1>2. /\ store' \in [Approvals ->
                         {"new", "pending", "approved", "rejected", "expired", "lost"}]
      /\ ran' \in [Approvals -> Nat]
      /\ \A b \in Approvals : b # a => store'[b] = store[b] /\ ran'[b] = ran[b]
      /\ answer' \in {"missing", "running", "null"}
  <2>1. CASE store[a] = "lost"
      BY <1>1, <2>1 DEF Inv, TypeOK
  <2>2. CASE store[a] = "pending" /\ bot.word = "yes"
    <3>1. /\ store' = [store EXCEPT ![a] = "approved"]
          /\ ran' = [ran EXCEPT ![a] = @ + 1]
          /\ answer' = "running"
        BY <1>1, <2>2
    <3>2. store \in [Approvals ->
                       {"new", "pending", "approved", "rejected", "expired", "lost"}]
          /\ ran \in [Approvals -> Nat] /\ ran[a] + 1 \in Nat
        BY DEF Inv, TypeOK
    <3> QED
        BY <3>1, <3>2 DEF Inv
  <2>3. CASE store[a] # "lost" /\ ~(store[a] = "pending" /\ bot.word = "yes")
      BY <1>1, <2>3 DEF Inv, TypeOK, Close
  <2> QED
      BY <2>1, <2>2, <2>3
<1>3. /\ store[a] # "new" /\ ran[a] = 0 /\ a \notin ToSet(pending) /\ relay[a] # "none"
      /\ "rejected" \in told[a] => store[a] # "pending"
    BY <1>1 DEF Inv, ApprovalIs, Undecided, NeverRuns
<1>4. \/ /\ store[a] = "pending" /\ bot.word = "yes"
         /\ store'[a] = "approved" /\ ran'[a] = 1 /\ answer' = "running"
      \/ store'[a] \notin {"new", "pending"} /\ ran'[a] = 0 /\ answer' # "running"
    BY <1>1, <1>3 DEF Inv, TypeOK, Close
<1>5. TypeOK'
    BY <1>2 DEF Inv, TypeOK, Items
<1>6. Queues'
    BY DEF Inv, Queues
<1>7. ASSUME NEW b \in Approvals PROVE ApprovalIs(b)'
  <2>1. CASE b = a
      BY <2>1, <1>1, <1>2, <1>3, <1>4 DEF Inv, TypeOK, ApprovalIs, Undecided, NeverRuns
  <2>2. CASE b # a
      BY <2>2, <1>1, <1>2 DEF Inv, TypeOK, ApprovalIs, Undecided, NeverRuns
  <2> QED
      BY <2>1, <2>2
<1>8. \A p \in Proposals : ProposalIs(p)'
    BY ProposalsStay
<1> QED
    BY <1>5, <1>6, <1>7, <1>8 DEF Inv

LEMMA ToolEndsStep == ASSUME Inv, ToolEnds PROVE Inv'
<1> USE DEF ToolEnds, forgeVars, bridgeVars, watchdogVars, chatVars
<1>1. TypeOK'
    BY DEF Inv, TypeOK, Items
<1>2. Queues'
    BY DEF Inv, Queues
<1>3. ASSUME NEW b \in Approvals PROVE ApprovalIs(b)'
    BY DEF Inv, TypeOK, ApprovalIs, Undecided, NeverRuns
<1>4. \A p \in Proposals : ProposalIs(p)'
    BY ProposalsStay
<1> QED
    BY <1>1, <1>2, <1>3, <1>4 DEF Inv

(* The bot is free again. What it says is true for good.                   *)
LEMMA AnsweredStep == ASSUME Inv, Answered PROVE Inv'
<1> USE DEF Answered, forgeVars, bridgeVars, watchdogVars, chatVars
<1>1. PICK a \in Approvals : bot.on = a
    BY DEF Inv, TypeOK
<1>2. Verdict \in {"rejected", "problem", "approved"}
    BY DEF Verdict
<1>3. TellsOnly(a, Verdict)
    BY <1>1, <1>2, TellTells DEF Inv, Items, Messages
<1>4. Verdict = "rejected" => NeverRuns(a)
    BY <1>1 DEF Verdict, Inv, ApprovalIs, NeverRuns
<1>5. TypeOK'
    BY <1>3 DEF Inv, TypeOK, TellsOnly, NotPosting, Words, Items
<1>6. Queues'
    BY DEF Inv, Queues
<1>7. ASSUME NEW b \in Approvals PROVE ApprovalIs(b)'
    BY <1>3, <1>4, FlowAssumption
       DEF FlowAssumption, Inv, TypeOK, ApprovalIs, Undecided, NeverRuns, TellsOnly, NotPosting, Items
<1>8. \A p \in Proposals : ProposalIs(p)'
    BY <1>2, <1>3, ProposalsStay DEF TellsOnly, Items
<1> QED
    BY <1>5, <1>6, <1>7, <1>8 DEF Inv

LEMMA UnansweredStep == ASSUME Inv, Unanswered PROVE Inv'
<1> USE DEF Unanswered, forgeVars, bridgeVars, watchdogVars, chatVars
<1>1. PICK a \in Approvals : bot.on = a
    BY DEF Inv, TypeOK
<1>2. TellsOnly(a, "unreachable")
  <2>1. CASE Tell(bot.on, "unreachable")
      BY <1>1, <2>1, TellTells DEF Inv, Items, Messages
  <2>2. CASE Mishap /\ told' = [told EXCEPT ![bot.on] = @ \cup {"unreachable"}]
      BY <1>1, <2>2, MishapIs, TellIs DEF Inv, Items, Messages
  <2> QED
      BY <2>1, <2>2
<1>3. TypeOK'
    BY <1>2 DEF Inv, TypeOK, TellsOnly, NotPosting, Words, Items
<1>4. Queues'
    BY DEF Inv, Queues
<1>5. ASSUME NEW b \in Approvals PROVE ApprovalIs(b)'
    BY <1>2, FlowAssumption
       DEF FlowAssumption, Inv, TypeOK, ApprovalIs, Undecided, NeverRuns, TellsOnly, NotPosting, Items
<1>6. \A p \in Proposals : ProposalIs(p)'
    BY <1>2, ProposalsStay DEF TellsOnly, Items
<1> QED
    BY <1>3, <1>4, <1>5, <1>6 DEF Inv

-----------------------------------------------------------------------------
(* The bridge's sweep. An expired item leaves the queue; its verdict will  *)
(* never be asked for.                                                     *)

LEMMA BridgeSweepStep == ASSUME Inv, BridgeSweep PROVE Inv'
<1> USE DEF BridgeSweep, forgeVars, watchdogVars, chatVars
<1>1. TypeOK'
    BY DEF Inv, TypeOK, Items
<1>2. Queues'
    BY DEF Inv, Queues
<1>3. \A b \in Approvals : ApprovalIs(b)'
    BY ApprovalsStay
<1>4. \A p \in Proposals : ProposalIs(p)'
    BY ProposalsStay
<1> QED
    BY <1>1, <1>2, <1>3, <1>4 DEF Inv

LEMMA BridgeExpireStep == ASSUME Inv, BridgeExpire PROVE Inv'
<1> USE DEF BridgeExpire, forgeVars, watchdogVars, chatVars
<1>1. PICK a \in Approvals : a = Head(sweep)
    BY DEF Inv, TypeOK
<1>2. Tail(sweep) \in Seq(Approvals) /\ << >> \in Seq(Approvals)
    BY DEF Inv, TypeOK
<1>3. pending \in Seq(Approvals) /\ Single(pending)
    BY DEF Inv, TypeOK, Queues
<1>4. /\ pending' \in Seq(Approvals) /\ Single(pending')
      /\ ToSet(pending') \subseteq ToSet(pending)
    BY <1>1, <1>3, WithoutLoses
<1>5. sweep' \in Seq(Approvals) /\ sweeper' \in {"up", "dead"}
    BY <1>2 DEF TellExpired, Inv, TypeOK
<1>6. TellsOnly(a, "expired")
  <2>1. CASE UNCHANGED <<told, mishaps>>
      BY <2>1, TellIs DEF Inv, TypeOK, Items, Messages
  <2>2. CASE Tell(a, "expired")
      BY <2>2, TellTells DEF Inv, Items, Messages
  <2>3. CASE Mishap /\ told' \in {told, [told EXCEPT ![a] = @ \cup {"expired"}]}
      BY <2>3, MishapIs, TellIs DEF Inv, Items, Messages
  <2> QED
      BY <1>1, <2>1, <2>2, <2>3 DEF TellExpired
<1>7. TypeOK'
    BY <1>4, <1>5, <1>6 DEF Inv, TypeOK, TellsOnly, Items
<1>8. Queues'
    BY <1>4 DEF Inv, Queues
<1>9. ASSUME NEW b \in Approvals PROVE ApprovalIs(b)'
    BY <1>4, <1>6, SMTT(20) DEF Inv, TypeOK, ApprovalIs, Undecided, NeverRuns, TellsOnly, Items
<1>10. \A p \in Proposals : ProposalIs(p)'
    BY <1>6, ProposalsStay DEF TellsOnly, Items
<1> QED
    BY <1>7, <1>8, <1>9, <1>10 DEF Inv

-----------------------------------------------------------------------------
(* The watchdog.                                                           *)

LEMMA ProposeStep == ASSUME Inv, NEW p \in Proposals, Propose(p) PROVE Inv'
<1> USE DEF Propose, forgeVars, bridgeVars, chatVars
<1>1. p \notin ToSet(proposed) /\ acted[p] = 0 /\ "cancelled" \notin told[p]
    BY DEF Inv, ProposalIs
<1>2. proposed \in Seq(Proposals) /\ Single(proposed)
    BY DEF Inv, TypeOK, Queues
<1>3. /\ proposed' \in Seq(Proposals) /\ Single(proposed')
      /\ ToSet(proposed') = ToSet(proposed) \cup {p}
    BY <1>1, <1>2, AppendJoins
<1>4. TypeOK'
    BY <1>3 DEF Inv, TypeOK, Items
<1>5. Queues'
    BY <1>3 DEF Inv, Queues
<1>6. \A b \in Approvals : ApprovalIs(b)'
    BY ApprovalsStay
<1>7. ASSUME NEW q \in Proposals PROVE ProposalIs(q)'
    BY <1>1, <1>3 DEF Inv, TypeOK, ProposalIs
<1> QED
    BY <1>4, <1>5, <1>6, <1>7 DEF Inv

LEMMA AnnounceStep == ASSUME Inv, NEW p \in Proposals, Announce(p) PROVE Inv'
<1> USE DEF Announce, forgeVars, bridgeVars, chatVars
<1>1. TellsOnly(p, "asked")
    BY TellTells DEF Inv, Items, Messages
<1>2. TypeOK'
    BY <1>1 DEF Inv, TypeOK, TellsOnly, Items
<1>3. Queues'
    BY DEF Inv, Queues
<1>4. \A b \in Approvals : ApprovalIs(b)'
    BY <1>1, ApprovalsStay DEF TellsOnly, Items
<1>5. ASSUME NEW q \in Proposals PROVE ProposalIs(q)'
    BY <1>1 DEF Inv, TypeOK, ProposalIs, TellsOnly, Items
<1> QED
    BY <1>2, <1>3, <1>4, <1>5 DEF Inv

(* Executing or cancelling takes a proposal out of the queue and stops its *)
(* window, so that neither can follow the other.                           *)
LEMMA Dismissed ==
    ASSUME Inv, NEW p \in Proposals,
           proposed' = Without(proposed, p), armed' = armed \ {p}
    PROVE  /\ proposed' \in Seq(Proposals) /\ Single(proposed')
           /\ ToSet(proposed') = ToSet(proposed) \ {p}
           /\ armed' \subseteq Proposals
BY WithoutLoses DEF Inv, TypeOK, Queues

LEMMA WindowElapsesStep == ASSUME Inv, NEW p \in Proposals, WindowElapses(p) PROVE Inv'
<1> USE DEF WindowElapses, Execute, forgeVars, bridgeVars, chatVars
<1>1. p \in ToSet(proposed) /\ acted[p] = 0 /\ "cancelled" \notin told[p]
    BY DEF Inv, ProposalIs
<1>2. /\ proposed' \in Seq(Proposals) /\ Single(proposed')
      /\ ToSet(proposed') = ToSet(proposed) \ {p}
      /\ armed' \subseteq Proposals
    BY Dismissed
<1>3. TypeOK'
    BY <1>2, SMTT(20) DEF Inv, TypeOK, Items
<1>4. Queues'
    BY <1>2 DEF Inv, Queues
<1>5. \A b \in Approvals : ApprovalIs(b)'
    BY ApprovalsStay
<1>6. ASSUME NEW q \in Proposals PROVE ProposalIs(q)'
    BY <1>1, <1>2 DEF Inv, TypeOK, ProposalIs
<1> QED
    BY <1>3, <1>4, <1>5, <1>6 DEF Inv

-----------------------------------------------------------------------------
(* The chat.                                                               *)

LEMMA WriteStep ==
    ASSUME Inv, NEW word \in Words, NEW i \in Items, Write(word, i)
    PROVE  Inv'
<1> USE DEF Write, forgeVars, bridgeVars, watchdogVars
<1>1. PICK update \in [word : Words, about : Items] : update = [word |-> word, about |-> i]
    OBVIOUS
<1>2. inbox' \in Seq([word : Words, about : Items]) /\ handled' \in 0 .. Len(inbox')
  <2>1. inbox \in Seq([word : Words, about : Items]) /\ handled \in 0 .. Len(inbox)
      BY DEF Inv, TypeOK
  <2>2. inbox' = Append(inbox, update) /\ handled' = handled
      BY <1>1
  <2> QED
      BY <2>1, <2>2
<1>3. written' \in 0 .. MaxReplies
    BY FlowAssumption DEF FlowAssumption, Inv, TypeOK
<1>4. TypeOK'
    BY <1>2, <1>3 DEF Inv, TypeOK, Items
<1>5. Queues'
    BY DEF Inv, Queues
<1>6. \A b \in Approvals : ApprovalIs(b)'
    BY ApprovalsStay
<1>7. \A p \in Proposals : ProposalIs(p)'
    BY ProposalsStay
<1> QED
    BY <1>4, <1>5, <1>6, <1>7 DEF Inv

LEMMA ConfirmStep == ASSUME Inv, Confirm PROVE Inv'
<1> USE DEF Confirm, forgeVars, bridgeVars, watchdogVars
<1>1. inbox' \in Seq([word : Words, about : Items]) /\ handled' \in 0 .. Len(inbox')
  <2>1. inbox \in Seq([word : Words, about : Items]) /\ handled \in 0 .. Len(inbox)
      BY DEF Inv, TypeOK
  <2>2. SubSeq(inbox, handled + 1, Len(inbox)) \in Seq([word : Words, about : Items])
      BY <2>1, RestIsTyped
  <2>3. inbox' \in Seq([word : Words, about : Items]) /\ handled' = 0
      BY <2>2
  <2> QED
      BY <2>3
<1>2. TypeOK'
    BY <1>1 DEF Inv, TypeOK, Items
<1>3. Queues'
    BY DEF Inv, Queues
<1>4. \A b \in Approvals : ApprovalIs(b)'
    BY ApprovalsStay
<1>5. \A p \in Proposals : ProposalIs(p)'
    BY ProposalsStay
<1> QED
    BY <1>2, <1>3, <1>4, <1>5 DEF Inv

(* A reply to the bridge takes an approval out of its queue, for the first *)
(* and only time; one to the watchdog takes a proposal out of its queue.   *)
LEMMA HandleStep == ASSUME Inv, Handle PROVE Inv'
<1> USE DEF forgeVars, sweepVars
<1>1. PICK reply \in [word : Words, about : Items] : reply = inbox[handled + 1]
  <2>1. inbox \in Seq([word : Words, about : Items]) /\ handled \in 0 .. Len(inbox)
      BY DEF Inv, TypeOK
  <2>2. inbox[handled + 1] \in [word : Words, about : Items]
      BY <2>1, RestIsTyped DEF Handle
  <2> QED
      BY <2>2
<1>2. /\ bot.on = Nothing /\ answer = "none"
      /\ handled' \in 0 .. Len(inbox') /\ inbox' = inbox
      /\ UNCHANGED <<forgeVars, age, relay, sweepVars, answer, notice, written>>
    BY DEF Handle, Inv, TypeOK, Queues
<1>3. vetoed' \subseteq Proposals
  <2>1. ToSet(proposed) \subseteq Proposals
      BY MembersAreTyped DEF Inv, TypeOK
  <2>2. vetoed' \in {vetoed, vetoed \cup {reply.about}}
        /\ (vetoed' # vetoed => reply.about \in ToSet(proposed))
      BY <1>1 DEF Handle
  <2> QED
      BY <2>1, <2>2 DEF Inv, TypeOK
<1>4. \/ /\ ForBridge(reply.word)
         /\ bot' = [on |-> Last(pending), word |-> reply.word]
         /\ pending' = Without(pending, Last(pending))
         /\ UNCHANGED <<proposed, armed, acted, told, mishaps>>
      \/ /\ ForWatchdog(reply.word)
         /\ \/ Execute(Last(proposed)) /\ UNCHANGED <<told, mishaps>>
            \/ Cancel(Last(proposed)) /\ Tell(Last(proposed), "cancelled")
         /\ UNCHANGED <<bot, pending>>
      \/ UNCHANGED <<bot, pending, proposed, armed, acted, told, mishaps>>
    BY <1>1 DEF Handle
<1>5. CASE /\ ForBridge(reply.word)
           /\ bot' = [on |-> Last(pending), word |-> reply.word]
           /\ pending' = Without(pending, Last(pending))
           /\ UNCHANGED <<proposed, armed, acted, told, mishaps>>
  <2>1. pending \in Seq(Approvals) /\ Single(pending) /\ pending # << >>
      BY <1>5 DEF Inv, TypeOK, Queues, ForBridge
  <2>2. PICK a \in Approvals : a = Last(pending) /\ a \in ToSet(pending)
      BY <2>1, LastIsThere
  <2>3. /\ pending' \in Seq(Approvals) /\ Single(pending')
        /\ ToSet(pending') = ToSet(pending) \ {a}
      BY <1>5, <2>1, <2>2, WithoutLoses
  <2>4. bot' \in [on : Approvals \cup {Nothing}, word : Words] /\ bot'.on = a
      BY <1>5, <2>2
  <2>5. TypeOK'
      BY <1>2, <1>3, <1>5, <2>3, <2>4 DEF Inv, TypeOK, Items
  <2>6. Queues'
      BY <1>2, <1>5, <2>3 DEF Inv, Queues
  <2>7. ASSUME NEW b \in Approvals PROVE ApprovalIs(b)'
      BY <1>2, <1>5, <2>2, <2>3, <2>4, FlowAssumption
         DEF FlowAssumption, Inv, TypeOK, ApprovalIs, Undecided, NeverRuns
  <2>8. \A p \in Proposals : ProposalIs(p)'
      BY <1>2, <1>5, ProposalsStay
  <2> QED
      BY <2>5, <2>6, <2>7, <2>8 DEF Inv
<1>6. CASE /\ ForWatchdog(reply.word)
           /\ \/ Execute(Last(proposed)) /\ UNCHANGED <<told, mishaps>>
              \/ Cancel(Last(proposed)) /\ Tell(Last(proposed), "cancelled")
           /\ UNCHANGED <<bot, pending>>
  <2>1. proposed \in Seq(Proposals) /\ Single(proposed) /\ proposed # << >>
      BY <1>6 DEF Inv, TypeOK, Queues, ForWatchdog
  <2>2. PICK p \in Proposals : p = Last(proposed) /\ p \in ToSet(proposed)
      BY <2>1, LastIsThere
  <2>3. proposed' = Without(proposed, p) /\ armed' = armed \ {p}
      BY <1>6, <2>2 DEF Execute, Cancel
  <2>4. /\ proposed' \in Seq(Proposals) /\ Single(proposed')
        /\ ToSet(proposed') = ToSet(proposed) \ {p}
        /\ armed' \subseteq Proposals
      BY <2>3, Dismissed
  <2>5. acted[p] = 0 /\ "cancelled" \notin told[p] /\ notice[p] # "none"
      BY <2>2 DEF Inv, ProposalIs
  <2>6. \/ acted' = [acted EXCEPT ![p] = @ + 1] /\ UNCHANGED <<told, mishaps>>
        \/ UNCHANGED acted /\ Tell(p, "cancelled")
      BY <1>6, <2>2 DEF Execute, Cancel
  <2>7. /\ acted' \in [Proposals -> Nat] /\ TellsOnly(p, "cancelled")
        /\ \/ UNCHANGED acted
           \/ acted' = [acted EXCEPT ![p] = 1] /\ UNCHANGED told
    <3>1. CASE acted' = [acted EXCEPT ![p] = @ + 1] /\ UNCHANGED <<told, mishaps>>
        BY <3>1, <2>5, TellIs DEF Inv, TypeOK, Items, Messages
    <3>2. CASE UNCHANGED acted /\ Tell(p, "cancelled")
        BY <3>2, TellTells DEF Inv, TypeOK, Items, Messages
    <3> QED
        BY <2>6, <3>1, <3>2
  <2>8. TypeOK'
      BY <1>2, <1>3, <1>6, <2>4, <2>7 DEF Inv, TypeOK, TellsOnly, Items
  <2>9. Queues'
      BY <1>2, <1>6, <2>4 DEF Inv, Queues
  <2>10. \A b \in Approvals : ApprovalIs(b)'
      BY <1>2, <1>6, <2>7, ApprovalsStay DEF TellsOnly, Items
  <2>11. ASSUME NEW q \in Proposals PROVE ProposalIs(q)'
    <3>1. CASE q = p
        BY <3>1, <1>2, <2>3, <2>4, <2>5, <2>7 DEF Inv, TypeOK, ProposalIs
    <3>2. CASE q # p
        BY <3>2, <1>2, <2>3, <2>4, <2>7 DEF Inv, TypeOK, ProposalIs, TellsOnly, Items
    <3> QED
        BY <3>1, <3>2
  <2> QED
      BY <2>8, <2>9, <2>10, <2>11 DEF Inv
<1>7. CASE UNCHANGED <<bot, pending, proposed, armed, acted, told, mishaps>>
  <2>1. TypeOK'
      BY <1>2, <1>3, <1>7 DEF Inv, TypeOK, Items
  <2>2. Queues'
      BY <1>2, <1>7 DEF Inv, Queues
  <2>3. \A b \in Approvals : ApprovalIs(b)'
      BY <1>2, <1>7, ApprovalsStay
  <2>4. \A p \in Proposals : ProposalIs(p)'
      BY <1>2, <1>7, ProposalsStay
  <2> QED
      BY <2>1, <2>2, <2>3, <2>4 DEF Inv
<1> QED
    BY <1>4, <1>5, <1>6, <1>7

-----------------------------------------------------------------------------
(* Restarts: what was pending is gone, and is never asked for again.       *)

LEMMA HermesRestartStep == ASSUME Inv, HermesRestart PROVE Inv'
<1> USE DEF HermesRestart, forgeVars
<1>1. mishaps' \in 0 .. MaxMishaps
    BY MishapIs DEF Inv
<1>2. ToSet(pending') = {} /\ ToSet(proposed') = {}
    BY DEF ToSet
<1>3. TypeOK'
    BY <1>1 DEF Inv, TypeOK, NotPosting, Words, Items
<1>4. Queues'
    BY DEF Queues, Single
<1>5. ASSUME NEW b \in Approvals PROVE ApprovalIs(b)'
    BY <1>2, FlowAssumption
       DEF FlowAssumption, Inv, TypeOK, ApprovalIs, Undecided, NeverRuns, NotPosting
<1>6. ASSUME NEW q \in Proposals PROVE ProposalIs(q)'
    BY <1>2 DEF Inv, TypeOK, ProposalIs
<1> QED
    BY <1>3, <1>4, <1>5, <1>6 DEF Inv

LEMMA ForgeRestartStep == ASSUME Inv, ForgeRestart PROVE Inv'
<1> USE DEF ForgeRestart, bridgeVars, watchdogVars, chatVars
<1>1. mishaps' \in 0 .. MaxMishaps
    BY MishapIs DEF Inv
<1>2. TypeOK'
    BY <1>1 DEF Inv, TypeOK, Items
<1>3. Queues'
    BY DEF Inv, Queues
<1>4. ASSUME NEW b \in Approvals PROVE ApprovalIs(b)'
    BY DEF Inv, TypeOK, ApprovalIs, Undecided, NeverRuns
<1>5. \A p \in Proposals : ProposalIs(p)'
    BY ProposalsStay
<1> QED
    BY <1>2, <1>3, <1>4, <1>5 DEF Inv

-----------------------------------------------------------------------------
LEMMA InvNext == Inv /\ [Next]_vars => Inv'
<1> SUFFICES ASSUME Inv, [Next]_vars PROVE Inv'
    OBVIOUS
<1>1. CASE UNCHANGED vars
  <2> USE <1>1 DEF vars, forgeVars, bridgeVars, watchdogVars, chatVars
  <2>1. TypeOK' /\ Queues'
      BY DEF Inv, TypeOK, Queues, Items
  <2>2. \A b \in Approvals : ApprovalIs(b)'
      BY ApprovalsStay
  <2>3. \A p \in Proposals : ProposalIs(p)'
      BY ProposalsStay
  <2> QED
      BY <2>1, <2>2, <2>3 DEF Inv
<1>2. CASE Next
    BY <1>2, CallStep, RelayStep, NotifyStep, PostedStep, ForgeSweepStep, BridgeSweepStep,
       BridgeExpireStep, TickStep, ResolveStep, ToolEndsStep, AnsweredStep, UnansweredStep,
       ProposeStep, AnnounceStep, WindowElapsesStep, WriteStep, HandleStep, ConfirmStep,
       HermesRestartStep, ForgeRestartStep
       DEF Next
<1> QED
    BY <1>1, <1>2

(* Every approval and every proposal runs its action at most once and      *)
(* never against an answer, for any number of them, any timeouts, and any  *)
(* number of replies, lost messages and restarts of Hermes and Forge.      *)
THEOREM RunsStaySound == Spec => []RunsAreSound
<1>1. Init => Inv
    BY InvInit
<1>2. Inv /\ [Next]_vars => Inv'
    BY InvNext
<1>3. Inv => RunsAreSound
    BY DEF Inv, ApprovalIs, ProposalIs, NeverRuns, RunsAreSound, RejectedNeverRuns,
           ClosedNeverRuns, AtMostOnce, CancelledStaysOff
<1> QED
    BY <1>1, <1>2, <1>3, PTL DEF Spec
===============================================================================
