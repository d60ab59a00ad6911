----------------------------- MODULE PhoenixProofs -----------------------------
(***************************************************************************)
(* What holds of Phoenix's loop for every set of monitors, components and  *)
(* requests, all dependencies, and any number of breakdowns and mishaps.   *)
(***************************************************************************)
EXTENDS PhoenixRecovery, TLAPS, SequenceTheorems

Rows == [component : Components \cup {None}, failure : Failures,
         monitor : Monitors \cup {None}, status : Statuses]

Places == {"mark", "begin", "attempt", "verify", "cascade", "spawn"}

Frames == [id : Ids, at : Places, tried : 0..Attempts - 1, ok : BOOLEAN,
           probe : SUBSET Monitors, next : Seq(Components)]

Stages == {"idle", "check", "passed", "closing", "consult", "dedupe",
           "open", "record", "work", "done"}

TaskTypes ==
    /\ stage \in [Tasks -> Stages]
    /\ stack \in [Tasks -> Seq(Frames)]

RowTypes ==
    /\ incident \in [Ids -> Rows]
    /\ doubt \in [Ids -> SUBSET Monitors]

-----------------------------------------------------------------------------
(* The stack of a task.                                                    *)

LEMMA LastOf == ASSUME NEW s \in Seq(Frames), s # <<>>
                PROVE  Len(s) \in Nat \ {0} /\ Last(s) = s[Len(s)] /\ Last(s) \in Frames
BY DEF Last

LEMMA PrefixOf ==
    ASSUME NEW s \in Seq(Frames), NEW n \in Nat, n <= Len(s)
    PROVE  /\ SubSeq(s, 1, n) \in Seq(Frames) /\ Len(SubSeq(s, 1, n)) = n
           /\ \A k \in 1..n : SubSeq(s, 1, n)[k] = s[k]
<1>1. SubSeq(s, 1, n) \in Seq(Frames) /\ Len(SubSeq(s, 1, n)) = n
  OBVIOUS
<1>2. ASSUME NEW k \in 1..n PROVE SubSeq(s, 1, n)[k] = s[k]
  OBVIOUS
<1>. QED
  BY <1>1, <1>2

LEMMA FrontOf ==
    ASSUME NEW s \in Seq(Frames), s # <<>>
    PROVE  /\ Front(s) \in Seq(Frames) /\ Len(Front(s)) = Len(s) - 1
           /\ \A k \in 1..Len(s) - 1 : Front(s)[k] = s[k]
<1>. DEFINE n == Len(s) - 1
<1>1. n \in Nat /\ n <= Len(s)
  OBVIOUS
<1>2. Front(s) = SubSeq(s, 1, n)
  BY DEF Front
<1>. HIDE DEF n
<1>3. Front(s) \in Seq(Frames) /\ Len(Front(s)) = n /\ \A k \in 1..n : Front(s)[k] = s[k]
  BY <1>1, <1>2, PrefixOf
<1>. QED
  BY <1>3 DEF n

LEMMA ReplacedIn ==
    ASSUME NEW s \in Seq(Frames), s # <<>>, NEW x \in Frames
    PROVE  LET r == Append(Front(s), x) IN
           /\ r \in Seq(Frames) /\ Len(r) = Len(s) /\ r # <<>> /\ r[Len(s)] = x
           /\ \A k \in 1..Len(s) - 1 : r[k] = s[k]
<1>. DEFINE f == Front(s)
<1>1. /\ f \in Seq(Frames) /\ Len(f) = Len(s) - 1 /\ Len(s) \in Nat \ {0}
      /\ \A k \in 1..Len(s) - 1 : f[k] = s[k]
  BY FrontOf, LastOf
<1>. HIDE DEF f
<1>2. /\ Append(f, x) \in Seq(Frames) /\ Len(Append(f, x)) = Len(s)
      /\ Append(f, x)[Len(s)] = x /\ \A k \in 1..Len(s) - 1 : Append(f, x)[k] = f[k]
  BY <1>1
<1>3. Append(f, x) # <<>>
  BY <1>1, <1>2
<1>. QED
  BY <1>1, <1>2, <1>3 DEF f

LEMMA PushedOn ==
    ASSUME NEW s \in Seq(Frames), NEW x \in Frames
    PROVE  LET r == Append(s, x) IN
           /\ r \in Seq(Frames) /\ Len(r) = Len(s) + 1 /\ r # <<>> /\ r[Len(s) + 1] = x
           /\ \A k \in 1..Len(s) : r[k] = s[k]
<1>1. /\ Append(s, x) \in Seq(Frames) /\ Len(Append(s, x)) = Len(s) + 1
      /\ Append(s, x)[Len(s) + 1] = x /\ \A k \in 1..Len(s) : Append(s, x)[k] = s[k]
  OBVIOUS
<1>. QED
  BY <1>1

LEMMA TwoPushedOn ==
    ASSUME NEW s \in Seq(Frames), NEW x \in Frames, NEW y \in Frames
    PROVE  LET r == s \o <<x, y>> IN
           /\ r \in Seq(Frames) /\ Len(r) = Len(s) + 2 /\ r # <<>>
           /\ r[Len(s) + 1] = x /\ r[Len(s) + 2] = y
           /\ \A k \in 1..Len(s) : r[k] = s[k]
<1>1. s \o <<x, y>> \in Seq(Frames) /\ Len(s \o <<x, y>>) = Len(s) + 2
  OBVIOUS
<1>2. (s \o <<x, y>>)[Len(s) + 1] = x /\ (s \o <<x, y>>)[Len(s) + 2] = y
  OBVIOUS
<1>3. ASSUME NEW k \in 1..Len(s) PROVE (s \o <<x, y>>)[k] = s[k]
  OBVIOUS
<1>4. s \o <<x, y>> # <<>>
  BY <1>1
<1>. QED
  BY <1>1, <1>2, <1>3, <1>4

-----------------------------------------------------------------------------
(* The recoveries in work, over the tables of incidents and doubts.        *)

Waiting == {"cascade", "spawn"}

(* The incident of a frame is in the table, and a monitor's incidents are  *)
(* worked on by that monitor's task. A frame has its incident in hand      *)
(* until it has closed it; one that verifies has still to probe whatever   *)
(* its incident waits for, unless it has failed.                           *)
FrameIs(t, f, rows, doubts) ==
    /\ rows[f.id].status # "unused"
    /\ rows[f.id].monitor \in {None, t}
    /\ f.at \in Waiting => rows[f.id].status \notin {"open", "recovering"}
    /\ f.at \notin Waiting /\ rows[f.id].monitor # None
          => rows[f.id].status \in {"open", "recovering"}
    /\ f.at = "spawn" => f.next # <<>>
    /\ f.at = "verify" /\ f.ok /\ rows[f.id].component \in Verified => doubts[f.id] \subseteq f.probe

StackIs(t) ==
    /\ stage[t] = "work" <=> stack[t] # <<>>
    /\ \A k \in 1..Len(stack[t]) :
          /\ FrameIs(t, stack[t][k], incident, doubt)
          /\ k < Len(stack[t]) => stack[t][k].at = "cascade"

NoSharing ==
    \A t, u \in Tasks : \A k \in 1..Len(stack[t]), j \in 1..Len(stack[u]) :
        stack[t][k].id = stack[u][j].id => t = u /\ k = j

WorkInv == TaskTypes /\ RowTypes /\ NoSharing /\ \A t \in Tasks : StackIs(t)

(* The tables change at these incidents only, and elsewhere only doubts    *)
(* vanish.                                                                 *)
ChangesIn(S) ==
    \A j \in Ids \ S : incident'[j] = incident[j] /\ doubt'[j] \subseteq doubt[j]

(* A frame of another incident stays what it is.                           *)
LEMMA FrameStays ==
    ASSUME NEW t, NEW f \in Frames, NEW S, ChangesIn(S), f.id \notin S,
           FrameIs(t, f, incident, doubt)
    PROVE  FrameIs(t, f, incident', doubt')
<1>1. f.id \in Ids
  BY DEF Frames
<1>. QED
  BY <1>1 DEF FrameIs, ChangesIn

(* The stack of a task whose frames hold other incidents is not touched.   *)
LEMMA StackStays ==
    ASSUME WorkInv, NEW t \in Tasks, NEW S, ChangesIn(S),
           stack'[t] = stack[t], stage'[t] = "work" <=> stage[t] = "work",
           \A k \in 1..Len(stack[t]) : stack[t][k].id \notin S
    PROVE  StackIs(t)'
<1>1. \A k \in 1..Len(stack[t]) : stack[t][k] \in Frames
  BY ElementOfSeq DEF WorkInv, TaskTypes
<1>2. \A k \in 1..Len(stack[t]) : FrameIs(t, stack[t][k], incident', doubt')
  BY <1>1, FrameStays DEF WorkInv, StackIs
<1>3. \A k \in 1..Len(stack[t]) : k < Len(stack[t]) => stack[t][k].at = "cascade"
  BY DEF WorkInv, StackIs
<1>4. stage[t] = "work" <=> stack[t] # <<>>
  BY DEF WorkInv, StackIs
<1>. QED
  BY <1>2, <1>3, <1>4 DEF StackIs

(* What a task that works has on top of its stack, which no other frame    *)
(* shares.                                                                 *)
LEMMA TopOf ==
    ASSUME WorkInv, NEW t \in Tasks, stage[t] = "work"
    PROVE  /\ stack[t] \in Seq(Frames) /\ stack[t] # <<>> /\ Len(stack[t]) \in Nat \ {0}
           /\ Top(t) = stack[t][Len(stack[t])] /\ Top(t) \in Frames
           /\ FrameIs(t, Top(t), incident, doubt)
           /\ \A k \in 1..Len(stack[t]) - 1 : stack[t][k].id # Top(t).id
           /\ \A u \in Tasks : u # t => \A k \in 1..Len(stack[u]) : stack[u][k].id # Top(t).id
<1>1. stack[t] \in Seq(Frames) /\ stack[t] # <<>>
  BY DEF WorkInv, TaskTypes, StackIs
<1>2. Len(stack[t]) \in Nat \ {0} /\ Top(t) = stack[t][Len(stack[t])] /\ Top(t) \in Frames
  BY <1>1, LastOf DEF Top
<1>3. FrameIs(t, Top(t), incident, doubt)
  BY <1>2 DEF WorkInv, StackIs
<1>4. \A k \in 1..Len(stack[t]) - 1 : stack[t][k].id # Top(t).id
  BY <1>2 DEF WorkInv, NoSharing
<1>5. \A u \in Tasks : u # t => \A k \in 1..Len(stack[u]) : stack[u][k].id # Top(t).id
  BY <1>2 DEF WorkInv, NoSharing
<1>. QED
  BY <1>1, <1>2, <1>3, <1>4, <1>5

(* A task goes on with the incident it has in hand.                        *)
LEMMA ReplaceKeeps ==
    ASSUME WorkInv, NEW t \in Tasks, stage[t] = "work", NEW x \in Frames, x.id = Top(t).id,
           Replace(t, x), UNCHANGED stage, RowTypes', ChangesIn({Top(t).id}),
           FrameIs(t, x, incident', doubt')
    PROVE  WorkInv'
<1>. DEFINE s == stack[t]
            n == Len(s)
            r == Append(Front(s), x)
<1>1. /\ s \in Seq(Frames) /\ s # <<>> /\ n \in Nat \ {0} /\ s[n].id = x.id
      /\ \A k \in 1..n - 1 : s[k].id # x.id
      /\ \A u \in Tasks : u # t => \A k \in 1..Len(stack[u]) : stack[u][k].id # x.id
  BY TopOf
<1>2. /\ r \in Seq(Frames) /\ Len(r) = n /\ r # <<>> /\ r[n] = x
      /\ \A k \in 1..n - 1 : r[k] = s[k]
  BY <1>1, ReplacedIn
<1>3. stack'[t] = r /\ \A u \in Tasks : u # t => stack'[u] = stack[u]
  BY DEF Replace, WorkInv, TaskTypes
<1>. HIDE DEF r
<1>4. TaskTypes'
  BY <1>2 DEF Replace, WorkInv, TaskTypes, r
<1>5. \A u \in Tasks : \A k \in 1..Len(stack'[u]) :
         k \in 1..Len(stack[u]) /\ stack'[u][k].id = stack[u][k].id
  <2>1. \A k \in 1..n : r[k].id = s[k].id
    BY <1>1, <1>2
  <2>. QED
    BY <1>2, <1>3, <2>1
<1>6. NoSharing'
  BY <1>5 DEF WorkInv, NoSharing
<1>7. ASSUME NEW u \in Tasks, u # t PROVE StackIs(u)'
  BY <1>1, <1>3, <1>7, StackStays
<1>8. StackIs(t)'
  <2>1. stage'[t] = "work" /\ stack'[t] # <<>>
    BY <1>2, <1>3
  <2>2. ASSUME NEW k \in 1..n - 1
        PROVE  FrameIs(t, r[k], incident', doubt') /\ r[k].at = "cascade"
    <3>1. s[k] \in Frames /\ FrameIs(t, s[k], incident, doubt) /\ s[k].at = "cascade"
      BY <1>1, ElementOfSeq DEF WorkInv, StackIs
    <3>2. FrameIs(t, s[k], incident', doubt')
      BY <1>1, <3>1, FrameStays
    <3>. QED
      BY <1>2, <3>1, <3>2
  <2>3. FrameIs(t, r[n], incident', doubt')
    BY <1>2
  <2>4. \A k \in 1..n : k = n \/ k \in 1..n - 1
    BY <1>1
  <2>5. \A k \in 1..n : /\ FrameIs(t, r[k], incident', doubt')
                        /\ k < n => r[k].at = "cascade"
    BY <1>1, <2>2, <2>3, <2>4
  <2>. QED
    BY <1>2, <1>3, <2>1, <2>5 DEF StackIs
<1>. QED
  BY <1>4, <1>6, <1>7, <1>8 DEF WorkInv

(* A recovery returns.                                                     *)
LEMMA PopKeeps ==
    ASSUME WorkInv, NEW t \in Tasks, stage[t] = "work", Pop(t), RowTypes',
           ChangesIn({Top(t).id})
    PROVE  WorkInv'
<1>. DEFINE s == stack[t]
            n == Len(s)
            r == Front(s)
<1>1. /\ s \in Seq(Frames) /\ s # <<>> /\ n \in Nat \ {0}
      /\ \A k \in 1..n - 1 : s[k].id # Top(t).id
      /\ \A u \in Tasks : u # t => \A k \in 1..Len(stack[u]) : stack[u][k].id # Top(t).id
  BY TopOf
<1>2. /\ r \in Seq(Frames) /\ Len(r) = n - 1 /\ \A k \in 1..n - 1 : r[k] = s[k]
  BY <1>1, FrontOf
<1>3. /\ stack'[t] = r /\ \A u \in Tasks : u # t => stack'[u] = stack[u]
      /\ stage'[t] = IF n = 1 THEN Rest(t) ELSE "work"
      /\ \A u \in Tasks : u # t => stage'[u] = stage[u]
  BY DEF Pop, Goto, WorkInv, TaskTypes
<1>. HIDE DEF r
<1>4. TaskTypes'
  BY <1>2 DEF Pop, Goto, WorkInv, TaskTypes, Rest, Stages, r
<1>5. \A u \in Tasks : \A k \in 1..Len(stack'[u]) :
         k \in 1..Len(stack[u]) /\ stack'[u][k].id = stack[u][k].id
  BY <1>1, <1>2, <1>3
<1>6. NoSharing'
  BY <1>5 DEF WorkInv, NoSharing
<1>7. ASSUME NEW u \in Tasks, u # t PROVE StackIs(u)'
  BY <1>1, <1>3, <1>7, StackStays
<1>8. StackIs(t)'
  <2>1. stage'[t] = "work" <=> r # <<>>
    <3>1. r # <<>> <=> Len(r) # 0
      BY <1>2, EmptySeq
    <3>2. r # <<>> <=> n # 1
      BY <1>1, <1>2, <3>1
    <3>3. Rest(t) # "work"
      BY DEF Rest
    <3>. QED
      BY <1>3, <3>2, <3>3
  <2>2. ASSUME NEW k \in 1..n - 1
        PROVE  FrameIs(t, r[k], incident', doubt') /\ r[k].at = "cascade"
    <3>1. s[k] \in Frames /\ FrameIs(t, s[k], incident, doubt) /\ s[k].at = "cascade"
      BY <1>1, ElementOfSeq DEF WorkInv, StackIs
    <3>2. FrameIs(t, s[k], incident', doubt')
      BY <1>1, <3>1, FrameStays
    <3>. QED
      BY <1>2, <3>1, <3>2
  <2>. QED
    BY <1>2, <1>3, <2>1, <2>2 DEF StackIs
<1>. QED
  BY <1>4, <1>6, <1>7, <1>8 DEF WorkInv

(* A task takes an incident on that nobody else works on.                  *)
LEMMA PushKeeps ==
    ASSUME WorkInv, NEW t \in Tasks, stage[t] # "work", NEW x \in Frames,
           incident[x.id].status = "unused", Push(t, x), Goto(t, "work"), RowTypes',
           ChangesIn({x.id}), FrameIs(t, x, incident', doubt')
    PROVE  WorkInv'
<1>1. stack[t] = <<>> /\ x.id \in Ids
  BY DEF WorkInv, StackIs, Frames
<1>2. /\ stack'[t] = Append(<<>>, x) /\ stage'[t] = "work"
      /\ \A u \in Tasks : u # t => stack'[u] = stack[u] /\ stage'[u] = stage[u]
  BY <1>1 DEF Push, Goto, WorkInv, TaskTypes
<1>3. stack'[t] \in Seq(Frames) /\ Len(stack'[t]) = 1 /\ stack'[t][1] = x /\ stack'[t] # <<>>
  BY <1>2
<1>4. TaskTypes'
  BY <1>2, <1>3 DEF Push, Goto, WorkInv, TaskTypes, Stages
<1>5. \A u \in Tasks : \A k \in 1..Len(stack[u]) : stack[u][k].id # x.id
  BY DEF WorkInv, StackIs, FrameIs
<1>6. NoSharing'
  BY <1>2, <1>3, <1>5 DEF WorkInv, NoSharing
<1>7. ASSUME NEW u \in Tasks, u # t PROVE StackIs(u)'
  BY <1>2, <1>5, <1>7, StackStays
<1>8. StackIs(t)'
  BY <1>2, <1>3 DEF StackIs
<1>. QED
  BY <1>4, <1>6, <1>7, <1>8 DEF WorkInv

(* A task goes on to a dependent, with an incident of its own.             *)
LEMMA SpawnKeeps ==
    ASSUME WorkInv, NEW t \in Tasks, stage[t] = "work",
           NEW x \in Frames, NEW y \in Frames,
           incident[x.id].status = "unused", y.id = Top(t).id, y.at = "cascade",
           stack' = [stack EXCEPT ![t] = Front(@) \o <<y, x>>], UNCHANGED stage, RowTypes',
           ChangesIn({x.id}), FrameIs(t, x, incident', doubt'),
           FrameIs(t, y, incident', doubt')
    PROVE  WorkInv'
<1>. DEFINE s == stack[t]
            n == Len(s)
            r == Front(s) \o <<y, x>>
<1>1. /\ s \in Seq(Frames) /\ s # <<>> /\ n \in Nat \ {0} /\ s[n].id = y.id
  BY TopOf
<1>2. /\ r \in Seq(Frames) /\ Len(r) = n + 1 /\ r # <<>> /\ r[n] = y /\ r[n + 1] = x
      /\ \A k \in 1..n - 1 : r[k] = s[k]
  <2>. DEFINE f == Front(s)
  <2>1. f \in Seq(Frames) /\ Len(f) = n - 1 /\ \A k \in 1..n - 1 : f[k] = s[k]
    BY <1>1, FrontOf
  <2>. HIDE DEF f
  <2>. DEFINE g == f \o <<y, x>>
  <2>2. /\ g \in Seq(Frames) /\ Len(g) = Len(f) + 2 /\ g # <<>>
        /\ g[Len(f) + 1] = y /\ g[Len(f) + 2] = x
        /\ \A k \in 1..Len(f) : g[k] = f[k]
    BY <2>1, TwoPushedOn
  <2>3. r = g
    BY DEF f
  <2>. HIDE DEF r, g
  <2>4. Len(f) + 1 = n /\ Len(f) + 2 = n + 1
    BY <1>1, <2>1
  <2>. QED
    BY <1>1, <2>1, <2>2, <2>3, <2>4
<1>3. stack'[t] = r /\ \A u \in Tasks : u # t => stack'[u] = stack[u]
  BY DEF WorkInv, TaskTypes
<1>. HIDE DEF r
<1>4. TaskTypes'
  BY <1>2 DEF WorkInv, TaskTypes, r
<1>5. \A u \in Tasks : \A k \in 1..Len(stack[u]) : stack[u][k].id # x.id
  BY DEF WorkInv, StackIs, FrameIs
<1>6. \A u \in Tasks : \A k \in 1..Len(stack'[u]) :
         \/ k \in 1..Len(stack[u]) /\ stack'[u][k].id = stack[u][k].id
         \/ u = t /\ k = n + 1 /\ stack'[u][k].id = x.id
  <2>1. ASSUME NEW k \in 1..n + 1
        PROVE  k = n + 1 \/ (k \in 1..n /\ r[k].id = s[k].id)
    <3>1. k = n + 1 \/ k = n \/ k \in 1..n - 1
      BY <1>1
    <3>2. CASE k \in 1..n - 1
      BY <1>1, <1>2, <3>2
    <3>3. CASE k = n
      BY <1>1, <1>2, <3>3
    <3>. QED
      BY <3>1, <3>2, <3>3
  <2>. SUFFICES ASSUME NEW u \in Tasks, NEW k \in 1..Len(stack'[u])
                PROVE  \/ k \in 1..Len(stack[u]) /\ stack'[u][k].id = stack[u][k].id
                       \/ u = t /\ k = n + 1 /\ stack'[u][k].id = x.id
    OBVIOUS
  <2>2. CASE u # t
    BY <1>3, <2>2
  <2>3. CASE u = t
    <3>1. k \in 1..n + 1 /\ stack'[u][k] = r[k]
      BY <1>2, <1>3, <2>3
    <3>. QED
      BY <1>2, <2>1, <2>3, <3>1
  <2>. QED
    BY <2>2, <2>3
<1>7. NoSharing'
  <2>. SUFFICES ASSUME NEW u \in Tasks, NEW v \in Tasks,
                       NEW k \in 1..Len(stack'[u]), NEW j \in 1..Len(stack'[v]),
                       stack'[u][k].id = stack'[v][j].id
                PROVE  u = v /\ k = j
    BY DEF NoSharing
  <2>1. CASE /\ k \in 1..Len(stack[u]) /\ stack'[u][k].id = stack[u][k].id
             /\ j \in 1..Len(stack[v]) /\ stack'[v][j].id = stack[v][j].id
    BY <2>1 DEF WorkInv, NoSharing
  <2>2. CASE u = t /\ k = n + 1 /\ stack'[u][k].id = x.id
    BY <1>5, <1>6, <2>2, SMTT(20)
  <2>3. CASE v = t /\ j = n + 1 /\ stack'[v][j].id = x.id
    BY <1>5, <1>6, <2>3
  <2>. QED
    BY <1>6, <2>1, <2>2, <2>3
<1>8. ASSUME NEW u \in Tasks, u # t PROVE StackIs(u)'
  BY <1>3, <1>5, <1>8, StackStays
<1>9. StackIs(t)'
  <2>2. ASSUME NEW k \in 1..n - 1
        PROVE  FrameIs(t, r[k], incident', doubt') /\ r[k].at = "cascade"
    <3>1. s[k] \in Frames /\ FrameIs(t, s[k], incident, doubt) /\ s[k].at = "cascade"
      BY <1>1, ElementOfSeq DEF WorkInv, StackIs
    <3>2. FrameIs(t, s[k], incident', doubt')
      BY <1>1, <1>5, <3>1, FrameStays
    <3>. QED
      BY <1>2, <3>1, <3>2
  <2>3. \A k \in 1..n + 1 : k = n \/ k = n + 1 \/ k \in 1..n - 1
    BY <1>1
  <2>4. \A k \in 1..n + 1 : /\ FrameIs(t, r[k], incident', doubt')
                            /\ k < n + 1 => r[k].at = "cascade"
    BY <1>1, <1>2, <2>2, <2>3
  <2>. QED
    BY <1>2, <1>3, <2>4 DEF StackIs
<1>. QED
  BY <1>4, <1>7, <1>8, <1>9 DEF WorkInv

(* Tasks are cut off, or none of them is at work.                          *)
LEMMA OthersKeep ==
    ASSUME WorkInv, RowTypes', stage' \in [Tasks -> Stages], stack' \in [Tasks -> Seq(Frames)],
           \A t \in Tasks : \/ stack'[t] = stack[t] /\ (stage'[t] = "work" <=> stage[t] = "work")
                            \/ stack'[t] = <<>> /\ stage'[t] # "work",
           NEW S, ChangesIn(S),
           \A t \in Tasks : \A k \in 1..Len(stack[t]) : stack[t][k].id \notin S
    PROVE  WorkInv'
<1>1. TaskTypes'
  BY DEF TaskTypes
<1>2. \A t \in Tasks : \A k \in 1..Len(stack'[t]) :
         k \in 1..Len(stack[t]) /\ stack'[t][k] = stack[t][k]
  OBVIOUS
<1>3. NoSharing'
  BY <1>2 DEF WorkInv, NoSharing
<1>4. ASSUME NEW t \in Tasks PROVE StackIs(t)'
  <2>1. CASE stack'[t] = stack[t] /\ (stage'[t] = "work" <=> stage[t] = "work")
    BY <2>1, StackStays
  <2>2. CASE stack'[t] = <<>> /\ stage'[t] # "work"
    BY <2>2 DEF StackIs
  <2>. QED
    BY <2>1, <2>2
<1>. QED
  BY <1>1, <1>3, <1>4 DEF WorkInv

-----------------------------------------------------------------------------
(* Which incidents tasks have in hand.                                     *)

InHand(i) == \E t \in Tasks : \E k \in 1..Len(stack[t]) : stack[t][k].id = i

LEMMA ReplaceHolds ==
    ASSUME WorkInv, NEW t \in Tasks, stage[t] = "work", NEW x \in Frames, x.id = Top(t).id,
           Replace(t, x), NEW i, InHand(i)
    PROVE  InHand(i)'
<1>. DEFINE s == stack[t]
            n == Len(s)
            r == Append(Front(s), x)
<1>1. s \in Seq(Frames) /\ s # <<>> /\ n \in Nat \ {0} /\ s[n].id = x.id
  BY TopOf
<1>2. /\ Len(r) = n /\ r[n] = x /\ \A k \in 1..n - 1 : r[k] = s[k]
  BY <1>1, ReplacedIn
<1>3. stack'[t] = r /\ \A u \in Tasks : u # t => stack'[u] = stack[u]
  BY DEF Replace, WorkInv, TaskTypes
<1>. HIDE DEF r
<1>4. PICK u \in Tasks : \E k \in 1..Len(stack[u]) : stack[u][k].id = i
  BY DEF InHand
<1>5. PICK k \in 1..Len(stack[u]) : stack[u][k].id = i
  BY <1>4
<1>6. CASE u # t
  BY <1>3, <1>5, <1>6 DEF InHand
<1>7. CASE u = t
  <2>1. k \in 1..n /\ (k = n \/ k \in 1..n - 1)
    BY <1>1, <1>7
  <2>2. k \in 1..Len(r) /\ r[k].id = i
    BY <1>1, <1>2, <1>5, <1>7, <2>1
  <2>. QED
    BY <1>3, <2>2 DEF InHand
<1>. QED
  BY <1>6, <1>7

LEMMA PopHolds ==
    ASSUME WorkInv, NEW t \in Tasks, stage[t] = "work", Pop(t),
           NEW i, i # Top(t).id, InHand(i)
    PROVE  InHand(i)'
<1>. DEFINE s == stack[t]
            n == Len(s)
            r == Front(s)
<1>1. s \in Seq(Frames) /\ s # <<>> /\ n \in Nat \ {0} /\ s[n].id # i
  BY TopOf
<1>2. Len(r) = n - 1 /\ \A k \in 1..n - 1 : r[k] = s[k]
  BY <1>1, FrontOf
<1>3. stack'[t] = r /\ \A u \in Tasks : u # t => stack'[u] = stack[u]
  BY DEF Pop, WorkInv, TaskTypes
<1>. HIDE DEF r
<1>4. PICK u \in Tasks : \E k \in 1..Len(stack[u]) : stack[u][k].id = i
  BY DEF InHand
<1>5. PICK k \in 1..Len(stack[u]) : stack[u][k].id = i
  BY <1>4
<1>6. CASE u # t
  BY <1>3, <1>5, <1>6 DEF InHand
<1>7. CASE u = t
  <2>1. k \in 1..n - 1
    BY <1>1, <1>5, <1>7
  <2>2. k \in 1..Len(r) /\ r[k].id = i
    BY <1>2, <1>5, <1>7, <2>1
  <2>. QED
    BY <1>3, <2>2 DEF InHand
<1>. QED
  BY <1>6, <1>7

LEMMA PushHolds ==
    ASSUME WorkInv, NEW t \in Tasks, stage[t] # "work", NEW x \in Frames, Push(t, x),
           NEW i, InHand(i) \/ i = x.id
    PROVE  InHand(i)'
<1>1. stack[t] = <<>>
  BY DEF WorkInv, StackIs
<1>2. stack'[t] = Append(<<>>, x) /\ \A u \in Tasks : u # t => stack'[u] = stack[u]
  BY <1>1 DEF Push, WorkInv, TaskTypes
<1>3. Len(stack'[t]) = 1 /\ stack'[t][1] = x
  BY <1>2
<1>4. CASE i = x.id
  <2>1. 1 \in 1..Len(stack'[t]) /\ stack'[t][1].id = i
    BY <1>3, <1>4
  <2>. QED
    BY <2>1 DEF InHand
<1>5. CASE InHand(i)
  <2>1. PICK u \in Tasks : \E k \in 1..Len(stack[u]) : stack[u][k].id = i
    BY <1>5 DEF InHand
  <2>2. u # t
    BY <1>1, <2>1
  <2>. QED
    BY <1>2, <2>1, <2>2 DEF InHand
<1>. QED
  BY <1>4, <1>5

LEMMA SpawnHolds ==
    ASSUME WorkInv, NEW t \in Tasks, stage[t] = "work",
           NEW x \in Frames, NEW y \in Frames, y.id = Top(t).id,
           stack' = [stack EXCEPT ![t] = Front(@) \o <<y, x>>],
           NEW i, InHand(i) \/ i = x.id
    PROVE  InHand(i)'
<1>. DEFINE s == stack[t]
            n == Len(s)
            f == Front(s)
            r == f \o <<y, x>>
<1>1. s \in Seq(Frames) /\ s # <<>> /\ n \in Nat \ {0} /\ s[n].id = y.id
  BY TopOf
<1>2. f \in Seq(Frames) /\ Len(f) = n - 1 /\ \A k \in 1..n - 1 : f[k] = s[k]
  BY <1>1, FrontOf
<1>3. stack'[t] = r /\ \A u \in Tasks : u # t => stack'[u] = stack[u]
  BY DEF WorkInv, TaskTypes
<1>. HIDE DEF f
<1>4. /\ Len(r) = Len(f) + 2 /\ r[Len(f) + 1] = y /\ r[Len(f) + 2] = x
      /\ \A k \in 1..Len(f) : r[k] = f[k]
  BY <1>2, TwoPushedOn
<1>. HIDE DEF r
<1>5. Len(r) = n + 1 /\ r[n] = y /\ r[n + 1] = x /\ \A k \in 1..n - 1 : r[k] = s[k]
  <2>1. Len(f) + 1 = n /\ Len(f) + 2 = n + 1
    BY <1>1, <1>2
  <2>. QED
    BY <1>2, <1>4, <2>1
<1>6. CASE i = x.id
  <2>1. n + 1 \in 1..Len(r) /\ r[n + 1].id = i
    BY <1>1, <1>5, <1>6
  <2>. QED
    BY <1>3, <2>1 DEF InHand
<1>7. CASE InHand(i)
  <2>1. PICK u \in Tasks : \E k \in 1..Len(stack[u]) : stack[u][k].id = i
    BY <1>7 DEF InHand
  <2>2. PICK k \in 1..Len(stack[u]) : stack[u][k].id = i
    BY <2>1
  <2>3. CASE u # t
    BY <1>3, <2>2, <2>3 DEF InHand
  <2>4. CASE u = t
    <3>1. k \in 1..n /\ (k = n \/ k \in 1..n - 1)
      BY <1>1, <2>4
    <3>2. k \in 1..Len(r) /\ r[k].id = i
      BY <1>1, <1>5, <2>2, <2>4, <3>1
    <3>. QED
      BY <1>3, <3>2 DEF InHand
  <2>. QED
    BY <2>3, <2>4
<1>. QED
  BY <1>6, <1>7

-----------------------------------------------------------------------------
(* The incidents, and the monitors.                                        *)

(* An incident of a monitor is about its component and its failure, it     *)
(* only waits for the monitors that verify it, and it is not resolved      *)
(* before it has seen them healthy.                                        *)
RowIs(row, d) ==
    /\ row.status = "unused" <=> row = Unused
    /\ row.status # "unused" =>
          /\ row.component \in Components
          /\ row.monitor # None => row.component = Owner[row.monitor]
                                   /\ row.failure = FailureOf[row.monitor]
          /\ d \subseteq Verifiers(row.component, row.monitor)
    /\ row.status = "resolved" /\ row.component \in Verified => d = {}

RowsInv == \A i \in Ids : RowIs(incident[i], doubt[i])

(* A monitor that has just passed has no incident that still waits for it, *)
(* it closes only its own, and it opens one when none of its is active.    *)
MonitorIs(m) ==
    /\ stage[m] \in {"passed", "closing"} =>
          \A i \in Ids : incident[i].monitor = m => m \notin doubt[i]
    /\ batch[m] \subseteq Ids
    /\ \A i \in batch[m] : incident[i].monitor = m
    /\ batch[m] # {} => stage[m] = "closing"
    /\ stage[m] = "open" => \A i \in Ids : incident[i].monitor = m => incident[i].status \notin Active

MonitorsInv == \A m \in Monitors : MonitorIs(m)

(* While nothing has raised, what is open or recovering is in a task's     *)
(* hands.                                                                  *)
HeldInv ==
    mishaps = 0 =>
        \A i \in Ids : incident[i].status \in {"open", "recovering"} => InHand(i)

RestTypes ==
    /\ window \subseteq Components
    /\ healthy \in [Monitors -> BOOLEAN]
    /\ batch \in [Monitors -> SUBSET Ids]
    /\ breaks \in 0..MaxBreaks /\ mishaps \in 0..MaxMishaps

Inv == WorkInv /\ RowsInv /\ MonitorsInv /\ HeldInv /\ OneIncidentPerMonitor /\ RestTypes

(* Rows that do not change stay what they are.                             *)
LEMMA RowsStay ==
    ASSUME RowsInv, NEW S, ChangesIn(S),
           \A i \in Ids \cap S : RowIs(incident'[i], doubt'[i])
    PROVE  RowsInv'
<1>1. ASSUME NEW i \in Ids \ S PROVE RowIs(incident'[i], doubt'[i])
  <2>1. RowIs(incident[i], doubt[i]) /\ incident'[i] = incident[i] /\ doubt'[i] \subseteq doubt[i]
    BY DEF RowsInv, ChangesIn
  <2>. QED
    BY <2>1 DEF RowIs
<1>. QED
  BY <1>1 DEF RowsInv

LEMMA MonitorStays ==
    ASSUME NEW m \in Monitors, MonitorIs(m), batch'[m] = batch[m],
           \/ stage'[m] = stage[m]
           \/ stage'[m] \notin {"passed", "closing", "open"} /\ batch[m] = {},
           \A i \in Ids : incident'[i].monitor = m =>
               /\ incident[i].monitor = m /\ doubt'[i] \subseteq doubt[i]
               /\ stage[m] = "open" /\ incident'[i].status \in Active => incident[i].status \in Active,
           \A i \in batch[m] : incident'[i].monitor = m
    PROVE  MonitorIs(m)'
BY DEF MonitorIs

(* A step of task t on an incident of its own.                             *)
LEMMA MonitorsStay ==
    ASSUME MonitorsInv, NEW t \in Tasks, NEW i \in Ids, ChangesIn({i}),
           stage[t] # "closing", stage'[t] \notin {"passed", "closing", "open"},
           \A u \in Tasks : u # t => stage'[u] = stage[u],
           incident[i].monitor \in {None, t}, incident'[i].monitor \in {None, t},
           batch' = batch
    PROVE  MonitorsInv'
<1>. SUFFICES ASSUME NEW m \in Monitors PROVE MonitorIs(m)'
  BY DEF MonitorsInv
<1>1. MonitorIs(m) /\ batch'[m] = batch[m] /\ m \in Tasks /\ batch[m] \subseteq Ids
  BY DEF MonitorsInv, MonitorIs, Tasks
<1>2. CASE m = t
  BY <1>1, <1>2 DEF MonitorIs
<1>3. CASE m # t
  <2>1. incident[i].monitor # m /\ incident'[i].monitor # m /\ stage'[m] = stage[m]
    BY <1>1, <1>3, RecoveryAssumption
  <2>2. ASSUME NEW j \in Ids, incident'[j].monitor = m
        PROVE  incident[j].monitor = m /\ doubt'[j] \subseteq doubt[j] /\ incident'[j] = incident[j]
    BY <2>1, <2>2 DEF ChangesIn
  <2>3. ASSUME NEW j \in batch[m] PROVE incident'[j].monitor = m
    <3>1. j \in Ids /\ incident[j].monitor = m
      BY <1>1 DEF MonitorIs
    <3>. QED
      BY <2>1, <3>1 DEF ChangesIn
  <2>. QED
    BY <1>1, <2>1, <2>2, <2>3, MonitorStays
<1>. QED
  BY <1>2, <1>3

(* Whatever is active and not marked belonged to its monitor before.       *)
LEMMA OneStays ==
    ASSUME OneIncidentPerMonitor, mishaps' = mishaps,
           \A i \in Ids : incident'[i].status \in Active /\ incident'[i].monitor # None
                            /\ ~ Marking(i)'
                          => /\ incident[i].status \in Active /\ ~ Marking(i)
                             /\ incident'[i].monitor = incident[i].monitor
    PROVE  OneIncidentPerMonitor'
<1>. SUFFICES ASSUME mishaps' = 0, NEW i \in Ids, NEW j \in Ids,
                     incident'[i].status \in Active, incident'[j].status \in Active,
                     incident'[i].monitor # None, incident'[i].monitor = incident'[j].monitor,
                     ~ Marking(i)', ~ Marking(j)'
              PROVE  i = j
  BY DEF OneIncidentPerMonitor
<1>1. /\ incident[i].status \in Active /\ ~ Marking(i) /\ incident'[i].monitor = incident[i].monitor
      /\ incident[j].status \in Active /\ ~ Marking(j) /\ incident'[j].monitor = incident[j].monitor
  OBVIOUS
<1>. QED
  BY <1>1 DEF OneIncidentPerMonitor

(* The frame that marks an incident is on top of one stack only.           *)
LEMMA MarkingIs ==
    ASSUME WorkInv, NEW t \in Tasks, stage[t] = "work", Top(t).at # "mark"
    PROVE  ~ Marking(Top(t).id)
<1>. SUFFICES ASSUME NEW u \in Tasks, stack[u] # <<>>, Top(u).id = Top(t).id PROVE u = t
  BY DEF Marking
<1>1. stage[u] = "work"
  BY DEF WorkInv, StackIs
<1>2. Len(stack[u]) \in Nat \ {0} /\ Top(u) = stack[u][Len(stack[u])]
  BY <1>1, TopOf
<1>3. u # t => \A k \in 1..Len(stack[u]) : stack[u][k].id # Top(t).id
  BY TopOf
<1>. QED
  BY <1>2, <1>3

(* Only the task that marks an incident stops marking it.                  *)
LEMMA MarkingStays ==
    ASSUME NEW t \in Tasks, NEW i, Marking(i),
           \A u \in Tasks : u # t => stack'[u] = stack[u],
           stack[t] = <<>> \/ Top(t).at # "mark" \/ i # Top(t).id
    PROVE  Marking(i)'
BY DEF Marking, Top

(* A recovery goes on.                                                     *)
LEMMA WorkGoesOn ==
    ASSUME Inv, NEW t \in Tasks, stage[t] = "work", NEW f \in Frames, f = Top(t),
           NEW x \in Frames, x.id = f.id, f.at # "mark",
           Replace(t, x), UNCHANGED <<stage, batch, mishaps>>, RestTypes', RowTypes',
           ChangesIn({f.id}), FrameIs(t, x, incident', doubt'),
           RowIs(incident'[f.id], doubt'[f.id]), incident'[f.id].monitor = incident[f.id].monitor,
           incident'[f.id].status \in Active /\ incident'[f.id].monitor # None
               => incident[f.id].status \in Active
    PROVE  Inv'
<1>. f.id \in Ids
  BY DEF Frames
<1>1. WorkInv'
  BY ReplaceKeeps DEF Inv
<1>2. RowsInv'
  BY RowsStay DEF Inv
<1>3. incident[f.id].monitor \in {None, t}
  BY TopOf DEF Inv, FrameIs
<1>4. MonitorsInv'
  BY <1>3, MonitorsStay DEF Inv
<1>5. HeldInv'
  <2>. SUFFICES ASSUME mishaps = 0, NEW j \in Ids, incident'[j].status \in {"open", "recovering"}
                PROVE  InHand(j)'
    BY DEF HeldInv
  <2>1. InHand(f.id)
    BY TopOf DEF Inv, InHand
  <2>2. j # f.id => InHand(j)
    BY DEF Inv, HeldInv, ChangesIn
  <2>. QED
    BY <2>1, <2>2, ReplaceHolds DEF Inv
<1>6. OneIncidentPerMonitor'
  <2>1. \A u \in Tasks : u # t => stack'[u] = stack[u]
    BY DEF Replace, Inv, WorkInv, TaskTypes
  <2>2. \A j \in Ids : Marking(j) => Marking(j)'
    BY <2>1, MarkingStays
  <2>. QED
    BY <2>2, OneStays DEF Inv, ChangesIn
<1>. QED
  BY <1>1, <1>2, <1>4, <1>5, <1>6 DEF Inv

(* A recovery returns.                                                     *)
LEMMA WorkReturns ==
    ASSUME Inv, NEW t \in Tasks, stage[t] = "work", NEW f \in Frames, f = Top(t),
           Pop(t), UNCHANGED <<batch, mishaps>>, RestTypes', RowTypes',
           ChangesIn({f.id}), RowIs(incident'[f.id], doubt'[f.id]),
           incident'[f.id].monitor \in {None, incident[f.id].monitor},
           incident'[f.id].status \notin {"open", "recovering"} \/ f.at = "cascade",
           incident'[f.id].status \in Active /\ incident'[f.id].monitor # None
               => incident[f.id].status \in Active /\ f.at # "mark",
           f.at = "cascade" => incident' = incident
    PROVE  Inv'
<1>. f.id \in Ids
  BY DEF Frames
<1>1. WorkInv'
  BY PopKeeps DEF Inv
<1>2. RowsInv'
  BY RowsStay DEF Inv
<1>3. incident[f.id].monitor \in {None, t} /\ FrameIs(t, f, incident, doubt)
  BY TopOf DEF Inv, FrameIs
<1>4. MonitorsInv'
  <2>1. stage'[t] \in {"work", "idle", "done"} /\ \A u \in Tasks : u # t => stage'[u] = stage[u]
    BY DEF Pop, Goto, Rest, Inv, WorkInv, TaskTypes
  <2>2. incident'[f.id].monitor \in {None, t}
    BY <1>3
  <2>. QED
    BY <1>3, <2>1, <2>2, MonitorsStay DEF Inv
<1>5. HeldInv'
  <2>. SUFFICES ASSUME mishaps = 0, NEW j \in Ids, incident'[j].status \in {"open", "recovering"}
                PROVE  InHand(j)'
    BY DEF HeldInv
  <2>1. j # f.id
    BY <1>3 DEF FrameIs, Waiting
  <2>2. InHand(j)
    BY <2>1 DEF Inv, HeldInv, ChangesIn
  <2>. QED
    BY <2>1, <2>2, PopHolds DEF Inv
<1>6. OneIncidentPerMonitor'
  <2>1. \A u \in Tasks : u # t => stack'[u] = stack[u]
    BY DEF Pop, Inv, WorkInv, TaskTypes
  <2>2. \A j \in Ids : j # f.id /\ Marking(j) => Marking(j)'
    BY <2>1, MarkingStays
  <2>3. f.at # "mark" => ~ Marking(f.id)
    BY MarkingIs DEF Inv
  <2>. QED
    BY <2>2, <2>3, OneStays DEF Inv, ChangesIn
<1>. QED
  BY <1>1, <1>2, <1>4, <1>5, <1>6 DEF Inv

-----------------------------------------------------------------------------
(* The steps of a recovery.                                                *)

(* An incident gets a new status and keeps the rest.                       *)
LEMMA StatusIs ==
    ASSUME Inv, NEW i \in Ids, incident[i].status # "unused",
           NEW s \in {"recovering", "unresolved", "resolved"}, SetStatus(i, s),
           UNCHANGED doubt,
           s = "resolved" /\ incident[i].component \in Verified => doubt[i] = {}
    PROVE  /\ RowTypes' /\ ChangesIn({i}) /\ RowIs(incident'[i], doubt'[i])
           /\ incident'[i].status = s
           /\ incident'[i].monitor = incident[i].monitor
           /\ incident'[i].component = incident[i].component
<1>1. incident \in [Ids -> Rows] /\ doubt \in [Ids -> SUBSET Monitors] /\ incident[i] \in Rows
  BY DEF Inv, WorkInv, RowTypes
<1>. DEFINE row == [component |-> incident[i].component, failure |-> incident[i].failure,
                    monitor |-> incident[i].monitor, status |-> s]
<1>2. row \in Rows
  BY <1>1 DEF Rows, Statuses, Active
<1>3. incident'[i] = row /\ \A j \in Ids : j # i => incident'[j] = incident[j]
  BY <1>1 DEF SetStatus, Rows
<1>4. incident' \in [Ids -> Rows]
  BY <1>1, <1>2, <1>3 DEF SetStatus
<1>5. RowIs(incident[i], doubt[i])
  BY DEF Inv, RowsInv
<1>6. row.status # "unused" /\ row # Unused
  BY DEF Unused
<1>7. RowIs(row, doubt[i])
  BY <1>5, <1>6 DEF RowIs
<1>. QED
  BY <1>1, <1>3, <1>4, <1>7 DEF RowTypes, ChangesIn

LEMMA BeginKeeps == ASSUME Inv, NEW t \in Tasks, Begin(t) PROVE Inv'
<1>. PICK f \in Frames : f = Top(t)
  BY TopOf DEF Begin, Inv
<1>1. /\ stage[t] = "work" /\ f.at = "begin" /\ f.id \in Ids
      /\ FrameIs(t, f, incident, doubt)
      /\ UNCHANGED <<window, healthy, batch, doubt, breaks, mishaps>>
  BY TopOf DEF Begin, Inv, Frames
<1>2. RestTypes'
  BY <1>1 DEF Inv, RestTypes
<1>3. incident[f.id].status # "unused"
      /\ (incident[f.id].monitor # None => incident[f.id].status \in {"open", "recovering"})
  BY <1>1 DEF FrameIs, Waiting
<1>4. CASE SetStatus(f.id, "unresolved") /\ Pop(t)
  <2>1. /\ RowTypes' /\ ChangesIn({f.id}) /\ RowIs(incident'[f.id], doubt'[f.id])
        /\ incident'[f.id].status = "unresolved"
        /\ incident'[f.id].monitor = incident[f.id].monitor
    BY <1>1, <1>3, <1>4, StatusIs
  <2>. QED
    BY <1>1, <1>2, <1>3, <1>4, <2>1, WorkReturns DEF Active
<1>5. CASE SetStatus(f.id, "recovering") /\ Replace(t, [f EXCEPT !.at = "attempt"])
           /\ UNCHANGED stage
  <2>. DEFINE x == [id |-> f.id, at |-> "attempt", tried |-> f.tried, ok |-> f.ok,
                    probe |-> f.probe, next |-> f.next]
  <2>1. x \in Frames /\ x = [f EXCEPT !.at = "attempt"]
    BY DEF Frames, Places
  <2>2. /\ RowTypes' /\ ChangesIn({f.id}) /\ RowIs(incident'[f.id], doubt'[f.id])
        /\ incident'[f.id].status = "recovering"
        /\ incident'[f.id].monitor = incident[f.id].monitor
    BY <1>1, <1>3, <1>5, StatusIs
  <2>3. FrameIs(t, x, incident', doubt')
    BY <1>1, <2>2 DEF FrameIs, Waiting
  <2>4. Replace(t, x) /\ x.id = f.id
    BY <1>5, <2>1
  <2>. HIDE DEF x
  <2>. QED
    BY <1>1, <1>2, <1>3, <1>5, <2>1, <2>2, <2>3, <2>4, WorkGoesOn DEF Active
<1>. QED
  BY <1>4, <1>5 DEF Begin

LEMMA AttemptKeeps ==
    ASSUME Inv, NEW t \in Tasks, NEW raised \in BOOLEAN, Attempt(t, raised) PROVE Inv'
<1>. PICK f \in Frames : f = Top(t)
  BY TopOf DEF Attempt, Inv
<1>1. /\ stage[t] = "work" /\ f.at = "attempt" /\ f.id \in Ids
      /\ FrameIs(t, f, incident, doubt)
      /\ UNCHANGED <<dbVars, stage, batch, doubt, breaks, mishaps>>
      /\ f.tried \in 0..Attempts - 1 /\ f.next \in Seq(Components)
  BY TopOf DEF Attempt, Inv, Frames
<1>2. RestTypes'
  BY <1>1 DEF Inv, RestTypes, Attempt, dbVars
<1>3. /\ RowTypes' /\ ChangesIn({f.id}) /\ RowIs(incident'[f.id], doubt'[f.id])
      /\ incident' = incident /\ doubt' = doubt
  BY <1>1 DEF Inv, WorkInv, RowTypes, RowsInv, ChangesIn, dbVars
<1>4. \E x \in Frames : x.id = f.id /\ Replace(t, x) /\ FrameIs(t, x, incident', doubt')
  <2>1. CASE raised /\ Again(f.tried)
    <3>. DEFINE x == [id |-> f.id, at |-> "attempt", tried |-> f.tried + 1, ok |-> f.ok,
                      probe |-> f.probe, next |-> f.next]
    <3>1. f.tried + 1 \in 0..Attempts - 1
      BY <1>1, <2>1, RecoveryAssumption DEF Again
    <3>2. x \in Frames /\ x = [f EXCEPT !.tried = @ + 1]
      BY <1>1, <3>1 DEF Frames, Places
    <3>3. Replace(t, x)
      BY <2>1, <3>2 DEF Attempt
    <3>4. FrameIs(t, x, incident', doubt')
      BY <1>1, <1>3 DEF FrameIs, Waiting
    <3>. QED
      BY <3>2, <3>3, <3>4
  <2>2. CASE ~ (raised /\ Again(f.tried))
    <3>. DEFINE p == ToProbe(f.id)
    <3>. PICK o \in BOOLEAN : o = ~raised
      OBVIOUS
    <3>1. 0 \in 0..Attempts - 1
      BY RecoveryAssumption
    <3>2. incident[f.id] \in Rows /\ ToProbe(f.id) \subseteq Monitors
      <4>1. incident[f.id] \in Rows
        BY <1>1 DEF Inv, WorkInv, RowTypes
      <4>2. incident[f.id].monitor \in Monitors \cup {None}
        BY <4>1 DEF Rows
      <4>. QED
        BY <4>1, <4>2 DEF ToProbe, Verifiers, MonitorsOf
    <3>. HIDE DEF p
    <3>3. PICK x : x = [f EXCEPT !.at = "verify", !.ok = o, !.tried = 0, !.probe = p]
      OBVIOUS
    <3>4. x \in Frames /\ x.id = f.id /\ x.at = "verify" /\ x.probe = p
      BY <3>1, <3>2, <3>3 DEF Frames, Places, p
    <3>5. Replace(t, x)
      BY <2>2, <3>3 DEF Attempt, p
    <3>6. RowIs(incident[f.id], doubt[f.id])
      BY <1>1 DEF Inv, RowsInv
    <3>7. incident[f.id].component \in Verified => doubt[f.id] \subseteq ToProbe(f.id)
      BY <1>1, <3>6 DEF RowIs, ToProbe, FrameIs
    <3>8. FrameIs(t, x, incident', doubt')
      BY <1>1, <1>3, <3>4, <3>7 DEF FrameIs, Waiting, p
    <3>. QED
      BY <3>4, <3>5, <3>8
  <2>. QED
    BY <2>1, <2>2
<1>. QED
  BY <1>1, <1>2, <1>3, <1>4, WorkGoesOn

(* A probe takes its monitor from the doubts when it passes.               *)
LEMMA ProbeIs ==
    ASSUME Inv, NEW m \in Monitors, Probe(m), UNCHANGED incident
    PROVE  /\ RowTypes' /\ ChangesIn({}) /\ RowsInv'
           /\ \A i \in Ids : doubt'[i] = IF healthy[m] THEN doubt[i] \ {m} ELSE doubt[i]
<1>1. incident \in [Ids -> Rows] /\ doubt \in [Ids -> SUBSET Monitors]
  BY DEF Inv, WorkInv, RowTypes
<1>2. \A i \in Ids : doubt'[i] = IF healthy[m] THEN doubt[i] \ {m} ELSE doubt[i]
  BY DEF Probe
<1>3. RowTypes' /\ ChangesIn({})
  BY <1>1, <1>2 DEF RowTypes, ChangesIn, Probe
<1>4. RowsInv'
  BY <1>3, RowsStay DEF Inv
<1>. QED
  BY <1>2, <1>3, <1>4

LEMMA VerifyKeeps == ASSUME Inv, NEW t \in Tasks, Verify(t) PROVE Inv'
<1>. PICK f \in Frames : f = Top(t)
  BY TopOf DEF Verify, Inv
<1>1. /\ stage[t] = "work" /\ f.at = "verify" /\ f.id \in Ids
      /\ FrameIs(t, f, incident, doubt)
      /\ UNCHANGED <<dbVars, healthy, stage, batch, breaks, mishaps>>
      /\ f.tried \in 0..Attempts - 1 /\ f.next \in Seq(Components)
      /\ f.probe \in SUBSET Monitors /\ f.ok \in BOOLEAN
  BY TopOf DEF Verify, Inv, Frames
<1>2. RestTypes'
  BY <1>1 DEF Inv, RestTypes, dbVars
<1>3. PICK m \in f.probe : /\ Replace(t, [f EXCEPT !.probe = @ \ {m}, !.ok = Judge(@, m)])
                           /\ Probe(m)
  BY DEF Verify
<1>4. m \in Monitors /\ healthy[m] \in BOOLEAN
  BY <1>1, <1>3 DEF Inv, RestTypes
<1>5. /\ RowTypes' /\ ChangesIn({}) /\ RowsInv' /\ incident' = incident
      /\ \A i \in Ids : doubt'[i] = IF healthy[m] THEN doubt[i] \ {m} ELSE doubt[i]
  BY <1>1, <1>3, <1>4, ProbeIs DEF dbVars
<1>0. PICK o \in BOOLEAN : o = Judge(f.ok, m)
  BY <1>1, <1>4 DEF Judge
<1>6. PICK x : x = [f EXCEPT !.probe = @ \ {m}, !.ok = o]
  OBVIOUS
<1>7. x \in Frames /\ x.id = f.id /\ x.at = "verify" /\ x.ok = o /\ x.probe = f.probe \ {m}
  BY <1>1, <1>6 DEF Frames
<1>8. Replace(t, x)
  BY <1>0, <1>3, <1>6
<1>9. FrameIs(t, x, incident', doubt')
  BY <1>0, <1>1, <1>4, <1>5, <1>7, ZenonT(30) DEF FrameIs, Waiting, Judge
<1>10. ChangesIn({f.id}) /\ RowIs(incident'[f.id], doubt'[f.id])
  BY <1>1, <1>5 DEF ChangesIn, RowsInv
<1>. QED
  BY <1>1, <1>2, <1>5, <1>7, <1>8, <1>9, <1>10, WorkGoesOn

LEMMA ResolveKeeps == ASSUME Inv, NEW t \in Tasks, Resolve(t) PROVE Inv'
<1>. PICK f \in Frames : f = Top(t)
  BY TopOf DEF Resolve, Judged, Inv
<1>1. /\ stage[t] = "work" /\ f.at = "verify" /\ f.id \in Ids /\ f.probe = {} /\ f.ok
      /\ FrameIs(t, f, incident, doubt)
      /\ UNCHANGED <<window, healthy, stage, batch, doubt, breaks, mishaps>>
      /\ f.tried \in 0..Attempts - 1 /\ SetStatus(f.id, "resolved")
  BY TopOf DEF Resolve, Judged, Inv, Frames
<1>2. RestTypes'
  BY <1>1 DEF Inv, RestTypes
<1>3. /\ incident[f.id].status # "unused"
      /\ incident[f.id].component \in Verified => doubt[f.id] = {}
  BY <1>1 DEF FrameIs, Waiting
<1>4. /\ RowTypes' /\ ChangesIn({f.id}) /\ RowIs(incident'[f.id], doubt'[f.id])
      /\ incident'[f.id].status = "resolved"
      /\ incident'[f.id].monitor = incident[f.id].monitor
  BY <1>1, <1>3, StatusIs
<1>. DEFINE c == incident[f.id].component
<1>5. c \in Components
  BY <1>1, <1>3 DEF Inv, RowsInv, RowIs
<1>6. Dependents[c] \in Seq(Components)
  BY <1>5, RecoveryAssumption
<1>7. PICK x : x = [f EXCEPT !.at = "cascade", !.next = Dependents[c]]
  OBVIOUS
<1>8. x \in Frames /\ x.id = f.id /\ x.at = "cascade"
  BY <1>6, <1>7 DEF Frames, Places
<1>9. Replace(t, x)
  BY <1>7 DEF Resolve
<1>10. FrameIs(t, x, incident', doubt')
  BY <1>1, <1>4, <1>8 DEF FrameIs, Waiting
<1>. QED
  BY <1>1, <1>2, <1>4, <1>8, <1>9, <1>10, WorkGoesOn DEF Active

LEMMA FailKeeps == ASSUME Inv, NEW t \in Tasks, Fail(t) PROVE Inv'
<1>. PICK f \in Frames : f = Top(t)
  BY TopOf DEF Fail, Judged, Inv
<1>1. /\ stage[t] = "work" /\ f.at = "verify" /\ f.id \in Ids
      /\ FrameIs(t, f, incident, doubt) /\ Pop(t)
      /\ UNCHANGED <<window, healthy, batch, doubt, breaks, mishaps>>
      /\ SetStatus(f.id, "unresolved")
  BY TopOf DEF Fail, Judged, Inv, Frames
<1>2. RestTypes'
  BY <1>1 DEF Inv, RestTypes
<1>3. incident[f.id].status # "unused"
      /\ (incident[f.id].monitor # None => incident[f.id].status \in {"open", "recovering"})
  BY <1>1 DEF FrameIs, Waiting
<1>4. /\ RowTypes' /\ ChangesIn({f.id}) /\ RowIs(incident'[f.id], doubt'[f.id])
      /\ incident'[f.id].status = "unresolved"
      /\ incident'[f.id].monitor = incident[f.id].monitor
  BY <1>1, <1>3, StatusIs
<1>. QED
  BY <1>1, <1>2, <1>3, <1>4, WorkReturns DEF Active
LEMMA MarkKeeps == ASSUME Inv, NEW t \in Tasks, Mark(t) PROVE Inv'
<1>. PICK f \in Frames : f = Top(t)
  BY TopOf DEF Mark, Inv
<1>1. /\ stage[t] = "work" /\ f.at = "mark" /\ f.id \in Ids /\ Pop(t)
      /\ UNCHANGED <<window, healthy, batch, breaks, mishaps>>
      /\ incident' = [incident EXCEPT ![f.id] = Unused]
      /\ doubt' = [doubt EXCEPT ![f.id] = {}]
  BY DEF Mark, Frames
<1>2. RestTypes'
  BY <1>1 DEF Inv, RestTypes
<1>3. incident \in [Ids -> Rows] /\ doubt \in [Ids -> SUBSET Monitors] /\ Unused \in Rows
  <2>1. Unused \in Rows
    BY DEF Unused, Rows, Statuses, Failures
  <2>. QED
    BY <2>1 DEF Inv, WorkInv, RowTypes
<1>4. RowTypes' /\ ChangesIn({f.id}) /\ incident'[f.id] = Unused /\ doubt'[f.id] = {}
  BY <1>1, <1>3 DEF RowTypes, ChangesIn
<1>5. RowIs(incident'[f.id], doubt'[f.id])
  BY <1>4 DEF RowIs, Unused
<1>6. Unused.status = "unused" /\ Unused.monitor = None
  BY DEF Unused
<1>. QED
  BY <1>1, <1>2, <1>4, <1>5, <1>6, WorkReturns DEF Active

LEMMA CascadeKeeps == ASSUME Inv, NEW t \in Tasks, Cascade(t) PROVE Inv'
<1>. PICK f \in Frames : f = Top(t)
  BY TopOf DEF Cascade, Inv
<1>1. /\ stage[t] = "work" /\ f.at = "cascade" /\ f.id \in Ids
      /\ FrameIs(t, f, incident, doubt)
      /\ UNCHANGED <<dbVars, healthy, batch, doubt, breaks, mishaps>>
      /\ f.next \in Seq(Components)
  BY TopOf DEF Cascade, Inv, Frames
<1>2. RestTypes'
  BY <1>1 DEF Inv, RestTypes, dbVars
<1>3. /\ RowTypes' /\ ChangesIn({f.id}) /\ RowIs(incident'[f.id], doubt'[f.id])
      /\ incident' = incident /\ doubt' = doubt
  BY <1>1 DEF Inv, WorkInv, RowTypes, RowsInv, ChangesIn, dbVars
<1>4. CASE f.next = <<>> /\ Pop(t)
  BY <1>1, <1>2, <1>3, <1>4, WorkReturns
<1>5. CASE f.next # <<>> /\ UNCHANGED stage
           /\ Replace(t, IF Head(f.next) \in window THEN [f EXCEPT !.next = Tail(@)]
                         ELSE [f EXCEPT !.at = "spawn"])
  <2>1. \E x \in Frames : x.id = f.id /\ Replace(t, x) /\ FrameIs(t, x, incident', doubt')
    <3>1. CASE Head(f.next) \in window
      <4>1. PICK x : x = [f EXCEPT !.next = Tail(@)]
        OBVIOUS
      <4>2. Tail(f.next) \in Seq(Components)
        BY <1>1, <1>5
      <4>3. x \in Frames /\ x.id = f.id /\ x.at = "cascade"
        BY <1>1, <4>1, <4>2 DEF Frames
      <4>4. FrameIs(t, x, incident', doubt')
        BY <1>1, <1>3, <4>3 DEF FrameIs, Waiting
      <4>. QED
        BY <1>5, <3>1, <4>1, <4>3, <4>4
    <3>2. CASE Head(f.next) \notin window
      <4>1. PICK x : x = [f EXCEPT !.at = "spawn"]
        OBVIOUS
      <4>2. x \in Frames /\ x.id = f.id /\ x.at = "spawn" /\ x.next = f.next
        BY <4>1 DEF Frames, Places
      <4>3. FrameIs(t, x, incident', doubt')
        BY <1>1, <1>3, <1>5, <4>2 DEF FrameIs, Waiting
      <4>. QED
        BY <1>5, <3>2, <4>1, <4>2, <4>3
    <3>. QED
      BY <3>1, <3>2
  <2>. QED
    BY <1>1, <1>2, <1>3, <1>5, <2>1, WorkGoesOn
<1>. QED
  BY <1>4, <1>5 DEF Cascade

(* A new incident is the only change in the table.                         *)
LEMMA CreateIs ==
    ASSUME Inv, NEW i \in Ids, NEW c \in Components, NEW failure \in Failures,
           NEW monitor \in Monitors \cup {None},
           monitor # None => c = Owner[monitor] /\ failure = FailureOf[monitor],
           Create(i, c, failure, monitor)
    PROVE  /\ RowTypes' /\ ChangesIn({i}) /\ RowIs(incident'[i], doubt'[i])
           /\ incident[i].status = "unused" /\ incident[i].monitor = None
           /\ incident'[i].status = "open" /\ incident'[i].monitor = monitor
<1>1. incident \in [Ids -> Rows] /\ doubt \in [Ids -> SUBSET Monitors]
  BY DEF Inv, WorkInv, RowTypes
<1>2. PICK row : row = [component |-> c, failure |-> failure, monitor |-> monitor,
                        status |-> "open"]
  OBVIOUS
<1>3. row \in Rows
  BY <1>2 DEF Rows, Statuses, Active
<1>4. /\ incident[i] = Unused /\ incident' = [incident EXCEPT ![i] = row]
      /\ doubt' = [doubt EXCEPT ![i] = Verifiers(c, monitor)]
  BY <1>2 DEF Create, CreateIncident, Free
<1>5. Verifiers(c, monitor) \subseteq Monitors
  BY DEF Verifiers, MonitorsOf
<1>6. RowTypes' /\ ChangesIn({i}) /\ incident'[i] = row /\ doubt'[i] = Verifiers(c, monitor)
  BY <1>1, <1>3, <1>4, <1>5 DEF RowTypes, ChangesIn
<1>7. RowIs(row, Verifiers(c, monitor))
  BY <1>2 DEF RowIs, Unused
<1>8. incident[i].status = "unused" /\ incident[i].monitor = None
  BY <1>4 DEF Unused
<1>. QED
  BY <1>2, <1>6, <1>7, <1>8

(* The frame of a new incident.                                            *)
LEMMA NewFrame ==
    ASSUME NEW i \in Ids, NEW at \in Places
    PROVE  Frame(i, at) \in Frames /\ Frame(i, at).id = i /\ Frame(i, at).at = at
<1>1. 0 \in 0..Attempts - 1
  BY RecoveryAssumption
<1>2. <<>> \in Seq(Components)
  OBVIOUS
<1>. QED
  BY <1>1, <1>2 DEF Frame, Frames

LEMMA OpenKeeps == ASSUME Inv, NEW t \in Tasks, Open(t) PROVE Inv'
<1>. DEFINE c == ComponentOf(t)
            failure == IF t \in Monitors THEN FailureOf[t] ELSE "manual_recovery"
            monitor == IF t \in Monitors THEN t ELSE None
            at == IF stage[t] = "open" THEN "begin" ELSE "mark"
<1>1. /\ c \in Components /\ failure \in Failures /\ monitor \in Monitors \cup {None}
      /\ monitor # None => c = Owner[monitor] /\ failure = FailureOf[monitor]
      /\ monitor \in {None, t}
  <2>1. CASE t \in Monitors
    BY <2>1, RecoveryAssumption DEF ComponentOf, Failures
  <2>2. CASE t \notin Monitors
    BY <2>2, RecoveryAssumption DEF ComponentOf, Tasks, Failures
  <2>. QED
    BY <2>1, <2>2
<1>2. PICK i \in Ids : Create(i, c, failure, monitor) /\ Push(t, Frame(i, at))
  BY DEF Open, ComponentOf
<1>3. /\ stage[t] \in {"open", "record"} /\ Goto(t, "work")
      /\ UNCHANGED <<window, healthy, batch, breaks, mishaps>>
  BY DEF Open
<1>. PICK x : x = Frame(i, at)
  OBVIOUS
<1>4. x \in Frames /\ x.id = i /\ x.at = at /\ x.at \in {"begin", "mark"}
  BY NewFrame DEF Places
<1>5. at = "mark" <=> stage[t] = "record"
  BY <1>3
<1>. HIDE DEF c, failure, monitor, at
<1>6. /\ RowTypes' /\ ChangesIn({i}) /\ RowIs(incident'[i], doubt'[i])
      /\ incident[i].status = "unused" /\ incident[i].monitor = None
      /\ incident'[i].status = "open" /\ incident'[i].monitor = monitor
  BY <1>1, <1>2, CreateIs
<1>7. RestTypes'
  BY <1>3 DEF Inv, RestTypes
<1>8. FrameIs(t, x, incident', doubt')
  BY <1>1, <1>4, <1>6 DEF FrameIs, Waiting
<1>9. WorkInv'
  BY <1>2, <1>3, <1>4, <1>6, <1>8, PushKeeps DEF Inv
<1>10. RowsInv'
  BY <1>6, RowsStay DEF Inv
<1>11. /\ stage'[t] = "work" /\ \A u \in Tasks : u # t => stage'[u] = stage[u]
       /\ stack[t] = <<>> /\ stack'[t] = Append(<<>>, x)
       /\ \A u \in Tasks : u # t => stack'[u] = stack[u]
  BY <1>2, <1>3 DEF Goto, Push, Inv, WorkInv, TaskTypes, StackIs
<1>12. MonitorsInv'
  BY <1>1, <1>3, <1>6, <1>11, MonitorsStay DEF Inv
<1>13. HeldInv'
  <2>. SUFFICES ASSUME mishaps = 0, NEW j \in Ids, incident'[j].status \in {"open", "recovering"}
                PROVE  InHand(j)'
    BY <1>3 DEF HeldInv
  <2>1. j # i => InHand(j)
    BY <1>6 DEF Inv, HeldInv, ChangesIn
  <2>2. Push(t, x) /\ stage[t] # "work"
    BY <1>2, <1>3
  <2>. QED
    BY <1>4, <2>1, <2>2, PushHolds DEF Inv
<1>14. OneIncidentPerMonitor'
  <2>1. \A j \in Ids : Marking(j) => Marking(j)'
    BY <1>11, MarkingStays
  <2>2. at = "mark" => Marking(i)'
    <3>1. stack'[t] # <<>> /\ Last(stack'[t]) = x
      BY <1>4, <1>11 DEF Last
    <3>. QED
      BY <1>4, <3>1 DEF Marking, Top
  <2>. SUFFICES ASSUME mishaps = 0, NEW j \in Ids, NEW k \in Ids,
                       incident'[j].status \in Active, incident'[k].status \in Active,
                       incident'[j].monitor # None, incident'[j].monitor = incident'[k].monitor,
                       ~ Marking(j)', ~ Marking(k)'
                PROVE  j = k
    BY <1>3 DEF OneIncidentPerMonitor
  <2>3. CASE j # i /\ k # i
    BY <1>6, <2>1, <2>3 DEF Inv, OneIncidentPerMonitor, ChangesIn
  <2>4. at # "mark" /\ monitor = t /\ t \in Monitors
           => \A l \in Ids : incident[l].monitor = t => incident[l].status \notin Active
    BY <1>3, <1>5 DEF Inv, MonitorsInv, MonitorIs
  <2>5. ASSUME NEW l \in Ids, l # i, incident'[i].monitor # None, ~ Marking(i)',
               incident'[l].monitor = incident'[i].monitor
        PROVE  incident'[l].status \notin Active
    <3>1. incident'[l] = incident[l]
      BY <1>6, <2>5 DEF ChangesIn
    <3>2. at # "mark" /\ monitor = t /\ t \in Monitors
      BY <1>1, <1>6, <2>2, <2>5
    <3>. QED
      BY <1>6, <2>4, <2>5, <3>1, <3>2
  <2>. QED
    BY <2>3, <2>5
<1>. QED
  BY <1>7, <1>9, <1>10, <1>12, <1>13, <1>14 DEF Inv

LEMMA SpawnStepKeeps == ASSUME Inv, NEW t \in Tasks, Spawn(t) PROVE Inv'
<1>. PICK f \in Frames : f = Top(t)
  BY TopOf DEF Spawn, Inv
<1>1. /\ stage[t] = "work" /\ f.at = "spawn" /\ f.id \in Ids
      /\ FrameIs(t, f, incident, doubt) /\ f.next \in Seq(Components)
      /\ UNCHANGED <<window, healthy, stage, batch, breaks, mishaps>>
  BY TopOf DEF Spawn, Inv, Frames
<1>2. f.next # <<>> /\ Head(f.next) \in Components /\ Tail(f.next) \in Seq(Components)
  BY <1>1 DEF FrameIs
<1>y. PICK y : y = [f EXCEPT !.at = "cascade", !.next = Tail(@)]
  OBVIOUS
<1>3. y \in Frames /\ y.id = f.id /\ y.at = "cascade"
  BY <1>y, <1>2 DEF Frames, Places
<1>4. PICK i \in Ids :
        /\ Create(i, Head(f.next), "dependency_recovery", None)
        /\ stack' = [stack EXCEPT ![t] = Front(@) \o <<y, Frame(i, "begin")>>]
  BY <1>y DEF Spawn
<1>x. PICK x : x = Frame(i, "begin")
  OBVIOUS
<1>5. x \in Frames /\ x.id = i /\ x.at = "begin"
  BY <1>x, NewFrame DEF Places
<1>6. /\ RowTypes' /\ ChangesIn({i}) /\ RowIs(incident'[i], doubt'[i])
      /\ incident[i].status = "unused" /\ incident[i].monitor = None
      /\ incident'[i].status = "open" /\ incident'[i].monitor = None
  <2>1. PICK c \in Components : c = Head(f.next)
    BY <1>2
  <2>2. PICK failure \in Failures : failure = "dependency_recovery"
    BY DEF Failures
  <2>3. PICK monitor \in Monitors \cup {None} : monitor = None
    OBVIOUS
  <2>4. /\ Create(i, c, failure, monitor)
        /\ monitor # None => c = Owner[monitor] /\ failure = FailureOf[monitor]
    BY <1>4, <2>1, <2>2, <2>3
  <2>5. /\ RowTypes' /\ ChangesIn({i}) /\ RowIs(incident'[i], doubt'[i])
        /\ incident[i].status = "unused" /\ incident[i].monitor = None
        /\ incident'[i].status = "open" /\ incident'[i].monitor = monitor
    BY <2>4, CreateIs, ZenonT(30)
  <2>. QED
    BY <2>3, <2>5
<1>7. f.id # i
  BY <1>1, <1>6 DEF FrameIs
<1>8. FrameIs(t, x, incident', doubt')
  BY <1>5, <1>6 DEF FrameIs, Waiting
<1>9. FrameIs(t, y, incident', doubt')
  BY <1>1, <1>3, <1>6, <1>7 DEF FrameIs, Waiting, ChangesIn
<1>10. RestTypes'
  BY <1>1 DEF Inv, RestTypes
<1>11. WorkInv'
  BY <1>1, <1>3, <1>4, <1>5, <1>6, <1>8, <1>9, <1>x, SpawnKeeps DEF Inv
<1>12. RowsInv'
  BY <1>6, RowsStay DEF Inv
<1>13. MonitorsInv'
  BY <1>1, <1>6, MonitorsStay DEF Inv
<1>14. HeldInv'
  <2>. SUFFICES ASSUME mishaps = 0, NEW j \in Ids, incident'[j].status \in {"open", "recovering"}
                PROVE  InHand(j)'
    BY <1>1 DEF HeldInv
  <2>1. j # i => InHand(j)
    BY <1>6 DEF Inv, HeldInv, ChangesIn
  <2>. QED
    BY <1>1, <1>3, <1>4, <1>5, <1>x, <2>1, SpawnHolds DEF Inv
<1>15. OneIncidentPerMonitor'
  <2>1. \A u \in Tasks : u # t => stack'[u] = stack[u]
    BY <1>4 DEF Inv, WorkInv, TaskTypes
  <2>2. \A j \in Ids : Marking(j) => Marking(j)'
    BY <1>1, <2>1, MarkingStays
  <2>. QED
    BY <1>1, <1>6, <2>2, OneStays DEF Inv, ChangesIn
<1>. QED
  BY <1>10, <1>11, <1>12, <1>13, <1>14, <1>15 DEF Inv
-----------------------------------------------------------------------------
(* The steps outside a recovery.                                           *)

(* A step that touches neither incidents nor stacks.                       *)
LEMMA OutsideKeeps ==
    ASSUME Inv, RowTypes', ChangesIn({}), UNCHANGED <<incident, stack, mishaps>>,
           stage' \in [Tasks -> Stages],
           \A t \in Tasks : stage'[t] = "work" <=> stage[t] = "work"
    PROVE  WorkInv' /\ RowsInv' /\ HeldInv' /\ OneIncidentPerMonitor'
<1>1. stack' \in [Tasks -> Seq(Frames)]
  BY DEF Inv, WorkInv, TaskTypes
<1>2. WorkInv'
  BY <1>1, OthersKeep DEF Inv
<1>3. RowsInv'
  BY RowsStay DEF Inv
<1>4. HeldInv'
  BY DEF Inv, HeldInv, InHand
<1>5. OneIncidentPerMonitor'
  BY DEF Inv, OneIncidentPerMonitor, Marking, Top
<1>. QED
  BY <1>2, <1>3, <1>4, <1>5

(* The tables do not change.                                               *)
LEMMA SameTables ==
    ASSUME Inv, UNCHANGED <<incident, doubt>>
    PROVE  RowTypes' /\ ChangesIn({})
BY DEF Inv, WorkInv, RowTypes, ChangesIn

(* One task goes to another stage.                                         *)
LEMMA GotoIs ==
    ASSUME Inv, NEW t \in Tasks, NEW s \in Stages, Goto(t, s), s # "work", stage[t] # "work"
    PROVE  /\ stage' \in [Tasks -> Stages] /\ stage'[t] = s
           /\ \A u \in Tasks : u # t => stage'[u] = stage[u]
           /\ \A u \in Tasks : stage'[u] = "work" <=> stage[u] = "work"
BY DEF Inv, WorkInv, TaskTypes, Goto

(* What a monitor is when its incidents and its stage are what they were.  *)
LEMMA IdleMonitors ==
    ASSUME Inv, UNCHANGED <<incident, batch>>, ChangesIn({}),
           NEW m \in Monitors,
           \/ stage'[m] = stage[m]
           \/ stage'[m] \notin {"passed", "closing", "open"} /\ stage[m] # "closing"
    PROVE  MonitorIs(m)'
<1>1. MonitorIs(m)
  BY DEF Inv, MonitorsInv
<1>. QED
  BY <1>1 DEF MonitorIs, ChangesIn

LEMMA TickKeeps == ASSUME Inv, NEW due \in SUBSET Monitors, Tick(due) PROVE Inv'
<1>1. /\ \A m \in Monitors : stage[m] = "idle"
      /\ stage' = [t \in Tasks |-> IF t \in due THEN "check" ELSE stage[t]]
      /\ UNCHANGED <<dbVars, healthy, batch, stack, doubt, breaks, mishaps>>
  BY DEF Tick
<1>2. RowTypes' /\ ChangesIn({})
  BY <1>1, SameTables DEF dbVars
<1>3. stage' \in [Tasks -> Stages]
  BY <1>1 DEF Inv, WorkInv, TaskTypes, Stages
<1>4. \A t \in Tasks : stage'[t] = "work" <=> stage[t] = "work"
  BY <1>1
<1>5. MonitorsInv'
  <2>. SUFFICES ASSUME NEW m \in Monitors PROVE MonitorIs(m)'
    BY DEF MonitorsInv
  <2>1. m \in Tasks /\ stage[m] = "idle" /\ stage'[m] \in {"idle", "check"}
    BY <1>1 DEF Tasks
  <2>. QED
    BY <1>1, <1>2, <2>1, IdleMonitors DEF dbVars
<1>. QED
  BY <1>1, <1>2, <1>3, <1>4, <1>5, OutsideKeeps DEF Inv, RestTypes, dbVars

LEMMA CheckKeeps == ASSUME Inv, NEW m \in Monitors, Check(m) PROVE Inv'
<1>. DEFINE s == IF healthy[m] THEN "passed" ELSE "consult"
<1>0. m \in Tasks
  BY DEF Tasks
<1>1. /\ stage[m] = "check" /\ Goto(m, s) /\ Probe(m)
      /\ UNCHANGED <<dbVars, healthy, batch, stack, breaks, mishaps>>
  BY DEF Check
<1>2. /\ RowTypes' /\ ChangesIn({}) /\ incident' = incident
      /\ \A i \in Ids : doubt'[i] = IF healthy[m] THEN doubt[i] \ {m} ELSE doubt[i]
  BY <1>1, ProbeIs DEF dbVars
<1>3. s \in Stages /\ s # "work"
  BY DEF Stages
<1>. HIDE DEF s
<1>4. /\ stage' \in [Tasks -> Stages] /\ stage'[m] = s
      /\ \A u \in Tasks : u # m => stage'[u] = stage[u]
      /\ \A u \in Tasks : stage'[u] = "work" <=> stage[u] = "work"
  BY <1>0, <1>1, <1>3, GotoIs
<1>5. MonitorsInv'
  <2>. SUFFICES ASSUME NEW u \in Monitors PROVE MonitorIs(u)'
    BY DEF MonitorsInv
  <2>1. CASE u # m
    BY <1>1, <1>2, <1>4, <2>1, IdleMonitors DEF Tasks
  <2>2. CASE u = m
    <3>1. MonitorIs(m)
      BY DEF Inv, MonitorsInv
    <3>2. stage'[m] \in {"passed", "closing"} => \A i \in Ids : m \notin doubt'[i]
      BY <1>2, <1>4 DEF s
    <3>3. stage'[m] # "open" /\ batch'[m] = {} /\ incident' = incident
      BY <1>1, <1>2, <1>4, <3>1 DEF MonitorIs, s
    <3>. QED
      BY <2>2, <3>2, <3>3 DEF MonitorIs
  <2>. QED
    BY <2>1, <2>2
<1>6. RestTypes'
  BY <1>1 DEF Inv, RestTypes, dbVars
<1>. QED
  BY <1>1, <1>2, <1>4, <1>5, <1>6, OutsideKeeps DEF Inv

LEMMA FetchKeeps == ASSUME Inv, NEW m \in Monitors, FetchOpen(m) PROVE Inv'
<1>. DEFINE s == IF OpenOf(m) = {} THEN "idle" ELSE "closing"
<1>0. m \in Tasks
  BY DEF Tasks
<1>1. /\ stage[m] = "passed" /\ Goto(m, s) /\ batch' = [batch EXCEPT ![m] = OpenOf(m)]
      /\ UNCHANGED <<dbVars, healthy, stack, doubt, breaks, mishaps>>
  BY DEF FetchOpen
<1>2. RowTypes' /\ ChangesIn({}) /\ incident' = incident /\ doubt' = doubt
  BY <1>1, SameTables DEF dbVars
<1>3. s \in Stages /\ s # "work"
  BY DEF Stages
<1>. HIDE DEF s
<1>4. /\ stage' \in [Tasks -> Stages] /\ stage'[m] = s
      /\ \A u \in Tasks : u # m => stage'[u] = stage[u]
      /\ \A u \in Tasks : stage'[u] = "work" <=> stage[u] = "work"
  BY <1>0, <1>1, <1>3, GotoIs
<1>5. OpenOf(m) \subseteq Ids /\ \A i \in OpenOf(m) : incident[i].monitor = m
  BY DEF OpenOf
<1>6. /\ batch'[m] = OpenOf(m) /\ \A u \in Monitors : u # m => batch'[u] = batch[u]
      /\ batch' \in [Monitors -> SUBSET Ids]
  BY <1>1, <1>5 DEF Inv, RestTypes
<1>7. MonitorsInv'
  <2>. SUFFICES ASSUME NEW u \in Monitors PROVE MonitorIs(u)'
    BY DEF MonitorsInv
  <2>1. MonitorIs(u) /\ u \in Tasks
    BY DEF Inv, MonitorsInv, Tasks
  <2>2. CASE u # m
    BY <1>2, <1>4, <1>6, <2>1, <2>2 DEF MonitorIs
  <2>3. CASE u = m
    BY <1>1, <1>2, <1>4, <1>5, <1>6, <2>1, <2>3 DEF MonitorIs, s
  <2>. QED
    BY <2>2, <2>3
<1>8. RestTypes'
  BY <1>1, <1>6 DEF Inv, RestTypes, dbVars
<1>. QED
  BY <1>1, <1>2, <1>4, <1>7, <1>8, OutsideKeeps DEF Inv

LEMMA ConsultKeeps == ASSUME Inv, NEW t \in Tasks, Consult(t) PROVE Inv'
<1>. DEFINE s == IF ComponentOf(t) \in window THEN "record"
                 ELSE IF t \in Monitors THEN "dedupe" ELSE "open"
<1>1. /\ stage[t] = "consult" /\ Goto(t, s)
      /\ UNCHANGED <<dbVars, healthy, batch, stack, doubt, breaks, mishaps>>
  BY DEF Consult
<1>2. RowTypes' /\ ChangesIn({}) /\ incident' = incident
  BY <1>1, SameTables DEF dbVars
<1>3. s \in Stages /\ s # "work" /\ (t \in Monitors => s \notin {"passed", "closing", "open"})
  BY DEF Stages
<1>. HIDE DEF s
<1>4. /\ stage' \in [Tasks -> Stages] /\ stage'[t] = s
      /\ \A u \in Tasks : u # t => stage'[u] = stage[u]
      /\ \A u \in Tasks : stage'[u] = "work" <=> stage[u] = "work"
  BY <1>1, <1>3, GotoIs
<1>5. MonitorsInv'
  <2>. SUFFICES ASSUME NEW m \in Monitors PROVE MonitorIs(m)'
    BY DEF MonitorsInv
  <2>1. m \in Tasks
    BY DEF Tasks
  <2>. QED
    BY <1>1, <1>2, <1>3, <1>4, <2>1, IdleMonitors
<1>6. RestTypes'
  BY <1>1 DEF Inv, RestTypes, dbVars
<1>. QED
  BY <1>1, <1>2, <1>4, <1>5, <1>6, OutsideKeeps DEF Inv

LEMMA DedupeKeeps == ASSUME Inv, NEW m \in Monitors, Dedupe(m) PROVE Inv'
<1>. DEFINE s == IF HasOpen(Owner[m], FailureOf[m]) THEN "idle" ELSE "open"
<1>0. m \in Tasks
  BY DEF Tasks
<1>1. /\ stage[m] = "dedupe" /\ Goto(m, s)
      /\ UNCHANGED <<dbVars, healthy, batch, stack, doubt, breaks, mishaps>>
  BY DEF Dedupe
<1>2. RowTypes' /\ ChangesIn({}) /\ incident' = incident
  BY <1>1, SameTables DEF dbVars
<1>3. s \in Stages /\ s # "work"
  BY DEF Stages
<1>4. s = "open" => \A i \in Ids : incident[i].monitor = m => incident[i].status \notin Active
  <2>. SUFFICES ASSUME ~ HasOpen(Owner[m], FailureOf[m]), NEW i \in Ids, incident[i].monitor = m,
                       incident[i].status \in Active
                PROVE  FALSE
    OBVIOUS
  <2>1. RowIs(incident[i], doubt[i]) /\ m # None
    BY RecoveryAssumption DEF Inv, RowsInv
  <2>2. incident[i].component = Owner[m] /\ incident[i].failure = FailureOf[m]
    BY <2>1 DEF RowIs, Active
  <2>. QED
    BY <2>2 DEF HasOpen
<1>. HIDE DEF s
<1>5. /\ stage' \in [Tasks -> Stages] /\ stage'[m] = s
      /\ \A u \in Tasks : u # m => stage'[u] = stage[u]
      /\ \A u \in Tasks : stage'[u] = "work" <=> stage[u] = "work"
  BY <1>0, <1>1, <1>3, GotoIs
<1>6. MonitorsInv'
  <2>. SUFFICES ASSUME NEW u \in Monitors PROVE MonitorIs(u)'
    BY DEF MonitorsInv
  <2>1. CASE u # m
    BY <1>1, <1>2, <1>5, <2>1, IdleMonitors DEF Tasks
  <2>2. CASE u = m
    <3>1. MonitorIs(m)
      BY DEF Inv, MonitorsInv
    <3>2. s \in {"idle", "open"}
      BY DEF s
    <3>. QED
      BY <1>1, <1>2, <1>4, <1>5, <2>2, <3>1, <3>2 DEF MonitorIs
  <2>. QED
    BY <2>1, <2>2
<1>7. RestTypes'
  BY <1>1 DEF Inv, RestTypes, dbVars
<1>. QED
  BY <1>1, <1>2, <1>5, <1>6, <1>7, OutsideKeeps DEF Inv

LEMMA RequestKeeps == ASSUME Inv, NEW r \in Requests, Request(r) PROVE Inv'
<1>0. r \in Tasks /\ r \notin Monitors
  BY RecoveryAssumption DEF Tasks
<1>1. /\ stage[r] = "idle" /\ Goto(r, "consult")
      /\ UNCHANGED <<dbVars, healthy, batch, stack, doubt, breaks, mishaps>>
  BY DEF Request
<1>2. RowTypes' /\ ChangesIn({}) /\ incident' = incident
  BY <1>1, SameTables DEF dbVars
<1>3. "consult" \in Stages
  BY DEF Stages
<1>4. /\ stage' \in [Tasks -> Stages]
      /\ \A u \in Tasks : u # r => stage'[u] = stage[u]
      /\ \A u \in Tasks : stage'[u] = "work" <=> stage[u] = "work"
  BY <1>0, <1>1, <1>3, GotoIs
<1>5. MonitorsInv'
  <2>. SUFFICES ASSUME NEW m \in Monitors PROVE MonitorIs(m)'
    BY DEF MonitorsInv
  <2>1. m \in Tasks /\ m # r
    BY <1>0 DEF Tasks
  <2>. QED
    BY <1>1, <1>2, <1>4, <2>1, IdleMonitors
<1>6. RestTypes'
  BY <1>1 DEF Inv, RestTypes, dbVars
<1>. QED
  BY <1>1, <1>2, <1>4, <1>5, <1>6, OutsideKeeps DEF Inv

(* A monitor closes an incident of its own, which nobody works on and      *)
(* which waits for no other monitor.                                       *)
LEMMA CloseKeeps == ASSUME Inv, NEW m \in Monitors, CloseOne(m) PROVE Inv'
<1>0. m \in Tasks /\ m # None /\ MonitorIs(m)
  BY RecoveryAssumption DEF Tasks, Inv, MonitorsInv
<1>1. PICK i \in batch[m] :
        /\ SetStatus(i, "resolved")
        /\ batch' = [batch EXCEPT ![m] = @ \ {i}]
        /\ Goto(m, IF batch[m] = {i} THEN "idle" ELSE "closing")
  BY DEF CloseOne
<1>2. stage[m] = "closing" /\ UNCHANGED <<window, healthy, stack, doubt, breaks, mishaps>>
  BY DEF CloseOne
<1>3. /\ i \in Ids /\ incident[i].monitor = m /\ m \notin doubt[i]
      /\ \A j \in Ids : incident[j].monitor = m => m \notin doubt[j]
  BY <1>0, <1>1, <1>2 DEF MonitorIs
<1>4. incident[i].status # "unused" /\ doubt[i] = {}
  <2>1. RowIs(incident[i], doubt[i])
    BY <1>3 DEF Inv, RowsInv
  <2>2. incident[i].status # "unused"
    BY <1>0, <1>3, <2>1 DEF RowIs, Unused
  <2>. QED
    BY <1>0, <1>3, <2>1, <2>2 DEF RowIs, Verifiers
<1>5. /\ RowTypes' /\ ChangesIn({i}) /\ RowIs(incident'[i], doubt'[i])
      /\ incident'[i].status = "resolved" /\ incident'[i].monitor = incident[i].monitor
  BY <1>1, <1>2, <1>3, <1>4, StatusIs
<1>6. /\ stage' \in [Tasks -> Stages]
      /\ stage'[m] = IF batch[m] = {i} THEN "idle" ELSE "closing"
      /\ \A u \in Tasks : u # m => stage'[u] = stage[u]
      /\ \A u \in Tasks : stage'[u] = "work" <=> stage[u] = "work"
  BY <1>0, <1>1, <1>2 DEF Inv, WorkInv, TaskTypes, Goto, Stages
<1>7. /\ batch' \in [Monitors -> SUBSET Ids] /\ batch'[m] = batch[m] \ {i}
      /\ \A u \in Monitors : u # m => batch'[u] = batch[u]
  BY <1>1 DEF Inv, RestTypes
<1>8. WorkInv'
  <2>1. \A t \in Tasks : \A k \in 1..Len(stack[t]) : stack[t][k].id # i
    <3>. SUFFICES ASSUME NEW t \in Tasks, NEW k \in 1..Len(stack[t]), stack[t][k].id = i
                  PROVE  FALSE
      OBVIOUS
    <3>1. FrameIs(t, stack[t][k], incident, doubt)
      BY DEF Inv, WorkInv, StackIs
    <3>2. t = m
      BY <1>0, <1>3, <3>1 DEF FrameIs
    <3>3. stack[m] = <<>>
      BY <1>0, <1>2 DEF Inv, WorkInv, StackIs
    <3>. QED
      BY <3>2, <3>3
  <2>2. stack' \in [Tasks -> Seq(Frames)]
    BY <1>2 DEF Inv, WorkInv, TaskTypes
  <2>. QED
    BY <1>2, <1>5, <1>6, <2>1, <2>2, OthersKeep DEF Inv
<1>9. RowsInv'
  BY <1>5, RowsStay DEF Inv
<1>10. MonitorsInv'
  <2>. SUFFICES ASSUME NEW u \in Monitors PROVE MonitorIs(u)'
    BY DEF MonitorsInv
  <2>1. MonitorIs(u) /\ u \in Tasks
    BY DEF Inv, MonitorsInv, Tasks
  <2>2. \A j \in Ids : incident'[j].monitor = incident[j].monitor
    BY <1>5 DEF ChangesIn
  <2>3. CASE u = m
    <3>1. stage'[m] # "open" /\ (batch'[m] # {} => stage'[m] = "closing")
      BY <1>6, <1>7
    <3>. QED
      BY <1>2, <1>3, <1>7, <2>1, <2>2, <2>3, <3>1 DEF MonitorIs
  <2>4. CASE u # m
    <3>1. \A j \in Ids : incident'[j].monitor = u => incident'[j] = incident[j]
      BY <1>3, <1>5, <2>4 DEF ChangesIn
    <3>. QED
      BY <1>2, <1>6, <1>7, <2>1, <2>2, <2>4, <3>1 DEF MonitorIs
  <2>. QED
    BY <2>3, <2>4
<1>11. HeldInv'
  BY <1>2, <1>5 DEF Inv, HeldInv, InHand, ChangesIn
<1>12. OneIncidentPerMonitor'
  <2>1. \A j \in Ids : Marking(j)' <=> Marking(j)
    BY <1>2 DEF Marking, Top
  <2>. QED
    BY <1>2, <1>5, <2>1, OneStays DEF Inv, ChangesIn, Active
<1>13. RestTypes'
  BY <1>2, <1>7 DEF Inv, RestTypes
<1>. QED
  BY <1>8, <1>9, <1>10, <1>11, <1>12, <1>13 DEF Inv

(* Windows, breakdowns and repairs do not touch the work.                  *)
LEMMA WorldKeeps ==
    ASSUME Inv, UNCHANGED <<incident, taskVars, doubt, mishaps>>, RestTypes'
    PROVE  Inv'
<1>1. UNCHANGED <<stage, batch, stack>>
  BY DEF taskVars
<1>2. RowTypes' /\ ChangesIn({})
  BY SameTables
<1>3. stage' \in [Tasks -> Stages]
  BY <1>1 DEF Inv, WorkInv, TaskTypes
<1>4. MonitorsInv'
  BY <1>1, <1>2, IdleMonitors DEF MonitorsInv
<1>. QED
  BY <1>1, <1>2, <1>3, <1>4, OutsideKeeps DEF Inv

LEMMA EnvironmentKeeps ==
    ASSUME Inv,
           \/ \E m \in Monitors : Heal(m)
           \/ \E broken \in SUBSET Monitors : Break(broken)
           \/ \E c \in Components : CreateMaintenance(c) \/ CloseMaintenance(c)
    PROVE  Inv'
<1>1. ASSUME NEW m \in Monitors, Heal(m) PROVE Inv'
  <2>1. UNCHANGED <<incident, taskVars, doubt, mishaps>>
    BY <1>1 DEF Heal, dbVars
  <2>2. RestTypes'
    BY <1>1 DEF Inv, RestTypes, Heal, dbVars, taskVars
  <2>. QED
    BY <2>1, <2>2, WorldKeeps
<1>2. ASSUME NEW broken \in SUBSET Monitors, Break(broken) PROVE Inv'
  <2>1. UNCHANGED <<incident, window, taskVars, batch, doubt, mishaps>>
    BY <1>2 DEF Break, dbVars, taskVars
  <2>2. breaks' \in 0..MaxBreaks
    BY <1>2, RecoveryAssumption DEF Inv, RestTypes, Break
  <2>3. healthy' \in [Monitors -> BOOLEAN]
    <3>1. \A m \in Monitors : (healthy[m] /\ m \notin broken) \in BOOLEAN
      OBVIOUS
    <3>2. healthy' = [m \in Monitors |-> healthy[m] /\ m \notin broken]
      BY <1>2 DEF Break
    <3>. QED
      BY <3>1, <3>2, Zenon
  <2>4. RestTypes'
    BY <2>1, <2>2, <2>3 DEF Inv, RestTypes
  <2>. QED
    BY <2>1, <2>4, WorldKeeps
<1>3. ASSUME NEW c \in Components, CreateMaintenance(c) PROVE Inv'
  <2>1. UNCHANGED <<incident, taskVars, doubt, mishaps>>
    BY <1>3 DEF CreateMaintenance
  <2>2. RestTypes'
    BY <1>3 DEF Inv, RestTypes, CreateMaintenance, taskVars
  <2>. QED
    BY <2>1, <2>2, WorldKeeps
<1>4. ASSUME NEW c \in Components, CloseMaintenance(c) PROVE Inv'
  <2>1. UNCHANGED <<incident, taskVars, doubt, mishaps>>
    BY <1>4 DEF CloseMaintenance
  <2>2. RestTypes'
    BY <1>4 DEF Inv, RestTypes, CloseMaintenance, taskVars
  <2>. QED
    BY <2>1, <2>2, WorldKeeps
<1>. QED
  BY <1>1, <1>2, <1>3, <1>4

(* What a mishap cuts off is in nobody's hands, and the rest stays.        *)
LEMMA MishapKeeps ==
    ASSUME Inv, Mishap, UNCHANGED <<dbVars, healthy, doubt, breaks>>,
           stage' \in [Tasks -> Stages], stack' \in [Tasks -> Seq(Frames)],
           batch' \in [Monitors -> SUBSET Ids],
           \A t \in Tasks :
               \/ stage'[t] = stage[t] /\ stack'[t] = stack[t]
               \/ stage'[t] \in {"idle", "done"} /\ stack'[t] = <<>>,
           \A m \in Monitors :
               \/ stage'[m] = stage[m] /\ batch'[m] = batch[m]
               \/ stage'[m] \in {"idle", "done"} /\ batch'[m] = {}
    PROVE  Inv'
<1>1. RowTypes' /\ ChangesIn({}) /\ incident' = incident /\ doubt' = doubt
  BY SameTables DEF dbVars
<1>2. mishaps' \in 0..MaxMishaps /\ mishaps' # 0
  BY RecoveryAssumption DEF Mishap, Inv, RestTypes
<1>3. WorkInv'
  BY <1>1, OthersKeep DEF Inv
<1>4. RowsInv'
  BY <1>1, RowsStay DEF Inv
<1>5. MonitorsInv'
  <2>. SUFFICES ASSUME NEW m \in Monitors PROVE MonitorIs(m)'
    BY DEF MonitorsInv
  <2>1. MonitorIs(m)
    BY DEF Inv, MonitorsInv
  <2>. QED
    BY <1>1, <2>1 DEF MonitorIs
<1>6. HeldInv' /\ OneIncidentPerMonitor'
  BY <1>2 DEF HeldInv, OneIncidentPerMonitor
<1>7. RestTypes'
  BY <1>2 DEF Inv, RestTypes, dbVars
<1>. QED
  BY <1>3, <1>4, <1>5, <1>6, <1>7 DEF Inv

LEMMA FaultKeeps == ASSUME Inv, NEW t \in Tasks, Fault(t) PROVE Inv'
<1>1. /\ Mishap /\ UNCHANGED <<dbVars, healthy, doubt, breaks>>
      /\ stage' = [stage EXCEPT ![t] = Rest(t)] /\ Rest(t) \in {"idle", "done"}
      /\ stack' = [stack EXCEPT ![t] = <<>>]
      /\ batch' = [m \in Monitors |-> IF m = t THEN {} ELSE batch[m]]
  BY DEF Fault, Goto, Rest
<1>2. stage \in [Tasks -> Stages] /\ stack \in [Tasks -> Seq(Frames)] /\ <<>> \in Seq(Frames)
  BY DEF Inv, WorkInv, TaskTypes
<1>3. stage' \in [Tasks -> Stages] /\ stack' \in [Tasks -> Seq(Frames)]
  BY <1>1, <1>2 DEF Stages
<1>4. batch' \in [Monitors -> SUBSET Ids]
  BY <1>1 DEF Inv, RestTypes
<1>5. \A u \in Tasks : \/ u # t /\ stage'[u] = stage[u] /\ stack'[u] = stack[u]
                       \/ u = t /\ stage'[u] \in {"idle", "done"} /\ stack'[u] = <<>>
  BY <1>1, <1>2
<1>6. \A m \in Monitors : \/ stage'[m] = stage[m] /\ batch'[m] = batch[m]
                          \/ stage'[m] \in {"idle", "done"} /\ batch'[m] = {}
  BY <1>1, <1>5 DEF Tasks
<1>. QED
  BY <1>1, <1>3, <1>4, <1>5, <1>6, MishapKeeps

LEMMA CrashKeeps == ASSUME Inv, Crash PROVE Inv'
<1>1. /\ Mishap /\ UNCHANGED <<dbVars, healthy, doubt, breaks>>
      /\ stage' = [t \in Tasks |-> IF stage[t] = "idle" THEN "idle" ELSE Rest(t)]
      /\ \A t \in Tasks : Rest(t) \in {"idle", "done"}
      /\ stack' = [t \in Tasks |-> <<>>]
      /\ batch' = [m \in Monitors |-> {}]
  BY DEF Crash, Rest
<1>2. stage' \in [Tasks -> Stages]
  BY <1>1 DEF Stages
<1>3. stack' \in [Tasks -> Seq(Frames)] /\ batch' \in [Monitors -> SUBSET Ids]
  BY <1>1
<1>4. \A t \in Tasks : stage'[t] \in {"idle", "done"} /\ stack'[t] = <<>>
  BY <1>1
<1>5. \A m \in Monitors : stage'[m] \in {"idle", "done"} /\ batch'[m] = {}
  BY <1>1, <1>4 DEF Tasks
<1>. QED
  BY <1>1, <1>2, <1>3, <1>4, <1>5, MishapKeeps

-----------------------------------------------------------------------------
LEMMA InitHolds == ASSUME Init PROVE Inv
<1>1. Unused \in Rows /\ Unused.status = "unused" /\ Unused.monitor = None
  BY DEF Unused, Rows, Statuses, Failures
<1>2. RowTypes
  BY <1>1 DEF Init, RowTypes
<1>3. TaskTypes
  BY DEF Init, TaskTypes, Stages
<1>4. \A t \in Tasks : stack[t] = <<>> /\ stage[t] = "idle"
  BY DEF Init
<1>5. NoSharing /\ \A t \in Tasks : StackIs(t)
  BY <1>4 DEF NoSharing, StackIs
<1>6. \A i \in Ids : incident[i] = Unused /\ doubt[i] = {}
  BY DEF Init
<1>7. RowsInv
  BY <1>1, <1>6 DEF RowsInv, RowIs
<1>8. MonitorsInv
  <2>1. \A m \in Monitors : stage[m] = "idle" /\ batch[m] = {}
    BY <1>4 DEF Init, Tasks
  <2>. QED
    BY <2>1 DEF MonitorsInv, MonitorIs
<1>9. HeldInv /\ OneIncidentPerMonitor
  BY <1>1, <1>6 DEF HeldInv, OneIncidentPerMonitor, Active
<1>10. RestTypes
  BY RecoveryAssumption DEF Init, RestTypes
<1>. QED
  BY <1>2, <1>3, <1>5, <1>7, <1>8, <1>9, <1>10 DEF Inv, WorkInv

LEMMA NextKeeps == ASSUME Inv, [Next]_vars PROVE Inv'
<1>1. ASSUME NEW due \in SUBSET Monitors, Tick(due) PROVE Inv'
  BY <1>1, TickKeeps
<1>2. ASSUME NEW m \in Monitors, MonitorStep(m) PROVE Inv'
  BY <1>2, CheckKeeps, FetchKeeps, CloseKeeps, DedupeKeeps DEF MonitorStep
<1>3. ASSUME NEW t \in Tasks, TaskStep(t) PROVE Inv'
  BY <1>3, ConsultKeeps, OpenKeeps, MarkKeeps, BeginKeeps, VerifyKeeps, ResolveKeeps,
     FailKeeps, CascadeKeeps, SpawnStepKeeps, AttemptKeeps DEF TaskStep, Close
<1>4. ASSUME NEW t \in Tasks, Fault(t) PROVE Inv'
  BY <1>4, FaultKeeps
<1>5. ASSUME NEW r \in Requests, Request(r) PROVE Inv'
  BY <1>5, RequestKeeps
<1>6. CASE UNCHANGED vars
  BY <1>6, WorldKeeps DEF vars, dbVars, taskVars, Inv, RestTypes
<1>. QED
  BY <1>1, <1>2, <1>3, <1>4, <1>5, <1>6, EnvironmentKeeps, CrashKeeps DEF Next

LEMMA InvHolds == Spec => []Inv
<1>1. Init => Inv
  BY InitHolds
<1>2. Inv /\ [Next]_vars => Inv'
  BY NextKeeps
<1>. QED
  BY <1>1, <1>2, PTL DEF Spec

-----------------------------------------------------------------------------
(* Types; while nothing has raised, an incident that is open or recovering *)
(* is in the hands of exactly one recovery of exactly one task, and no     *)
(* monitor has two: however many monitors, operators and dependents race.  *)
THEOREM IncidentsStayHeld == Spec => []IncidentsAreHeld
<1>1. Inv => IncidentsAreHeld
  <2>. SUFFICES ASSUME Inv PROVE IncidentsAreHeld
    OBVIOUS
  <2>1. TypeOK
    BY DEF Inv, WorkInv, TaskTypes, RowTypes, RestTypes, Rows, Frames, Places, Stages, TypeOK
  <2>2. WorkIsHeld
    <3>. SUFFICES ASSUME NEW i \in Ids, incident[i].status \in {"open", "recovering"}, mishaps = 0
                  PROVE  \E t \in Tasks : \E k \in DOMAIN stack[t] :
                            /\ stack[t][k].id = i /\ stack[t][k].at # "cascade"
                            /\ \A u \in Tasks : \A j \in DOMAIN stack[u] :
                                  stack[u][j].id = i => u = t /\ j = k
      BY DEF WorkIsHeld
    <3>1. \A t \in Tasks : stack[t] \in Seq(Frames) /\ DOMAIN stack[t] = 1..Len(stack[t])
      BY DEF Inv, WorkInv, TaskTypes
    <3>2. PICK t \in Tasks : \E k \in 1..Len(stack[t]) : stack[t][k].id = i
      BY DEF Inv, HeldInv, InHand
    <3>3. PICK k \in 1..Len(stack[t]) : stack[t][k].id = i
      BY <3>2
    <3>4. FrameIs(t, stack[t][k], incident, doubt)
      BY DEF Inv, WorkInv, StackIs
    <3>5. stack[t][k].at # "cascade"
      BY <3>3, <3>4 DEF FrameIs, Waiting
    <3>6. \A u \in Tasks : \A j \in 1..Len(stack[u]) : stack[u][j].id = i => u = t /\ j = k
      BY <3>3 DEF Inv, WorkInv, NoSharing
    <3>. QED
      BY <3>1, <3>3, <3>5, <3>6
  <2>. QED
    BY <2>1, <2>2 DEF IncidentsAreHeld, Inv
<1>. QED
  BY <1>1, InvHolds, PTL

(* An incident of a verified component is resolved only when all monitors  *)
(* it depends on have passed since it was opened, after any mishap too.    *)
THEOREM ResolvedWereHealthy == Spec => []ResolvedWasSeenHealthy
<1>1. Inv => ResolvedWasSeenHealthy
  BY DEF Inv, RowsInv, RowIs, ResolvedWasSeenHealthy
<1>. QED
  BY <1>1, InvHolds, PTL
=============================================================================
