------------------------------ MODULE SourceProofs ------------------------------
(***************************************************************************)
(* What holds of the programs that post events to Hermes, the connector,   *)
(* the LAN script and the exporter, and of what reads them, the watchdog   *)
(* and the storm detector, for every fleet, every number of devices and    *)
(* services, every interval, cooldown and threshold.                       *)
(***************************************************************************)
EXTENDS FleetWatchdog, HermesStorm, PulseExporter, TLAPS, FiniteSetTheorems, SequenceTheorems

-----------------------------------------------------------------------------
(* The connector and the watchdog.                                         *)

(* The types of what TypeOK leaves open: the events, and what is kept of   *)
(* the actions.                                                            *)
Tables == UNION {[S -> States] : S \in SUBSET Containers}

Events == [by : Threads \cup {"phoenix"}, about : Containers,
           word : Words \cup {"recovery_escalated"},
           severity : {"info", "warning", "error"},
           state : {"stamped", "stored", "lost"}]

ConnectorTypes ==
    /\ actual \in [Containers -> States \cup {"absent"}]
    /\ baseline \in [Threads -> Tables]
    /\ disk \in [Threads -> Tables]
    /\ found \in [Threads -> Tables]
    /\ cool \in [Keys -> 0 .. FlapCooldown]
    /\ sweep \in [Threads -> SUBSET Containers]
    /\ mode \in [Threads -> {"resting", "sweeping", "dead"}]
    /\ rest \in [Threads -> 0 .. EndpointEvery + 1]
    /\ post \in [Threads -> Nat]
    /\ log \in Seq(Events)
    /\ \A e \in DOMAIN log : log[e].by \in Threads => log[e].word \in Words
    /\ said \in [Threads -> [Containers -> Words \cup {"nothing"}]]

LEMMA TableIs ==
    ASSUME NEW S \in SUBSET Containers, NEW f, f = [x \in S |-> f[x]],
           \A x \in S : f[x] \in States
    PROVE  f \in Tables
<1>1. f \in [S -> States]
  OBVIOUS
<1>. QED
  BY <1>1 DEF Tables

LEMMA TableHas ==
    ASSUME NEW f \in Tables
    PROVE  /\ DOMAIN f \subseteq Containers /\ f = [x \in DOMAIN f |-> f[x]]
           /\ \A x \in DOMAIN f : f[x] \in States
BY DEF Tables

LEMMA NowhereIs == Nowhere \in Tables /\ DOMAIN Nowhere = {}
<1>1. Nowhere = [x \in {} |-> Nowhere[x]] /\ DOMAIN Nowhere = {}
  BY DEF Nowhere
<1>. HIDE DEF Nowhere
<1>. QED
  BY <1>1, TableIs

(* What sweep t has found, with what it finds of c.                        *)
LEMMA FindsIs ==
    ASSUME ConnectorTypes, NEW t \in Threads, NEW c \in Containers
    PROVE  /\ Finds(t, c) \in Tables
           /\ DOMAIN found[t] \subseteq DOMAIN Finds(t, c)
           /\ DOMAIN Finds(t, c) \subseteq DOMAIN found[t] \cup {c}
           /\ t = "fleet" => Finds(t, c) = found[t]
           /\ t = "endpoints" => c \in DOMAIN Finds(t, c)
           /\ \A d \in DOMAIN found[t] : d # c => Finds(t, c)[d] = found[t][d]
<1>. DEFINE f == With(found[t], c, Probed(c))
            S == DOMAIN found[t] \cup {c}
<1>1. /\ found[t] \in Tables /\ DOMAIN found[t] \subseteq Containers
      /\ \A x \in DOMAIN found[t] : found[t][x] \in States
  BY TableHas DEF ConnectorTypes
<1>2. CASE t = "fleet"
  BY <1>1, <1>2 DEF Finds
<1>3. CASE t = "endpoints"
  <2>1. Probed(c) \in States
    BY DEF Probed, States
  <2>2. f = [x \in S |-> f[x]] /\ DOMAIN f = S /\ S \in SUBSET Containers
    BY <1>1 DEF With
  <2>3. f[c] \in States /\ \A d \in DOMAIN found[t] : d # c => f[d] = found[t][d]
    BY <2>1 DEF With
  <2>4. Finds(t, c) = f
    BY <1>3 DEF Finds
  <2>. HIDE DEF f, S
  <2>5. \A x \in S : f[x] \in States
    BY <1>1, <2>3 DEF S
  <2>6. f \in Tables
    BY <2>2, <2>5, TableIs
  <2>. QED
    BY <1>3, <2>2, <2>3, <2>4, <2>6 DEF S
<1>. QED
  BY <1>2, <1>3 DEF Threads

(* What a sweep has to say is a word, or nothing.                          *)
LEMMA ToSayIs ==
    ASSUME ConnectorTypes, NEW t \in Threads, NEW c \in Containers
    PROVE  /\ ToSay(t, c) \in Words \cup {"none"}
           /\ ToSay(t, c) # "none" => Event(t, c) \in Events
<1>1. /\ \A x \in DOMAIN Finds(t, c) : Finds(t, c)[x] \in States
      /\ \A x \in DOMAIN baseline[t] : baseline[t][x] \in States
  BY FindsIs, TableHas DEF ConnectorTypes
<1>2. ToSay(t, c) \in Words \cup {"none"}
  BY <1>1 DEF ToSay, Word, Words
<1>3. Severity(ToSay(t, c)) \in {"info", "warning", "error"}
  BY DEF Severity
<1>. QED
  BY <1>2, <1>3 DEF Event, Events

-----------------------------------------------------------------------------
(* What Hermes knows of the objects of a thread.                           *)

KnownIn(table, c) == IF c \in DOMAIN table THEN {table[c]} ELSE {"down", "disappeared"}

(* A thread only has something found, to compare or to post in a sweep,    *)
(* and the endpoints are those that are probed.                            *)
SweepsAreWhole(t) ==
    /\ mode[t] # "sweeping" => sweep[t] = {} /\ found[t] = Nowhere
    /\ t = "fleet" => sweep[t] \subseteq DOMAIN found[t] \cup DOMAIN baseline[t]
    /\ t = "endpoints" =>
          /\ sweep[t] \subseteq Serving
          /\ \A table \in {baseline[t], disk[t], found[t]} : DOMAIN table \subseteq Serving

(* The event of which a thread waits for the answer says how the sweep     *)
(* found the object.                                                       *)
PostSaysFound(t) ==
    post[t] # 0 =>
        /\ mode[t] = "sweeping"
        /\ post[t] \in DOMAIN log
        /\ log[post[t]].by = t /\ log[post[t]].state = "stamped"
        /\ log[post[t]].about \notin sweep[t]
        /\ log[post[t]].word \in KnownIn(found[t], log[post[t]].about)

(* The objects that a sweep has compared Hermes knows as the sweep found   *)
(* them, unless the event is on its way, and all others as they are in the *)
(* baseline.                                                               *)
Current(t, c) == IF mode[t] = "sweeping" /\ c \notin sweep[t] THEN found[t] ELSE baseline[t]

Heard(t) ==
    \A c \in Containers :
        \/ <<t, c>> \in excused
        \/ post[t] # 0 /\ log[post[t]].about = c
        \/ said[t][c] = "nothing"
        \/ said[t][c] \in KnownIn(Current(t, c), c)

Aware(t) == SweepsAreWhole(t) /\ PostSaysFound(t) /\ Heard(t)

FleetInv == ConnectorTypes /\ \A t \in Threads : Aware(t)

(* A thread that does not step stays aware, whatever the others do.        *)
LEMMA ThreadStays ==
    ASSUME NEW t \in Threads, Aware(t),
           baseline'[t] = baseline[t], disk'[t] \in {disk[t], baseline[t]},
           found'[t] = found[t],
           sweep'[t] = sweep[t], mode'[t] = mode[t], post'[t] = post[t],
           said'[t] = said[t],
           post[t] # 0 => post[t] \in DOMAIN log' /\ log'[post[t]] = log[post[t]],
           \A c \in Containers : <<t, c>> \in excused => <<t, c>> \in excused'
    PROVE  Aware(t)'
<1>1. SweepsAreWhole(t)'
  BY DEF Aware, SweepsAreWhole
<1>2. PostSaysFound(t)'
  BY DEF Aware, PostSaysFound, KnownIn
<1>3. Heard(t)'
  BY DEF Aware, Heard, Current, KnownIn
<1>. QED
  BY <1>1, <1>2, <1>3 DEF Aware

LEMMA StartKeeps == ASSUME FleetInv, NEW t \in Threads, StartSweep(t) PROVE FleetInv'
<1>1. Listed \in SUBSET Containers /\ \A c \in Listed : actual[c] \in States
  BY DEF Listed, FleetInv, ConnectorTypes
<1>2. [c \in Listed |-> actual[c]] \in Tables
  BY <1>1, TableIs
<1>3. DOMAIN baseline[t] \subseteq Containers
  BY TableHas DEF FleetInv, ConnectorTypes
<1>4. Interval(t) \in 0 .. EndpointEvery + 1
  BY ConnectorAssumption DEF Interval
<1>5. ConnectorTypes'
  <2>1. found' \in [Threads -> Tables]
    BY <1>2 DEF StartSweep, FleetInv, ConnectorTypes
  <2>2. sweep' \in [Threads -> SUBSET Containers]
    BY <1>1, <1>3, ConnectorAssumption DEF StartSweep, FleetInv, ConnectorTypes
  <2>3. /\ mode' \in [Threads -> {"resting", "sweeping", "dead"}]
        /\ rest' \in [Threads -> 0 .. EndpointEvery + 1]
    BY <1>4, ZenonT(30) DEF StartSweep, FleetInv, ConnectorTypes
  <2>4. UNCHANGED <<actual, baseline, disk, cool, post, log, said>>
    BY DEF StartSweep
  <2>. QED
    BY <2>1, <2>2, <2>3, <2>4 DEF FleetInv, ConnectorTypes
<1>6. ASSUME NEW u \in Threads, u # t PROVE Aware(u)'
  <2>1. /\ found'[u] = found[u] /\ sweep'[u] = sweep[u] /\ mode'[u] = mode[u]
        /\ UNCHANGED <<baseline, disk, post, log, said, excused>>
    BY <1>6 DEF StartSweep, FleetInv, ConnectorTypes
  <2>2. post[u] # 0 => post[u] \in DOMAIN log
    BY DEF FleetInv, Aware, PostSaysFound
  <2>. QED
    BY <2>1, <2>2, ThreadStays DEF FleetInv
<1>7. Aware(t)'
  <2>1. /\ mode[t] = "resting" /\ sweep[t] = {} /\ found[t] = Nowhere /\ post[t] = 0
        /\ UNCHANGED <<baseline, disk, post, log, said, excused>>
    BY DEF StartSweep, FleetInv, Aware, SweepsAreWhole, PostSaysFound
  <2>2. CASE /\ t = "fleet"
             /\ found' = [found EXCEPT ![t] = [c \in Listed |-> actual[c]]]
             /\ sweep' = [sweep EXCEPT ![t] = Listed \cup DOMAIN baseline[t]]
             /\ mode' = [mode EXCEPT ![t] = "sweeping"]
    <3>1. /\ mode'[t] = "sweeping" /\ sweep'[t] = Listed \cup DOMAIN baseline[t]
          /\ DOMAIN found'[t] = Listed
      BY <2>2 DEF FleetInv, ConnectorTypes
    <3>2. SweepsAreWhole(t)' /\ PostSaysFound(t)'
      BY <2>1, <2>2, <3>1 DEF SweepsAreWhole, PostSaysFound
    <3>3. ASSUME NEW c \in Containers
          PROVE  KnownIn(Current(t, c), c)' = KnownIn(Current(t, c), c)
      BY <2>1, <3>1 DEF KnownIn, Current
    <3>4. Heard(t)'
      BY <2>1, <3>3 DEF FleetInv, Aware, Heard
    <3>. QED
      BY <3>2, <3>4 DEF Aware
  <2>3. CASE /\ t = "endpoints"
             /\ sweep' = [sweep EXCEPT ![t] = Serving]
             /\ mode' = [mode EXCEPT ![t] = "sweeping"]
             /\ found' = found
    <3>1. mode'[t] = "sweeping" /\ sweep'[t] = Serving /\ DOMAIN found'[t] = {}
      BY <2>1, <2>3, NowhereIs DEF FleetInv, ConnectorTypes
    <3>2. SweepsAreWhole(t)' /\ PostSaysFound(t)'
      BY <2>1, <2>3, <3>1 DEF FleetInv, Aware, SweepsAreWhole, PostSaysFound
    <3>3. ASSUME NEW c \in Containers
          PROVE  KnownIn(Current(t, c), c)' = KnownIn(Current(t, c), c)
      BY <2>1, <2>3, <3>1 DEF FleetInv, Aware, SweepsAreWhole, KnownIn, Current
    <3>4. Heard(t)'
      BY <2>1, <3>3 DEF FleetInv, Aware, Heard
    <3>. QED
      BY <3>2, <3>4 DEF Aware
  <2>4. CASE UNCHANGED <<found, sweep, mode>>
    BY <2>1, <2>4, ThreadStays DEF FleetInv, Aware
  <2>. QED
    BY <2>2, <2>3, <2>4 DEF StartSweep
<1>. QED
  BY <1>5, <1>6, <1>7 DEF FleetInv

(* To compare c leaves what Hermes knows of the other objects.             *)
LEMMA ComparedKeeps ==
    ASSUME FleetInv, NEW t \in Threads, NEW c \in Containers, InTurn(t, c), Compared(t, c),
           UNCHANGED <<actual, baseline, disk, mode, rest, said>>
    PROVE  /\ found' \in [Threads -> Tables] /\ sweep' \in [Threads -> SUBSET Containers]
           /\ mode[t] = "sweeping" /\ post[t] = 0
           /\ found'[t] = Finds(t, c) /\ c \notin sweep'[t]
           /\ SweepsAreWhole(t)'
           /\ \A d \in Containers \ {c} : KnownIn(Current(t, d), d)' = KnownIn(Current(t, d), d)
           /\ KnownIn(Current(t, c), c) = KnownIn(baseline[t], c)
           /\ KnownIn(Current(t, c), c)' = KnownIn(Finds(t, c), c)
           /\ c \in DOMAIN Finds(t, c) \cup DOMAIN baseline[t]
           /\ \A u \in Threads : u # t => /\ found'[u] = found[u] /\ sweep'[u] = sweep[u]
                                          /\ post[u] # 0 => post[u] \in DOMAIN log
<1>1. mode[t] = "sweeping" /\ post[t] = 0 /\ c \in sweep[t]
  BY DEF InTurn, FleetInv, Aware, SweepsAreWhole
<1>2. /\ Finds(t, c) \in Tables
      /\ DOMAIN found[t] \subseteq DOMAIN Finds(t, c)
      /\ DOMAIN Finds(t, c) \subseteq DOMAIN found[t] \cup {c}
      /\ t = "fleet" => Finds(t, c) = found[t]
      /\ t = "endpoints" => c \in DOMAIN Finds(t, c)
      /\ \A d \in DOMAIN found[t] : d # c => Finds(t, c)[d] = found[t][d]
  BY FindsIs DEF FleetInv
<1>3. /\ found' = [found EXCEPT ![t] = Finds(t, c)]
      /\ sweep' = [sweep EXCEPT ![t] = sweep[t] \ {c}]
  BY DEF Compared
<1>4. found'[t] = Finds(t, c) /\ sweep'[t] = sweep[t] \ {c}
  BY <1>3 DEF FleetInv, ConnectorTypes
<1>5. found' \in [Threads -> Tables] /\ sweep' \in [Threads -> SUBSET Containers]
  BY <1>2, <1>3 DEF FleetInv, ConnectorTypes
<1>6. SweepsAreWhole(t)'
  <2>1. SweepsAreWhole(t) /\ UNCHANGED <<baseline, disk, mode>>
    BY DEF FleetInv, Aware
  <2>. QED
    BY <1>1, <1>2, <1>4, <2>1 DEF SweepsAreWhole
<1>7. ASSUME NEW d \in Containers \ {c}
      PROVE  KnownIn(Current(t, d), d)' = KnownIn(Current(t, d), d)
  BY <1>1, <1>2, <1>4 DEF KnownIn, Current
<1>8. /\ KnownIn(Current(t, c), c) = KnownIn(baseline[t], c)
      /\ KnownIn(Current(t, c), c)' = KnownIn(Finds(t, c), c)
  BY <1>1, <1>4 DEF KnownIn, Current
<1>9. c \in DOMAIN Finds(t, c) \cup DOMAIN baseline[t]
  BY <1>1, <1>2 DEF FleetInv, Aware, SweepsAreWhole, Threads
<1>10. ASSUME NEW u \in Threads, u # t
       PROVE  /\ found'[u] = found[u] /\ sweep'[u] = sweep[u]
              /\ post[u] # 0 => post[u] \in DOMAIN log
  BY <1>3, <1>10 DEF FleetInv, ConnectorTypes, Aware, PostSaysFound
<1>. QED
  BY <1>1, <1>4, <1>5, <1>6, <1>7, <1>8, <1>9, <1>10

(* What Hermes has heard of an object of which there is nothing to say.    *)
LEMMA NothingToSay ==
    ASSUME FleetInv, NEW t \in Threads, NEW c \in Containers, ToSay(t, c) = "none",
           c \in DOMAIN Finds(t, c) \cup DOMAIN baseline[t],
           said[t][c] = "nothing" \/ said[t][c] \in KnownIn(baseline[t], c)
    PROVE  \/ Missed(t, c)
           \/ said[t][c] = "nothing"
           \/ said[t][c] \in KnownIn(Finds(t, c), c)
<1>1. \A x \in DOMAIN Finds(t, c) : Finds(t, c)[x] # "none"
  <2>1. \A x \in DOMAIN Finds(t, c) : Finds(t, c)[x] \in States
    BY FindsIs, TableHas DEF FleetInv
  <2>. QED
    BY <2>1 DEF States
<1>2. CASE c \notin DOMAIN baseline[t]
  BY <1>2 DEF Missed, KnownIn
<1>3. CASE c \in DOMAIN baseline[t] /\ c \in DOMAIN Finds(t, c)
  <2>1. Finds(t, c)[c] = baseline[t][c]
    BY <1>1, <1>3 DEF ToSay, Word
  <2>. QED
    BY <1>3, <2>1 DEF KnownIn
<1>4. CASE c \in DOMAIN baseline[t] /\ c \notin DOMAIN Finds(t, c)
  <2>1. baseline[t][c] = "down" \/ c \in OneShot
    BY <1>4 DEF ToSay
  <2>. QED
    BY <1>4, <2>1 DEF Missed, KnownIn
<1>. QED
  BY <1>2, <1>3, <1>4

(* What there is to say is how the sweep found the object.                 *)
LEMMA SayIsKnown ==
    ASSUME NEW t \in Threads, NEW c \in Containers, ToSay(t, c) # "none"
    PROVE  ToSay(t, c) \in KnownIn(Finds(t, c), c)
BY DEF ToSay, Word, KnownIn

(* An object that is compared without a post: it is known, or excused.     *)
LEMMA QuietKeeps ==
    ASSUME FleetInv, NEW t \in Threads, NEW c \in Containers, InTurn(t, c), Compared(t, c),
           UNCHANGED <<actual, baseline, disk, mode, rest, post, log, said>>,
           cool' \in [Keys -> 0 .. FlapCooldown],
           excused \subseteq excused',
           \/ <<t, c>> \in excused'
           \/ said[t][c] = "nothing"
           \/ said[t][c] \in KnownIn(Finds(t, c), c)
    PROVE  FleetInv'
<1>1. ConnectorTypes'
  BY ComparedKeeps DEF FleetInv, ConnectorTypes
<1>2. ASSUME NEW u \in Threads, u # t PROVE Aware(u)'
  <2>1. /\ found'[u] = found[u] /\ sweep'[u] = sweep[u]
        /\ post[u] # 0 => post[u] \in DOMAIN log
    BY <1>2, ComparedKeeps
  <2>. QED
    BY <2>1, ThreadStays DEF FleetInv
<1>3. Aware(t)'
  <2>1. SweepsAreWhole(t)' /\ post'[t] = 0
    BY ComparedKeeps
  <2>2. ASSUME NEW d \in Containers
        PROVE  \/ <<t, d>> \in excused'
               \/ said'[t][d] = "nothing"
               \/ said'[t][d] \in KnownIn(Current(t, d), d)'
    <3>1. CASE d = c
      BY <3>1, ComparedKeeps
    <3>2. CASE d # c
      <4>1. KnownIn(Current(t, d), d)' = KnownIn(Current(t, d), d) /\ post[t] = 0
        BY <3>2, ComparedKeeps
      <4>. QED
        BY <4>1 DEF FleetInv, Aware, Heard
    <3>. QED
      BY <3>1, <3>2
  <2>. QED
    BY <2>1, <2>2 DEF Aware, PostSaysFound, Heard
<1>. QED
  BY <1>1, <1>2, <1>3 DEF FleetInv

LEMMA PassKeeps ==
    ASSUME FleetInv, NEW t \in Threads, NEW c \in Containers, Pass(t, c)
    PROVE  FleetInv'
<1>1. /\ InTurn(t, c) /\ Compared(t, c)
      /\ UNCHANGED <<actual, baseline, disk, cool, mode, rest, post, log, said>>
      /\ excused' = IF Missed(t, c) THEN excused \cup {<<t, c>>} ELSE excused
      /\ ToSay(t, c) = "none"
  BY DEF Pass
<1>2. \/ <<t, c>> \in excused
      \/ said[t][c] = "nothing"
      \/ said[t][c] \in KnownIn(baseline[t], c)
  BY <1>1, ComparedKeeps DEF FleetInv, Aware, Heard
<1>3. c \in DOMAIN Finds(t, c) \cup DOMAIN baseline[t]
  BY <1>1, ComparedKeeps
<1>4. cool' \in [Keys -> 0 .. FlapCooldown]
  BY <1>1 DEF FleetInv, ConnectorTypes
<1>. QED
  BY <1>1, <1>2, <1>3, <1>4, NothingToSay, QuietKeeps

LEMMA SuppressKeeps ==
    ASSUME FleetInv, NEW t \in Threads, NEW c \in Containers, Suppress(t, c)
    PROVE  FleetInv'
<1>1. cool' \in [Keys -> 0 .. FlapCooldown]
  BY DEF Suppress, FleetInv, ConnectorTypes
<1>. QED
  BY <1>1, QuietKeeps DEF Suppress

LEMMA EmitKeeps ==
    ASSUME FleetInv, NEW t \in Threads, NEW c \in Containers, Emit(t, c)
    PROVE  FleetInv'
<1>1. /\ InTurn(t, c) /\ Compared(t, c) /\ ToSay(t, c) # "none"
      /\ cool' = [cool EXCEPT ![Key(t, c)] = FlapCooldown]
      /\ UNCHANGED <<actual, baseline, disk, mode, rest, said, changes>>
  BY DEF Emit
<1>2. cool' \in [Keys -> 0 .. FlapCooldown]
  <2>. DEFINE k == Key(t, c)
  <2>1. FlapCooldown \in 0 .. FlapCooldown
    BY ConnectorAssumption
  <2>2. cool \in [Keys -> 0 .. FlapCooldown] /\ cool' = [cool EXCEPT ![k] = FlapCooldown]
    BY <1>1 DEF FleetInv, ConnectorTypes
  <2>. HIDE DEF k
  <2>. QED
    BY <2>1, <2>2
<1>3. CASE excused' = excused \cup {<<t, c>>} /\ UNCHANGED <<log, post>>
  BY <1>1, <1>2, <1>3, QuietKeeps
<1>4. CASE /\ log' = Append(log, Event(t, c))
           /\ post' = [post EXCEPT ![t] = Len(log) + 1]
           /\ UNCHANGED excused
  <2>1. /\ log \in Seq(Events) /\ Event(t, c) \in Events /\ ToSay(t, c) \in Words
        /\ Event(t, c).by = t /\ Event(t, c).about = c /\ Event(t, c).state = "stamped"
        /\ Event(t, c).word = ToSay(t, c)
    BY <1>1, ToSayIs DEF FleetInv, ConnectorTypes, Event
  <2>2. /\ log' \in Seq(Events) /\ DOMAIN log' = DOMAIN log \cup {Len(log) + 1}
        /\ log'[Len(log) + 1] = Event(t, c) /\ \A e \in DOMAIN log : log'[e] = log[e]
        /\ Len(log) + 1 # 0 /\ Len(log) + 1 \in Nat
    <3>. DEFINE x == Event(t, c)
    <3>. HIDE DEF x
    <3>1. x \in Events /\ log' = Append(log, x)
      BY <1>4, <2>1 DEF x
    <3>2. log' \in Seq(Events) /\ DOMAIN log' = DOMAIN log \cup {Len(log) + 1}
      BY <2>1, <3>1
    <3>3. log'[Len(log) + 1] = x /\ \A e \in DOMAIN log : log'[e] = log[e]
      BY <2>1, <3>1
    <3>. QED
      BY <2>1, <3>2, <3>3 DEF x
  <2>3. \A e \in DOMAIN log' : log'[e].by \in Threads => log'[e].word \in Words
    BY <2>1, <2>2 DEF FleetInv, ConnectorTypes
  <2>4. post' \in [Threads -> Nat] /\ post'[t] = Len(log) + 1
        /\ \A u \in Threads : u # t => post'[u] = post[u]
    BY <1>4, <2>2 DEF FleetInv, ConnectorTypes
  <2>5. ConnectorTypes'
    BY <1>1, <1>2, <2>2, <2>3, <2>4, ComparedKeeps DEF FleetInv, ConnectorTypes
  <2>6. ASSUME NEW u \in Threads, u # t PROVE Aware(u)'
    <3>1. /\ found'[u] = found[u] /\ sweep'[u] = sweep[u]
          /\ post[u] # 0 => post[u] \in DOMAIN log
      BY <1>1, <2>6, ComparedKeeps
    <3>. QED
      BY <1>1, <1>4, <2>2, <2>4, <2>6, <3>1, ThreadStays DEF FleetInv
  <2>7. Aware(t)'
    <3>1. /\ mode[t] = "sweeping" /\ post[t] = 0
          /\ found'[t] = Finds(t, c) /\ c \notin sweep'[t]
          /\ SweepsAreWhole(t)'
          /\ \A d \in Containers \ {c} :
                KnownIn(Current(t, d), d)' = KnownIn(Current(t, d), d)
      BY <1>1, ComparedKeeps
    <3>2. ToSay(t, c) \in KnownIn(found'[t], c)
      BY <1>1, <3>1, SayIsKnown
    <3>3. PostSaysFound(t)'
      BY <1>1, <2>1, <2>2, <2>4, <3>1, <3>2 DEF PostSaysFound, KnownIn
    <3>4. ASSUME NEW d \in Containers, d # c
          PROVE  \/ <<t, d>> \in excused'
                 \/ said'[t][d] = "nothing"
                 \/ said'[t][d] \in KnownIn(Current(t, d), d)'
      BY <1>1, <1>4, <3>1, <3>4 DEF FleetInv, Aware, Heard
    <3>5. Heard(t)'
      BY <2>1, <2>2, <2>4, <3>4 DEF Heard
    <3>. QED
      BY <3>1, <3>3, <3>5 DEF Aware
  <2>. QED
    BY <2>5, <2>6, <2>7 DEF FleetInv
<1>. QED
  BY <1>3, <1>4 DEF Emit

(* Hermes stores an event.                                                 *)
LEMMA StoredIs ==
    ASSUME ConnectorTypes, NEW e \in DOMAIN log, Stored(e)
    PROVE  /\ log' \in Seq(Events) /\ DOMAIN log' = DOMAIN log /\ Len(log') = Len(log)
           /\ log'[e].state = "stored" /\ log'[e].severity = log[e].severity
           /\ log'[e].word = log[e].word /\ log'[e].by = log[e].by
           /\ \A d \in DOMAIN log : d # e => log'[d] = log[d]
           /\ \A d \in DOMAIN log' : log'[d].by \in Threads => log'[d].word \in Words
<1>1. log \in Seq(Events) /\ log[e] \in Events
  BY ElementOfSeq DEF ConnectorTypes
<1>. DEFINE x == [log[e] EXCEPT !.state = "stored"]
<1>2. x = [by |-> log[e].by, about |-> log[e].about, word |-> log[e].word,
           severity |-> log[e].severity, state |-> "stored"]
  BY <1>1 DEF Events
<1>3. x \in Events /\ x.state = "stored" /\ x.word = log[e].word /\ x.by = log[e].by
      /\ x.severity = log[e].severity
  BY <1>1, <1>2 DEF Events
<1>4. log' = [log EXCEPT ![e] = x]
  BY DEF Stored
<1>. HIDE DEF x
<1>5. /\ log' \in Seq(Events) /\ DOMAIN log' = DOMAIN log /\ Len(log') = Len(log)
      /\ log'[e] = x /\ \A d \in DOMAIN log : d # e => log'[d] = log[d]
  BY <1>1, <1>3, <1>4
<1>. QED
  BY <1>3, <1>5 DEF ConnectorTypes

LEMMA CommitKeeps == ASSUME FleetInv, NEW e \in DOMAIN log, Commit(e) PROVE FleetInv'
<1>1. PICK t \in Threads, c \in Containers :
        /\ log[e].by = t /\ log[e].about = c
        /\ log[e].word \in Words /\ log[e].state = "stamped" /\ e # 0
  <2>1. log[e] \in Events /\ e # 0
    BY ElementOfSeq DEF FleetInv, ConnectorTypes
  <2>2. log[e].by \in Threads /\ log[e].state = "stamped" /\ log[e].word \in Words
    BY DEF Commit, FleetInv, ConnectorTypes
  <2>. QED
    BY <2>1, <2>2 DEF Events
<1>2. /\ log' \in Seq(Events) /\ DOMAIN log' = DOMAIN log
      /\ \A d \in DOMAIN log : d # e => log'[d] = log[d]
      /\ \A d \in DOMAIN log' : log'[d].by \in Threads => log'[d].word \in Words
  BY StoredIs DEF Commit, FleetInv
<1>3. /\ said' = [said EXCEPT ![t][c] = log[e].word]
      /\ excused' = IF post[t] = e THEN excused \ {<<t, c>>} ELSE excused \cup {<<t, c>>}
      /\ post' = [u \in Threads |-> IF post[u] = e THEN 0 ELSE post[u]]
      /\ UNCHANGED <<actual, baseline, disk, cool, sweep, found, mode, rest>>
  BY <1>1 DEF Commit
<1>4. ConnectorTypes'
  <2>1. said' \in [Threads -> [Containers -> Words \cup {"nothing"}]]
    BY <1>1, <1>3 DEF FleetInv, ConnectorTypes
  <2>2. post' \in [Threads -> Nat]
    BY <1>3 DEF FleetInv, ConnectorTypes
  <2>. QED
    BY <1>2, <1>3, <2>1, <2>2 DEF FleetInv, ConnectorTypes
<1>5. ASSUME NEW u \in Threads, u # t PROVE Aware(u)'
  <2>1. post[u] # 0 => post[u] \in DOMAIN log /\ log[post[u]].by = u
    BY DEF FleetInv, Aware, PostSaysFound
  <2>2. post[u] # e
    BY <1>1, <1>5, <2>1, ElementOfSeq DEF FleetInv, ConnectorTypes
  <2>3. /\ post'[u] = post[u] /\ said'[u] = said[u]
        /\ post[u] # 0 => post[u] \in DOMAIN log' /\ log'[post[u]] = log[post[u]]
    BY <1>2, <1>3, <1>5, <2>1, <2>2 DEF FleetInv, ConnectorTypes
  <2>4. \A d \in Containers : <<u, d>> \in excused => <<u, d>> \in excused'
    BY <1>3, <1>5
  <2>. QED
    BY <1>3, <2>3, <2>4, ThreadStays DEF FleetInv
<1>6. Aware(t)'
  <2>1. /\ said'[t][c] = log[e].word
        /\ \A d \in Containers : d # c => said'[t][d] = said[t][d]
    BY <1>1, <1>3 DEF FleetInv, ConnectorTypes
  <2>2. SweepsAreWhole(t)'
    BY <1>1, <1>3 DEF FleetInv, Aware, SweepsAreWhole
  <2>3. PostSaysFound(t)'
    <3>1. post'[t] # 0 => post'[t] = post[t] /\ log'[post[t]] = log[post[t]]
      BY <1>1, <1>2, <1>3 DEF FleetInv, Aware, PostSaysFound
    <3>. SUFFICES ASSUME post'[t] # 0 PROVE PostSaysFound(t)'
      BY DEF PostSaysFound
    <3>2. log'[post'[t]] = log[post[t]] /\ post[t] # 0 /\ post'[t] = post[t]
      BY <3>1
    <3>3. /\ mode[t] = "sweeping" /\ post[t] \in DOMAIN log
          /\ log[post[t]].by = t /\ log[post[t]].state = "stamped"
          /\ log[post[t]].about \notin sweep[t]
          /\ log[post[t]].word \in KnownIn(found[t], log[post[t]].about)
      BY <3>2 DEF FleetInv, Aware, PostSaysFound
    <3>. QED
      BY <1>2, <1>3, <3>2, <3>3 DEF PostSaysFound, KnownIn
  <2>4. \A d \in Containers : KnownIn(Current(t, d), d)' = KnownIn(Current(t, d), d)
    BY <1>3 DEF KnownIn, Current
  <2>5. CASE post[t] = e
    <3>1. said'[t][c] \in KnownIn(Current(t, c), c)'
      <4>1. mode[t] = "sweeping" /\ c \notin sweep[t] /\ log[e].word \in KnownIn(found[t], c)
        BY <1>1, <2>5 DEF FleetInv, Aware, PostSaysFound
      <4>. QED
        BY <2>1, <2>4, <4>1 DEF Current
    <3>2. ASSUME NEW d \in Containers, d # c
          PROVE  \/ <<t, d>> \in excused'
                 \/ said'[t][d] = "nothing"
                 \/ said'[t][d] \in KnownIn(Current(t, d), d)'
      BY <1>1, <1>3, <2>1, <2>4, <2>5, <3>2 DEF FleetInv, Aware, Heard
    <3>. QED
      BY <2>2, <2>3, <3>1, <3>2 DEF Aware, Heard
  <2>6. CASE post[t] # e
    <3>1. /\ post'[t] = post[t] /\ <<t, c>> \in excused'
          /\ post[t] # 0 => log'[post[t]] = log[post[t]]
      BY <1>1, <1>2, <1>3, <2>6 DEF FleetInv, Aware, PostSaysFound
    <3>2. ASSUME NEW d \in Containers, d # c
          PROVE  \/ <<t, d>> \in excused'
                 \/ post'[t] # 0 /\ log'[post'[t]].about = d
                 \/ said'[t][d] = "nothing"
                 \/ said'[t][d] \in KnownIn(Current(t, d), d)'
      BY <1>1, <1>3, <2>1, <2>4, <2>6, <3>1, <3>2 DEF FleetInv, Aware, Heard
    <3>. QED
      BY <2>2, <2>3, <3>1, <3>2 DEF Aware, Heard
  <2>. QED
    BY <2>5, <2>6
<1>. QED
  BY <1>4, <1>5, <1>6 DEF FleetInv

(* Nothing of the connector steps.                                         *)
LEMMA ConnectorRests ==
    ASSUME FleetInv, ConnectorTypes',
           UNCHANGED <<baseline, disk, found, sweep, mode, post, said, excused>>,
           \A e \in DOMAIN log : /\ e \in DOMAIN log'
                                 /\ log[e].by \in Threads => log'[e] = log[e]
    PROVE  FleetInv'
<1>1. ASSUME NEW t \in Threads PROVE Aware(t)'
  <2>1. post[t] # 0 => post[t] \in DOMAIN log' /\ log'[post[t]] = log[post[t]]
    BY DEF FleetInv, Aware, PostSaysFound
  <2>. QED
    BY <2>1, ThreadStays DEF FleetInv
<1>. QED
  BY <1>1 DEF FleetInv

LEMMA EscalateKeeps == ASSUME FleetInv, NEW c \in Containers, Escalate(c) PROVE FleetInv'
<1>. DEFINE x == Escalation(c)
<1>1. x \in Events /\ x.by \notin Threads
  BY DEF Escalation, Events, Threads
<1>2. /\ log \in Seq(Events) /\ log' = Append(log, x)
      /\ UNCHANGED <<actual, baseline, disk, cool, sweep, found, mode, rest, post, excused, said>>
  BY DEF Escalate, FleetInv, ConnectorTypes, connectorVars
<1>. HIDE DEF x
<1>3. /\ log' \in Seq(Events) /\ DOMAIN log' = DOMAIN log \cup {Len(log) + 1}
      /\ log'[Len(log) + 1] = x /\ \A e \in DOMAIN log : log'[e] = log[e]
  BY <1>1, <1>2
<1>4. ConnectorTypes'
  BY <1>1, <1>2, <1>3 DEF FleetInv, ConnectorTypes
<1>. QED
  BY <1>2, <1>3, <1>4, ConnectorRests

LEMMA CommitEscalationKeeps ==
    ASSUME FleetInv, NEW e \in DOMAIN log, CommitEscalation(e)
    PROVE  FleetInv'
<1>1. /\ log' \in Seq(Events) /\ DOMAIN log' = DOMAIN log
      /\ \A d \in DOMAIN log : d # e => log'[d] = log[d]
      /\ \A d \in DOMAIN log' : log'[d].by \in Threads => log'[d].word \in Words
  BY StoredIs DEF CommitEscalation, FleetInv
<1>2. /\ UNCHANGED <<actual, baseline, disk, cool, sweep, found, mode, rest, post, excused, said>>
      /\ log[e].by \notin Threads
  BY DEF CommitEscalation, connectorVars, Threads
<1>3. ConnectorTypes'
  BY <1>1, <1>2 DEF FleetInv, ConnectorTypes
<1>. QED
  BY <1>1, <1>2, <1>3, ConnectorRests

LEMMA ChangeKeeps ==
    ASSUME FleetInv, actual' \in [Containers -> States \cup {"absent"}],
           UNCHANGED <<connectorVars, log, said>>
    PROVE  FleetInv'
<1>1. UNCHANGED <<baseline, disk, cool, sweep, found, mode, rest, post, excused, said, log>>
  BY DEF connectorVars
<1>2. ConnectorTypes'
  BY <1>1 DEF FleetInv, ConnectorTypes
<1>. QED
  BY <1>1, <1>2, ConnectorRests

LEMMA TimeKeeps == ASSUME FleetInv, ConnectorTime PROVE FleetInv'
<1>1. UNCHANGED <<actual, baseline, disk, sweep, found, mode, post, excused, said, log>>
  BY DEF ConnectorTime
<1>2. cool' \in [Keys -> 0 .. FlapCooldown]
  BY ConnectorAssumption DEF ConnectorTime, FleetInv, ConnectorTypes
<1>3. rest' \in [Threads -> 0 .. EndpointEvery + 1]
  BY ConnectorAssumption DEF ConnectorTime, FleetInv, ConnectorTypes
<1>4. ConnectorTypes'
  BY <1>1, <1>2, <1>3 DEF FleetInv, ConnectorTypes
<1>. QED
  BY <1>1, <1>4, ConnectorRests

(* A post that is not answered leaves its object excused.                  *)
LEMMA UnansweredKeeps ==
    ASSUME FleetInv, NEW stopped \in SUBSET Threads, Unanswered(stopped),
           NEW t \in Threads, t \notin stopped => log' = log
    PROVE  Aware(t)'
<1>1. /\ post' = [u \in Threads |-> IF u \in stopped THEN 0 ELSE post[u]]
      /\ excused' = excused \cup
            {<<u, log[post[u]].about>> : u \in {v \in stopped : post[v] # 0}}
      /\ UNCHANGED <<baseline, disk, sweep, found, mode, said>>
  BY DEF Unanswered
<1>2. CASE t \notin stopped
  <2>1. post'[t] = post[t] /\ excused \subseteq excused'
    BY <1>1, <1>2
  <2>2. post[t] # 0 => post[t] \in DOMAIN log
    BY DEF FleetInv, Aware, PostSaysFound
  <2>. QED
    BY <1>1, <1>2, <2>1, <2>2, ThreadStays DEF FleetInv
<1>3. CASE t \in stopped
  <2>1. post'[t] = 0 /\ excused \subseteq excused'
        /\ (post[t] # 0 => <<t, log[post[t]].about>> \in excused')
    BY <1>1, <1>3
  <2>2. SweepsAreWhole(t)' /\ PostSaysFound(t)'
    BY <1>1, <2>1 DEF FleetInv, Aware, SweepsAreWhole, PostSaysFound
  <2>3. Heard(t)'
    BY <1>1, <2>1 DEF FleetInv, Aware, Heard, Current, KnownIn
  <2>. QED
    BY <2>2, <2>3 DEF Aware
<1>. QED
  BY <1>2, <1>3

LEMMA GiveUpKeeps == ASSUME FleetInv, NEW t \in Threads, GiveUp(t) PROVE FleetInv'
<1>1. Unanswered({t}) /\ {t} \in SUBSET Threads /\ UNCHANGED log
  BY DEF GiveUp
<1>2. ConnectorTypes'
  <2>1. post' \in [Threads -> Nat]
    BY <1>1 DEF Unanswered, FleetInv, ConnectorTypes
  <2>. QED
    BY <1>1, <2>1 DEF Unanswered, FleetInv, ConnectorTypes
<1>. QED
  BY <1>1, <1>2, UnansweredKeeps DEF FleetInv

(* Hermes stops: what it has not stored is lost.                           *)
LEMMA LostIs ==
    ASSUME ConnectorTypes, log' = [e \in DOMAIN log |-> Lost(log[e])]
    PROVE  /\ log' \in Seq(Events) /\ DOMAIN log' = DOMAIN log /\ Len(log') = Len(log)
           /\ \A e \in DOMAIN log : /\ log'[e].by = log[e].by /\ log'[e].word = log[e].word
                                    /\ log'[e].severity = log[e].severity
                                    /\ log'[e].state = "stored" <=> log[e].state = "stored"
<1>1. log \in Seq(Events) /\ DOMAIN log = 1 .. Len(log) /\ Len(log) \in Nat
  BY DEF ConnectorTypes
<1>2. ASSUME NEW x \in Events
      PROVE  /\ Lost(x) \in Events /\ Lost(x).by = x.by /\ Lost(x).word = x.word
             /\ Lost(x).severity = x.severity
             /\ Lost(x).state = "stored" <=> x.state = "stored"
  <2>. DEFINE y == [by |-> x.by, about |-> x.about, word |-> x.word,
                    severity |-> x.severity, state |-> "lost"]
  <2>1. y \in Events
    BY DEF Events
  <2>2. [x EXCEPT !.state = "lost"] = y
    BY DEF Events
  <2>. QED
    BY <2>1, <2>2 DEF Lost
<1>3. \A e \in DOMAIN log : log[e] \in Events
  BY <1>1, ElementOfSeq
<1>4. log' = [e \in 1 .. Len(log) |-> Lost(log[e])]
  BY <1>1
<1>5. \A e \in 1 .. Len(log) : Lost(log[e]) \in Events
  BY <1>1, <1>2, <1>3
<1>6. log' \in Seq(Events) /\ Len(log') = Len(log) /\ DOMAIN log' = DOMAIN log
      /\ \A e \in DOMAIN log : log'[e] = Lost(log[e])
  BY <1>1, <1>4, <1>5
<1>. QED
  BY <1>2, <1>3, <1>6

LEMMA StopKeeps == ASSUME FleetInv, HermesStops PROVE FleetInv'
<1>1. Unanswered(Threads) /\ log' = [e \in DOMAIN log |-> Lost(log[e])]
  BY DEF HermesStops
<1>2. /\ log' \in Seq(Events)
      /\ \A e \in DOMAIN log' : log'[e].by \in Threads => log'[e].word \in Words
  BY <1>1, LostIs DEF FleetInv, ConnectorTypes
<1>3. ConnectorTypes'
  <2>1. post' \in [Threads -> Nat]
    BY <1>1 DEF Unanswered, FleetInv, ConnectorTypes
  <2>. QED
    BY <1>1, <1>2, <2>1 DEF HermesStops, Unanswered, FleetInv, ConnectorTypes
<1>. QED
  BY <1>1, <1>3, UnansweredKeeps DEF FleetInv

LEMMA StoreKeeps == ASSUME FleetInv, NEW t \in Threads, Store(t) PROVE FleetInv'
<1>1. /\ mode[t] = "sweeping" /\ sweep[t] = {} /\ post[t] = 0
      /\ baseline' = [baseline EXCEPT ![t] = found[t]]
      /\ found' = [found EXCEPT ![t] = Nowhere]
      /\ rest' = [rest EXCEPT ![t] = Interval(t)]
      /\ disk' = baseline' \/ disk' = disk
      /\ \E m \in {"resting", "dead"} : mode' = [mode EXCEPT ![t] = m]
      /\ UNCHANGED <<actual, cool, sweep, post, log, said, excused>>
  BY DEF Store
<1>2. ConnectorTypes'
  <2>1. Interval(t) \in 0 .. EndpointEvery + 1
    BY ConnectorAssumption DEF Interval
  <2>2. rest' \in [Threads -> 0 .. EndpointEvery + 1]
    BY <1>1, <2>1 DEF FleetInv, ConnectorTypes
  <2>3. baseline' \in [Threads -> Tables] /\ found' \in [Threads -> Tables]
    BY <1>1, NowhereIs DEF FleetInv, ConnectorTypes
  <2>4. disk' \in [Threads -> Tables]
    BY <1>1, <2>3 DEF FleetInv, ConnectorTypes
  <2>5. mode' \in [Threads -> {"resting", "sweeping", "dead"}]
    BY <1>1 DEF FleetInv, ConnectorTypes
  <2>. QED
    BY <1>1, <2>2, <2>3, <2>4, <2>5 DEF FleetInv, ConnectorTypes
<1>3. ASSUME NEW u \in Threads, u # t PROVE Aware(u)'
  <2>1. /\ baseline'[u] = baseline[u] /\ found'[u] = found[u] /\ mode'[u] = mode[u]
        /\ disk'[u] \in {disk[u], baseline[u]}
    BY <1>1, <1>3 DEF FleetInv, ConnectorTypes
  <2>2. post[u] # 0 => post[u] \in DOMAIN log
    BY DEF FleetInv, Aware, PostSaysFound
  <2>. QED
    BY <1>1, <2>1, <2>2, ThreadStays DEF FleetInv
<1>4. Aware(t)'
  <2>1. /\ baseline'[t] = found[t] /\ found'[t] = Nowhere /\ mode'[t] # "sweeping"
        /\ disk'[t] \in {disk[t], found[t]} /\ sweep'[t] = {} /\ post'[t] = 0
    BY <1>1 DEF FleetInv, ConnectorTypes
  <2>2. SweepsAreWhole(t)'
    BY <1>1, <2>1, NowhereIs DEF FleetInv, Aware, SweepsAreWhole
  <2>3. \A c \in Containers : KnownIn(Current(t, c), c)' = KnownIn(Current(t, c), c)
    BY <1>1, <2>1 DEF KnownIn, Current
  <2>4. Heard(t)'
    BY <1>1, <2>3 DEF FleetInv, Aware, Heard
  <2>. QED
    BY <2>1, <2>2, <2>4 DEF Aware, PostSaysFound
<1>. QED
  BY <1>2, <1>3, <1>4 DEF FleetInv

LEMMA RestartKeeps ==
    ASSUME FleetInv, NEW left \in {0, FlapCooldown}, ConnectorRestart(left)
    PROVE  FleetInv'
<1>1. /\ baseline' = disk /\ UNCHANGED <<actual, disk, log, said>>
      /\ sweep' = [t \in Threads |-> {}] /\ found' = [t \in Threads |-> Nowhere]
      /\ mode' = [t \in Threads |-> "resting"] /\ rest' = [t \in Threads |-> 0]
      /\ post' = [t \in Threads |-> 0]
      /\ excused' = excused \cup
            {<<t, c>> : t \in {u \in Threads : mode[u] = "sweeping" \/ disk[u] # baseline[u]},
                        c \in Containers}
  BY DEF ConnectorRestart
<1>2. cool' \in [Keys -> 0 .. FlapCooldown]
  BY ConnectorAssumption DEF ConnectorRestart, FreshKeys
<1>3. ConnectorTypes'
  BY <1>1, <1>2, NowhereIs, ConnectorAssumption DEF FleetInv, ConnectorTypes
<1>4. ASSUME NEW t \in Threads PROVE Aware(t)'
  <2>1. /\ baseline'[t] = disk[t] /\ found'[t] = Nowhere /\ mode'[t] = "resting"
        /\ sweep'[t] = {} /\ post'[t] = 0
    BY <1>1
  <2>2. SweepsAreWhole(t)' /\ PostSaysFound(t)'
    BY <1>1, <2>1, NowhereIs DEF FleetInv, Aware, SweepsAreWhole, PostSaysFound
  <2>3. CASE mode[t] = "sweeping" \/ disk[t] # baseline[t]
    <3>1. \A c \in Containers : <<t, c>> \in excused'
      BY <1>1, <2>3
    <3>. QED
      BY <2>2, <3>1 DEF Aware, Heard
  <2>4. CASE mode[t] # "sweeping" /\ disk[t] = baseline[t]
    <3>1. post[t] = 0 /\ excused \subseteq excused'
      BY <1>1, <2>4 DEF FleetInv, Aware, PostSaysFound
    <3>2. \A c \in Containers : KnownIn(Current(t, c), c)' = KnownIn(Current(t, c), c)
      BY <2>1, <2>4 DEF KnownIn, Current
    <3>. QED
      BY <1>1, <2>2, <3>1, <3>2 DEF FleetInv, Aware, Heard
  <2>. QED
    BY <2>3, <2>4
<1>. QED
  BY <1>3, <1>4 DEF FleetInv

LEMMA FleetStarts == ConnectorInit => FleetInv
<1>. SUFFICES ASSUME ConnectorInit PROVE FleetInv
  OBVIOUS
<1>1. /\ actual = [c \in Containers |-> "up"]
      /\ baseline = [t \in Threads |-> Nowhere] /\ disk = [t \in Threads |-> Nowhere]
      /\ sweep = [t \in Threads |-> {}] /\ found = [t \in Threads |-> Nowhere]
      /\ mode = [t \in Threads |-> "resting"] /\ rest = [t \in Threads |-> 0]
      /\ post = [t \in Threads |-> 0] /\ log = << >> /\ excused = {}
      /\ said = [t \in Threads |-> [c \in Containers |-> "nothing"]]
  BY DEF ConnectorInit
<1>2. cool \in [Keys -> 0 .. FlapCooldown]
  <2>1. FreshKeys(0) \in [Keys -> 0 .. FlapCooldown]
        /\ FreshKeys(FlapCooldown) \in [Keys -> 0 .. FlapCooldown]
    BY ConnectorAssumption DEF FreshKeys
  <2>. QED
    BY <2>1 DEF ConnectorInit
<1>3. ConnectorTypes
  BY <1>1, <1>2, NowhereIs, ConnectorAssumption DEF ConnectorTypes, States, Words
<1>4. ASSUME NEW t \in Threads PROVE Aware(t)
  BY <1>1, NowhereIs DEF Aware, SweepsAreWhole, PostSaysFound, Heard
<1>. QED
  BY <1>3, <1>4 DEF FleetInv

(* Whatever a step of the connector, of Hermes and of the watchdog does to *)
(* the fleet.                                                              *)
LEMMA FleetKeeps == ASSUME FleetInv, [Next]_vars PROVE FleetInv'
<1>1. CASE ConnectorStep
  BY <1>1, StartKeeps, GiveUpKeeps, StoreKeeps, PassKeeps, SuppressKeeps, EmitKeeps, RestartKeeps
     DEF ConnectorStep
<1>2. ASSUME NEW c \in Containers, NEW s \in States \cup {"absent"}, Change(c, s)
      PROVE  FleetInv'
  <2>1. actual' \in [Containers -> States \cup {"absent"}]
    BY <1>2 DEF Change, FleetInv, ConnectorTypes
  <2>. QED
    BY <1>2, <2>1, ChangeKeeps DEF Change
<1>3. CASE Arrive
  BY <1>3, CommitKeeps, CommitEscalationKeeps DEF Arrive
<1>4. CASE UNCHANGED fleetVars
  <2>1. UNCHANGED <<actual, connectorVars, log, said>>
    BY <1>4 DEF fleetVars
  <2>2. actual' \in [Containers -> States \cup {"absent"}]
    BY <2>1 DEF FleetInv, ConnectorTypes
  <2>. QED
    BY <2>1, <2>2, ChangeKeeps
<1>5. CASE EvaluateRaises
  <2>1. UNCHANGED <<actual, connectorVars, log, said>>
    BY <1>5 DEF EvaluateRaises
  <2>2. actual' \in [Containers -> States \cup {"absent"}]
    BY <2>1 DEF FleetInv, ConnectorTypes
  <2>. QED
    BY <2>1, <2>2, ChangeKeeps
<1>6. CASE HermesRestart
  BY <1>6, StopKeeps DEF HermesRestart
<1>7. CASE Time
  BY <1>7, TimeKeeps DEF Time
<1>8. ASSUME NEW c \in Containers, NEW source, Execute(c, source) PROVE FleetInv'
  <2>1. UNCHANGED <<connectorVars, log, said>>
    BY <1>8 DEF Execute
  <2>2. actual' \in [Containers -> States \cup {"absent"}]
    BY <1>8 DEF Execute, FleetInv, ConnectorTypes, States
  <2>. QED
    BY <2>1, <2>2, ChangeKeeps
<1>9. CASE \E c \in Containers : Escalate(c)
  BY <1>9, EscalateKeeps
<1>10. CASE \/ FirstCheck \/ Check \/ Dismiss
            \/ \E decision \in Decisions : Propose(decision[1], decision[2])
            \/ \E c \in Containers : Cancel(c)
  BY <1>4, <1>10 DEF FirstCheck, Check, Dismiss, Propose, Cancel
<1>11. CASE UNCHANGED vars
  BY <1>4, <1>11 DEF vars
<1>. QED
  BY <1>1, <1>2, <1>3, <1>5, <1>6, <1>7, <1>8, <1>9, <1>10, <1>11
     DEF Next, WindowElapses, Approve

-----------------------------------------------------------------------------
(* What the watchdog looks at, and what it runs.                           *)

Actions == [age : Nat, source : {"auto", "operator"}]
Proposals == [action : Safe \cup {"none", "docker_stop"}, risk : {"low", "medium"}]

EventsTypes ==
    /\ lastCheck \in 0 .. Len(log)
    /\ batch \subseteq DOMAIN log
    /\ evaluated \cup unseen \subseteq DOMAIN log

ActionsTypes ==
    /\ chill \in [Containers -> 0 .. TargetCooldown]
    /\ pending \in [Containers -> Proposals]
    /\ history \in [Containers -> Seq(Actions)]

(* A restart was proposed without asking while the watchdog had acted on   *)
(* the container less often than the threshold, and no other action runs   *)
(* on it before the proposal is settled.                                   *)
LowRiskIsRare ==
    \A c \in Containers :
        pending[c] # NoProposal /\ pending[c].risk = "low" => Len(history[c]) < CrashloopThreshold

LooksInv == EventsTypes /\ ErrorsConsidered
ActsInv == ActionsTypes /\ LowRiskIsRare /\ AutoRunsRationed

(* The least of the events of a check is one of them.                      *)
LEMMA TurnIsOne == ASSUME batch \in SUBSET Nat, batch # {} PROVE Turn \in batch
<1>. DEFINE R == OpToRel(<, Nat)
<1>1. IsWellFoundedOn(R, Nat)
  BY NatLessThanWellFounded
<1>2. PICK x \in batch : \A y \in batch : ~ (<<y, x>> \in R)
  BY <1>1, WFMin, Zenon
<1>3. \A y \in batch : ~ (y < x)
  BY <1>2 DEF OpToRel
<1>4. \A y \in batch : x <= y
  BY <1>3
<1>. QED
  BY <1>4 DEF Turn

(* The indices of a list are as many as it is long.                        *)
LEMMA IndicesAre ==
    ASSUME NEW n \in Nat
    PROVE  IsFiniteSet(1 .. n) /\ Cardinality(1 .. n) = n
BY FS_Interval

(* The actions the watchdog ran by itself are finitely many.               *)
LEMMA AutoRunsAre ==
    ASSUME NEW h \in Seq(Actions)
    PROVE  /\ AutoRuns(h) \subseteq 1 .. Len(h) /\ IsFiniteSet(AutoRuns(h))
           /\ Cardinality(AutoRuns(h)) \in Nat /\ Cardinality(AutoRuns(h)) <= Len(h)
<1>1. AutoRuns(h) \subseteq 1 .. Len(h)
  BY DEF AutoRuns
<1>2. IsFiniteSet(1 .. Len(h)) /\ Cardinality(1 .. Len(h)) = Len(h)
  BY IndicesAre
<1>3. IsFiniteSet(AutoRuns(h)) /\ Cardinality(AutoRuns(h)) <= Len(h)
  BY <1>1, <1>2, FS_Subset
<1>. QED
  BY <1>1, <1>3, FS_CardinalityType

(* One more action, of the watchdog or of the operator.                    *)
LEMMA OneMoreAction ==
    ASSUME NEW h \in Seq(Actions), NEW source \in {"auto", "operator"}, NEW g,
           g = Append(h, [age |-> 0, source |-> source])
    PROVE  /\ g \in Seq(Actions) /\ Len(g) = Len(h) + 1
           /\ source = "operator" => AutoRuns(g) = AutoRuns(h)
<1>. DEFINE x == [age |-> 0, source |-> source]
<1>1. x \in Actions /\ x.source = source
  BY DEF Actions
<1>. HIDE DEF x
<1>2. g = Append(h, x)
  BY DEF x
<1>3. /\ g \in Seq(Actions) /\ Len(g) = Len(h) + 1 /\ DOMAIN g = DOMAIN h \cup {Len(h) + 1}
      /\ g[Len(h) + 1] = x /\ \A i \in DOMAIN h : g[i] = h[i]
  BY <1>1, <1>2
<1>4. source = "operator" => AutoRuns(g) = AutoRuns(h)
  BY <1>1, <1>3 DEF AutoRuns
<1>. QED
  BY <1>3, <1>4

(* What is left of the actions after a tick.                               *)
LEMMA AgedIsLess ==
    ASSUME NEW h \in Seq(Actions)
    PROVE  /\ Aged(h) \in Seq(Actions) /\ Len(Aged(h)) <= Len(h)
           /\ Cardinality(AutoRuns(Aged(h))) <= Cardinality(AutoRuns(h))
<1>. DEFINE gone == Cardinality(Expired(h))
            n == Len(h) - gone
            g == Aged(h)
<1>1. gone \in 0 .. Len(h)
  <2>1. Expired(h) \subseteq 1 .. Len(h)
    BY DEF Expired
  <2>2. IsFiniteSet(1 .. Len(h)) /\ Cardinality(1 .. Len(h)) = Len(h)
    BY IndicesAre
  <2>3. IsFiniteSet(Expired(h)) /\ gone <= Len(h)
    BY <2>1, <2>2, FS_Subset
  <2>. QED
    BY <2>3, FS_CardinalityType
<1>2. n \in 0 .. Len(h) /\ g = [i \in 1 .. n |-> Older(h[i + gone])]
  BY <1>1 DEF Aged
<1>3. ASSUME NEW x \in Actions PROVE Older(x) \in Actions /\ Older(x).source = x.source
  <2>1. Older(x) = [age |-> x.age + 1, source |-> x.source]
    BY DEF Older, Actions
  <2>. QED
    BY <2>1 DEF Actions
<1>. HIDE DEF gone, g
<1>4. \A i \in 1 .. n : i + gone \in 1 .. Len(h) /\ h[i + gone] \in Actions
  BY <1>1, <1>2, ElementOfSeq
<1>5. /\ g \in Seq(Actions) /\ Len(g) = n /\ DOMAIN g = 1 .. n
      /\ \A i \in 1 .. n : g[i].source = h[i + gone].source
  <2>1. \A i \in 1 .. n : Older(h[i + gone]) \in Actions /\ Older(h[i + gone]).source = h[i + gone].source
    BY <1>3, <1>4
  <2>. QED
    BY <1>2, <2>1
<1>6. Cardinality(AutoRuns(g)) <= Cardinality(AutoRuns(h))
  <2>. DEFINE A == AutoRuns(g)
              B == AutoRuns(h)
              f == [i \in A |-> i + gone]
  <2>1. A \subseteq 1 .. n /\ IsFiniteSet(B)
    BY <1>5, AutoRunsAre DEF AutoRuns
  <2>2. \A i \in A : i + gone \in B
    BY <1>4, <1>5, <2>1 DEF AutoRuns
  <2>3. \A i, j \in A : i + gone = j + gone => i = j
    BY <1>1, <1>2, <2>1
  <2>. HIDE DEF A, B
  <2>4. f \in Injection(A, B)
    BY <2>2, <2>3 DEF Injection, IsInjective
  <2>5. Cardinality(A) <= Cardinality(B)
    BY <2>1, <2>4, FS_Injection
  <2>. QED
    BY <2>5 DEF A, B
<1>. QED
  BY <1>2, <1>5, <1>6 DEF g

(* The table only grows, and no event is stored that was not.              *)
LogGoesOn ==
    /\ Len(log') >= Len(log) /\ Len(log') \in Nat
    /\ \A e \in DOMAIN log :
          /\ log'[e].severity = log[e].severity
          /\ log'[e].state = "stored" => log[e].state = "stored"

LEMMA LogIs == ASSUME ConnectorTypes PROVE Len(log) \in Nat /\ DOMAIN log = 1 .. Len(log)
BY DEF ConnectorTypes

LEMMA LooksOn ==
    ASSUME FleetInv, FleetInv', LooksInv, LogGoesOn,
           UNCHANGED <<lastCheck, batch, evaluated, unseen>>
    PROVE  LooksInv'
<1>1. /\ DOMAIN log = 1 .. Len(log) /\ DOMAIN log' = 1 .. Len(log')
      /\ Len(log) \in Nat /\ Len(log') \in Nat
  BY LogIs DEF FleetInv, ConnectorTypes
<1>2. DOMAIN log \subseteq DOMAIN log'
  BY <1>1 DEF LogGoesOn
<1>3. EventsTypes'
  BY <1>1, <1>2 DEF LooksInv, EventsTypes, LogGoesOn
<1>4. ErrorsConsidered'
  <2>1. \A e \in 1 .. lastCheck : e \in DOMAIN log
    BY <1>1 DEF LooksInv, EventsTypes
  <2>. QED
    BY <2>1 DEF LooksInv, ErrorsConsidered, LogGoesOn
<1>. QED
  BY <1>3, <1>4 DEF LooksInv

(* A step of the connector, or of Phoenix.                                 *)
LEMMA ConnectorsLog ==
    ASSUME FleetInv, FleetInv',
           \/ ConnectorStep
           \/ \E c \in Containers : Escalate(c)
           \/ UNCHANGED log
    PROVE  LogGoesOn
<1>1. Len(log) \in Nat /\ Len(log') \in Nat /\ log \in Seq(Events)
  BY LogIs DEF FleetInv, ConnectorTypes
<1>2. CASE UNCHANGED log
  BY <1>1, <1>2 DEF LogGoesOn
<1>3. ASSUME NEW x, log' = Append(log, x) PROVE LogGoesOn
  <2>1. Len(log') = Len(log) + 1 /\ \A e \in DOMAIN log : log'[e] = log[e]
    BY <1>1, <1>3
  <2>. QED
    BY <1>1, <2>1 DEF LogGoesOn
<1>4. CASE ConnectorStep
  <2>1. ASSUME NEW t \in Threads, NEW c \in Containers, Emit(t, c) PROVE LogGoesOn
    BY <1>2, <1>3, <2>1 DEF Emit
  <2>2. ASSUME NEW t \in Threads, StartSweep(t) \/ GiveUp(t) \/ Store(t) PROVE LogGoesOn
    BY <1>2, <2>2 DEF StartSweep, GiveUp, Store
  <2>3. ASSUME NEW t \in Threads, NEW c \in Containers, Pass(t, c) \/ Suppress(t, c)
        PROVE  LogGoesOn
    BY <1>2, <2>3 DEF Pass, Suppress
  <2>4. ASSUME NEW left \in {0, FlapCooldown}, ConnectorRestart(left) PROVE LogGoesOn
    BY <1>2, <2>4 DEF ConnectorRestart
  <2>. QED
    BY <1>4, <2>1, <2>2, <2>3, <2>4 DEF ConnectorStep
<1>5. CASE \E c \in Containers : Escalate(c)
  BY <1>3, <1>5 DEF Escalate
<1>. QED
  BY <1>2, <1>4, <1>5

(* A check takes what it considers out of the table, or goes past it.      *)
LEMMA ChecksLook ==
    ASSUME FleetInv, LooksInv, FirstCheck \/ Check
    PROVE  LooksInv'
<1>1. /\ log' = log /\ lastCheck' = Len(log) /\ evaluated' = evaluated
      /\ DOMAIN log = 1 .. Len(log) /\ Len(log) \in Nat
  BY LogIs DEF FirstCheck, Check, fleetVars, FleetInv
<1>2. CASE FirstCheck
  BY <1>1, <1>2 DEF FirstCheck, LooksInv, EventsTypes, ErrorsConsidered
<1>3. CASE Check
  <2>1. /\ batch = {} /\ batch' \subseteq Candidates
        /\ unseen' = unseen \cup (Candidates \ batch')
    BY <1>3 DEF Check, Oldest
  <2>2. /\ Candidates \subseteq DOMAIN log
        /\ \A e \in DOMAIN log : log[e].state = "stored" /\ log[e].severity = "error"
                                    => e <= lastCheck \/ e \in Candidates
    BY <1>1 DEF Candidates, Since, LooksInv, EventsTypes
  <2>3. EventsTypes'
    BY <1>1, <2>1, <2>2 DEF LooksInv, EventsTypes
  <2>4. ASSUME NEW e \in 1 .. lastCheck', log'[e].state = "stored", log'[e].severity = "error"
        PROVE  e \in evaluated' \cup batch' \cup unseen'
    <3>1. e \in Candidates \/ (e \in 1 .. lastCheck /\ e \notin Candidates)
      BY <1>1, <2>2, <2>4 DEF LooksInv, EventsTypes
    <3>. QED
      BY <1>1, <2>1, <2>4, <3>1 DEF LooksInv, ErrorsConsidered
  <2>. QED
    BY <2>3, <2>4 DEF LooksInv, ErrorsConsidered
<1>. QED
  BY <1>2, <1>3

(* An event of the check is evaluated.                                     *)
LEMMA TakesLook ==
    ASSUME FleetInv, LooksInv, Take, UNCHANGED <<log, lastCheck>>,
           \/ batch' = batch \ {Turn} /\ unseen' = unseen
           \/ batch' = {} /\ unseen' = unseen \cup (batch \ {Turn})
    PROVE  LooksInv'
<1>1. batch \in SUBSET Nat /\ batch \subseteq DOMAIN log
  BY LogIs DEF FleetInv, LooksInv, EventsTypes
<1>2. Turn \in batch
  BY <1>1, TurnIsOne DEF Take
<1>3. evaluated' = evaluated \cup {Turn}
  BY DEF Take
<1>. QED
  BY <1>1, <1>2, <1>3 DEF LooksInv, EventsTypes, ErrorsConsidered

(* An event is stored behind a check that has gone past it.                *)
LEMMA ArrivesLook ==
    ASSUME FleetInv, FleetInv', LooksInv, Arrive
    PROVE  LooksInv'
<1>1. PICK e \in DOMAIN log : /\ Commit(e) \/ CommitEscalation(e)
                              /\ unseen' = IF e <= lastCheck THEN unseen \cup {e} ELSE unseen
  BY DEF Arrive
<1>2. /\ Len(log') = Len(log) /\ DOMAIN log' = DOMAIN log
      /\ \A d \in DOMAIN log : d # e => log'[d] = log[d]
  BY <1>1, StoredIs DEF Commit, CommitEscalation, FleetInv
<1>3. UNCHANGED <<lastCheck, batch, evaluated>>
  BY DEF Arrive
<1>4. DOMAIN log = 1 .. Len(log) /\ Len(log) \in Nat
  BY LogIs DEF FleetInv
<1>. QED
  BY <1>1, <1>2, <1>3, <1>4 DEF LooksInv, EventsTypes, ErrorsConsidered

LEMMA RestartLooks ==
    ASSUME FleetInv, LooksInv, HermesRestart
    PROVE  LooksInv'
<1>1. /\ lastCheck' = 0 /\ batch' = {} /\ evaluated' = {} /\ unseen' = unseen
      /\ log' = [e \in DOMAIN log |-> Lost(log[e])]
  BY DEF HermesRestart, HermesStops
<1>2. DOMAIN log' = DOMAIN log /\ Len(log') = Len(log) /\ Len(log) \in Nat
  BY <1>1, LostIs, LogIs DEF FleetInv
<1>. QED
  BY <1>1, <1>2 DEF LooksInv, EventsTypes, ErrorsConsidered

(* Whatever step is taken, every error the watchdog is past is considered. *)
LEMMA LooksKeep == ASSUME FleetInv, LooksInv, [Next]_vars PROVE LooksInv'
<1>. DEFINE Rests == UNCHANGED <<lastCheck, batch, evaluated, unseen>>
<1>1. FleetInv'
  BY FleetKeeps
<1>2. CASE /\ ConnectorStep \/ \E c \in Containers, s \in States \cup {"absent"} : Change(c, s)
           /\ UNCHANGED watchdogVars
  <2>1. LogGoesOn
    BY <1>1, <1>2, ConnectorsLog DEF Change
  <2>. QED
    BY <1>1, <1>2, <2>1, LooksOn DEF watchdogVars
<1>3. CASE \E c \in Containers : Escalate(c)
  <2>1. LogGoesOn
    BY <1>1, <1>3, ConnectorsLog
  <2>. QED
    BY <1>1, <1>3, <2>1, LooksOn DEF Escalate, watchdogVars
<1>4. ASSUME Rests, UNCHANGED log PROVE LooksInv'
  BY <1>1, <1>4, ConnectorsLog, LooksOn
<1>5. CASE \E c \in Containers : WindowElapses(c) \/ Approve(c) \/ Cancel(c)
  BY <1>4, <1>5 DEF WindowElapses, Approve, Execute, Cancel, fleetVars
<1>6. CASE Time
  BY <1>4, <1>6 DEF Time, ConnectorTime
<1>7. CASE UNCHANGED vars
  BY <1>4, <1>7 DEF vars, fleetVars, watchdogVars
<1>8. CASE Dismiss
  BY <1>8, TakesLook DEF Dismiss, fleetVars
<1>9. CASE EvaluateRaises
  BY <1>9, TakesLook DEF EvaluateRaises
<1>10. CASE \E decision \in Decisions : Propose(decision[1], decision[2])
  BY <1>10, TakesLook DEF Propose, fleetVars
<1>. QED
  BY <1>1, <1>2, <1>3, <1>5, <1>6, <1>7, <1>8, <1>9, <1>10, ChecksLook, ArrivesLook, RestartLooks
     DEF Next

LEMMA ProposeActs ==
    ASSUME ActsInv, NEW c \in Containers, NEW action \in Safe \cup {"docker_stop"},
           Propose(c, action)
    PROVE  ActsInv'
<1>. DEFINE risk == Risk(Turn, c, action)
            x == [action |-> action, risk |-> risk]
<1>1. risk \in {"low", "medium"} /\ (risk = "low" => ~ Exhausted(c))
  BY DEF Risk
<1>2. Len(history[c]) \in Nat
  BY DEF ActsInv, ActionsTypes
<1>3. risk = "low" => Len(history[c]) < CrashloopThreshold
  BY <1>1, <1>2, WatchdogAssumption DEF Exhausted
<1>. HIDE DEF risk
<1>4. x \in Proposals /\ x.risk = risk
  BY <1>1 DEF Proposals
<1>5. /\ chill' = [chill EXCEPT ![c] = TargetCooldown]
      /\ pending' = [pending EXCEPT ![c] = x]
      /\ history' = history
  BY DEF Propose, risk
<1>. HIDE DEF x
<1>6. ActionsTypes'
  BY <1>4, <1>5, WatchdogAssumption DEF ActsInv, ActionsTypes
<1>7. LowRiskIsRare'
  BY <1>3, <1>4, <1>5 DEF ActsInv, ActionsTypes, LowRiskIsRare
<1>8. AutoRunsRationed'
  BY <1>5 DEF ActsInv, AutoRunsRationed
<1>. QED
  BY <1>6, <1>7, <1>8 DEF ActsInv

LEMMA NoProposalIs == NoProposal \in Proposals
BY DEF NoProposal, Proposals

LEMMA ExecuteActs ==
    ASSUME ActsInv, NEW c \in Containers, NEW source \in {"auto", "operator"}, Execute(c, source),
           source = "auto" => pending[c].risk = "low"
    PROVE  ActsInv'
<1>. DEFINE g == history'[c]
<1>1. /\ pending[c] # NoProposal
      /\ pending' = [pending EXCEPT ![c] = NoProposal]
      /\ history' = [history EXCEPT ![c] = Append(@, [age |-> 0, source |-> source])]
      /\ chill' = chill
  BY DEF Execute
<1>2. /\ g = Append(history[c], [age |-> 0, source |-> source])
      /\ \A d \in Containers : d # c => history'[d] = history[d]
      /\ history[c] \in Seq(Actions)
  BY <1>1 DEF ActsInv, ActionsTypes
<1>3. /\ g \in Seq(Actions) /\ Len(g) = Len(history[c]) + 1
      /\ source = "operator" => AutoRuns(g) = AutoRuns(history[c])
  BY <1>2, OneMoreAction
<1>4. ActionsTypes'
  <2>1. \A d \in Containers : history'[d] \in Seq(Actions)
    BY <1>2, <1>3 DEF ActsInv, ActionsTypes
  <2>2. history' \in [Containers -> Seq(Actions)]
    BY <1>1, <2>1 DEF ActsInv, ActionsTypes
  <2>. QED
    BY <1>1, <2>2, NoProposalIs DEF ActsInv, ActionsTypes
<1>5. LowRiskIsRare'
  BY <1>1, <1>2 DEF ActsInv, ActionsTypes, LowRiskIsRare
<1>6. Cardinality(AutoRuns(g)) <= CrashloopThreshold
  <2>1. CASE source = "operator"
    BY <1>3, <2>1 DEF ActsInv, AutoRunsRationed
  <2>2. CASE source = "auto"
    <3>1. Len(history[c]) < CrashloopThreshold /\ Len(history[c]) \in Nat
      BY <1>1, <1>2, <2>2 DEF ActsInv, LowRiskIsRare
    <3>2. Cardinality(AutoRuns(g)) \in Nat /\ Cardinality(AutoRuns(g)) <= Len(g)
      BY <1>3, AutoRunsAre
    <3>. QED
      BY <1>3, <3>1, <3>2, WatchdogAssumption
  <2>. QED
    BY <2>1, <2>2
<1>7. AutoRunsRationed'
  BY <1>2, <1>6 DEF ActsInv, AutoRunsRationed
<1>. QED
  BY <1>4, <1>5, <1>7 DEF ActsInv

LEMMA TimeActs == ASSUME ActsInv, Time PROVE ActsInv'
<1>1. /\ chill' = [c \in Containers |-> IF chill[c] > 0 THEN chill[c] - 1 ELSE 0]
      /\ history' = [c \in Containers |-> Aged(history[c])]
      /\ pending' = pending
  BY DEF Time
<1>2. ASSUME NEW c \in Containers
      PROVE  /\ history[c] \in Seq(Actions) /\ history'[c] \in Seq(Actions)
             /\ Len(history'[c]) <= Len(history[c])
             /\ Cardinality(AutoRuns(history'[c])) <= Cardinality(AutoRuns(history[c]))
  BY <1>1, AgedIsLess DEF ActsInv, ActionsTypes
<1>3. ActionsTypes'
  <2>1. chill' \in [Containers -> 0 .. TargetCooldown]
    BY <1>1, WatchdogAssumption DEF ActsInv, ActionsTypes
  <2>2. history' \in [Containers -> Seq(Actions)]
    BY <1>1, <1>2
  <2>. QED
    BY <1>1, <2>1, <2>2 DEF ActsInv, ActionsTypes
<1>4. LowRiskIsRare'
  <2>. SUFFICES ASSUME NEW c \in Containers, pending'[c] # NoProposal, pending'[c].risk = "low"
                PROVE  Len(history'[c]) < CrashloopThreshold
    BY DEF LowRiskIsRare
  <2>1. Len(history[c]) < CrashloopThreshold
    BY <1>1 DEF ActsInv, LowRiskIsRare
  <2>2. Len(history[c]) \in Nat /\ Len(history'[c]) \in Nat
    BY <1>2
  <2>. QED
    BY <1>2, <2>1, <2>2, WatchdogAssumption
<1>5. AutoRunsRationed'
  <2>. SUFFICES ASSUME NEW c \in Containers
                PROVE  Cardinality(AutoRuns(history'[c])) <= CrashloopThreshold
    BY DEF AutoRunsRationed
  <2>1. Cardinality(AutoRuns(history[c])) <= CrashloopThreshold
    BY DEF ActsInv, AutoRunsRationed
  <2>2. Cardinality(AutoRuns(history[c])) \in Nat /\ Cardinality(AutoRuns(history'[c])) \in Nat
    BY <1>2, AutoRunsAre
  <2>. QED
    BY <1>2, <2>1, <2>2, WatchdogAssumption
<1>. QED
  BY <1>3, <1>4, <1>5 DEF ActsInv

(* Nothing is proposed, and nothing was run.                               *)
LEMMA NothingRun ==
    ASSUME chill = [c \in Containers |-> 0], pending = [c \in Containers |-> NoProposal],
           history = [c \in Containers |-> <<>>]
    PROVE  ActsInv
<1>1. ActionsTypes
  BY NoProposalIs, WatchdogAssumption DEF ActionsTypes
<1>2. <<>> \in Seq(Actions) /\ Len(<<>>) = 0
  OBVIOUS
<1>3. Cardinality(AutoRuns(<<>>)) \in Nat /\ Cardinality(AutoRuns(<<>>)) <= 0
  BY <1>2, AutoRunsAre
<1>4. AutoRunsRationed
  BY <1>3, WatchdogAssumption DEF AutoRunsRationed
<1>5. LowRiskIsRare
  BY DEF LowRiskIsRare
<1>. QED
  BY <1>1, <1>4, <1>5 DEF ActsInv

LEMMA ActsKeep == ASSUME ActsInv, [Next]_vars PROVE ActsInv'
<1>1. ASSUME UNCHANGED <<chill, pending, history>> PROVE ActsInv'
  BY <1>1 DEF ActsInv, ActionsTypes, LowRiskIsRare, AutoRunsRationed
<1>2. CASE UNCHANGED watchdogVars
  BY <1>1, <1>2 DEF watchdogVars
<1>3. CASE Arrive \/ FirstCheck \/ Check \/ Dismiss \/ EvaluateRaises
  BY <1>1, <1>3 DEF Arrive, FirstCheck, Check, Dismiss, EvaluateRaises
<1>4. CASE HermesRestart
  <2>1. /\ chill' = [c \in Containers |-> 0] /\ pending' = [c \in Containers |-> NoProposal]
        /\ history' = [c \in Containers |-> <<>>]
    BY <1>4 DEF HermesRestart
  <2>2. <<>> \in Seq(Actions) /\ Len(<<>>) = 0
    OBVIOUS
  <2>3. Cardinality(AutoRuns(<<>>)) \in Nat /\ Cardinality(AutoRuns(<<>>)) <= 0
    BY <2>2, AutoRunsAre
  <2>4. AutoRunsRationed'
    BY <2>1, <2>3, WatchdogAssumption DEF AutoRunsRationed
  <2>. QED
    BY <2>1, <2>4, NoProposalIs, WatchdogAssumption DEF ActsInv, ActionsTypes, LowRiskIsRare
<1>5. CASE \E decision \in Decisions : Propose(decision[1], decision[2])
  BY <1>5, ProposeActs DEF Decisions
<1>6. ASSUME NEW c \in Containers, WindowElapses(c) PROVE ActsInv'
  BY <1>6, ExecuteActs DEF WindowElapses
<1>7. ASSUME NEW c \in Containers, Approve(c) PROVE ActsInv'
  BY <1>7, ExecuteActs DEF Approve
<1>8. ASSUME NEW c \in Containers, Cancel(c) PROVE ActsInv'
  <2>1. /\ pending' = [pending EXCEPT ![c] = NoProposal]
        /\ UNCHANGED <<chill, history>>
    BY <1>8 DEF Cancel
  <2>. QED
    BY <2>1, NoProposalIs DEF ActsInv, ActionsTypes, LowRiskIsRare, AutoRunsRationed
<1>9. CASE \E c \in Containers : Escalate(c)
  BY <1>2, <1>9 DEF Escalate
<1>10. CASE UNCHANGED vars
  BY <1>2, <1>10 DEF vars
<1>. QED
  BY <1>2, <1>3, <1>4, <1>5, <1>6, <1>7, <1>8, <1>9, <1>10, TimeActs DEF Next

-----------------------------------------------------------------------------
(* The theorems.                                                           *)

LEMMA InvHolds == Spec => [](FleetInv /\ LooksInv /\ ActsInv)
<1>1. Init => FleetInv /\ LooksInv /\ ActsInv
  <2>. SUFFICES ASSUME Init PROVE FleetInv /\ LooksInv /\ ActsInv
    OBVIOUS
  <2>1. LooksInv
    BY DEF Init, ConnectorInit, WatchdogInit, LooksInv, EventsTypes, ErrorsConsidered
  <2>. QED
    BY <2>1, FleetStarts, NothingRun DEF Init, WatchdogInit
<1>2. FleetInv /\ LooksInv /\ ActsInv /\ [Next]_vars => (FleetInv /\ LooksInv /\ ActsInv)'
  BY FleetKeeps, LooksKeep, ActsKeep
<1>. QED
  BY <1>1, <1>2, PTL DEF Spec

(* The variables of the connector and of the watchdog keep their types,    *)
(* and between two sweeps Hermes knows every object as the last sweep      *)
(* found it, or has been excused.                                          *)
THEOREM HermesIsTold == Spec => []FleetIsKnown
<1>1. FleetInv /\ LooksInv /\ ActsInv => TypeOK
  <2>. SUFFICES ASSUME FleetInv, LooksInv, ActsInv PROVE TypeOK
    OBVIOUS
  <2>1. ASSUME NEW t \in Threads, NEW data \in {baseline, disk, found}
        PROVE  DOMAIN data[t] \subseteq Containers /\ Range(data[t]) \subseteq States
    <3>1. data[t] \in Tables
      BY DEF FleetInv, ConnectorTypes
    <3>. QED
      BY <3>1, TableHas DEF Range
  <2>2. \A t \in Threads : post[t] # 0 => log[post[t]].by = t /\ log[post[t]].state = "stamped"
    BY DEF FleetInv, Aware, PostSaysFound
  <2>3. \A t \in Threads : mode[t] # "sweeping" => sweep[t] = {} /\ found[t] = Nowhere
    BY DEF FleetInv, Aware, SweepsAreWhole
  <2>4. /\ actual \in [Containers -> States \cup {"absent"}]
        /\ cool \in [Keys -> 0 .. FlapCooldown] /\ sweep \in [Threads -> SUBSET Containers]
        /\ mode \in [Threads -> {"resting", "sweeping", "dead"}]
        /\ rest \in [Threads -> 0 .. EndpointEvery + 1]
        /\ said \in [Threads -> [Containers -> Words \cup {"nothing"}]]
    BY DEF FleetInv, ConnectorTypes
  <2>5. lastCheck <= Len(log) /\ batch \subseteq DOMAIN log /\ evaluated \cup unseen \subseteq DOMAIN log
    BY LogIs DEF LooksInv, EventsTypes, FleetInv
  <2>6. chill \in [Containers -> 0 .. TargetCooldown] /\ pending \in [Containers -> Proposals]
    BY DEF ActsInv, ActionsTypes
  <2>. QED
    BY <2>1, <2>2, <2>3, <2>4, <2>5, <2>6 DEF TypeOK, Proposals
<1>2. FleetInv => HermesKnows
  <2>. SUFFICES ASSUME FleetInv, NEW t \in Threads, NEW c \in Containers, mode[t] = "resting"
                PROVE  <<t, c>> \in excused \/ said[t][c] \in Known(t, c) \cup {"nothing"}
    BY DEF HermesKnows
  <2>1. post[t] = 0
    BY DEF FleetInv, Aware, PostSaysFound
  <2>. QED
    BY <2>1 DEF FleetInv, Aware, Heard, Current, KnownIn, Known
<1>. QED
  BY <1>1, <1>2, InvHolds, PTL DEF FleetIsKnown

(* Every stored error the watchdog is past was evaluated, is about to be,  *)
(* or is one of those it never looks at.                                   *)
THEOREM NoErrorIsSkipped == Spec => []ErrorsConsidered
<1>1. LooksInv => ErrorsConsidered
  BY DEF LooksInv
<1>. QED
  BY <1>1, InvHolds, PTL

(* Within a window no more actions on a container run by themselves than   *)
(* the threshold allows.                                                   *)
THEOREM AutoRunsStayRationed == Spec => []AutoRunsRationed
<1>1. ActsInv => AutoRunsRationed
  BY DEF ActsInv
<1>. QED
  BY <1>1, InvHolds, PTL

-----------------------------------------------------------------------------
(* The LAN script, the storm detector and the exporter.                    *)

(* SetToSeq lists every element of a finite set.                           *)
LEMMA Listing ==
    ASSUME NEW S, IsFiniteSet(S)
    PROVE  /\ SetToSeq(S) \in Seq(S)
           /\ \A x \in S : \E i \in 1..Len(SetToSeq(S)) : SetToSeq(S)[i] = x
<1>. DEFINE n == Cardinality(S)
            s == SetToSeq(S)
<1>1. n \in Nat /\ ExistsBijection(1..n, S)
  BY FS_CardinalityType
<1>2. s \in [1..n -> S] /\ IsInjective(s)
  BY <1>1 DEF SetToSeq, ExistsBijection, Bijection, Injection
<1>3. s \in Surjection(1..n, S)
  <2>1. s \in Injection(1..n, S)
    BY <1>2 DEF Injection
  <2>2. IsFiniteSet(1..n) /\ Cardinality(1..n) = n
    BY <1>1, FS_Interval
  <2>. QED
    BY <2>1, <2>2, FS_Injection
<1>4. s \in Seq(S) /\ Len(s) = n
  BY <1>1, <1>2
<1>. QED
  BY <1>3, <1>4 DEF Surjection

-----------------------------------------------------------------------------
(* The script of the LAN, and the detector.                                *)

StormSpec == StormInit /\ [][StormNext]_sourceVars

RowTables == UNION {[S -> BOOLEAN] : S \in SUBSET Devices}

WatcherTypes ==
    /\ lan \in [Devices -> DeviceStates]
    /\ previous \in RowTables /\ open \in RowTables /\ stored \in RowTables
    /\ watch \in [pc : {"idle", "handle"}, todo : Seq(Devices), current : RowTables]
    /\ broken \in BOOLEAN
    /\ now \in Nat

(* In a pass every device that was read is still to be handled, or its row *)
(* is in the open transaction as it was read. A transaction that is        *)
(* aborted has handled none.                                               *)
ToHandle(d) == \E i \in 1..Len(watch.todo) : watch.todo[i] = d

PassIsWritten ==
    /\ watch.todo \in Seq(DOMAIN watch.current)
    /\ watch.pc = "handle" =>
         \A d \in DOMAIN watch.current :
             \/ ToHandle(d)
             \/ ~broken /\ d \in DOMAIN open /\ open[d] = watch.current[d]

WatcherInv == WatcherTypes /\ PassIsWritten /\ RowsFollowPasses

LEMMA EmptyTable == << >> \in RowTables /\ DOMAIN << >> = {}
BY DEF RowTables

LEMMA RowsAreTable ==
    ASSUME NEW S \in SUBSET Devices, NEW table \in [S -> BOOLEAN]
    PROVE  table \in RowTables
BY DEF RowTables

LEMMA TableType ==
    ASSUME NEW table \in RowTables
    PROVE  /\ DOMAIN table \subseteq Devices
           /\ \A d \in DOMAIN table : table[d] \in BOOLEAN
BY DEF RowTables

(* Reading starts a pass that has every device to handle.                  *)
LEMMA ReadKeeps == ASSUME WatcherInv, Read PROVE WatcherInv'
<1>. DEFINE there == {d \in Devices : lan[d] # "absent"}
            current == [d \in there |-> lan[d] = "online"]
<1>1. IsFiniteSet(there)
  BY WatcherAssumption, FS_Subset DEF WatcherAssumption
<1>2. /\ watch' = [pc |-> "handle", todo |-> SetToSeq(there), current |-> current]
      /\ UNCHANGED <<lan, previous, open, broken, stored, now>>
  BY DEF Read
<1>3. SetToSeq(there) \in Seq(there)
  BY <1>1, Listing
<1>4. SetToSeq(there) \in Seq(Devices)
  BY <1>3, SeqMonotonic
<1>5. current \in RowTables /\ DOMAIN current = there
  <2>1. there \in SUBSET Devices /\ current \in [there -> BOOLEAN]
    OBVIOUS
  <2>. HIDE DEF there, current
  <2>. QED
    BY <2>1, RowsAreTable
<1>6. PassIsWritten'
  <2>1. \A d \in there : \E i \in 1..Len(SetToSeq(there)) : SetToSeq(there)[i] = d
    BY <1>1, Listing
  <2>. HIDE DEF there, current
  <2>. QED
    BY <1>2, <1>3, <1>5, <2>1 DEF PassIsWritten, ToHandle
<1>7. watch' \in [pc : {"idle", "handle"}, todo : Seq(Devices), current : RowTables]
  BY <1>2, <1>4, <1>5
<1>. QED
  BY <1>2, <1>6, <1>7 DEF WatcherInv, WatcherTypes, RowsFollowPasses

LEMMA HandleKeeps == ASSUME WatcherInv, HandleDevice PROVE WatcherInv'
<1>. DEFINE d == Head(watch.todo)
            current == watch.current
<1>1. /\ watch' = [watch EXCEPT !.todo = Tail(watch.todo)]
      /\ open' = Put(open, d, current[d])
      /\ UNCHANGED <<lan, previous, broken, stored, now>>
      /\ watch.pc = "handle" /\ watch.todo # << >> /\ ~broken
  BY DEF HandleDevice
<1>2. /\ watch \in [pc : {"idle", "handle"}, todo : Seq(Devices), current : RowTables]
      /\ watch.todo \in Seq(DOMAIN current) /\ current \in RowTables /\ open \in RowTables
  BY DEF WatcherInv, WatcherTypes, PassIsWritten
<1>3. d \in DOMAIN current /\ Tail(watch.todo) \in Seq(DOMAIN current)
  BY <1>1, <1>2, HeadTailProperties
<1>4. d \in Devices /\ current[d] \in BOOLEAN /\ Tail(watch.todo) \in Seq(Devices)
  BY <1>1, <1>2, <1>3, TableType, HeadTailProperties
<1>5. /\ open' \in RowTables /\ DOMAIN open' = DOMAIN open \cup {d}
      /\ open'[d] = current[d]
      /\ \A e \in DOMAIN open : e # d => open'[e] = open[e]
  <2>1. open' = [e \in DOMAIN open \cup {d} |-> IF e = d THEN current[d] ELSE open[e]]
    BY <1>1 DEF Put
  <2>2. DOMAIN open' = DOMAIN open \cup {d}
    BY <2>1
  <2>3. open'[d] = current[d]
    BY <2>1
  <2>4. \A e \in DOMAIN open : e # d => open'[e] = open[e]
    BY <2>1
  <2>5. \A e \in DOMAIN open \cup {d} : open'[e] \in BOOLEAN
    BY <1>2, <1>4, <2>3, <2>4, TableType
  <2>6. open' \in [DOMAIN open \cup {d} -> BOOLEAN]
    BY <2>1, <2>5
  <2>7. DOMAIN open \cup {d} \in SUBSET Devices
    BY <1>2, <1>4, TableType
  <2>8. open' \in RowTables
    BY <2>6, <2>7, RowsAreTable
  <2>. QED
    BY <2>2, <2>3, <2>4, <2>8
<1>6. watch' = [pc |-> "handle", todo |-> Tail(watch.todo), current |-> current]
  BY <1>1, <1>2
<1>7. ASSUME NEW e \in DOMAIN current, e # d, ToHandle(e) PROVE ToHandle(e)'
  <2>1. PICK i \in 1..Len(watch.todo) : watch.todo[i] = e
    BY <1>7 DEF ToHandle
  <2>2. i # 1 /\ Len(watch.todo) \in Nat
    BY <1>1, <1>2, <1>7, <2>1, LenProperties
  <2>3. /\ Len(Tail(watch.todo)) = Len(watch.todo) - 1
        /\ \A j \in 1..Len(Tail(watch.todo)) : Tail(watch.todo)[j] = watch.todo[j + 1]
    BY <1>1, <1>2, HeadTailProperties
  <2>4. i - 1 \in 1..Len(Tail(watch.todo)) /\ Tail(watch.todo)[i - 1] = e
    BY <2>1, <2>2, <2>3
  <2>. QED
    BY <1>6, <2>4 DEF ToHandle
<1>8. PassIsWritten'
  <2>1. ASSUME NEW e \in DOMAIN current
        PROVE  ToHandle(e)' \/ (~broken' /\ e \in DOMAIN open' /\ open'[e] = current[e])
    BY <1>1, <1>5, <1>7 DEF WatcherInv, PassIsWritten
  <2>. QED
    BY <1>3, <1>6, <2>1 DEF PassIsWritten
<1>9. watch' \in [pc : {"idle", "handle"}, todo : Seq(Devices), current : RowTables]
  BY <1>2, <1>4, <1>6
<1>. QED
  BY <1>1, <1>5, <1>8, <1>9 DEF WatcherInv, WatcherTypes, RowsFollowPasses

LEMMA RestingKeeps == watch' = Resting => /\ PassIsWritten'
                                          /\ watch' \in [pc : {"idle", "handle"}, todo : Seq(Devices), current : RowTables]
BY EmptyTable DEF Resting, PassIsWritten

(* What a pass has read is what it has stored when it has committed.       *)
LEMMA PassCommitKeeps == ASSUME WatcherInv, CommitPass PROVE WatcherInv'
<1>1. /\ watch.pc = "handle" /\ watch.todo = << >> /\ ~broken
      /\ stored' = [d \in DOMAIN stored \cup DOMAIN open |->
                      IF d \in DOMAIN open THEN open[d] ELSE stored[d]]
      /\ open' = << >> /\ previous' = watch.current /\ watch' = Resting
      /\ UNCHANGED <<lan, broken, now>>
  BY DEF CommitPass, Remembered
<1>2. open \in RowTables /\ stored \in RowTables /\ watch.current \in RowTables
  BY DEF WatcherInv, WatcherTypes
<1>3. \A d \in DOMAIN watch.current : ~ToHandle(d)
  BY <1>1 DEF ToHandle
<1>4. \A d \in DOMAIN watch.current : d \in DOMAIN open /\ open[d] = watch.current[d]
  BY <1>1, <1>3 DEF WatcherInv, PassIsWritten
<1>5. stored' \in RowTables
  <2>1. \A d \in DOMAIN open : d \in Devices /\ open[d] \in BOOLEAN
    BY <1>2, TableType
  <2>2. \A d \in DOMAIN stored : d \in Devices /\ stored[d] \in BOOLEAN
    BY <1>2, TableType
  <2>. QED
    <3>1. stored' \in [DOMAIN stored \cup DOMAIN open -> BOOLEAN]
      BY <1>1, <2>1, <2>2
    <3>2. DOMAIN stored \cup DOMAIN open \subseteq Devices
      BY <2>1, <2>2
    <3>. QED
      BY <3>1, <3>2, RowsAreTable
<1>6. RowsFollowPasses'
  BY <1>1, <1>4 DEF RowsFollowPasses
<1>. QED
  BY <1>1, <1>2, <1>5, <1>6, RestingKeeps, EmptyTable DEF WatcherInv, WatcherTypes

LEMMA WatcherKeeps ==
    ASSUME WatcherInv, WatcherStep \/ \E d \in Devices : DeviceChanges(d)
    PROVE  WatcherInv'
<1>1. CASE \E d \in Devices : DeviceChanges(d)
  BY <1>1 DEF DeviceChanges, WatcherInv, WatcherTypes, PassIsWritten, RowsFollowPasses, ToHandle
<1>2. CASE PassFails
  BY <1>2, RestingKeeps, EmptyTable
     DEF PassFails, Remembered, WatcherInv, WatcherTypes, RowsFollowPasses
<1>3. CASE CommitNothing
  <2>1. \A d \in DOMAIN watch.current : ~ToHandle(d)
    BY <1>3 DEF CommitNothing, ToHandle
  <2>2. DOMAIN watch.current = {}
    BY <1>3, <2>1 DEF CommitNothing, WatcherInv, PassIsWritten
  <2>. QED
    BY <1>3, <2>2, RestingKeeps
       DEF CommitNothing, Remembered, WatcherInv, WatcherTypes, RowsFollowPasses
<1>4. CASE WatcherRestart
  BY <1>4, RestingKeeps, EmptyTable
     DEF WatcherRestart, WatcherInv, WatcherTypes, RowsFollowPasses
<1>. QED
  BY <1>1, <1>2, <1>3, <1>4, ReadKeeps, HandleKeeps, PassCommitKeeps DEF WatcherStep

(* What the script compares with is what it has stored, whatever fails.    *)
THEOREM RowsAreFollowed == StormSpec => []RowsFollowPasses
<1>1. StormInit => WatcherInv
  <2>. SUFFICES ASSUME StormInit PROVE WatcherInv
    OBVIOUS
  <2>. USE DEF StormInit, WatcherInit
  <2>1. lan \in [Devices -> DeviceStates] /\ broken \in BOOLEAN /\ now \in Nat
    BY DEF DeviceStates
  <2>2. previous \in RowTables /\ open \in RowTables /\ stored \in RowTables /\ DOMAIN previous = {}
    BY EmptyTable
  <2>3. watch \in [pc : {"idle", "handle"}, todo : Seq(Devices), current : RowTables]
    BY EmptyTable DEF Resting
  <2>4. PassIsWritten
    BY EmptyTable DEF Resting, PassIsWritten
  <2>. QED
    BY <2>1, <2>2, <2>3, <2>4 DEF WatcherInv, WatcherTypes, RowsFollowPasses
<1>2. WatcherInv /\ [StormNext]_sourceVars => WatcherInv'
  <2>. SUFFICES ASSUME WatcherInv, [StormNext]_sourceVars PROVE WatcherInv'
    OBVIOUS
  <2>1. ASSUME UNCHANGED watcherVars, now' \in Nat PROVE WatcherInv'
    BY <2>1 DEF watcherVars, WatcherInv, WatcherTypes, PassIsWritten, RowsFollowPasses, ToHandle
  <2>2. CASE CheckStorms \/ StormRestart \/ \E k \in StormKinds : EmitStorm(k)
    BY <2>1, <2>2 DEF CheckStorms, StormRestart, EmitStorm, WatcherInv, WatcherTypes
  <2>3. CASE StormTick
    BY <2>1, <2>3 DEF StormTick, WatcherInv, WatcherTypes
  <2>4. CASE UNCHANGED sourceVars
    BY <2>1, <2>4 DEF sourceVars, WatcherInv, WatcherTypes
  <2>. QED
    BY <2>2, <2>3, <2>4, WatcherKeeps DEF StormNext
<1>3. WatcherInv => RowsFollowPasses
  BY DEF WatcherInv
<1>. QED
  BY <1>1, <1>2, <1>3, PTL DEF StormSpec

DetectorTypes ==
    /\ detector \in [pc : {"idle", "emit"}, at : Nat \cup {Unreported},
                     over : SUBSET StormKinds, todo : SUBSET StormKinds]
    /\ reported \in [StormKinds -> Nat \cup {Unreported}]
    /\ raised \in [StormKinds -> Nat \cup {Unreported}]
    /\ now \in Nat

(* A kind that was reported has its event, or making it raised: otherwise  *)
(* to be quiet about it would lose the storm. What a check has dealt with  *)
(* is reported when the check is not over yet, too.                        *)
HasEvent(table, k, at) == \E e \in table : e.module = "hermes" /\ e.type = k /\ e.at = at

Dealt(k) == (\E at \in Nat : HasEvent(events, k, at) /\ Fresh(at)) \/ Fresh(raised[k])

ReportsAreMade ==
    /\ \A k \in StormKinds :
         reported[k] # Unreported => HasEvent(events, k, reported[k]) \/ raised[k] = reported[k]
    /\ \A k \in detector.over \ detector.todo : Dealt(k)
    /\ detector.pc = "idle" => detector.todo = {}
    /\ detector.pc = "emit" => detector.at \in Nat

DetectorInv == DetectorTypes /\ ReportsAreMade

LEMMA EventsStay ==
    ASSUME DetectorInv, UNCHANGED stormVars, events \subseteq events', now' \in Nat
    PROVE  DetectorInv'
<1>1. \A k, at : HasEvent(events, k, at) => HasEvent(events', k, at)
  BY DEF HasEvent
<1>2. \A k : Dealt(k) => Dealt(k)'
  BY <1>1 DEF Dealt, Fresh, Within, stormVars
<1>. QED
  BY <1>1, <1>2 DEF DetectorInv, DetectorTypes, ReportsAreMade, stormVars

(* Nothing is taken out of the events table.                               *)
LEMMA WatcherAdds ==
    ASSUME WatcherStep \/ \E d \in Devices : DeviceChanges(d)
    PROVE  events \subseteq events' /\ now' = now
BY DEF WatcherStep, DeviceChanges, Read, HandleDevice, PassFails, CommitPass, CommitNothing,
       WatcherRestart, WithEvent

(* A kind is done with by an event of now, by one that keeps it quiet, or  *)
(* by an exception.                                                        *)
LEMMA StormEmitKeeps ==
    ASSUME DetectorInv, NEW k \in StormKinds, EmitStorm(k) PROVE DetectorInv'
<1>. USE DEF DetectorInv, DetectorTypes, ReportsAreMade
<1>1. /\ detector.pc = "emit" /\ detector.at \in Nat
      /\ reported' = [reported EXCEPT ![k] = Noted(k)] /\ now' = now
      /\ reported'[k] = Noted(k)
      /\ \A j \in StormKinds : j # k => reported'[j] = reported[j]
      /\ reported' \in [StormKinds -> Nat \cup {Unreported}]
  BY DEF EmitStorm, Noted
<1>2. detector.at # Unreported
  BY <1>1 DEF Unreported
<1>3. CASE /\ detector' = StormDone(k) /\ raised' = raised
           /\ events' = IF Quiet(k) THEN events ELSE WithEvent("hermes", k, detector.at)
  <2>. DEFINE todo == detector.todo \ {k}
              pc == IF todo = {} THEN "idle" ELSE "emit"
  <2>1. detector' = [pc |-> pc, at |-> detector.at, over |-> detector.over, todo |-> todo]
    BY <1>3 DEF StormDone
  <2>2. events \subseteq events'
    BY <1>3 DEF WithEvent
  <2>3. \A j, at : HasEvent(events, j, at) => HasEvent(events', j, at)
    BY <2>2 DEF HasEvent
  <2>4. \A at : Fresh(at)' <=> Fresh(at)
    BY <2>1 DEF Fresh, Within
  <2>5. \A j : Dealt(j) => Dealt(j)'
    BY <1>3, <2>3, <2>4 DEF Dealt
  <2>6. ~Quiet(k) => HasEvent(events', k, detector.at)
    <3>1. PICK n : ~Quiet(k) => [module |-> "hermes", type |-> k, at |-> detector.at, nth |-> n] \in events'
      BY <1>3 DEF WithEvent
    <3>2. [module |-> "hermes", type |-> k, at |-> detector.at, nth |-> n].at = detector.at
      OBVIOUS
    <3>. QED
      BY <3>1, <3>2 DEF HasEvent
  <2>7. HasEvent(events', k, reported'[k]) \/ raised'[k] = reported'[k]
    <3>1. CASE Quiet(k)
      <4>1. reported'[k] = reported[k] /\ reported[k] # Unreported
        BY <1>1, <3>1 DEF Noted, Quiet, Within
      <4>. QED
        BY <1>3, <2>3, <4>1
    <3>2. CASE ~Quiet(k)
      BY <1>1, <2>6, <3>2 DEF Noted
    <3>. QED
      BY <3>1, <3>2
  <2>8. Fresh(reported'[k]) /\ reported'[k] \in Nat
    <3>1. CASE Quiet(k)
      BY <1>1, <3>1 DEF Noted, Quiet, Within, Fresh
    <3>2. CASE ~Quiet(k)
      BY <1>1, <3>2 DEF Noted, Fresh
    <3>. QED
      BY <3>1, <3>2
  <2>9. Dealt(k)'
    BY <2>4, <2>7, <2>8 DEF Dealt
  <2>10. \A j \in StormKinds :
           reported'[j] # Unreported => HasEvent(events', j, reported'[j]) \/ raised'[j] = reported'[j]
    BY <1>1, <1>3, <2>3, <2>7
  <2>11. \A j \in detector.over \ todo : Dealt(j)'
    BY <2>5, <2>9
  <2>12. DetectorTypes'
    BY <1>1, <1>3, <2>1
  <2>. QED
    BY <1>1, <2>1, <2>10, <2>11, <2>12
<1>4. CASE /\ raised' = [raised EXCEPT ![k] = detector.at] /\ ~Quiet(k)
           /\ detector' = [NoCheck EXCEPT !.at = detector.at] /\ events' = events
  <2>1. detector' = [pc |-> "idle", at |-> detector.at, over |-> {}, todo |-> {}]
    BY <1>4 DEF NoCheck
  <2>2. reported'[k] = detector.at /\ raised'[k] = detector.at
    BY <1>1, <1>4 DEF Noted
  <2>3. \A j \in StormKinds : j # k => raised'[j] = raised[j]
    BY <1>4
  <2>4. \A j, at : HasEvent(events, j, at) => HasEvent(events', j, at)
    BY <1>4 DEF HasEvent
  <2>5. raised' \in [StormKinds -> Nat \cup {Unreported}]
    BY <1>1, <1>4
  <2>. QED
    BY <1>1, <2>1, <2>2, <2>3, <2>4, <2>5
<1>. QED
  BY <1>3, <1>4 DEF EmitStorm

(* Every burst has been reported when the check that found it is over.     *)
THEOREM StormsAreReported == StormSpec => []BurstsReported
<1>1. StormInit => DetectorInv
  BY DEF StormInit, WatcherInit, DetectorInv, DetectorTypes, ReportsAreMade, NoCheck
<1>2. DetectorInv /\ [StormNext]_sourceVars => DetectorInv'
  <2>. SUFFICES ASSUME DetectorInv, [StormNext]_sourceVars PROVE DetectorInv'
    OBVIOUS
  <2>1. CASE /\ WatcherStep \/ \E d \in Devices : DeviceChanges(d)
             /\ UNCHANGED stormVars
    BY <2>1, WatcherAdds, EventsStay DEF DetectorInv, DetectorTypes
  <2>2. CASE CheckStorms
    <3>1. detector' = [pc |-> "emit", at |-> now, over |-> Over, todo |-> Over]
      BY <2>2 DEF CheckStorms
    <3>2. Over \subseteq StormKinds /\ UNCHANGED <<events, now, reported, raised>>
      BY <2>2 DEF CheckStorms, Over
    <3>. QED
      BY <3>1, <3>2 DEF DetectorInv, DetectorTypes, ReportsAreMade, HasEvent
  <2>3. CASE StormTick
    BY <2>3, EventsStay DEF StormTick, DetectorInv, DetectorTypes
  <2>4. CASE StormRestart
    <3>1. detector' = [pc |-> "idle", at |-> detector.at, over |-> {}, todo |-> {}]
      BY <2>4 DEF StormRestart, NoCheck
    <3>2. /\ reported' = [k \in StormKinds |-> Unreported]
          /\ UNCHANGED <<events, now, raised>>
      BY <2>4 DEF StormRestart
    <3>3. DetectorTypes'
      BY <3>1, <3>2 DEF DetectorInv, DetectorTypes
    <3>4. \A k \in StormKinds : reported'[k] = Unreported
      BY <3>2
    <3>5. ReportsAreMade'
      BY <3>1, <3>4 DEF ReportsAreMade
    <3>. QED
      BY <3>3, <3>5 DEF DetectorInv
  <2>5. CASE UNCHANGED sourceVars
    BY <2>5, EventsStay DEF sourceVars, DetectorInv, DetectorTypes
  <2>. QED
    BY <2>1, <2>2, <2>3, <2>4, <2>5, StormEmitKeeps DEF StormNext
<1>3. DetectorInv => BurstsReported
  BY DEF DetectorInv, ReportsAreMade, BurstsReported, Dealt, HasEvent
<1>. QED
  BY <1>1, <1>2, <1>3, PTL DEF StormSpec

-----------------------------------------------------------------------------
(* The exporter of Pulse.                                                  *)

PulseSpec == PulseInit /\ [][PulseNext]_pulseVars

RoundIsWhole ==
    round = [pc |-> round.pc, taken |-> round.taken, passed |-> round.passed, todo |-> round.todo]

(* Of a service whose posts all got through, Hermes knows what the last    *)
(* round saw, before the next round is compared with it; while the changes *)
(* are posted, it knows the opposite of exactly what is still to be        *)
(* posted.                                                                 *)
AllTold ==
    /\ round.pc \in {"wait", "probe", "post"}
    /\ DOMAIN told = DOMAIN up
    /\ round.pc # "post" => \A s \in DOMAIN up \ missed : told[s] = up[s]

ChangesToPost ==
    round.pc = "post" =>
        /\ DOMAIN round.todo \subseteq DOMAIN up
        /\ \A s \in DOMAIN round.todo : round.todo[s] = up[s]
        /\ \A s \in DOMAIN up \ missed :
              IF s \in DOMAIN round.todo THEN told[s] # up[s] ELSE told[s] = up[s]

PulseInv == RoundIsWhole /\ AllTold /\ ChangesToPost

LEMMA NothingToPost == DOMAIN << >> = {}
OBVIOUS

(* While a round only probes, or is given up, nothing that is told changes.*)
LEMMA RoundKeeps ==
    ASSUME PulseInv, round.pc # "post", RoundIsWhole', round'.pc \in {"wait", "probe"},
           UNCHANGED <<up, told, missed>>
    PROVE  PulseInv'
BY DEF PulseInv, AllTold, ChangesToPost

LEMMA SweepKeeps == ASSUME PulseInv, NoteSweep PROVE PulseInv'
<1>. DEFINE new == Reported
            kept == {s \in DOMAIN new : s \in DOMAIN up}
            changed == {s \in kept : up[s] # new[s]}
            todo == [s \in changed |-> new[s]]
<1>1. /\ round.pc = "probe"
      /\ up' = new
      /\ round' = [pc |-> "post", taken |-> << >>, passed |-> << >>, todo |-> todo]
      /\ told' = [s \in DOMAIN new |-> IF s \in DOMAIN up THEN told[s] ELSE new[s]]
      /\ missed' = missed \cap DOMAIN up \cap DOMAIN new
  BY DEF NoteSweep, Measured, Previous, Waiting
<1>. HIDE DEF new
<1>2. round'.pc = "post" /\ round'.todo = todo /\ RoundIsWhole'
  BY <1>1 DEF RoundIsWhole
<1>3. DOMAIN round'.todo = changed /\ \A s \in changed : round'.todo[s] = new[s]
  BY <1>2
<1>4. ASSUME NEW s \in DOMAIN up', s \notin missed'
      PROVE  IF s \in changed THEN told'[s] # up'[s] ELSE told'[s] = up'[s]
  BY <1>1, <1>4 DEF PulseInv, AllTold
<1>. QED
  BY <1>1, <1>2, <1>3, <1>4 DEF PulseInv, AllTold, ChangesToPost

LEMMA PostKeeps == ASSUME PulseInv, NEW s, PostChange(s) PROVE PulseInv'
<1>. DEFINE unposted == DOMAIN round.todo \ {s}
            posted == [round EXCEPT !.todo = Without(s)]
<1>1. round.pc = "post" /\ s \in DOMAIN round.todo /\ up' = up
  BY DEF PostChange
<1>2. /\ posted.pc = "post" /\ posted = [pc |-> posted.pc, taken |-> posted.taken,
                                         passed |-> posted.passed, todo |-> posted.todo]
      /\ DOMAIN posted.todo = unposted /\ \A r \in unposted : posted.todo[r] = round.todo[r]
  <2>1. posted = [pc |-> "post", taken |-> round.taken, passed |-> round.passed,
                  todo |-> Without(s)]
    BY <1>1 DEF PulseInv, RoundIsWhole
  <2>. QED
    BY <2>1 DEF Without
<1>3. CASE /\ round' = posted
           /\ told' = [told EXCEPT ![s] = round.todo[s]]
           /\ missed' = missed \ {s}
  <2>1. DOMAIN told' = DOMAIN told /\ told'[s] = up[s] /\ \A r \in DOMAIN told : r # s => told'[r] = told[r]
    BY <1>1, <1>3 DEF PulseInv, AllTold, ChangesToPost
  <2>. HIDE DEF posted
  <2>. QED
    BY <1>1, <1>2, <1>3, <2>1 DEF PulseInv, RoundIsWhole, AllTold, ChangesToPost
<1>4. CASE round' = posted /\ missed' = missed \cup {s} /\ told' = told
  <2>. HIDE DEF posted
  <2>. QED
    BY <1>1, <1>2, <1>4 DEF PulseInv, RoundIsWhole, AllTold, ChangesToPost
<1>5. CASE round' = Waiting /\ missed' = missed \cup DOMAIN round.todo /\ told' = told
  BY <1>1, <1>5 DEF PulseInv, RoundIsWhole, AllTold, ChangesToPost, Waiting
<1>. QED
  BY <1>3, <1>4, <1>5 DEF PostChange

(* The events Hermes gets from Pulse, with the baseline, say what the last *)
(* sweep saw, of every service no post of which was lost.                  *)
THEOREM EventsFollow == PulseSpec => []EventsFollowSweeps
<1>1. PulseInit => PulseInv
  BY DEF PulseInit, Waiting, PulseInv, RoundIsWhole, AllTold, ChangesToPost
<1>2. PulseInv /\ [PulseNext]_pulseVars => PulseInv'
  <2>. SUFFICES ASSUME PulseInv, [PulseNext]_pulseVars PROVE PulseInv'
    OBVIOUS
  <2>1. CASE Discover
    <3>1. PICK none : round' = [pc |-> "probe", taken |-> none, passed |-> none, todo |-> << >>]
      BY <2>1 DEF Discover, Waiting
    <3>. QED
      BY <2>1, <3>1, RoundKeeps DEF Discover, RoundIsWhole
  <2>2. ASSUME NEW s, ProbeOnce(s) PROVE PulseInv'
    <3>1. PICK taken, passed :
             round' = [pc |-> "probe", taken |-> taken, passed |-> passed, todo |-> round.todo]
      BY <2>2 DEF ProbeOnce, PulseInv, RoundIsWhole
    <3>. QED
      BY <2>2, <3>1, RoundKeeps DEF ProbeOnce, RoundIsWhole
  <2>3. CASE SweepFails
    BY <2>3, RoundKeeps DEF SweepFails, Measured, RoundIsWhole, Waiting
  <2>4. CASE SweepOver
    BY <2>4, NothingToPost
       DEF SweepOver, Waiting, PulseInv, RoundIsWhole, AllTold, ChangesToPost
  <2>5. CASE PulseRestart
    BY <2>5, NothingToPost
       DEF PulseRestart, Waiting, PulseInv, RoundIsWhole, AllTold, ChangesToPost
  <2>6. CASE \/ \E s \in Services : HostChanges(s)
             \/ UNCHANGED pulseVars
    BY <2>6 DEF HostChanges, pulseVars, PulseInv, RoundIsWhole, AllTold, ChangesToPost
  <2>. QED
    BY <2>1, <2>2, <2>3, <2>4, <2>5, <2>6, SweepKeeps, PostKeeps DEF PulseNext, PulseStep
<1>3. PulseInv => EventsFollowSweeps
  BY DEF PulseInv, AllTold, ChangesToPost, EventsFollowSweeps
<1>. QED
  BY <1>1, <1>2, <1>3, PTL DEF PulseSpec
=============================================================================
