---------------------------- MODULE ArgusCollectors ----------------------------
(***************************************************************************)
(* How evidence enters Argus: one loop per collector that collects, backs  *)
(* off when it fails and stores what is new, beside the worker of the dot  *)
(* investigations, which stores the pages it has read.                     *)
(*                                                                         *)
(* A content stands for its fingerprint: two items with the same content   *)
(* have the same content_hash.                                             *)
(***************************************************************************)
EXTENDS Integers, Sequences, SequencesExt, FiniteSets

CONSTANTS
  Collectors,   \* the collectors that are enabled
  Scrapes,      \* those whose source_type is scrape
  Contents,     \* what there is to be collected
  UrlOf,        \* the page a content was on
  Batches,      \* what a collector may return, as sequences of contents
  Visited,      \* contents of pages the dots worker may read
  Threshold,    \* collector_failure_threshold
  MaxExponent,  \* the largest power of two a float holds: 1023
  MaxCollects,  \* bound: calls of collect, and pages read
  MaxMishaps    \* bound: database calls that raise, and restarts

ASSUME CollectorsAssumption ==
  /\ Scrapes \subseteq Collectors
  /\ Visited \subseteq Contents
  /\ Batches \in [Collectors -> SUBSET Seq(Contents)]
  /\ DOMAIN UrlOf = Contents
  /\ Threshold \in Nat \ {0} /\ MaxExponent \in Nat
  /\ MaxCollects \in Nat /\ MaxMishaps \in Nat
  /\ "dots" \notin Collectors

VARIABLES
  evidence,   \* the table of evidence, in the order of its rows
  loop,       \* per collector: where its task is and what it holds
  health,     \* per collector: its status object
  dots,       \* the dots worker: fingerprints seen in this run, rows it is adding
  clock,      \* fetched_at of the next item
  mishaps

evidenceVars == <<evidence, loop, health, dots, clock, mishaps>>

Row == [content : Contents, source : Collectors \cup {"dots"}, at : Nat]

AtRest == [pc |-> "collect", batch |-> << >>, new |-> << >>, at |-> 0]
Healthy == [failures |-> 0, degraded |-> FALSE]
NoPages == [seen |-> {}, adding |-> {}]

CollectorsInit ==
  /\ evidence = << >>
  /\ loop = [c \in Collectors |-> [AtRest EXCEPT !.pc = "setup"]]
  /\ health = [c \in Collectors |-> Healthy]
  /\ dots = NoPages
  /\ clock = 1
  /\ mishaps = 0

Stored(content) == \E i \in DOMAIN evidence : evidence[i].content = content

RowOf(content) == CHOOSE i \in DOMAIN evidence : evidence[i].content = content

Goto(c, pc) == loop' = [loop EXCEPT ![c].pc = pc]

(* An exception that leaves the loop: the task ends.                         *)
Ends(c) == loop' = [loop EXCEPT ![c] = [AtRest EXCEPT !.pc = "over"]]

Mishap ==
  /\ mishaps < MaxMishaps
  /\ mishaps' = mishaps + 1

--------------------------------------------------------------------------------
(* CollectorScheduler._run.                                                  *)

Setup(c) ==
  /\ loop[c].pc = "setup"
  /\ \/ Goto(c, "collect") /\ UNCHANGED mishaps
     \/ Mishap /\ Ends(c)
  /\ UNCHANGED <<evidence, health, dots, clock>>

(* The loop goes on to ingest only when there is something.                  *)
Collect(c) ==
  /\ loop[c].pc = "collect" /\ clock <= MaxCollects
  /\ \E batch \in Batches[c] :
       loop' = [loop EXCEPT
         ![c] = [AtRest EXCEPT !.pc = IF batch = << >> THEN "collect" ELSE "exists",
                               !.batch = batch, !.at = clock]]
  /\ health' = [health EXCEPT ![c] = Healthy]
  /\ clock' = clock + 1
  /\ UNCHANGED <<evidence, dots, mishaps>>

(* The delay is min(backoff_max, backoff_base * 2 ** (failures - 1)), with a *)
(* base that is a float: the product raises when the power does not fit one, *)
(* and nothing around it catches that.                                       *)
CollectFails(c) ==
  /\ loop[c].pc = "collect" /\ clock <= MaxCollects
  /\ LET failures == health[c].failures + 1 IN
     IF failures - 1 > MaxExponent
     THEN /\ Ends(c)
          /\ health' = [health EXCEPT ![c].failures = failures]
     ELSE /\ health' = [health EXCEPT
               ![c] = [failures |-> failures,
                       degraded |-> health[c].degraded \/ failures >= Threshold]]
          /\ UNCHANGED loop
  /\ clock' = clock + 1
  /\ UNCHANGED <<evidence, dots, mishaps>>

--------------------------------------------------------------------------------
(* ArgusRuntime.ingest, the storing half; it runs inside the collector's     *)
(* loop, after the try that guards collect.                                  *)

(* What follows an item: the next, the pass over what was new, or the sleep. *)
After(work) ==
  CASE work.batch # << >> -> [work EXCEPT !.pc = "exists"]
    [] work.batch = << >> /\ work.new # << >> -> [work EXCEPT !.pc = "extract"]
    [] OTHER -> AtRest

(* What was added is analysed when the batch is through.                     *)
Added(work, row) == [work EXCEPT !.batch = Tail(@), !.new = Append(@, row)]

(* Variant: what is known already is analysed with what is new.              *)
KnownAgain(work, row) == Added(work, row)

Known(work, row) == [work EXCEPT !.batch = Tail(@)]

Exists(c) ==
  /\ loop[c].pc = "exists"
  /\ LET content == Head(loop[c].batch) IN
     loop' = [loop EXCEPT ![c] = IF Stored(content) THEN After(Known(@, RowOf(content)))
                                                    ELSE [@ EXCEPT !.pc = "add"]]
  /\ UNCHANGED <<evidence, health, dots, clock, mishaps>>

Add(c) ==
  /\ loop[c].pc = "add"
  /\ evidence' = Append(evidence, [content |-> Head(loop[c].batch), source |-> c, at |-> loop[c].at])
  /\ loop' = [loop EXCEPT ![c] = After(Added(@, Len(evidence')))]
  /\ UNCHANGED <<health, dots, clock, mishaps>>

--------------------------------------------------------------------------------
(* DotsEngine._fetch_and_store: pages of a round are read at once; the       *)
(* fingerprints of the run are noted before the table is asked.              *)

Noted(content) == dots.seen \cup {content}

Visit(content) ==
  /\ content \in Visited \ dots.seen /\ clock <= MaxCollects
  /\ dots' = [seen |-> Noted(content),
              adding |-> IF Stored(content) THEN dots.adding
                         ELSE dots.adding \cup {[content |-> content, source |-> "dots", at |-> clock]}]
  /\ clock' = clock + 1
  /\ UNCHANGED <<evidence, loop, health, mishaps>>

Keep(page) ==
  /\ page \in dots.adding
  /\ evidence' = Append(evidence, page)
  /\ dots' = [dots EXCEPT !.adding = @ \ {page}]
  /\ UNCHANGED <<loop, health, clock, mishaps>>

RunEnds ==
  /\ dots.adding = {} /\ dots.seen # {}
  /\ dots' = NoPages
  /\ UNCHANGED <<evidence, loop, health, clock, mishaps>>

================================================================================
