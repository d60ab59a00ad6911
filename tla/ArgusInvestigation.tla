-------------------------- MODULE ArgusInvestigation --------------------------
(***************************************************************************)
(* One dot investigation after the other, round by round: Oracle plans and *)
(* suggests queries, the engines are searched, what the pages hold is      *)
(* stored as evidence, Oracle says which of it are dots, each round is     *)
(* saved as a batch, and the report at the end is written from the dots in *)
(* memory.  (ArgusDots has who queues and cancels runs; here a run comes   *)
(* from a watch, and is cancelled through the API.)                        *)
(*                                                                         *)
(* A page stands for its address and what was on it, that is for its       *)
(* fingerprint.                                                            *)
(***************************************************************************)
EXTENDS Naturals, Sequences, SequencesExt, FiniteSets

CONSTANTS
  Pages,           \* what the engines can find
  Unreadable,      \* pages that cannot be fetched, or have no text
  Queries,         \* query texts, none of them blank
  LowerCase,       \* the lower case of each
  Providers,       \* the engines of a run
  Finds,           \* per query and engine: the hits, best first
  Plans,           \* lists of initial queries Oracle may answer with
  Suggestions,     \* lists of queries it may suggest later
  PerRound,        \* queries_per_round
  MaxItems,        \* max_items_per_round
  SubBatches,      \* dots_subbatches
  IterationsTarget,
  MaxInquiries,    \* bound: runs
  MaxFaults        \* bound: calls that raise, cancellations, restarts, pages of collectors

ASSUME InvestigationAssumption ==
  /\ Unreadable \subseteq Pages
  /\ LowerCase \in [Queries -> Queries]
  /\ Finds \in [Queries -> [Providers -> Seq(Pages)]]
  /\ Plans \subseteq Seq(Queries) \ {<< >>}
  /\ Suggestions \subseteq Seq(Queries)
  /\ PerRound \in Nat \ {0} /\ MaxItems \in Nat \ {0}
  /\ SubBatches \in Nat \ {0} /\ IterationsTarget \in Nat \ {0}
  /\ MaxInquiries \in Nat /\ MaxFaults \in Nat

VARIABLES
  archive,     \* the pages that are in the table of evidence
  adding,      \* adds under way: the run, and the page
  inquiries,   \* dot_runs: status, dots_kept, iterations_done
  rounds,      \* dot_batches
  writeups,    \* reports: the run, and its dots
  inquiry,     \* the investigation in progress: its local variables
  revoking,    \* a cancel request: the run it has read, and the row
  lastDots,    \* last_dot_ids of the watch
  told,        \* the dots announced as new for the watch, each time one more
  faults

inquiryVars ==
  <<archive, adding, inquiries, rounds, writeups, inquiry, revoking, lastDots, told, faults>>

NoInquiry ==
  [pc |-> "idle", iteration |-> 0, queries |-> << >>, asked |-> {}, seen |-> {},
   reading |-> {}, items |-> {}, dots |-> {}, kept |-> {}]
NotRevoking == [run |-> 0, row |-> << >>]

Current == Len(inquiries)

InquiryInit ==
  /\ archive = {} /\ adding = {}
  /\ inquiries = << >> /\ rounds = << >> /\ writeups = << >>
  /\ inquiry = NoInquiry
  /\ revoking = NotRevoking
  /\ lastDots = {} /\ told = << >>
  /\ faults = 0

Trouble == faults < MaxFaults /\ faults' = faults + 1

Proceed(pc) == inquiry' = [inquiry EXCEPT !.pc = pc]

(* save_dot_run: the whole row, as its writer has it.                        *)
SaveInquiry(row) == inquiries' = [inquiries EXCEPT ![Current] = row]

TablesRest == UNCHANGED <<archive, adding, rounds, writeups, revoking, lastDots, told>>
RowsRest == UNCHANGED inquiries /\ TablesRest

--------------------------------------------------------------------------------
(* DotsEngine.execute.                                                       *)

BeginInquiry ==
  /\ inquiry.pc = "idle" /\ Len(inquiries) < MaxInquiries
  /\ inquiries' = Append(inquiries, [status |-> "running", kept |-> 0, done |-> 0])
  /\ Proceed("plan")
  /\ TablesRest /\ UNCHANGED faults

(* DotResearcher.plan: at most five queries, the topic itself when Oracle's  *)
(* answer cannot be used.                                                    *)
PlanQueries(plan) ==
  /\ inquiry.pc = "plan"
  /\ inquiry' = [inquiry EXCEPT !.pc = "boundary", !.iteration = 1, !.queries = plan,
                                !.asked = {LowerCase[q] : q \in ToSet(plan)}]
  /\ RowsRest /\ UNCHANGED faults

(* Between rounds the row is read again, and a cancellation is obeyed with   *)
(* the row of the engine.                                                    *)
OwnRow(status) == [status |-> status, kept |-> Cardinality(inquiry.dots), done |-> inquiry.iteration - 1]

ObeyRevocation ==
  /\ inquiry.pc = "boundary" /\ inquiry.iteration <= IterationsTarget
  /\ inquiries[Current].status = "cancelled"
  /\ SaveInquiry(OwnRow("cancelled"))
  /\ inquiry' = NoInquiry
  /\ TablesRest /\ UNCHANGED faults

(* Out of rounds, or out of time.                                            *)
StopLooking ==
  /\ inquiry.pc = "boundary"
  /\ inquiry.iteration <= IterationsTarget => inquiries[Current].status # "cancelled"
  /\ Proceed("write")
  /\ RowsRest /\ UNCHANGED faults

(* DotResearcher.suggest_queries: what was not asked before, each once; all  *)
(* of it counts as asked, even what is over the number wanted.               *)
Key(query) == LowerCase[query]

(* Positions of a list, in their order.                                      *)
InOrder(positions) ==
  {f \in [1 .. Cardinality(positions) -> positions] : \A j, k \in DOMAIN f : j < k => f[j] < f[k]}

NewQueries(suggested) ==
  LET isNew(i) == /\ Key(suggested[i]) \notin inquiry.asked
                  /\ \A j \in 1 .. i - 1 : Key(suggested[j]) # Key(suggested[i])
  IN  {[k \in DOMAIN places |-> suggested[places[k]]] :
         places \in InOrder({i \in DOMAIN suggested : isNew(i)})}

NextQueries(suggested) ==
  /\ inquiry.pc = "boundary" /\ inquiry.iteration \in 2 .. IterationsTarget
  /\ inquiries[Current].status # "cancelled"
  /\ \E fresh \in NewQueries(suggested) :
       inquiry' = [inquiry EXCEPT
         !.pc = IF fresh = << >> THEN "write" ELSE "search",
         !.queries = SubSeq(fresh, 1, IF Len(fresh) < PerRound THEN Len(fresh) ELSE PerRound),
         !.asked = @ \cup {Key(q) : q \in ToSet(fresh)}]
  /\ RowsRest /\ UNCHANGED faults

FirstQueries ==
  /\ inquiry.pc = "boundary" /\ inquiry.iteration = 1
  /\ inquiries[Current].status # "cancelled"
  /\ Proceed("search")
  /\ RowsRest /\ UNCHANGED faults

--------------------------------------------------------------------------------
(* A round: searching and reading.                                           *)

(* An engine's hits; one that cannot be reached has none.                    *)
AnswerOf(engine, query, answering) ==
  IF engine \in answering THEN Finds[query][engine] ELSE << >>

(* WebSearchClient.search_all: one engine after the other.                   *)
HitsOf(query, answering) ==
  LET engines == SetToSeq(Providers) IN
  FlattenSeq([i \in DOMAIN engines |-> AnswerOf(engines[i], query, answering)])

(* _gather_hits: each address once in an investigation, found or not read.   *)
NewHits(answering) ==
  LET all == FlattenSeq([i \in DOMAIN inquiry.queries |-> HitsOf(inquiry.queries[i], answering)])
      isNew(i) == all[i] \notin inquiry.seen /\ \A j \in 1 .. i - 1 : all[j] # all[i]
      places == SelectSeq([i \in DOMAIN all |-> i], isNew)
  IN  [k \in DOMAIN places |-> all[places[k]]]

(* The pages over the limit of a round are never read.                       *)
Search(answering) ==
  LET hits == NewHits(answering)
      limited == SubSeq(hits, 1, IF Len(hits) < MaxItems THEN Len(hits) ELSE MaxItems)
  IN
  /\ inquiry.pc = "search"
  /\ inquiry' = [inquiry EXCEPT !.pc = "read", !.seen = @ \cup ToSet(hits),
                                !.reading = ToSet(limited), !.items = {}, !.kept = {}]
  /\ RowsRest /\ UNCHANGED faults

(* Variant: a page is taken whether it is stored already or not.             *)
InStoreNever(page) == FALSE

(* content_exists.                                                           *)
InStore(page) == page \in archive

(* fetch_page: what can be read, and has text.                               *)
HasText(page) == page \notin Unreadable

(* _fetch_and_store: the pages are read at the same time. One without text,  *)
(* or that anybody has stored before, is no evidence.                        *)
Read(page) ==
  /\ inquiry.pc = "read" /\ page \in inquiry.reading
  /\ inquiry' = [inquiry EXCEPT !.reading = @ \ {page}]
  /\ adding' = IF HasText(page) /\ ~InStore(page)
               THEN adding \cup {[run |-> Current, page |-> page]} ELSE adding
  /\ UNCHANGED <<archive, inquiries, rounds, writeups, revoking, lastDots, told, faults>>

(* add_content. It is no longer awaited when another page of the round has   *)
(* failed the run, and happens all the same.                                 *)
StorePage(add) ==
  /\ archive' = archive \cup {add.page}
  /\ adding' = adding \ {add}
  /\ inquiry' = IF add.run = Current /\ inquiry.pc = "read"
                THEN [inquiry EXCEPT !.items = @ \cup {add.page}] ELSE inquiry
  /\ UNCHANGED <<inquiries, rounds, writeups, revoking, lastDots, told, faults>>

AllRead ==
  /\ inquiry.pc = "read" /\ inquiry.reading = {}
  /\ \A add \in adding : add.run # Current
  /\ Proceed(IF inquiry.items = {} THEN "batch" ELSE "match")
  /\ RowsRest /\ UNCHANGED faults

--------------------------------------------------------------------------------
(* Matching, and the save of a round.                                        *)

(* _chunk_items: the batch in at most SubBatches parts, evenly.              *)
Chunks(items) ==
  LET list == SetToSeq(items)
      parts == Min({SubBatches, Len(list)})
  IN  [k \in 1 .. parts |-> {list[i] : i \in {j \in DOMAIN list : j % parts = k % parts}}]

(* DotResearcher.match: only items of the part Oracle was asked about, and   *)
(* none if what it says is not a verdict.                                    *)
Kept(chunk, answer) == answer \cap chunk

(* _match_subbatches and _merge_verdicts: every part is judged by itself,    *)
(* and one that Oracle fails to judge has no dots.                           *)
Applied(answer, unjudged) ==
  LET chunks == Chunks(inquiry.items) IN
  UNION {Kept(chunks[k], answer) : k \in DOMAIN chunks \ unjudged}

Match(answer, unjudged) ==
  /\ inquiry.pc = "match"
  /\ inquiry' = [inquiry EXCEPT !.pc = "batch", !.kept = Applied(answer, unjudged),
                                !.dots = @ \cup Applied(answer, unjudged)]
  /\ RowsRest /\ UNCHANGED faults

(* _save_round: the batch, then the run.                                     *)
SaveBatch ==
  /\ inquiry.pc = "batch"
  /\ rounds' = Append(rounds, [run |-> Current, iteration |-> inquiry.iteration,
                               queries |-> inquiry.queries, items |-> inquiry.items,
                               kept |-> inquiry.kept])
  /\ Proceed("save")
  /\ UNCHANGED <<archive, adding, inquiries, writeups, revoking, lastDots, told, faults>>

SaveRun ==
  /\ inquiry.pc = "save"
  /\ SaveInquiry([status |-> "running", kept |-> Cardinality(inquiry.dots), done |-> inquiry.iteration])
  /\ inquiry' = [inquiry EXCEPT !.pc = "boundary", !.iteration = @ + 1]
  /\ TablesRest /\ UNCHANGED faults

--------------------------------------------------------------------------------
(* The write-up: synthesise, _finish, _finish_watch.                         *)

(* Variant: the report has the dots of the last round.                       *)
LastDots == inquiry.kept

Written == inquiry.dots

Write ==
  /\ inquiry.pc = "write"
  /\ writeups' = Append(writeups, [run |-> Current, dots |-> Written])
  /\ Proceed("complete")
  /\ UNCHANGED <<archive, adding, inquiries, rounds, revoking, lastDots, told, faults>>

CompleteInquiry ==
  /\ inquiry.pc = "complete"
  /\ SaveInquiry(OwnRow("completed"))
  /\ Proceed("tell")
  /\ TablesRest /\ UNCHANGED faults

(* What was no dot of the run before is new, and Hermes is told of it. The   *)
(* list of the watch is replaced.                                            *)
CompleteDotWatch == lastDots' = inquiry.dots

TellWatch ==
  /\ inquiry.pc = "tell"
  /\ told' = Append(told, inquiry.dots \ lastDots)
  /\ CompleteDotWatch
  /\ inquiry' = NoInquiry
  /\ UNCHANGED <<archive, adding, inquiries, rounds, writeups, revoking, faults>>

--------------------------------------------------------------------------------
(* What can go wrong.                                                        *)

(* Oracle raises after its retries, the database raises, or an engine's      *)
(* answer is not JSON: the run is read again and fails. What Oracle raises   *)
(* while matching is caught. The pages of a round other than the one that    *)
(* raises are read all the same.                                             *)
FailInquiry ==
  /\ inquiry.pc # "idle"
  /\ Trouble
  /\ SaveInquiry([inquiries[Current] EXCEPT !.status = "failed"])
  /\ inquiry' = NoInquiry
  /\ LET unread == {page \in inquiry.reading : HasText(page) /\ ~InStore(page)} IN
     \E others \in SUBSET unread :
       /\ Cardinality(unread \ others) <= 1
       /\ adding' = adding \cup {[run |-> Current, page |-> page] : page \in others}
  /\ UNCHANGED <<archive, rounds, writeups, revoking, lastDots, told>>

(* The watch is gone, or looking it up raises, which is only logged.         *)
WatchNotFound ==
  /\ inquiry.pc = "tell" /\ Trouble
  /\ inquiry' = NoInquiry
  /\ RowsRest

(* cancel_dot_run reads the row, refuses a settled one and saves all of it.  *)
ReadToRevoke ==
  /\ Trouble
  /\ revoking = NotRevoking /\ inquiry.pc # "idle"
  /\ inquiries[Current].status = "running"
  /\ revoking' = [run |-> Current, row |-> inquiries[Current]]
  /\ UNCHANGED <<archive, adding, inquiries, rounds, writeups, inquiry, lastDots, told>>

Revoke ==
  /\ revoking # NotRevoking
  /\ inquiries' = [inquiries EXCEPT ![revoking.run] = [revoking.row EXCEPT !.status = "cancelled"]]
  /\ revoking' = NotRevoking
  /\ UNCHANGED <<archive, adding, rounds, writeups, inquiry, lastDots, told, faults>>

(* A collector stores a page that the engines find as well.                  *)
CollectorStores(page) ==
  /\ Trouble /\ page \notin archive
  /\ archive' = archive \cup {page}
  /\ UNCHANGED <<adding, inquiries, rounds, writeups, inquiry, revoking, lastDots, told>>

(* fail_stale_dot_runs.                                                      *)
InquiryRestart ==
  /\ Trouble /\ inquiry.pc # "idle"
  /\ inquiries' = [r \in DOMAIN inquiries |-> IF inquiries[r].status = "running"
                     THEN [inquiries[r] EXCEPT !.status = "failed"] ELSE inquiries[r]]
  /\ inquiry' = NoInquiry /\ revoking' = NotRevoking /\ adding' = {}
  /\ UNCHANGED <<archive, rounds, writeups, lastDots, told>>

InquiryNext ==
  \/ BeginInquiry
  \/ \E plan \in Plans : PlanQueries(plan)
  \/ ObeyRevocation
  \/ StopLooking
  \/ FirstQueries
  \/ \E suggested \in Suggestions : NextQueries(suggested)
  \/ \E answering \in SUBSET Providers : Search(answering)
  \/ \E page \in Pages : Read(page) \/ CollectorStores(page)
  \/ \E add \in adding : StorePage(add)
  \/ AllRead
  \/ \E answer \in SUBSET Pages, unjudged \in SUBSET (1 .. SubBatches) : Match(answer, unjudged)
  \/ SaveBatch \/ SaveRun
  \/ Write \/ CompleteInquiry \/ TellWatch
  \/ FailInquiry \/ WatchNotFound
  \/ ReadToRevoke \/ Revoke
  \/ InquiryRestart

--------------------------------------------------------------------------------
RoundsOf(r) == {i \in DOMAIN rounds : rounds[i].run = r}
KeptIn(r) == UNION {rounds[i].kept : i \in RoundsOf(r)}

(* The report is written from memory and the batches are saved as it goes,   *)
(* with restarts, failures and cancellations in between: a report names      *)
(* exactly the dots of the batches of its run, of which there is one per     *)
(* iteration, and a run that ends as completed counts as many.               *)
ReportsTellRounds ==
  /\ \A i \in DOMAIN writeups : writeups[i].dots = KeptIn(writeups[i].run)
  /\ \A i, j \in DOMAIN rounds :
       rounds[i].run = rounds[j].run /\ rounds[i].iteration = rounds[j].iteration => i = j
  /\ \A r \in DOMAIN inquiries :
       inquiries[r].status = "completed" => inquiries[r].kept = Cardinality(KeptIn(r))

(* Nothing is done over again, whatever Oracle repeats and whoever stores    *)
(* pages meanwhile: a page is kept in one round of one run only, so that a   *)
(* watch is never told of it twice; and the queries of a round differ from   *)
(* those of the other rounds of its run, by more than case.                  *)
NothingTwice ==
  /\ \A i, j \in DOMAIN told : i # j => told[i] \cap told[j] = {}
  /\ \A i, j \in DOMAIN rounds : i # j =>
       /\ rounds[i].kept \cap rounds[j].kept = {}
       /\ rounds[i].run = rounds[j].run =>
            \A q \in ToSet(rounds[i].queries), r \in ToSet(rounds[j].queries) : LowerCase[q] # LowerCase[r]
================================================================================
