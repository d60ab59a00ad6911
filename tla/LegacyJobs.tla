------------------------------ MODULE LegacyJobs ------------------------------
(***************************************************************************)
(* The job queue of the Legacy journal. A request stores an entry and then *)
(* enqueues a job that embeds its text: a row in the jobs table, and its   *)
(* id in a queue in memory. Worker threads take ids from the queue; a      *)
(* worker that finds it empty reads the table for pending jobs and puts    *)
(* those back. A job that raises waits and is tried again, a few times.    *)
(*                                                                         *)
(* Nothing holds a job: one id may be in the queue twice, two workers may  *)
(* run the same job, and what a worker has read may be old when it writes. *)
(***************************************************************************)
EXTENDS Naturals, Sequences, FiniteSets, FiniteSetsExt

CONSTANTS Workers, Entries,
          Requests,    \* the kinds of job the operator asks for
          MaxRetries,  \* max_retries
          MaxEdits,    \* bound: entries stored, edited, deleted
          MaxRequests, \* bound: jobs the operator asks for
          MaxMishaps   \* bound: failing writes and embeddings, restarts

ASSUME JobsAssumption ==
    /\ Requests \subseteq {"reindex", "cleanup", "backup"}
    /\ Entries \subseteq Nat
    /\ MaxRetries \in Nat \ {0}
    /\ MaxEdits \in Nat /\ MaxRequests \in Nat /\ MaxMishaps \in Nat

VARIABLES content,   \* the entries: which edit stored the text, 0 if there is none
          embedding, \* which text is embedded, 0 if none
          jobs,      \* the jobs table
          queue,     \* _queue: how often a job is in it
          hand,      \* the job a worker is on, 0 if none
          stage,     \* how far it is
          polled,    \* the pending jobs an idle worker has read
          todo,      \* the entries it has still to embed
          text,      \* the texts its session has loaded
          stuck,     \* history: jobs cut off by a restart or a failing write
          behind,    \* history: entries whose embedding is not what it should be
          edits, requests, mishaps

tables == <<content, embedding, jobs>>
workers == <<hand, stage, polled, todo, text>>
vars == <<tables, workers, queue, stuck, behind, edits, requests, mishaps>>

Ids == 1 .. MaxEdits + MaxRequests
Unfinished == {"pending", "queued", "running"}

NoTexts == [e \in Entries |-> 0]

Init ==
    /\ content = NoTexts /\ embedding = content
    /\ jobs = <<>> /\ queue = [j \in Ids |-> 0]
    /\ hand = [w \in Workers |-> 0] /\ stage = [w \in Workers |-> "idle"]
    /\ polled = [w \in Workers |-> {}] /\ todo = [w \in Workers |-> {}]
    /\ text = [w \in Workers |-> NoTexts]
    /\ stuck = {} /\ behind = {}
    /\ edits = 0 /\ requests = 0 /\ mishaps = 0

Mishap == mishaps < MaxMishaps /\ mishaps' = mishaps + 1

-----------------------------------------------------------------------------
(* Requests.                                                               *)

(* enqueue: the row is committed as pending before the id is put in the    *)
(* queue, and stays pending while it waits there.                          *)
Enqueue(kind, e) ==
    /\ jobs' = Append(jobs, [kind |-> kind, entry |-> e, status |-> "pending",
                             tries |-> 0, due |-> TRUE])
    /\ queue' = [queue EXCEPT ![Len(jobs) + 1] = @ + 1]

(* Mutant of Edited: only a new entry is embedded.                         *)
EditedOnce(e) ==
    IF content[e] = 0 THEN Enqueue("embedding", e) ELSE UNCHANGED <<jobs, queue>>

Edited(e) == Enqueue("embedding", e)

(* create_entry and update_entry: the entry is committed, and what follows *)
(* may raise before the job is enqueued.                                   *)
Edit(e) ==
    /\ edits < MaxEdits
    /\ edits' = edits + 1
    /\ content' = [content EXCEPT ![e] = edits + 1]
    /\ \/ Edited(e) /\ UNCHANGED <<behind, mishaps>>
       \/ /\ Mishap
          /\ behind' = behind \cup {e}
          /\ UNCHANGED <<jobs, queue>>
    /\ UNCHANGED <<embedding, workers, stuck, requests>>

Delete(e) ==
    /\ content[e] # 0
    /\ edits < MaxEdits
    /\ edits' = edits + 1
    /\ content' = [content EXCEPT ![e] = 0] /\ embedding' = [embedding EXCEPT ![e] = 0]
    /\ behind' = behind \ {e}
    /\ UNCHANGED <<jobs, queue, workers, stuck, requests, mishaps>>

(* create_job: any kind the operator types.                                *)
Request(kind) ==
    /\ requests < MaxRequests
    /\ requests' = requests + 1
    /\ \E e \in Entries : Enqueue(kind, e)
    /\ UNCHANGED <<content, embedding, workers, stuck, behind, edits, mishaps>>

-----------------------------------------------------------------------------
(* Workers.                                                                *)

Rank(j) == IF jobs[j].kind = "embedding" THEN 1 ELSE 0
First(j) ==
    \A k \in {i \in Ids : queue[i] > 0} :
        Rank(k) < Rank(j) \/ (Rank(k) = Rank(j) /\ j <= k)

(* _worker_loop, _process_job: take an id and read its row; only a job     *)
(* that is completed by then is dropped.                                   *)
Take(w, j) ==
    /\ stage[w] = "idle" /\ queue[j] > 0 /\ First(j)
    /\ queue' = [queue EXCEPT ![j] = @ - 1]
    /\ IF jobs[j].status = "completed" THEN UNCHANGED <<hand, stage>>
       ELSE /\ hand' = [hand EXCEPT ![w] = j]
            /\ stage' = [stage EXCEPT ![w] = "taken"]
    /\ UNCHANGED <<tables, polled, todo, text, stuck, behind, edits, requests, mishaps>>

(* Mutant of Ready: a job that was scheduled for later is never due.       *)
ReadyUnscheduled(j) == jobs[j].status = "pending" /\ jobs[j].tries = 0

Ready(j) == jobs[j].status = "pending" /\ jobs[j].due

(* _process_pending_jobs: read, then mark and put what was read, whatever  *)
(* has become of it in between.                                            *)
Poll(w) ==
    /\ stage[w] = "idle" /\ \A j \in Ids : queue[j] = 0
    /\ \E j \in DOMAIN jobs : Ready(j)
    /\ polled' = [polled EXCEPT ![w] = {j \in DOMAIN jobs : Ready(j)}]
    /\ stage' = [stage EXCEPT ![w] = "polled"]
    /\ UNCHANGED <<tables, hand, todo, text, queue, stuck, behind, edits, requests, mishaps>>

Requeue(w) ==
    /\ stage[w] = "polled"
    /\ jobs' = [j \in DOMAIN jobs |->
                   IF j \in polled[w] THEN [jobs[j] EXCEPT !.status = "queued"] ELSE jobs[j]]
    /\ queue' = [j \in Ids |-> IF j \in polled[w] THEN queue[j] + 1 ELSE queue[j]]
    /\ polled' = [polled EXCEPT ![w] = {}]
    /\ stage' = [stage EXCEPT ![w] = "idle"]
    /\ UNCHANGED <<content, embedding, hand, todo, text, stuck, behind, edits, requests, mishaps>>

Release(w) ==
    /\ hand' = [hand EXCEPT ![w] = 0] /\ stage' = [stage EXCEPT ![w] = "idle"]
    /\ todo' = [todo EXCEPT ![w] = {}] /\ text' = [text EXCEPT ![w] = NoTexts]

(* The except branch of _process_job.                                      *)
Retried(job) ==
    IF job.tries + 1 >= MaxRetries THEN [job EXCEPT !.tries = @ + 1, !.status = "failed"]
    ELSE [job EXCEPT !.tries = @ + 1, !.status = "pending", !.due = FALSE]

Raise(w) == Release(w) /\ jobs' = [jobs EXCEPT ![hand[w]] = Retried(@)]

(* A write that fails leaves the session unusable, so that the except      *)
(* branch raises as well: the job stays as it is.                          *)
Break(w) ==
    /\ Release(w)
    /\ stuck' = stuck \cup {hand[w]}
    /\ behind' = behind \cup todo[w]
    /\ UNCHANGED tables

(* _execute_job: what there is to embed, by id. "backup" is a job type that *)
(* it does not know.                                                       *)
Chosen(job) ==
    {e \in Entries : /\ content[e] # 0
                     /\ \/ job.kind = "reindex"
                        \/ job.kind = "embedding" /\ job.entry = e}

Begin(w) ==
    LET job == jobs[hand[w]] IN
    /\ stage[w] = "taken"
    /\ IF job.kind = "backup" THEN Raise(w)
       ELSE /\ jobs' = [jobs EXCEPT ![hand[w]].status = "running"]
            /\ todo' = [todo EXCEPT ![w] = Chosen(job)]
            /\ text' = [text EXCEPT ![w] = content]
            /\ stage' = [stage EXCEPT ![w] = "running"]
            /\ UNCHANGED hand
    /\ UNCHANGED <<content, embedding, polled, queue, stuck, behind, edits, requests, mishaps>>

(* An embedding is stored. The commit makes the session load the next text *)
(* afresh, which raises if the entry is gone.                              *)
Late(w, e) == text[w][e] # content[e] /\ embedding[e] = content[e]

Store(w) ==
    LET e == Min(todo[w])  rest == todo[w] \ {e} IN
    /\ content[e] # 0
    /\ embedding' = [embedding EXCEPT ![e] = text[w][e]]
    /\ behind' = CASE text[w][e] = content[e] -> behind \ {e}
                   [] Late(w, e) -> behind \cup {e}
                   [] OTHER -> behind
    /\ IF rest # {} /\ content[Min(rest)] = 0 THEN Raise(w)
       ELSE /\ todo' = [todo EXCEPT ![w] = rest]
            /\ text' = [text EXCEPT ![w] = content]
            /\ UNCHANGED <<jobs, hand, stage>>
    /\ UNCHANGED <<content, stuck, mishaps>>

(* The model gives nothing: the job goes on, and completes.                *)
NoEmbedding(w) ==
    /\ Mishap
    /\ todo' = [todo EXCEPT ![w] = @ \ {Min(@)}]
    /\ behind' = behind \cup {Min(todo[w])}
    /\ UNCHANGED <<tables, hand, stage, text, stuck>>

Embed(w) ==
    /\ stage[w] = "running" /\ todo[w] # {}
    /\ \/ Store(w)
       \/ NoEmbedding(w)
       \/ content[Min(todo[w])] = 0 /\ Break(w) /\ UNCHANGED mishaps
       \/ Mishap /\ Break(w)
    /\ UNCHANGED <<polled, queue, edits, requests>>

Complete(w) ==
    /\ stage[w] = "running" /\ todo[w] = {}
    /\ \/ /\ Release(w)
          /\ jobs' = [jobs EXCEPT ![hand[w]].status = "completed"]
          /\ UNCHANGED <<content, embedding, stuck, behind, mishaps>>
       \/ Mishap /\ Break(w)
    /\ UNCHANGED <<polled, queue, edits, requests>>

WorkerStep(w) ==
    \/ \E j \in Ids : Take(w, j)
    \/ Poll(w) \/ Requeue(w) \/ Begin(w) \/ Embed(w) \/ Complete(w)

(* retry_delay passes.                                                     *)
ComesDue(j) ==
    /\ j \in DOMAIN jobs
    /\ jobs[j].status = "pending" /\ ~jobs[j].due
    /\ jobs' = [jobs EXCEPT ![j].due = TRUE]
    /\ UNCHANGED <<content, embedding, workers, queue, stuck, behind, edits, requests, mishaps>>

(* The server restarts: start makes an empty queue, and nothing looks for  *)
(* jobs that were queued or running.                                       *)
CutOff == {j \in DOMAIN jobs : jobs[j].status \in {"queued", "running"}}

Restart ==
    /\ Mishap
    /\ queue' = [j \in Ids |-> 0]
    /\ hand' = [w \in Workers |-> 0] /\ stage' = [w \in Workers |-> "idle"]
    /\ polled' = [w \in Workers |-> {}] /\ todo' = [w \in Workers |-> {}]
    /\ text' = [w \in Workers |-> NoTexts]
    /\ stuck' = stuck \cup CutOff
    /\ behind' = behind \cup {e \in Entries : content[e] # 0 /\
                                 \E j \in CutOff : jobs[j].kind = "reindex" \/ jobs[j].entry = e}
    /\ UNCHANGED <<tables, edits, requests>>

Next ==
    \/ \E e \in Entries : Edit(e) \/ Delete(e)
    \/ \E kind \in Requests : Request(kind)
    \/ \E w \in Workers : WorkerStep(w)
    \/ \E j \in Ids : ComesDue(j)
    \/ Restart

Fairness ==
    /\ \A w \in Workers : WF_vars(WorkerStep(w))
    /\ \A j \in Ids : WF_vars(ComesDue(j))

Spec == Init /\ [][Next]_vars /\ Fairness

-----------------------------------------------------------------------------
(* When no job is left to do, the embedding of every entry is that of its  *)
(* latest text: whatever was edited while a worker was embedding, polled   *)
(* twice or run twice. Except where no job was enqueued or the last one    *)
(* was cut off, the model gave nothing, or a slow worker wrote an older    *)
(* text over a newer one (update_entry, _process_job, _run_embedding).     *)
Quiet ==
    /\ \A w \in Workers : stage[w] = "idle"
    /\ \A j \in DOMAIN jobs : jobs[j].status \in Unfinished => j \in stuck

EmbeddingsCatchUp ==
    Quiet => \A e \in Entries : content[e] # 0 => embedding[e] = content[e] \/ e \in behind

(* A job that was enqueued is completed or fails for good in the end,      *)
(* unless a restart or a failing write cut it off: being in the queue      *)
(* twice, or run twice, does not lose it (_process_pending_jobs,           *)
(* _process_job).                                                          *)
JobsEnd ==
    \A j \in Ids :
        j \in DOMAIN jobs ~> \/ j \in stuck
                             \/ j \in {i \in DOMAIN jobs : jobs[i].status \notin Unfinished}
=============================================================================
