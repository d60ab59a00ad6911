# Anton, verified: TLA+ models of the homelab's control plane

Anton is a set of small Python services that watch a homelab, decide what to do
about a failure, ask its operator, and act. This directory holds TLA+ models of
the services in which that control logic lives, the TLC configurations that
check them on small instances, and proofs, checked by TLAPS, of what holds for
every instance. `PROJECT.json` maps each definition to the lines it models.

## 1. The system

| Part | State it keeps | Operations | Interacts with | What makes it correct |
|---|---|---|---|---|
| **Hermes outbox** (`hermes/app/core/queue.py`, `services/dispatcher.py`) | tables `events`, `notifications`, `remediations`; an in-memory queue of ids | accept, claim, route, remediate, send with retries, record, finish, release, sweep, recover at start | every service posts events; Telegram and ntfy receive them | no accepted event is forgotten; the outcome never claims more than happened; two workers stay apart |
| **Approval bridge and bot** (`hermes/app/services/approvals.py`, `bot/telegram_bot.py`) | pending approvals (memory), Telegram offset | relay, route a reply, post the verdict, expire | Forge over HTTP, Telegram by polling, the watchdog in process | an answer reaches one item, once; a closed item does not run |
| **Watchdog** (`hermes/app/services/watchdog.py`) | pending proposals, veto timers, history of actions (memory) | select and evaluate events, propose, run after a veto window, cancel | Oracle for a decision, the bot for replies | every error is considered; a cancelled proposal does not run, none runs twice, what runs by itself is rationed |
| **Chat with Oracle** (`hermes/app/services/oracle.py`, `bot/`, `oracle/app/`) | stored turns; the gateway keeps nothing | poll, ask, a bounded tool loop, remember, prune, reply | Telegram, Oracle, Ollama, Forge | the loop ends; an answer names what ran; everyone gets a reply; a conversation does not stay in its past |
| **Forge** (`forge/app/`) | approvals (memory), audit log (file), known-good baseline (git tag, memory, file) | decide, gate, execute, ask, resolve, expire; the tools | Oracle's agent and operators call it; Hermes relays its approvals; Docker, git | a tool runs on grounds: pre-approved within its rations, or approved once; a rollback leads back to what was good |
| **Phoenix** (`phoenix/app/`) | incidents, maintenance windows | tick, check, deduplicate, recover, verify, cascade, heal, recover by hand | Docker, systemd and HTTP probes; posts to Hermes | work that begins ends; resolved means verified; what heals is closed |
| **Hermes connector** (`hermes/connector/`) | last snapshots (file), cooldowns | sweep, compare, emit | Docker, endpoints, Hermes | Hermes knows the fleet as the last sweep found it |
| **Argus** (`argus/app/`) | evidence, entities, relations, changes, hypotheses, reports; dot runs, batches, watches, research sessions | collect with backoff, analyse, investigate in rounds, plan angles, cancel, report | feeds, search engines, Oracle, Hermes | sessions go in order and end; reports tell what was found; news is news once |
| **Sentinel** (`sentinel/app/`) | devices, presence, situations, observations | observe, track, correlate, activate, resolve, restore | routers, UPS, Docker, Watcher, Hermes | tables follow the engines; the house empties; situations end |
| **Legacy** (`legacy/backend/`) | entries, entities, links, embeddings, jobs, backups | CRUD, a thread-pool job queue, extraction, backup, restore, export, import | its database, the disk | a job ends; embeddings follow the texts; what is listed can be restored |
| **LAN script, storm detector** (`watcher/watcher_memory.py`, `hermes/app/services/storm.py`) | devices (Postgres); cooldowns (memory) | compare and post; count and report | Hermes' events table | what is compared with is what is stored; bursts are reported |
| **Pulse exporter** (`pulse/pulse.py`) | what was up in the last sweep (memory) | discover, probe, compare, post | Docker, services, Hermes | Hermes' events agree with the sweeps |
| **Observatory**, pages, accounts, retrieval | none of their own, or single rows | show, log in, search | the other services' APIs | not modelled, see 6 |

What is hard here is the same everywhere: asyncio tasks and threads that are
interrupted between reading and acting; a database that survives and memory that
does not; requests whose answer is lost although they took effect; timers that
race replies; and services that keep separate copies of one item under different
clocks. The hazards are listed with their lines in `PROJECT.json`.

## 2. Modules

| Module | Models | State and actions |
|---|---|---|
| `EventDelivery` | the abstract contract of Hermes towards a producer | an event is absent, owed or settled; what was reached and repaired; an outcome may be written only when it is honest |
| `HermesOutbox` | `EventService`, `NotificationQueue`, `Dispatcher` | the database (`state`, `outcome`, `rows`), the process (`queue`, `phase`, `rules`), one record of progress per worker task; one action per stretch of code between two awaits |
| `HermesOutboxProofs`, `ForgeProofs`, `PhoenixProofs`, `SourceProofs`, `SentinelProofs`, `LegacyProofs`, `ChatProofs`, `ArgusProofs` | theorems about the models, one module per group of them | see 5 |
| `ApprovalFlow` | Forge's approvals, the bridge, the bot, the watchdog's proposals, the operator's chat | three processes that exchange requests; each request, answer, loss and restart is a step |
| `ForgeGate` | `policy.decide`, `_auto_gate`, `_execute`, the audit log, approvals seen from Forge | requests, the log as a sequence of rows, a clock |
| `ForgeTools` | the Docker and git tools, `StateManager`, `DockerGateway` | one container, one repository with its tag, one Compose service; the notes in memory and on disk; two calls at a time |
| `PhoenixRecovery` | scheduler, orchestrator, incidents, maintenance | the tables, one program counter per monitor and request, a stack of recoveries for the cascade |
| `FleetConnector` | both threads of the connector, its state file and cooldowns, the posts to Hermes | what is, what the last sweep found, what is on disk; the log of events, stamped and then stored or lost |
| `FleetWatchdog` (extends it) | the watchdog's checks, evaluation, proposals, history; Phoenix' escalations | the cursor, the batch, proposals, ages of past actions; what it runs changes the fleet |
| `ArgusDots` | the table of dot runs, its worker, watches, the API that queues, patches and cancels | rows, and for each tick and API call the copy it has read |
| `ArgusResearch` (extends it) | the research coordinator over the same table | sessions, the coordinator's progress await by await |
| `ArgusInvestigation` | one run from inside: queries, searching, reading, matching, batches, report | the run, pages stored, rounds, reports, what a watch was told |
| `ArgusCollectors` | one loop per collector, backoff, and how evidence is stored | evidence, each loop's progress and failures |
| `ArgusKnowledge` (extends it) | the pass over new evidence, the report tick | entities, relations, changes, hypotheses, reports, the pass of each collector |
| `SentinelObservers` | what each of the seven observers reports of what it finds | operators only |
| `SentinelCorrelation` | the window and the life cycle of a rule | operators on the engine's memory, evaluated in one step as in the code |
| `SentinelRuntime` (extends both) | ingest, device tracker, presence, the ticks, the tables | `todo[t]` is what task t has still to write, one await after the other |
| `LegacyJobs` | the jobs table, the queue in memory, workers, poller, embeddings | rows, the queue as a bag of ids, what each worker has read |
| `LegacyEntities` | entries, memories, entities, links and extraction jobs | sessions on one SQLite file, who holds the write lock, what each session has read |
| `LegacyArchive` | backups, rotation, restore, export, import | files and rows apart, two requests at once |
| `OracleAgent` | the gateway's agent loop and its calls of Forge | one record per call, which goes on though nobody waits |
| `HermesChat` (extends it) | the bot's poll loop and the stored conversation | Telegram's unconfirmed messages, the bot's progress, rows |
| `WatcherMemory`, `HermesStorm` (extends it) | the LAN script; the storm detector over what it posts | the open transaction, rows, what is compared with; events with their age, cooldowns |
| `PulseExporter` | discovery, sweep, comparison, posts | services of the host, the sweep under way, what Hermes was told |

`HermesOutbox` is connected to `EventDelivery` by a refinement mapping
(`Delivery`). `ApprovalFlow` composes what happens in Forge, Hermes and Telegram;
`ForgeGate` keeps the same approvals with free answers and adds the policy, the
log and the time `ApprovalFlow` leaves out. The `MC*` modules hold the values of
the constants for TLC, and the scenes: a run that looks at several components
which share no state chooses one of them in its initial state (`scene`).

Some correspondences a reader will look for:

* **Awaits and threads.** An asyncio task is interrupted only where it awaits. A
  step is the code from one await to the next; where nothing between two awaits
  can be observed, they are one step. Reading and writing Forge's audit log do
  not suspend, so the gate's three checks are one step, and running a tool is
  not. The connector and Legacy use threads: there a step is what one statement
  of the database, one file operation or one request does.
* **A call that raises.** In `HermesOutbox` each database call has an `ack`:
  without it the call took effect and the caller saw an exception. In
  `PhoenixRecovery`, `Fault` ends a task between any two calls, which covers
  both cases; probes never raise (`safe_check`). Elsewhere the exception takes
  the way the code gives it, and where that ends a loop, the loop is dead until
  the next start (`alive`, `dead`, `over`).
* **Steps taken together.** A few steps have an await or a commit inside that
  could be a step of its own, where no property depends on it: an observation of
  Sentinel is stored before the tracker hears of it (`HearOne`), and presence is
  recomputed before its observation is stored (`RefreshPresence`); cancelling a
  research session saves the session and then cancels its runs
  (`CancelSession`); a job of Legacy is committed and then put into the queue
  (`Enqueue`; the poller finds a pending row either way), and its retries are
  read and then written (`Retried`); a restore compares the checksum and then
  looks its row up (`BeginRestore`).
* **A save writes the whole row.** Argus and Sentinel save the object they have
  read, so a save may put back what another task has changed meanwhile; the
  models keep the copy and write it.
* **Time.** `ApprovalFlow` and `ForgeGate` count ticks; in `ApprovalFlow` the
  ages of an approval in Forge and in Hermes are one, and only the timeouts
  (600 s and 900 s, 1 and 2 ticks) differ. Sentinel, the connector, the storm
  detector and the watchdog's history use ages and remaining ticks, which stop
  growing where no comparison can tell. Delays between retries are left out:
  they order nothing.
* **SQLite in Legacy.** The first statement of a session that writes takes the
  lock, the commit releases it, and reads take none. Autoflush is off, so
  `create_entry`, and `update_entry` when it has something to change, hold the
  lock because they flush before they look names up. `create_memory`, which has
  committed, and an update that changes nothing do not, and may clash.
* **Operators, feeds, models.** Whatever they may do they may also not do: no
  fairness on them. What Oracle or Ollama says is a choice among the cases the
  code tells apart.
* **History.** Variables whose declaration says "history" (`reached`, `blind`,
  `ran`, `starts`, `said`, `doubt`, `unlinked`, `clashed`, `cutOff` and others) record what happened for the
  properties to speak of; no guard of an operation reads them.
* **Phoenix's ids.** Incidents take the smallest free id. A row marked as
  maintenance is read by no query of the loop and is forgotten, so that windows
  that stay open do not fill the table.

## 3. Runs

| Run | Instance | Shows |
|---|---|---|
| `hermes_outbox` | 1 event, 2 workers, 2 providers, every action, 2 mishaps | types; workers exclude each other unless one released blindly; `processing` is always owned; rows are orphaned only by a redelivery; everything is settled; `EventDelivery` is implemented |
| `approval_flow` | 1 approval and 1 low-risk proposal with 2 replies and 2 mishaps, or 2 approvals of one action | what was rejected, cancelled or has expired never runs, nothing runs twice, whichever item a reply reaches; everything closes |
| `watchdog_veto` (violation) | 1 approval, 1 proposal, 1 reply | a veto is taken by the open approval |
| `forge_gate` | scene gate: 3 requests for one target, all levels, a restart; scene tools: 2 calls at a time, 2 commits, 2 images, 4 moves, 2 troubles | one question at a time, a tool started at most once for a request and only on grounds, cooldown and rations; rollbacks lead back to what was seen working |
| `docker_rollback` (violation) | the same, without troubles | `docker_rollback` never recreates anything |
| `phoenix_recovery` | 2 monitors, a dependent that only reports, windows, 1 break, 1 mishap; or a manual recovery | resolved means verified, begun work is held, a monitor has one incident, what heals is closed |
| `argus` | 2 sessions (one progressive), a watch, 4 topics, 3 events | one session at a time, one waiting run, every angle tried, cancelled in the queue stays off; sessions end, due watches run |
| `argus_knowledge` | scene knowledge: a page with 2 versions and a feed, 3 names, 3 collections, 1 mishap; scene inquiry: 2 investigations of 2 rounds, 2 engines, 3 pages, 2 faults | counts are of real sightings, news is news once, what is confirmed is reported; reports tell what the batches hold, nothing is done twice |
| `sentinel` | a phone and 9 findings under one of 4 rule files, 2 events (observations, errors, restarts) | tables follow the engines; the house empties; situations end |
| `legacy` | 4 scenes: jobs, entities, backups, restores | jobs end, embeddings catch up; names are linked; backups stay whole and restoring writes over nothing |
| `oracle_chat` | 2 questions, 2 steps of the loop, contexts of size 1 and 5 under a budget of 5, 1 mishap | the loop ends and names what ran; an agent per delivery; history is recent; everyone is answered whose handling does not raise and whose reply Telegram takes |
| `event_sources` | 3 scenes: 1 container with both connector threads and the watchdog; 2 devices, script and storm detector; 3 services and the exporter | Hermes knows the fleet, every error is considered, automatic runs are rationed; rows follow passes, bursts are reported, events agree with sweeps |

**Why the bounds are enough.** A hazard here is a meeting of two tasks, or of a
task and a fault, on one item, so an instance has one item more than the code
keeps apart and one task more than it expects.

* Outbox: two workers suffice to meet, a third delivery is again one of two
  tasks, and two mishaps cover a failure during the recovery from another. Two
  providers make `partial` differ from `failed`. The queue holds two ids, so an
  id may be queued twice.
* Approvals need a reply that may reach either of two items, a second reply, and
  restarts of both services. For the gate, three requests overstep an allowance
  or threshold of two; two ticks and windows of one or two put rows on both
  sides of every boundary. For the tools, two calls, or a call and a person, on
  one repository and container; `docker_scale` is asked for as many as 8, beyond
  its limit.
* Phoenix: two monitors give the race between closing, opening and verifying.
  Both belong to one component, since others share nothing but the dependents;
  six ids are never exhausted when a task needs one. A failing monitor reports
  one status: a monitor whose status changes opens an incident for each.
* Argus: a second session waits for the first, a second watch would do what the
  API does. Angles are plain, shared, too long for a run, or blank; three
  events let an API call span two ticks and a restart come between. In the
  pages' scene, the feed's second post has a name longer than the column, and
  one page is also visited by the dots worker; `MaxExponent` 0 means that a
  loop that backs off comes back. Two investigations suffice for one to find
  what the other stored; r, when it is the first query, finds more
  than a round may read.
* Sentinel: the four rule files are a boolean rule with a negation and
  `stable_for`, an absence, a count, and a boolean rule of several objects. An
  observation is only offered when the rules or the devices speak of it (`Told`).
* Legacy jobs: two workers, two entries and one job of another kind, with a
  failing write, an embedding that fails, or a restart among up to three edits;
  when all is edited, nothing else goes wrong. Entities: two interchangeable
  sessions and two texts that name one thing with different types, three
  requests, or two and a breakdown. Backups: three by two requests with
  `max_backups` 1 and two seconds, so that names are shared or not, and a failure
  among them or an entry written in between. Restores: one backup and one export.
* Chat: a limit of one question with its answer makes every further row fall
  out; three scenes: no mishap with calls that go on beside each other, one
  mishap around one message, and one around two.
* Event sources: one container suffices, as the connector and the watchdog treat
  each by itself; cooldowns, thresholds and windows of one or two ticks; either
  one thread of the connector with all that can go wrong, or both with little.
  Phoenix escalates once. The storm detector sees four ticks with a window of
  one, a threshold of two and a cooldown of two.

What the bounds leave out: `BatchLimit` with many events, long backoff, an
older run of Argus that starves while newer ones keep arriving (arrivals are
bounded), cycles
of dependencies (which Phoenix only warns of and which recurse without end), a
second device of Sentinel (so that its house is never `multiple_users` or
`unknown_present`, though `Status` and the proofs have both), and more than one
container, so that the crash-loop history of one cannot be
confused with that of another.

**Bounds on nondeterminism.** The constants whose comment says "bound" cap what
could otherwise go on for ever. `MaxQueue` delays a sweep, and the sweep that
waits runs when a worker has taken an id. `OneScene`, `OneThing`, `FewFaults` and
`OneThread` in the MC modules restrain what the environment may combine, never a
fair action. Symmetry is used only in runs without liveness. Deadlock is not
checked: with the bounds used up and all work done, every one of these systems
rests.

**Fairness.** Weak fairness on a task's steps: an event loop runs every task
that is ready, and each awaited call returns or raises (the HTTP clients and the
retries have timeouts). Hermes' sweep and Forge's sweeper catch what they raise
and so go on; the bridge's sweep loop does not, and `EverythingCloses` says what
remains true when it has died. Restarting after a crash is weakly fair: the
containers have `restart: unless-stopped`. Phoenix needs strong fairness on a
tick that includes a given monitor: ticks happen whenever the last one is over,
and a monitor is due after its interval, again and again. In Argus and Sentinel
the ticks are loops around a sleep, weakly fair while they live; of the
collectors nothing is asked, they may sleep or wait for a page for ever, and
neither is anything of an observer that has nothing to report. Legacy's threads are fair,
and so is the timer after which a job that is to be tried again is due. The
chat asks only that the bot polls and that its timeout fires; nothing of the
gateway. No event, reply, breakdown, edit or mishap is fair.

## 4. Disagreements between code and documents

Two runs end in a counterexample to a sentence of the repository, quoted by the
findings in `PROJECT.json`: the reply to a proposal that "is honoured
immediately" (`watchdog_veto`), and the rollback of a container
(`docker_rollback`), whose client has none of the methods it calls.

Others were met while modelling. The models do what the code does, and the
property that does hold is checked by a passing run:

| Where a document says | The code | Checked instead |
|---|---|---|
| the claim excludes duplicate delivery (`hermes/docs/ARCHITECTURE.md:84`) | `_release` resets an event by id and state only (`queue.py:130`) | `ExclusiveUnlessBlind` |
| failures are deduplicated (`phoenix/docs/architecture.md:67`) | two monitors of one tick both pass `has_open` and open | `OneIncidentPerMonitor` |
| the operator's yes executes | "Approved" is also written when Forge has let the approval expire | `ClosedNeverRuns` |
| the watchdog never repeats what Phoenix has exhausted (`phoenix_prior_attempts`) | only the escalation itself is looked at: a later error of the connector for the same container, or `docker_start`, is low risk again | `AutoRunsRationed` |
| `dots.py:284` and the API: a cancelled run stops | `_save_round` and `_finish` save a copy read before, and the run goes on | `DroppedStaysOff`, `ReportsTellRounds` |
| rounds are capped "so a talkative Oracle cannot loop a session forever" (`argus/app/dots/research.py:226`) | an angle planned with blanks at an end is queued under its stripped name, never found among the runs, and queued again on every tick | `EveryAngleTried` excuses that name alone (`Misnamed`); `SessionsEnd` holds with `Padded` empty |
| `argus/app/core/scheduler.py:5` "Failures never kill the loop" | `ingest` is called outside the try: a clash of names, or a name of more than 256 characters, ends it | `NewsOnce`, `SightingsAreReal` |
| `correlate.py`: relations are strengthened | only entities created by the same pass are correlated, so no relation is seen twice | none |
| `scrape.py`: changes of a page are detected | a page that returns to an earlier version, or was first stored by an investigation, is never reported | `NewsOnce` |
| `sentinel` `rules.yaml:9-10`, `watcher.py`: observers always emit a status | the scheduler's own timeout fires first when a source hangs, and the collection reports nothing | the findings of `SentinelObservers` |
| Sentinel: devices that are gone go offline | Watcher's rows are all reported present, and "seen" counts as online: while Watcher is up no device it knows goes offline | `HouseEmpties`, once sightings stop |
| Legacy `create_memory`: failures of entity linking are ignored | after a clash the session is unusable, the client gets a 500, the memory is stored without links and jobs | `NamesAreLinked` |
| `forge/app/state.py`: the baseline survives restarts | `_save` swallows an `OSError`, other failures raise after the dictionary and the tag have changed | `RollbacksLeadBack` |
| "the model's reply is sent back" (`hermes/README.md:324`) | `_reply` only logs that Telegram refused it (line 170); the message is taken and the operator hears nothing | `EveryoneAnswered`, which excuses those messages (`refused`) |
| `pulse.py:9` "it never posts events" | the exporter posts to Hermes, and what fails to be posted is not repeated | `EventsFollowSweeps` |

Smaller ones are stated where they are modelled: an entry's allowance in Forge is
that of the tool's first entry (`FirstFor`); backups of one second share a file
and the rotation of one removes that of the other (`Shared`); a watchdog
cooldown drops the event for good (`Dismiss`); a cooldown of the connector
compares with a clock that starts at boot (`Suppress`); a 0.0 from Oracle as
expected gain counts as 1.0 (`ExpectedGain`); history takes the oldest rows up
to the limit (`History`).

## 5. Proofs

A theorem holds for every value of the constants that satisfies the module's
assumption: any sets of events, workers, monitors, containers or entries, any
thresholds and timeouts, any number of mishaps. The assumptions only say that
the bounds and settings are natural numbers, that sets are disjoint or finite
where the code's are, and that a constant such as `Nobody` is none of the
others; TLC evaluates them on every run. Fairness plays no part: `Spec` here may
as well be read as `Init /\ [][Next]_vars`. For the models that have no `Spec`
of their own because a run composes them, the proof module defines it
(`ToolsSpec`, `StormSpec`, `PulseSpec`, `ArchiveSpec`, `EntitiesSpec`,
`InquirySpec`).

| Theorem | Property | Inductive invariant |
|---|---|---|
| `HermesOutboxProofs!TypeCorrect` | `TypeOK` | itself |
| `ClaimsAreExclusive`, `NothingStranded` | `ExclusiveUnlessBlind`, `ProcessingIsOwned` | `ClaimInv` |
| `RowsAreSettled` | `OrphansOnlyAfterRedelivery` | `ClaimInv`, `RowsInv` |
| `Delivers` | `DeliveryContract` (refinement) | `HonestInv` |
| `ForgeProofs!RunsStaySound` | `RunsAreSound` | `Inv` |
| `GateTypes`, `OneQuestion` | `GateTypeOK`, `OneQuestionPerTarget` | themselves, with `RunsHaveStarted` |
| `RunsHaveGrounds` | `RunsOnGrounds` | with `IdleIsUntouched` |
| `AutoRunsStayLimited` | `AutoRunsAreLimited` | `Orderly`, `AllGranted` |
| `RollbacksAreSafe` | `RollbacksLeadBack` | `ToolsInv` |
| `PhoenixProofs!IncidentsStayHeld`, `ResolvedWereHealthy` | `IncidentsAreHeld`, `ResolvedWasSeenHealthy` | `Inv` |
| `SourceProofs!HermesIsTold` | `FleetIsKnown` | `FleetInv` |
| `NoErrorIsSkipped`, `AutoRunsStayRationed` | `ErrorsConsidered`, `AutoRunsRationed` | `LooksInv`, `ActsInv` |
| `RowsAreFollowed`, `StormsAreReported`, `EventsFollow` | `RowsFollowPasses`, `BurstsReported`, `EventsFollowSweeps` | `WatcherInv`, `DetectorInv`, `PulseInv` |
| `SentinelProofs!TablesStaySound` | `TablesAreSound` | `SentinelInv` |
| `LegacyProofs!EmbeddingsFollow` | `EmbeddingsCatchUp` | `JobsInv` |
| `NamesStayLinked` | `NamesAreLinked` | `EntityInv` |
| `BackupsAreKept` | `BackupsStayWhole` | `ArchiveInv` |
| `ChatProofs!AnswersAreTrue` | `AnswersNameWhatRan` | `ChatInv` |
| `AgentIsStartedOnce`, `HistoryIsRecent` | `AgentOncePerDelivery`, `ConversationIsRecent` | `DeliveryInv`, `RecentInv` |
| `ArgusProofs!ReportsAreOfRounds`, `NothingIsDoneTwice` | `ReportsTellRounds`, `NothingTwice` | `InquiryInv` |
| `SightingsAreOfItems`, `NewsIsNewOnce` | `SightingsAreReal`, `NewsOnce` | `KnowledgeInv` |
| `SessionsStayOrderly` | `SessionsAreOrderly` | `ResearchInv` |

Why none of the properties is inductive alone, and what the invariants add:

* **Outbox.** Exclusion after a claim needs that a held event is not pending,
  and that needs to know who may reset it (`HeldIsClaimed`), and that a process
  which is not up has no workers (`Quiet`). `RowsInv` follows an event that was
  dispatched once: until its worker sends nothing of it is in `notifications`,
  and what it finishes has settled its rows. `HonestInv` says that what a worker
  has noted, its results and its verdict, is covered by what was reached and
  repaired under the rules of the running process; with it every action maps to
  one of `EventDelivery` or changes nothing there: `Create` to `Accept`, `Send`
  to `Reach`, `Remedy` to `Repair`, `Finish` to `Settle`, `RecoverStale` to `Reload`.
* **Approvals.** Forge's store, the bridge's dict, the bot's hands and the chat
  speak of one item at different times. `ApprovalIs` says for each stage of an
  item what the other three may still say of it: what is being executed or has
  run is decided nowhere else, and whatever is being posted has left its queue
  (`Queues`). `ProposalIs` does the same for proposals and their timers.
* **Forge.** A request is idle until it is decided, and an idle one was never
  started (`IdleIsUntouched`); one whose approval is open or turned down has no
  start either, so the answer that approves it makes its first and only one.
  The gate reads a log that knows a run when it has ended. `Orderly`
  says how the rows of the log follow each other in time, and `Granted` keeps for
  each automatic row what the gate counted when it let it pass: `AllGranted` is
  stable because later rows are not within that count. The two halves of
  `AutoRunsAreLimited` follow from what was counted for the last row of a window.
  A rollback is safe because what a call has read, and will write down, has been
  seen working when it read it (`ReadIsSeen`).
* **Phoenix.** A recovery is a stack of frames, one per incident it has come to
  by a dependency or by healing. `StackIs` says what each frame may hold,
  `NoSharing` that no two frames, of whatever task, hold the same incident,
  `RowIs` and `MonitorIs` what the tables and monitors say of it meanwhile; of
  `ResolvedWasSeenHealthy`, `HeldInv` keeps that a frame past verification saw
  all its monitors pass after the incident was opened.
* **Fleet.** `Aware` says for each thread and object that what Hermes was told
  last is what the thread's table says, or that a post which says it is under
  way, or was lost and is excused. For the rations, `LowRiskIsRare`: while a
  proposal waits nothing else runs on its container, so the count that allowed it
  still holds when it runs.
* **Event sources.** The LAN script's rows are compared with an open transaction
  of unwritten ones (`PassIsWritten`); the detector owes a report only of what it
  has looked at in this check (`ReportsAreMade`); the exporter's changes of a
  sweep are told, still to post, or missed (`AllTold`, `ChangesToPost`).
* **Sentinel.** What an engine knows and what its table holds meet in what the
  tasks have still to do (`Ops`). `SituationIs` says of every situation there has
  been: one that is active has its row, or a save of it is under way, and nothing
  says that it is resolved; an active row or a save of one that is over has a
  later save behind it. A number above `ids` is in no row and no save, so a new
  situation starts clean (`NumbersAreFresh`). `DeviceIs` says the same of devices
  by their versions: no copy is newer than the tracker's, and the newest is stored
  or will be. A restart that forgets an older save (`Superseded`), an error and
  a save that is overtaken set `stale`.
* **Legacy.** An entry whose embedding is old is served (`Serves`) by the job that
  was enqueued last for it: it is unfinished, not stuck, and every worker that
  runs it, once or twice, has the latest text before it. A session that writes
  its entry holds SQLite's lock from then on, so that what it has seen is what is
  committed (`HoldsLock`), and an entry that lacks links is answered for by a
  memory's request or a job that will link, or raise (`AnswersFor`). For backups,
  `NameIs` follows a file name from the request that begins to write it to the
  row that lists it, and `RotationIs` says what a rotation may remove.
* **Oracle and the chat.** `AccountIs` follows the loop's own counts: a context
  that is over budget stays so, so what was told to answer is told once, and a
  call that runs a tool is one step ahead of its results. A reply is true to it
  because a call that has answered never changes again (`CallsStand`), and the
  bot has a call in hand only while it waits or has its answer (`CallIsHeard`).
  The agent is started once because the messages of a batch are newer than what
  the loop knows as taken, in their order (`BatchIs`): a message not known as
  taken can have been sent only before a restart. `RecentInv` counts the rows
  stored without pruning.
* **Argus' investigations.** The report is written from memory, so `RoundsAreKnown`
  keeps that the dots in memory are those of the saved batches and of the round
  that is judged but not yet saved, and that every query of a saved batch counts as
  asked. A page is a dot once because what is being added for a round was in no
  table when it was read (`AddsAreNew`), and every page of a batch is in one; an add
  that a failed run left behind may still come, but is nobody's item any more. What
  a watch was told is of runs that are over (`ToldAreOver`), whose dots differ from
  those of the run in progress.
* **Argus' knowledge.** A pass that saves an entity writes what it read plus one,
  however often others have counted it meanwhile. `SightingsAreCounted` bounds both
  the table and what a pass has read by the rows that mention the key and are not
  still to be resolved by anyone; saving takes one row, of its own collector, out
  of those. That takes that a content mentions a key once, which `_dedupe` sees to
  and `KnowledgeAssumption` says. News is new once because no two passes hold the
  same key as created (`CreatedOnce`, by the unique key), and because until a pass
  has looked for changes the table says nothing of its keys and rows
  (`ChangesAreOver`). `ReportsAreFew` says who may still report a hypothesis: its
  own pass while it has it in hand, and the tick between comparing and writing.
* **Research sessions.** Sessions are served in order: `OrderIs` says that all
  before the one that runs, or that the coordinator has in hand, are settled, so
  one that was cancelled and comes back with the coordinator's copy is still
  alone. `CoordIs` says what the tick still knows of what it has listed: from
  then until it queues an angle no run of the session waits, though nobody has
  locked the table, since only the coordinator queues runs for sessions; and of
  the angle in hand there are fewer attempts than allowed. `RunsArePlanned` and
  `AttemptsAre` tie the names of the runs to the angles of the plan, `DotsAre`
  what the worker holds to the rows.

Where it was cheap to ask TLC first, the invariants were checked on the instances
of section 3 before they were proved. The proof of `NamesStayLinked` found a flaw
of the model: the history `unlinked` forgave an entry its missing links whenever
an update of it committed, also one that had nothing to write and whose entry had
been deleted and its id given to another meanwhile; with four requests TLC then
shows `NamesAreLinked` violated. It is forgiven now only by a commit that writes.

The proof of `SessionsStayOrderly` found that no bound on the attempts holds of an
angle that is planned with blanks at an end (section 4).

Every safety invariant that a run checks is stated by one of these theorems.
Liveness (`EventuallySettled`, `EverythingCloses`, `SelfHealing`,
`SessionsEnd`, `DueWatchesRun`, `ConfirmedGetSwept`, `HouseEmpties`,
`SituationsEnd`, `JobsEnd`, `EveryoneAnswered`) stays with TLC, since TLAPS does
not treat `ENABLED` and fairness. No module uses a RECURSIVE operator, so all of
them can be proved about.

## 6. Not modelled, and the plan

* **Observatory**, Legacy's pages, accounts, one-time codes, retrieval and AI
  routes, Watcher's page: requests that read, or write one row of their own;
  what they could get wrong is not in the order of their steps.
* **Commands of the Telegram bot**: they read, or pass a request on; each stores
  one `bot.command` event. Tools of Forge that read, or pass a request on to
  Phoenix or Argus.
* **Phoenix's statistics and snapshot**, and its events other than escalations;
  Pulse's report and metrics: output nothing reads back.
* **Formats**: prompts, parsing of pages, feeds and model replies, providers'
  wire formats. Where a reply decides what happens next, the models choose among
  the cases the parser tells apart.
* In Legacy: reflections, summaries, session cleanup, `POST /embed`, and events
  and settings inside a backup. In Argus: retention, the creation and deletion of
  watches. `presence.py` is the LAN script without a database.

The components' notes in `PROJECT.json` say the same part by part.

With every safety invariant of the runs proved, what is left to prove are
statements no run makes yet: a contract for approvals in the manner of
`EventDelivery`, which `ApprovalFlow` would implement as the outbox implements
that one, and bounds by which liveness could be argued, such as that no item is
relayed, attempted or answered more often than its retries allow.
