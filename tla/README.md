# Sin90 — TLA+ verification project

Sin90 is a "domain OS" mounted by the Agent24 kernel: a Rust process with its
own SQLite store, an HTTP surface, background AI runs, and an outbox-driven
reconciler that keeps the kernel's scheduler and private memory in step with
that store. This directory models the parts of it where things can go wrong
without any single function being wrong.

Paths below are relative to the repository root (`src/…` there is `src/src/…`
in `PROJECT.json`). `PROJECT.json` maps every definition to its source lines,
lists the runs, the mutants that show each property can fail, the hazards, the
theorems and the findings.

## 1. Inventory

| Component | State | Operations | Modelled |
|---|---|---|---|
| Outbox store (`src/store/repo.rs`) | `sin90_outbox`, one live row per `dedup_key`; id, kind, desired, status, version, attempts, `other_bucket_attempts`, `next_attempt_at` | `upsert_outbox` inside each edit; `outbox_due_pending`, `outbox_row_is_current`, `outbox_mark_{done,retry,failed}`, `outbox_enqueue_{upsert_for_routine,delete_for_orphan}`, `sync_kernel_suspended_routines` | `Outbox`, `RetryBudget` |
| Reconciler pump (`src/adapter_agent24/reconciler.rs`) | the batch in hand, the call in flight, `PumpState` | `drain_pending`, `apply_one` and its classification, `remember_review_summary`, `reconcile_full`, `pump_tick`, `spawn_pump_loop` | `Reconciler`, `PumpSchedule`, `RetryBudget`, `Backoff` |
| Kernel clients (`src/adapter_agent24/clients/`) | none (the SDK connection) | `upsert`, `delete`, `list`, `remember`, `recall`, `complete` | as the external kernel of `Reconciler` and of `Ladder` |
| Process lifecycle and actor keys (`src/main.rs`, `src/http/actor.rs`, `src/http/state.rs`) | the generation's grants; `actor-keys.json`, a temp file per process | start, load or create the key file, handshake, serve, stop; spawn the pump if a capability was granted, `exit(70)` when the connection is gone | `ActorKeys`, `Reconciler` (generations, crashes) |
| Planning tables (`src/store/repo.rs`, `src/core/transitions.rs`) | Areas, Directions, Weeks, Tasks, Rhythms, Reviews: a status each, and the links between them | create, transition, edit, finalize | `Planning` |
| Proposals (`src/core/proposal.rs`, `src/store/repo.rs`, `src/store/ai_port.rs`) | `sin90_proposals`: pending, applying, then applied or rejected; `sin90_proposal_rejections` | submit, dry run, accept (validate over a working overlay, then apply op by op), reject | `Proposals` |
| HTTP surface (`src/http/mod.rs`, `src/store/packs.rs`) | the run of a seed pack | check the actor, one store call; install a pack row by row | `HttpApi` |
| Event log and what is derived from it (`src/store/attention.rs`, `src/store/weekly_draft.rs`, `src/store/repo.rs`) | `sin90_events`, `sin90_attention_daily` and its watermark, `sin90_routine_fires`, Blocks, weekly Reviews | block and task transitions, attention replayed and materialised, fires, the automatic weekly draft, `GET /tasks`, `/today`, `/events` | `Journal`, `Today` |
| Summarize (`src/ai/summarize.rs`, `src/http/ai_summarize.rs`) | the run: the body read, the numbers read | trigger, dedup, read, ask, check the narrative, submit | `Journal`, `Narrative` |
| Classify, propose (`src/ai/`, `src/http/ai_{classify,propose}.rs`, `src/store/ai_port.rs`) | what a run has read; proposals, `sin90_classify_evals`, `sin90_ai_calls` | select targets, dedup, decide by rule or by model, submit with an audit row, report | `AiPort`, `Classify`, `Propose`, `AiCapabilities` |
| AI ladder (`src/ai/ladder.rs`, `src/ai/ports.rs`) | `RunState`: budget, deadline, circuits, deferral, abort | `plan`, `run_item`, `tripwire` | `Ladder` |
| AI run registry (`src/http/ai_runs.rs`, `src/http/state.rs`) | at most one live run per capability, a bounded run log; the semaphore of model calls | trigger, start, finish, evict, `BusyGuard`'s drop, hard deadline, `SemaphoredModelCaller`, poll | `AiRuns`; reports and polls in `AiCapabilities` |
| Dates (`src/core/util.rs`) | none | days, leap years, ISO weeks, local midnight | `Calendar`, `Today` |
| Cron and id syntax, migrations, test hooks, wire formats | none | — | not modelled |

**How they interact.** A handler runs one `BEGIN IMMEDIATE` transaction that
moves its rows and appends their events together; for a Routine or Review it
also writes the outbox row and calls `outbox_notify().notify_one()`. The pump,
one tokio task, sleeps in a `select!` between `PUMP_TICK` and that
notification, reads all due rows as snapshots, and for each re-checks that the
snapshot is current, calls the kernel, and writes the outcome back under
`WHERE id = ? AND status = 'pending' AND version = ?`. When due it also runs
`reconcile_full`: read the Routines, call `list()`, and enqueue a correction for
every difference. The kernel delivers a Routine's fires back over HTTP, at least
once. An AI run claims its capability's slot, chooses targets, and climbs down
the ladder item by item with a model call (and anything else in the system)
between its reads and its submission; what it submits is a Proposal, tried out
under a savepoint, that a human accepts or rejects. The process is restarted by
Agent24's supervisor; the database and the key file survive, the pump's locals,
the run registry and the in-memory permit do not, and the next generation may
hold other grants or be another build.

**What is hard.** Edits fall between the snapshot, the currency check, the
call and the write-back. A call may be executed although its answer was lost,
and executed *late*, after a newer one. The process may die between the
kernel's effect and the write-back. `reconcile_full` writes corrections decided
from two readings that are both stale by then. Retry counters are computed from
values read before the call. Wakeups race the tick that is under way. AI runs
are cancelled, time out or panic while they hold a slot, a permit or a place in
the semaphore's queue. A Proposal is validated against an overlay, submitted, and
applied to rows that have moved on. A run reads targets, settings, bodies and
numbers at four different moments. Timestamps are whole seconds, so "newer than"
ties. Two processes create the key file at once.

**What makes each part correct.** The store: a key's newest row is the intent
the tables express, and there is one live row at most. The pump: done means
confirmed; what is settled is mirrored; a memory is minted once; nothing
lands out of order. Scheduling: no wakeup lost, backoff respected, the safety
net comes round. Budget: only what should count counts. Proposals: what was
validated is what is applied, in full or not at all; decided once; history and
the user's own placement stay put; only the human key commits. The log: every
account derived from it agrees with the rows and with every other. Fires: counted
once. Reviews: no program overwrites a person. AI runs: one live task per slot, no
permit lost, every slot comes free again; verdicts on failures hold for the whole
run, nothing is proposed twice, nothing is missed, and the report is the truth.

## 2. Modules

| Module | What it is |
|---|---|
| `Outbox` | The tables and every transaction that writes them, each one atomic action. A row's id is its position in the sequence `outbox` (SQLite rowids of a table nobody deletes from). Write-backs may be called with any id and any version up to the row's: the store's guarantees do not rest on the pump. `StoreSpec` is its specification. |
| `Reconciler` | Extends `Outbox` with the pump, the kernel, generations and crashes. Every `await` of `drain_pending`/`apply_one`/`reconcile_full` is a step boundary (`pc`). |
| `KernelIntent` | The abstract promise, per key: the last intent asked for, whether the kernel confirmed it, and that only a confirmed intent lands. |
| `PumpSchedule` | When the pump works: the `select!`, tokio's single stored permit, `PumpState` and the decision to run `reconcile_full`, over a clock. |
| `RetryBudget`, `Backoff` | The counters and the delay of one row, with edits and forgotten write-backs in between; `backoff_after`. |
| `AiRuns` | Background AI runs: `RunRegistry`, `BusyGuard`, the semaphore with its queue, the call timeout and the two deadlines of a run, over a clock. |
| `Planning` | The planning tables, their transition relations, and the direct writes. |
| `Proposals` | Extends `Planning`: the ten operations, `validate` over the `Working` overlay, the transaction that applies or tries out a batch one operation at a time, roll-back and crash, reject. |
| `ActorKeys` | Processes that start, race for the key file, serve and stop. |
| `HttpApi` | Composes `Proposals` and `ActorKeys`: every writing route with the actor it requires, the seed pack, AI submissions. |
| `Calendar` | The date arithmetic of `core/util.rs`, beside a calendar defined by counting. |
| `Narrative` | The characters of a summarize reply by class, the checks of `fill_narrative` and what it renders. |
| `Journal` | Extends both: the event log, blocks, attention, fires, the weekly draft, summarize. |
| `Today` | The read side over `Journal`. |
| `AiPort` | What classify and propose read from and write to the store. |
| `Ladder` | `run_item`, one step per rung; a model call is two steps. |
| `Classify`, `Propose` | The two capabilities over the ladder. |
| `AiCapabilities` | Composes them with the users' edits, the switch and polls. |
| `MC…` | Instances for TLC. |
| `ReconcilerProofs`, `PumpScheduleProofs`, `RetryBudgetProofs`, `AiRunsProofs`, `HttpApiProofs`, `JournalProofs`, `AiCapabilitiesProofs` | The theorems (section 4); those of `Outbox` are in `ReconcilerProofs`, those of `ActorKeys` in `HttpApiProofs`. |
| `FoldLemmas` | What `FoldLeft` computes over a sequence of any length, for a given step. |

Correspondence worth knowing when reading `Reconciler` next to the code:

* `Wake` is the top of `pump_tick` together with `outbox_due_pending`. The
  notification itself is abstracted here (the pump may wake at any time it is
  idle); whether it is *woken* is `PumpSchedule`'s question.
* `SkipStaleRow`, `SkipUnserved`, `PostponeUnknownKind` and `SendRow` are the
  branches of `apply_one` up to the call. `SchedulerAnswers`, `RecallAnswers`
  and `RememberAnswers` are the kernel's answers, `Row…` the branches of the
  classification after it. Outcomes are the classes `apply_one` tells apart:
  `revoked`, `lost` (connection lost), `permanent`, `capacity` (rate_limited,
  busy, not_ready, draining: counted apart, batch stopped) and `other`.
* A generation is the capabilities it was granted and the kinds its build
  dispatches. A mixed set of generations covers "a row written by a newer build
  met by an older one" and "a row without its capability".
* `Uncertain` is a call whose caller does not learn its fate: executed, not
  executed, or — with `LateEffects` — executed at some later time.
* `DesiredOf`, `RowsOf`, `Mirrored` belong to the properties, `acks` is history.
* `write_markdown_atomic` writes the file before the commit; an aborted
  `finalize_review` (commit fails or the process dies after the file was
  written) is an action of its own.
* Modelled as configured for real use: a data directory is set, so
  `finalize_review` exports. Stored payloads parse (the store wrote them), so
  `bad_desired` never occurs; rows are kept, as nothing in the code deletes one.

For `AiRuns`:

* `start`, `finish` and `Evicted` are the registry's critical sections. A run id
  is its place in the order ids are minted; a record is its `state`.
* A task is `dedup` (slot claimed, targets being chosen), then inside
  `with_hard_deadline`: `between` calls, `queued` in `acquire`, or `calling`.
  What it decides in between is `Ladder`'s business; any run may make calls up
  to its budget and end in either final state.
* `SkipRun` is `trigger_summarize`'s early end; it is left possible for every
  capability.
* `Drop` is what dropping the run's future does to the semaphore in each of
  those places; `HardDeadline` and `Panic` take it together with the `finish`
  that follows, as no `await` lies between the two.
* Only waiting takes time (`TimePasses`): a task that can run does so first.

For `Planning`, `Proposals` and `HttpApi`:

* A minted id is the position of its row. Of a title only the Area slug it
  leads to is kept. `Triage` is the reserved Direction of migration 0014.
* SQLite has one writer: `tx` is the open transaction of a batch, with the
  tables as they were when it began; while it is open no other write happens
  (`Alone`), but its own operations are separate steps, between which it may fail
  (`RollBack`) or the process may die (`Crash`). A dry run is the same sequence,
  ended by `Restore` (ROLLBACK TO the savepoint).
* `validate_X` is an arm of `validate_op` on the overlay, `may_X` and `apply_X`
  the guard and the effect of the same operation in `apply_op`. They are two
  translations of two pieces of code: that they agree is a property
  (`OverlayMatchesApply`).
* `committed` in the properties is what a reader outside the transaction sees.
* A request goes to a process that serves and is taken for whom that process's
  keys say; the AI capabilities call the store without a key (`ai_submit`).
* `install_pack` is a run of single writes, any of which others may come between.

For `Journal`, `Narrative` and `Today`:

* Time is a count of ticks; several writes may share one. An event keeps the
  columns and payload fields that some replay reads.
* A Review's body is who rendered it and from which numbers; two renderings
  of the same numbers are equal exactly when the texts are. A person's text is
  equal to none of them.
* Minutes are sums over sets of positions of the log or of the blocks, so that a
  replay is stated without its order; only the materialised days are a fold.
* `attention_rebuild` is its first transaction only; the second is
  `attention_apply_new_events`.
* A summarize run is `dedup`, `read`, `decide`: the Review was read at the
  trigger, the numbers at `read_weekly_draft`, and the model may write any reply
  of the classes of characters `Narrative` tells apart (letter, digit, numeral,
  unit, the reserved brackets, heading words, block markers of the two
  kinds `sanitize_inline` tells apart, controls, format characters, placeholders known and unknown).
* `Today`'s lists are operators on the state, each one read transaction; `InOrder`
  is an `ORDER BY`: each member of the set at the place that its number of
  predecessors gives.

For `AiPort`, `Ladder`, `Classify`, `Propose`, `AiCapabilities`:

* A proposal is kept by its kind (assign, carry, reorder, create), what it
  names and who made it; whether it would still apply is `dry_run`. The full
  gate is `Proposals`.
* `item` is where `run_item` stands: at a rung, waiting for a model, produced,
  submitting, or ended. `Parsed` is what the capability's parser can make of a
  reply, wrong answers included.
* Reading the targets, the dedup, the candidates and the settings are separate
  steps of a run, as each is a query of its own.
* A run's record and its call rows are read by a poll in two steps
  (`poll_reads`, `poll_answers`), as `get_ai_run` does; when the second read
  fails the answer has no rows (`poll_degrades`), and `ReportHonest` says nothing of it.
* Only one run at a time is followed here, the slots are `AiRuns`' subject.

## 3. What is checked

Sizes are TLC's distinct states.

| Run | Instance | Shows |
|---|---|---|
| `routines` | 2 Routines, 2 specs, 3 edits, 2 faults, threshold 2 (274,824 states, symmetric in Routines and specs) | `NewestRowIsCurrentIntent`, `LiveRowIsNewest`, `DoneMeansAcked`, `SettledMeansMirrored`, and that the pump implements `KernelIntent` (`ImplementsIntent`) |
| `reviews` | 2 Reviews, 2 bodies and blank, 6 edits, 2 faults, four kinds of generation (117,025 states) | `FinalizedReviewIsExported`, `RememberedAtMostOnce`, and under fairness `FinalizedIsRemembered` |
| `converges` | 1 Routine, 1 orphan schedule, 2 edits, 1 fault, 2 kernel-side changes, late effects, threshold 1 | under fairness `EventuallyMirrored`, `EventuallyNoticed` |
| `pump_schedule` | interval 5, tick 2, calls up to 1, cap 4, 20 time units, 4 failures | `NoLostWakeup`, `StartupBacksOff`, `FullComesRound` |
| `full_reconcile_interval` | the same | finding 1 |
| `retry_budget` | threshold 3, 2 edits, 7 answers, cap 5 | `ExhaustedOnlyByUnclassified`, `RetryDelayFitsAttempts` |
| `retry_in_a_row` | the same | finding 2 |
| `ai_runs` | 2 capabilities, 1 permit, log of 1, 4 runs, 2 calls each, call timeout 3, run deadline 3, margin 1 (32,177 states) | `SlotFollowsTask`, `LiveRunIsTracked`, `PermitsConserved`, `HardDeadlineNeedsQueueing`, and under fairness `NeverBusyForever` |
| `ai_runs_ceiling` | the same | finding 3 |
| `proposals` | seven worlds (below), 3 proposals, 2 processes (162,522 states, symmetric in proposals) | `OverlayMatchesApply`, `DecidedOnce`, `TaskLinksHold`, `HistoryStaysPut`, `HumanPlacementWins`, `OnlyHumansCommit`, `RowsWellFormed`, `KeysAgree` |
| `journal` | twelve worlds, 2 Routines, 2 fire ids (583,139 states, symmetric in fire ids) | `AttentionAgrees`, `FiredOnce`, `AutoDraftIsRewritable`, `HumanTextKept`, `NarrativeIsHonest`, `LogIsTheRecord`, `CalendarRight` |
| `capabilities` | five worlds, 3 model calls a run, items of up to 2 tasks (1,552,803 states) | `VerdictsHeld`, `AuditExplains`, `NoDirectionMissed`, `OneLiveProposal`, `ReportHonest` |

**Worlds.** The last three runs cover many operations. Instead of one instance
with a bit of everything, `Init` picks a *world*: a record of bounds (how many
rows, which batches clients submit, which engines exist, how long the clock
runs) chosen so that one group of hazards happens in full. Nothing but the
bounds depends on the world, which never changes, so a run's states are the sum
of its worlds' and not their product.

* `proposals`: tasks moving between inbox, Triage and a Direction under direct
  writes and competing proposals; two weeks that open, close and trade tasks;
  projects with sub-tasks through both doors; one Review and drafts against
  different bases; Areas and their slugs, Directions and the seed pack; a Rhythm
  whose allocation names a Direction; two processes that start from an empty
  directory, stop and start again. Batches include ones that fail half-way, that
  validate only because of an earlier operation of their own, and that name rows
  that do not exist.
* `journal`: blocks, Directions and the daily view over two days, and the same
  with a task whose week a block counts for; fires of two Routines, one of which
  drafts Reviews, repeated, late and after retirement, over a week boundary
  (2025-12-27, a Saturday, and the days after), and fires around a task the draft
  counts; the Review of a week under edits and two summarize runs, and under a
  task that moves meanwhile; `/today` with two ticks a day in a zone whose
  midnight is UTC's noon; every reply of up to four character classes against a
  title that imitates the program's text; and 372 days around the years 1900,
  2000, 2020 and 2026 on which nothing but the clock moves (two kinds of century,
  a leap year of 53 weeks and a common one).
* `capabilities`: two items through every verdict on a failure with the switch
  flipped meanwhile; the rules alone, under edits and polls; one task in and out of
  Triage while Directions are created in the same and in later seconds; two
  weeks with three tasks under edits; rejected suggestions and what revives them.

**Other bounds.** Constants named `Max…` bound how often the environment acts, never
what the code does (`MaxModelCalls`, `MaxNarrativeChars` and `MustDo` are the
code's own limits, scaled). Three edits are the shortest history with an edit before
the batch is read, one while it is in hand and one while a call is in flight;
two Routines give a batch of two, so a row can be overtaken before its turn;
two faults allow a lost answer followed by a crash. Six Review edits are create,
edit, aborted finalize, edit again, finalize, plus one of the other Review.
`converges` needs few edits because its subject is drift and late effects; a
threshold of 1 makes every unclassified failure a given-up row, the hardest case
for convergence. The clock's 20 units hold three intervals. The real constants
(tick, interval, 300 s cap, thresholds) are scaled, keeping the order
tick < interval and a cap that is reached. `ai_runs` keeps one capability more
than permits (three and two in the code), so calls do queue; a log of one entry
is at its limit from the second run on; four runs fill it, evict and meet two
live runs at once. The deadlines are scaled so that a queued call can be late by
more than the margin. Where the bounds let the system come to rest (a row done,
no trigger or write left) deadlock is not checked.

**Fairness** (`Reconciler!Fairness`), weak throughout: the runtime polls the
pump task and the timers; every kernel call gets an answer, since the SDK's
response timeout surfaces as `ClientError::Timeout` and an error is an answer; `next_attempt_at` and
`FULL_RECONCILE_INTERVAL` pass; Agent24's supervisor replaces a generation that ended or
was revoked (an assumption about the kernel, which is not in this repository);
a late call is executed eventually or (a choice at send time) never. No fairness
is assumed of edits, faults, crashes or kernel-side changes, and the outcome
"success" is not assumed: what is bounded is how often calls fail, so liveness
is "once failures stop". `FinalizedIsRemembered` is conditional on a serving
generation staying.

In `AiRuns` fairness is weak too, and per task: a task that can run is polled,
and timers fire (the call's timeout, the hard deadline, the clock). Nothing is
assumed of the kernel's answers, of triggers or of panics, so `NeverBusyForever`
holds of a kernel that never answers. `HttpApi`, `Journal` and `AiCapabilities`
state safety only and assume no fairness.

**What the properties do not claim.** `SettledMeansMirrored` and
`RememberedAtMostOnce` exclude late effects: with them, a call executed after
its caller gave up can undo a newer state until the next full reconcile (that it
is then repaired is `EventuallyMirrored`), and could mint a second memory, which
only the kernel could prevent. `OneLiveProposal` is about the two kinds whose
targets exclude each other, assigning and carrying a task, made by runs; a human
may submit the same thing by hand. `NoDirectionMissed` is about being looked at
again, not about what is then proposed. Types of rows are part of
`RowsWellFormed`; those of the other modules with theorems are part of their
inductive invariants.

**Findings.**
1. After the first success `pump_tick` looks only at `last_full_success`
   (`reconciler.rs:1052`); the backoff a failed periodic reconcile stores in
   `next_full_attempt` is never read, so it is retried on every tick and every
   notification, where the module doc says "no more often than
   `FULL_RECONCILE_INTERVAL`".
2. `other_bucket_attempts` is documented as counting failures "IN A ROW"; a
   capacity answer between two of them does not reset it, so it counts the
   unclassified failures of a version in total.
3. `RUN_HARD_DEADLINE` is documented as "a genuine 'this should never actually
   fire' ceiling". A call first queues for one of two permits that three
   capabilities share; one begun just before the run's own deadline of 600 s may
   wait for up to 125 s before its own 125 s begin, and the ceiling is 755 s. What
   does hold, and is proved, is `HardDeadlineNeedsQueueing`.

**Met on the way**, where the code is modelled as it is and a comment says or
suggests something else, or where a choice of the code is easy to overlook:

* `http/actor.rs:3` and the message of `require_human` say the automation key
  may submit *and accept* Proposals; `accept_proposal` requires the human key
  (which is what `OnlyHumansCommit` states). `/capture` takes either.
* `TodayView.fired_routines` is documented as "today's UTC calendar day"; the
  query uses the local day's start, like the rest of the view. A task that is in
  progress since yesterday appears both in `must_do` and in
  `carry_over_candidates`, though the comment in `today_view` speaks of one
  section at a time. The inbox of `/today` lists carried-over tasks without a
  Direction; that of the AI port does not.
* `proposal_transition_allowed` is called by tests only; the store's
  compare-and-set statements implement it (`DecidedOnce` says they agree).
* `transition_task` lets a client set `carried_over` without a successor;
  `TaskLinksHold` is therefore about successors that exist.
* A body drafted by a fire is recognised as the program's own at that moment
  (`AutoDraftIsRewritable`), and stops being so with the week's next activity.
* `submit_proposal` with an id already stored answers "pending" and emits
  again, whatever became of the stored one.
* Rejections silence a suggestion from the second it was proposed, not from the
  second it was rejected. `propose` reads allocations and gaps again after its
  dedup. A run that is deferred or aborted reports so for all of propose's
  kinds, including one the dedup had skipped.
* `attention_rebuild` and `attention_apply_new_events` have no production
  caller yet.
* The window of week 9999-W52 ends in a five-digit year, so its textual
  comparison is empty; `days_from_civil` is wrong only before year -1.
  Neither is reachable with the dates the program stamps.

## 4. What is proved

TLAPS checks these for all values of the constants: any sets of Routines,
Reviews, specs, bodies, processes, any generations, any bounds.

Assumptions: `OutboxAssumption` (Routine, orphan and Review keys are disjoint —
the code prefixes keys by kind, and an orphan is by definition no Routine —, and
the blank body and the absent payload are no body or spec) and
`ReconcilerAssumption` (generations are generations, the threshold is positive,
bounds are numbers).
`AiRunsAssumption` says that there is a capability and a permit, that timeouts
are positive and the other constants natural numbers; `PumpScheduleAssumption`
and `RetryBudgetAssumption` the same of ticks, intervals, the threshold and the
bounds, `BackoffAssumption` that the cap is one the shift reaches;
`ActorKeysAssumption` that the absence of keys is not a pair of keys.
`PlanningAssumption` keeps NULL, the reserved Triage and the blank body apart
from ids, weeks and texts. `BatchesAssumption` says that what clients submit is
what deserialisation can give: sequences of `Sin90Op`, each operation with
the fields of its kind (`core/proposal.rs`), of a known source.
`JournalAssumption` says that minutes and ticks are natural numbers, that a day
has ticks, that a title is a sequence of characters, and that NULL is no number,
week label or row.
`AiPortAssumption` keeps NULL, the reserved Triage and a filed Direction apart and
gives each world a capability, rows to begin with, requests that name positions,
and finitely many gaps (they are the coverage gaps of one week's plan);
`LadderAssumption` says that the call budget is a number and that a world's
failures are kinds of failure the client has; `ClassifyAssumption` that
`MAX_TASK_IDS` is positive.

**The store** (`ReconcilerProofs`). `StoreInvariant`: `StoreSpec => []StoreInv`, with

    StoreInv == StoreTypeOK /\ LiveIsLast(outbox) /\ IntentsKept
                /\ UnfinalizedHasNoRow /\ FinalizedReviewIsExported

`NewestRowIsCurrentIntent` is not inductive alone: `upsert_outbox` overwrites
the newest *live* row, which is the newest row only because live rows are last
(`LiveIsLast`). `FinalizedReviewIsExported` needs that a draft has no row yet.
The lemmas say what `upsert_outbox` returns (`UpsertShape`, `UpsertKeeps`) and
that a write-back moves no intent (`SameIntentsKeeps`); then one lemma per
transaction.

**The pump** (`ReconcilerProofs`). `StepIsStore`: each step of `Next` is a step
of `StoreNext` or leaves the store alone — a write-back whose remembered row has
moved on is a stutter — hence `ReconcilerRefinesStore: Spec => StoreSpec` and the
store's properties for the whole system. `ReconcilerTypes: Spec => []TypeOK`.
`DoneRowsWereAcked: Spec => []DoneMeansAcked` rests on

    PumpInv == StoreInv /\ Typed /\ BatchFaithful /\ ReplyAcked /\ DoneMeansAcked

`BatchFaithful`: a snapshot in the batch is never ahead of its row, and agrees
with it on the desired state while their versions agree. `ReplyAcked`: a success
not yet written back was confirmed for the row at hand. Together with the
`version = ?` guard they give the confirmed desired state of a row that becomes
done. That batches stay faithful follows from `Evolves` (rows stay, versions only
grow, a version has one desired state), shown for every transaction.

`PumpImplementsIntent: Spec => ImplementsIntent` is the refinement of
`KernelIntent`, step by step: per key, what a step does to the newest row and to
`acks` is asking, confirming, landing, or nothing. It needs more than `PumpInv`:

    IntentInv == PumpInv /\ InFlight /\ AcksNotAhead /\ HasNewest /\ LiveAsks

An edit asks anew because the kernel has confirmed no version a row has yet to
reach (`AcksNotAhead`), and a confirmation is of the newest intent or of none
because the row of a call in flight is still pending (`InFlight`): only the pump
ends a row. `SettledRoutinesAreMirrored` and `ReviewsRememberedAtMostOnce` add
what the kernel holds:

    KernelInv == NoLate /\ RecalledFresh /\ RememberedAtMostOnce
                 /\ ReplyMirrored /\ SettledMeansMirrored

`ReplyMirrored` carries the kernel's effect from its answer to the write-back;
`RecalledFresh` says that between recall and remember nothing else mints.

**The schedule and the budget** (`PumpScheduleProofs`, `RetryBudgetProofs`).
`ScheduleInv` makes `NoLostWakeup` inductive by saying wherever the pump is, not
only in `select!`, that an unread row is announced or about to be, and
`FullComesRound` by a deadline for each stage, counted from the last success.
`BudgetInv` needs that the counters in the pump's snapshot are the row's while
the versions agree (`SnapshotFaithful`), which is why counting from values read
before the call is right, and that no answer for this version comes after its
end (`NoAnswerAfterTheEnd`).

**AI runs** (`AiRunsProofs`). `RunsInvariant: Spec => []RunsInv`, with

    RunsInv == TypeOK /\ Fresh /\ SlotFollowsTask /\ LiveRunIsTracked
               /\ PermitsConserved /\ QueuedOnce /\ Ages

`SlotFollowsTask` needs `Fresh` (the run a trigger starts has no task yet).
`PermitsConserved` needs `QueuedOnce`: taking one place out of the queue removes
the run from it only if it stands there once. `Ages` bounds a run's age by the
time its last call was queued and by the call's age, from which
`HardDeadlineNeedsQueueing` follows by arithmetic. The sequence lemmas (`Before`,
`After`, `Joined`, `Hole`) say what cutting a place out of a queue leaves; then
there is one lemma per way of taking, passing on and giving up a permit
(`CallKeeps`, `ReleaseKeeps`, `UnqueueKeeps`, `DropKeeps`), one for every way a
task ends (`EndKeeps`), and one for each other step. Theorems: `AiRunsTypes`,
`SlotsFollowTasks`, `LiveRunsTracked`, `PermitsNeverLost`, `QueueingMakesItFire`.

**Actor keys** (`HttpApiProofs`). `KeysInvariant: KeysSpec => []KeysInv`, with

    KeysInv == KeysTypeOK /\ Published /\ Held

`Published`: a process about to link has a whole temp file, the winner's temp
file is the key file, and a loser knows that a key file exists. `Held`: from the
handshake on a process holds a whole pair, its environment's or the key
file's. `KeysAgree` needs both, since a process that lost the race reads the file
another one published, and `KeyFileIsFinal` (no step replaces or removes it) is
what keeps `Held` true while others start. Theorems: `KeysInvariant`,
`ServingKeysAgree`, `KeyFileIsFinal`.

`RequestsAreIdentified` says the same of the whole HTTP surface, whose other
steps leave the protocol alone.

**Proposals behind the HTTP surface** (`HttpApiProofs`). All eight properties of
the `proposals` run are theorems, from `GateInvariant: Spec => []GateInv`, with

    GateInv == KeysInv /\ GateTyped /\ Lawful /\ Claimed /\ AcceptIsHuman
               /\ NowHolds /\ TxInv

`NowHolds` is the shape of the rows and of their links, `Claimed` ties a claimed
proposal to the open transaction. `TxInv` is about a batch half-way: the saved
tables are well formed too (a roll-back or crash returns to them), the rows have
not come further from them than a batch may move them (`Moved`, from which
`HistoryStaysPut` and `HumanPlacementWins` follow when it commits), and
`Overlay`: there is a truthful snapshot over which the whole batch validates,
and the working view that `validate` had after the operations done so far shows
the rows as they are. `validate` is a fold of `validate_op` over the batch while
`apply_op` takes it one step at a time, so this is induction over a batch of any
length: a batch that validates passes at every operation (`EachPasses`), and,
kind by kind, the overlay an operation leaves shows the rows its application
leaves. `Overlay` gives `OverlayMatchesApply`. In `validate_op` the first failure
ends the batch, as the `?` of the code does, by an `IF` around the `CASE` of
the kinds: as one more arm its guard would overlap theirs and leave the value
open.

**The log** (`JournalProofs`). `JournalInvariant: Spec => []JournalInv`, with

    JournalInv == LedgerInv /\ Drafted
    LedgerInv == Typed /\ Logged /\ Delivered /\ DaysAgree /\ WeeksHold /\ AreasHold

`Logged` says that an event carries what its replays read, and that the log and
the rows name the same Area for a Direction. `WeeksHold` and `AreasHold` are the
second and third part of `AttentionAgrees` in sets of positions (`WeeksAre`,
`AreasAre`): a completion adds its minutes to one set of events and one set of
blocks, every other step to none. For the Areas the weeks' drafts are added up, so
a completion must be in exactly one of them: `OneWeek`, from the arithmetic of
`iso_week_of_day` and `iso_week_bounds` (`BoundsAre`: the bounds a label gives back
are the Monday of the day it came from and the next one). `DaysAgree` is the fold:
applying the rest to the fold of a prefix is the fold of the whole (`FoldOn`).
`Delivered` relates the rows of fires and Routines to the log and gives
`FiredOnce`; `Drafted` says that a run that decides, and a draft, rest on a body of
the program's, which with `StillApplies` gives `HumanTextKept`.
`AutoDraftIsRewritable` holds because the event of the new Review changes no
number (`DraftSame`).

`LogIsTheRecordInvariant` rests on a second invariant, `RecordInvariant: Spec =>
[]Recorded`, kept by every step relative to `JournalInv`:

    Recorded == /\ Told(events, "task", ...) /\ ... /\ Told(events, "routine", ...)
                /\ FiledAs(events, ...) /\ Stamped(events, now) /\ FiresStamped(events, fires)

`Told` says, for each of five tables, that the events name rows of the table only,
and that a row's status is the `to` of the last event that gives it one;
`FiledAs` the same of a task's Direction. `Stamped` is the order of the stamps, which
carrying over needs: the last time a task went in progress is its latest time, though
seconds repeat. `FiresStamped` puts a fire's event and its row in the same second.
What a step does to each is one lemma about an event appended to any log (`ToldNext`,
`FiledNext`, `StampedNext`), so a fire that writes two events is two uses of it. The
queries are then what they should be: a list in order holds each member of its set once
(`InPlace`: as many come before a member as its place says, so by counting each place is
taken); today's list, cut, leaves out nobody further along (`MustDoIs`); the pages of
`GET /events` are a fold, and following them one by one holds the whole log (`AllSeen`);
and a midnight of the user's passed since a stamp exactly when the stamp is before
`local_day_start_utc` (`MidnightIs`), for every zone and length of day. The last needs
`TodayAssumption`: a zone is a number of ticks, and `None` (the null of a column) is
none of the statuses.

`NarrativeIsHonestAlways` is about the text of a summary, for replies and titles of
any length and any characters. Its state part is small (`Narrated`: a run holds
characters its model wrote, and every draft's body is honest); the rest is about
what `fill_narrative` computes. `FilledRenders`, by induction over the reply, says
that the text is a `Rendering` of it: every bracket is closed again
(`Bracketed`), holds no line break (`SanitizedIs`: a title has neither brackets nor
breaks left), and a position outside brackets shows one character of the reply, its
neighbour outside the next one. So no line is cut inside a bracket (`LinesAre`), and a
paragraph is an `Excerpt`, from one closed position to another (`PlainLineIs`). What
the checks ask of the reply as a whole then holds of each paragraph
(`ExcerptIsHonest`): two signs that touch outside brackets touched in the reply, so a
forbidden pair (a unit and a measure, the two halves of the heading) cannot come
together by filling, cutting or stripping. Brackets are counted by kind, and the parity
of the count says on which side of them a position is.

**AI capabilities** (`AiCapabilitiesProofs`), for both capabilities, every
budget, any number of tasks, Directions, proposals and edits. What everything
rests on is `BaseInvariant: Spec => []BaseInv`:

    BaseInv   == StoreType /\ LadderInv /\ ReadInv
    LadderInv == LadderType /\ Standing /\ Distinct /\ PastCalls /\ VerdictsHeld

`VerdictsHeld` relates any two calls of a log and is not inductive alone: what an
earlier call forbids must be in the state of the run when a later one is made.
`PastCalls` says what each call on record means for the rest of the run (the run is
aborted, the models are off, the engine is skipped, its item is the one in hand),
`Standing` that a model is only asked, and a decision only taken, when that state
allows it, and `Distinct` that an item deferred once does not come up again.
`ReadInv` is what the run has read of the store, and that a decision is one the
candidates, tasks and gaps it read allow. Relative to `BaseInv`:

* `AuditExplainsInvariant`, from `AuditInv`: the place of the item on the ladder
  (`StandsIn`) names the last model above it and the call on record by which that
  model failed, for this item or, having opened its circuit, for the run
  (`Skipping`); a decision not yet written is explained like a written one.
* `NoDirectionMissedInvariant`, from `MissedInv`: a Direction that a parked task
  has missed is no older than the task's arrival in Triage or its last evaluation,
  and a Direction the run was not offered is no older than the run's start.
  Seconds are coarse and the reads of a run are spread over several, so the
  comparisons are the point: they are `<=` where the code's are.
* `OneLiveProposalInvariant`, from `LiveInv`: the targets a run has yet to settle
  are on no live proposal, from its dedup on until it submits (`SteersClear`). It
  needs that a proposal keeps to its capability's kinds (`ProposalsKnown`), so that
  those of a run of the other capability, or a human's, cannot enter.
* `ReportHonestInvariant`, from `ReportInv` (beside `LiveInv`, since a dedup must
  still hold when its items are reported). A report is put together item by item
  (classify) or kept kind by kind until it is given in one go (propose), while the
  call rows are linked one submission at a time. `Covers` says that each target is
  reported once or still to do; `ToldByItems` and `ToldByKind` that "proposed" has
  been said as often as a row was linked, and of what the linked proposal is about;
  `LinksHold` that no two rows are linked to one proposal. A kind already told of as
  proposed must not be submitted again, so `ProposeReport` relates the results to the
  attempts still to come. `PollInv` carries the count over the end of the run, where
  the log leaves the slot, to whoever has read its record and not yet its rows.

`LadderStep` splits `LadderInv` by rung (`ReflexKeeps`, `ReplyKeeps`,
`FailureKeeps`), by capability (`ClassifySettles`, `ProposeSettles`) and by way of
ending; `RowJoins` and `AllPastAppend` say what one more call row does to a log.

**Sums, folds and induction.** The library's induction theorems take an operator
as a parameter, which the provers cannot instantiate. `FoldLemmas` goes round
them: a set of naturals that holds 0 and the successor of each member holds
them all (`NatSetInduction`, from a least counterexample), and a property becomes such
a set. From it follow that the function by which `FoldLeft` or
`SumFunction` is defined exists, and what it is at the empty, the longer and
the split argument. A fold's step is given by instantiation
(`INSTANCE FoldLemmas WITH Step <- …`).

**Only model-checked.** Liveness (`FinalizedIsRemembered`, `EventuallyMirrored`,
`EventuallyNoticed`, `NeverBusyForever`), which is out of TLAPS's reach.
`CalendarRight`, which compares the arithmetic with a calendar defined by
counting, day by day.

## 5. Not modelled

* Wire formats: JSON bodies, status codes and error mapping, the SDK's framing,
  prompts. A parser stands for the set of decisions it can produce.
* `validate_cron`, `validate_tz`, ulids and slug spelling: syntax of opaque values.
* How classify tokenises and matches titles: any rule result is possible.
* The kernel's side: its scheduler, memory and model gateway are external, as
  used. The manifest and `model_access` are a bound of the world.
* Read failures inside an AI run's dedup (which degrade to no dedup), the
  `LIMIT 40` on candidates, token counts and latencies. The queries of one dedup,
  and the reads a propose run begins with, are one step each (`dedup_propose`,
  `run_propose`).
* A lost audit row. `calls` in `Ladder` is what a run hands to its sink: the
  store may drop a row of an attempt that produced nothing
  (`record_call_best_effort` only logs it), so `VerdictsHeld` and `AuditExplains`
  are about the records handed over. The row of a proposal is written with it, in
  one transaction.
* An error of `drain_pending` is a drain that ends without having read
  (`DrainEnds` in `PumpSchedule`): it is only logged, no permit is left for it,
  and its rows wait for the next `PUMP_TICK`. `unread` is therefore about rows no
  tick has *tried* to read.
* `require_task_week_open` in `Journal` (it is in `Proposals`): tasks of closed
  weeks may move there, which only widens the behaviours. The columns `sort_key`
  and `updated_at`, which `ReorderTasks` also writes on tasks of a closed week:
  `HistoryStaysPut` is about the columns that are modelled.
* Bringing a failed `memory.remember` row back: the code has no such step.
  `FinalizedIsRemembered` accepts the failed row as an end; that the row does not
  get there early is `ExhaustedOnlyByUnclassified`.
* The `kernel_suspended_routines` section of `/today`: the column is in
  `Outbox`, kept by `Reconciler` (`EventuallyNoticed`), and only displayed there.
* The database's own crash safety, and the temp name's reliance on distinct
  process ids in `load_or_create_file` (a stale temp of the same pid makes that
  one start fail, which is `creation_fails`).
* Migrations (the tables are the modules' variables), test hooks in
  `store/mod.rs`, `reconciler_debug.rs`, `kernel_roundtrip.rs`, tests.

## 6. What could be added

1. Composition of `Journal` with `Outbox`: a fire for a Routine retired while its
   delete row waits. Each half is covered (`FiredOnce`, `SettledMeansMirrored`).
