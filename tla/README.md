# Verification of the Zellij habitat orchestrator

TLA+ models of the orchestrator's concurrent and durable parts, the TLC runs
that check them on small instances, and theorems that TLAPS proves for every
value of the constants. Sources are named as `crates/...` below the repository
root; `PROJECT.json` maps every definition to the lines it models.

## The system

Three organs, which meet only in a SQLite database and in key-value leases
(`README.md`, "Three organs"):

| Component | State | Operations | Hard behaviour |
| --- | --- | --- | --- |
| **Sidecar** `crates/orchestrator-kernel-sidecar` | `event_log` (hash chained), `warrants`, `messages`, `idempotency`, `recipe_runs`, `edge_coherence`, in one WAL database | `submit`, `append`, `verify_chain`; reads `snapshot`, `snapshot_v2`, `replay_since`, `events_for_trace` | several `orch-kernelctl` processes at once, retries of a key, errors half-way, kills before and after the commit, power cuts, edited rows |
| **Admission** `crates/dcg-admit` (`admit`, `fence`, `warrant`, `saga`, `arming`) | nothing of its own: the arming key in atuin, fences and tasks in the sidecar's log | `admit_write`: arming, fence below, fence above, submit, snapshot, record the fence, compensate | every step is a subprocess; others write between any two; every call may fail before or after its effect; the key is disarmed meanwhile |
| **Governor** `crates/dcg-admit/src/governor.rs` | per-agent costs, AIMD width, breaker, semaphore, each behind a mutex of its own | `govern(agent, cost, op)` | threads interleave between the mutexes; FIFO hand-off of permits with a signal after the unlock; half-open probe; saturating counts |
| **Width** `crates/dcg-admit/src/width.rs` | none | `compute_width` | none: a minimum |
| **Bridge client** `crates/habitat-bridge-client` | endpoints, last polls, stagger index | `poll_due`, `handle_result` | results of concurrent commands come back in any order |
| **Plugin** `crates/habitat-plugin` | modules, tick, state cache | `update`, `pipe`, `load` | events from Zellij in any order; state lost on reload |
| **Modules** `crates/habitat-modules` | the last payload of each feed, logs, acknowledgements | `handle_event` per module | deduplication, cooldown, eviction, staleness |
| **Perception** `crates/orchestrator-perceive` | none | one pass of observations, one `append` | partial failure of an observation |
| **Core, scripts, layouts** | configuration | parsing, deployment | none that TLC would reach |

How they interact: `admit_write` runs `atuin kv get` and `orch-kernelctl`
(`events`, `snapshot`, `submit`, `append`); perception runs `orch-kernelctl
append`; the plugin polls HTTP services, `orch-kernelctl snapshot` and perception
itself through Zellij's `run_command`, which never waits; `govern` wraps any closure, and nothing in the
repository calls it outside its tests (the `govern` subcommand is a stub), so it
is modelled under the use its documentation gives: many threads, any operation.

What makes each correct: the **sidecar** keeps one gapless chain, ingests a key
once, writes a task entirely or not at all, and tells callers only what is in
the log; **admission** never lets a resource be shut by a bad fence, grants only
what is recorded, compensates only what was admitted, and stops when disarmed;
the **governor** never exceeds its width, serves in order, loses no wake-up and
gives every call an answer; the **plugin** polls every
endpoint in time, shows the same feed on the panels that share it, loses no
alert before it is acknowledged, lists an event once and in order, and never presents
a state of the log that could not have been read.

## Modules

| Module | Models | Remarks |
| --- | --- | --- |
| `FifoPermits` | the promise of the semaphore | a queue and a set of holders |
| `FairSemaphore` | `FairSemaphore`, `SemShared`, `Permit` | one action per critical section: fast path, enqueue, wake, release, signal |
| `Governor` | `Governor::govern` | EXTENDS `FairSemaphore`; one action per critical section |
| `EventLog` | the promise of the sidecar | a log of entries, admission of a task with its run in one step |
| `Spine` | `EventLog::submit`, `append_event` in concurrent processes | implements `EventLog` |
| `SpineFaults` | `Spine` under power cuts and edited rows | EXTENDS `Spine` |
| `DcgAdmit` | `admit_write` | composed with `EventLog`, the abstract sidecar |
| `BridgeClient` | `BridgeClient`: registration, `poll_due`, `handle_result` | the commands it started run on, in `running` |
| `SnapshotReader` | `EventLog::snapshot` of the sidecar, one read after the other | over `EventLog`, the abstract sidecar |
| `CampaignAttention`, `FiberCockpit`, `EventFeed`, `CmdPipe` | one panel each | state records and the function from state and event to state |
| `StatusPanels` | `orchestrator_kernel`, `orchestrator_witness`, `bridge_health` | with the words of the headers |
| `FeedPanels` | `fleet_view`, `coherence_gauge`, `na_panel`, `session_timer`, `sphere_warden` | the last answer of each feed |
| `Plugin` | `HabitatDashboard` and what runs around it | composes all of the plugin's modules above: timers, keys, pipes, results, loading and closing; commands, other writers, an edited row |
| `Width` | `compute_width` | a pure function and its reference |
| `SpineAdmissionProofs` | what `Spine` admits, and the refinement of `EventLog` | EXTENDS `SpineProofs` |
| `*Proofs` | theorems about the module of that name | EXTENDS it and `TLAPS` |
| `MC*` | finite constants for TLC | with a `.cfg` per run |

`DcgAdmit` uses `EventLog` in place of `Spine`, which is justified by the
refinement `Spine => EventLog` that run `spine` checks and `EventLogRefinement`
proves: a `submit` is one `Admit`, an `append` one `AddNote`, a sequence number is
a position. The third possibility, a replayed key, is a step of `DcgAdmit` that
leaves the log alone. `SnapshotReader`, and `Plugin` with it, read the same abstract
sidecar. That neither of them does more to the log than `EventLog` allows is
proved as well (`AdmissionUsesLog`, `DashboardUsesLog`).

Operators whose comment begins with "Fault" are not part of any specification:
each is a plausible bug in the definition that follows it, and `PROJECT.json`
pairs it with the property that finds it (`mutants`).

### State and code

* `FairSemaphore`: `available`, `inFlight`, `waiters` are the fields of
  `SemState`; `ready` the flags of the waiters' condition variables; `at` where a
  thread is in `acquire_permit` or `release_one`; `granted` whom a releasing
  thread has still to signal.
* `Governor`: `pc` is the step of `govern` as its comments number them; `spent`,
  `width`, `breaker`, `failures` are the governors' fields; `seen` the local
  `current_in_flight`; `timedOut` says whether `half_open_timeout_ms` has passed
  since the stamp; `attempt`, `result` belong to `run_with_retry`.
* `Spine`: `db` is the committed database, `tx` what the writer sees, `writer`
  who is between `BEGIN IMMEDIATE` and its end. Each step of `pc` is a group of
  statements of `submit_unlocked`. `Rollback` is every error return inside the
  transaction, `Crash` a kill at any point, `Deliver` the caller reading the
  printed reply. A digest is the sequence of all it was computed from, which is
  what a collision-free hash amounts to. `told` is history, for the properties.
* `SpineFaults`: `past` holds the databases committed since the last checkpoint,
  which a power cut may bring back.
* `DcgAdmit`: `pc` is the subprocess each process runs next. `orphans` holds the
  subprocesses of killed ones: `Command::output` waits for its child and does not
  take it along, so `Crash` may leave a submit or append that `OrphanEnds` carries
  out, or gives up, at any later moment. `allowed` counts the writes that may
  still be admitted after a disarm, orphaned submits included; `raced` says
  whether a write to a resource ever started while another, or an orphan of one,
  was at work; `told` is what callers were told: history that no guard reads. `Bound` limits starts, failures, kills, notes of
  others and togglings for TLC; the theorems hold for any bound.
* `BridgeClient`: `age[i]` is `elapsed - last_poll` of endpoint `i`, which is all
  that `poll_due` compares; `staggerIdx`, `staggerComplete` are the fields.
  `running[i]` holds the commands of endpoint `i` that have not answered, each
  with what it has done so far: the host's state, which the code has nothing of.
* `Plugin`: `modules` maps the id of each panel to its state, and is empty while
  the pane is closed; a module's state is a record with the names of the code's
  fields (`acked`, `watch`, `selected`, `seen`, `lastBusTick`, `lastSnapshot`).
  `dispatch_event` is `DispatchEvent`: each module that subscribes to the kind
  of event applies its handler. `layout` is the pane's configuration, and does
  not change; it also holds the run's bounds. A command of a reader endpoint makes
  the reads of `snapshot` one at a time, one of perception appends its event;
  each may fail at any point. `altered` says that a stored row was edited.

### What is abstract

Payloads, texts, timestamps as text, JSON and SQL are left out. A request is its
key, its body and whether it asks for `verify_chain`; tables are sets of rows.
In the plugin a campaign is its name and its nodes (how many, with which statuses),
a feed a list of them and the names that are armed, listed or not; an event its tick and whether the panel's filter wants it, an answer is
JSON that decodes, text, or nothing. Counts of ticks are cut off where the code
compares them no further, and rendering is left out except for the words OK,
CHAIN WARN, STALE, SENSING and DEGRADED of the headers. Keys stand for both cases
of their letter. A module named twice in a layout is left out. Edge rows are
taken to be observed in different milliseconds. Seconds are whole. Mutex poisoning is
left out: no code panics with a governor mutex held. An `op` that panics is left
out as well (it would skip the report to the breaker, as the soft cap does). The
backoff delay is a step without effect. `validate_submit_request` and the
policy are `SpineAccepts` in `DcgAdmit`, and one of the causes of `Rollback` in
`Spine`. The fixed assumption `NotesAreNotTasks` says that callers of `append`
use kinds of their own, as all in the repository do; `append` itself would take
`TASK_INGESTED`.

## Runs

| Run | Instance | Shows |
| --- | --- | --- |
| `fair_semaphore` | 5 threads, 2 permits | two holders and three waiters, so that a hand-off happens while others are queued and another is under way; safety, order, refinement and liveness |
| `governor` | 3 threads, 2 permits, costs 0 and 1, one retry, threshold 2 | every layer is reached with another thread between any two steps; every call returns |
| `half_open_wedge` | the same, threshold 1, callers that keep coming | **violation** of `HalfOpenSettles` |
| `spine` | 2 processes; a key with two different requests, one with a run; another key; 1 note; 2 clock readings | new, replay, conflict, clock clash, error and kill at each statement, lost reply; refinement of `EventLog` |
| `spine_faults` | 2 processes, a task with a run, a note, 2 faults | a power cut, an edit, or an edit undone by a power cut |
| `ack_lost` | the same, 1 fault | **violation** of `AckIsInLog` |
| `dcg_admit` | 2 processes, 3 starts, a resource, low and high fences, a trace used twice with the same and another request, 1 failure, 1 kill, 2 notes of others, 2 togglings | every guard passes and fails, every call fails before and after its effect |
| `fence_race` | the same without failures | **violation** of `FencesRise` |
| `every_submit_denied` | the same, with the schema constant of `warrant.rs` | **violation** of `DeniedByPolicyOnly` |
| `saga_gap` | the same, 1 failure, no kill | **violation** of `FailureIsCompensated` |
| `plugin` | twelve layouts, below | polls, panels and what they show of the log, with liveness |
| `perceive_receipt` | the kernel panel, 3 entries in the log | **violation** of `ReceiptReachesPanel` |

`plugin` chooses one of twelve layouts in its initial state, one for each
question, since panels meet only through events:

* the cockpit and the attention panel together, on one feed that comes by polls
  and pipes: feeds over three campaigns, two shown at most, so that a campaign
  leaves, comes back, changes, is armed before it is listed, is watched, evicted and
  crowded out by a feed that lists all three; once with
  the attention panel's commands and once with the cockpit's keys;
* the event list: two feeds whose answers repeat ticks, share them and bring them
  out of order, with room for three entries, so that both buffers overflow;
* the command log with four readings of a clock modulo 16, in any order;
* the kernel panel: with three entries in the log and no failures, so that tasks
  and perception passes are committed between any two reads; with failures; and
  with two snapshots at once, whose answers overtake each other;
* the witness with two of its five feeds, all of which behave alike and of which
  these two alone decide its header;
* `bridge_health` and the five panels of `FeedPanels`, in first rounds of three
  or four endpoints.

The bounds of a layout are `flight` (commands unanswered per endpoint), `entries`
(length of the log), `failures` (whether commands, and `verify_chain` of a good
log inside them, may fail), and the keys, pipes and
clock readings it offers. Intervals are a few timers long instead of up to 60,
which is enough for an endpoint to be due, not due and overdue.

Why the bounds are enough: the semaphore and the governor are symmetric in the
threads, and their hazards need one holder that releases, one thread that is
handed a permit and one that overtakes. The log is finite because keys and event
ids are, so the spine runs have no bounds but the fault count and, in `spine`, `OneNote`: what
follows a second note is not explored. Two processes are enough because the write
lock admits one at a time and the other is whatever waits, retries or reads. In `DcgAdmit` the hazards are between two writers, or
between a write and its own retry: three starts give a writer, its rival and a
retry. Processes and clock readings are symmetric where no liveness is checked.

`MCGovernor` also evaluates `WidthIsLeast`: `compute_width` against its reference
for every combination of the ceilings 0, 1, 2, 255 and none.

The passing `DcgAdmit` run and two of its violations set `SentSchema` to what
the sidecar accepts, as the crate's own tests do with a fake runner: with the
constant deployed every submit is refused and nothing after it ever happens,
which is what `every_submit_denied` shows. `DcgAdmit` may stop when its bounds
are used up, so deadlock is not checked there; it is everywhere else.

### What the violations mean

* **`half_open_wedge`**: the breaker lets a probe pass, then the soft cap denies
  it; nobody settles the half-open breaker, and all later calls are denied.
  `governor.rs:33` says that success closes it and failure re-opens it.
* **`ack_lost`**: with `synchronous = NORMAL` in WAL mode a commit is not synced,
  and the reply is printed before the checkpoint. A power cut takes back a task
  whose caller has `ACK_DURABLE`. What it takes it takes whole
  (`PowerCutIsClean`); kills of processes lose nothing (`spine`).
* **`fence_race`**: reading the last fence and recording the new one are separate
  subprocesses; the stale writer of two is admitted last.
* **`every_submit_denied`**: `dcg-admit` sends `task.submit.v1`, the sidecar wants
  `habitat.kernel.submit.request.v1`.
* **`saga_gap`**: only a failing `record_fence` is compensated; a failing snapshot
  after the submit, or a submit killed after its commit, is not.
* **`perceive_receipt`**: `orchestrator-perceive` drops the receipt of its append
  and prints nothing; an empty answer is an error to the bridge client, so the
  panel reports every perception pass as failed. The witness is not concerned: it
  runs perception with `--dry-run`, which prints.

### What the models show besides

* The first round polls one endpoint per timer. A layout of 29 endpoints (kernel,
  health, gauge and witness) takes 145 s for it, in which the first ones
  wait however short their interval: `PolledInTime` has this bound, and a
  tighter one is violated. `r` advances the round, and refreshes nothing after it.
* `stale` tags count ticks of 5 s and multiply them with a poll interval of the
  configuration (`orchestrator_witness.rs:412`, `fiber_cockpit.rs`,
  `campaign_attention.rs`, `sphere_warden.rs`). The witness takes
  `governance_poll`, 10 s by default: it says STALE after 10 ticks, 50 s, where
  `STALE_THRESHOLD_SECS` is 90. In the model the threshold is the number of
  ticks, `StaleTicks`, and the properties hold for any.
* The witness says OK as soon as one of perception and kernel has answered, and the
  kernel panel has no age: what it shows may be arbitrarily old while commands
  hang. `DamageReachesDashboard` needs them to end.
* A `verify_chain` task is told INTEGRATED whatever the verification found
  (`lib.rs:685`), and replays say so for ever, while its message says FAILED after
  any error of `verify_chain`, a read that fails over a good chain included
  (`lib.rs:1155-1158`); `lib.rs:320` calls the field "Integration state after
  admission". The model has all of it (`Outcomes`): `StateToldMeansRun` says what
  a caller may still rely on, that INTEGRATED is told of the tasks with a run and a
  result behind them and of no others. In the same way `verify_chain_ok` of a snapshot may be
  false though no row was edited.
* A NEW campaign can leave the attention panel without being acknowledged: by a watch list
  of others, or, with nothing watched, by campaigns listed ahead of it. The header
  is then quiet. It is not lost: `a` does not acknowledge what is not shown, and
  the campaign is NEW when it is shown again (`AlertStandsUntilAcked`).
* An acknowledgement of a campaign that is not in the feed gives it the baseline
  of an empty one; the next feed that lists it shows it as new.
* `edge_snapshots` returns 20 rows: after enough plain tasks the edges of the last
  run are gone from the snapshot, and its reader calls them missing.

## Fairness

`FairSemaphore` and `Governor` assume weak fairness of each thread's own steps:
the operating system schedules runnable threads, `op` returns (it is a
subprocess call with retries that are bounded), and a signalled thread wakes.
No fairness says that a thread calls `acquire` or `govern`; only `BusySpec`, of
the violation, adds it, to show that the breaker stays half-open even if calls
keep coming. Time passes: `TimeoutElapses` is weakly fair. `Spine` and
`DcgAdmit` have no fairness: their processes may be killed at any time, and the
properties checked of them are safety. `Plugin` assumes that Zellij's timer comes
for ever while the pane is open (`set_timeout` at the end of `load` and of every
timer), and that for each endpoint some command gets on and some command ends:
`curl` runs with `--max-time 2`, and the sidecar's commands are finite. It says
nothing of their order, so a given answer may be overtaken any number of times.
Nothing makes anybody press a key, load or close the pane, submit or edit a row.
The bound `flight` keeps the timer from starting more commands than it allows;
as commands end, it holds a timer up and never for good.

## Proofs

For every set of threads, processes, requests and every bound, from the named
`ASSUME`s of the modules:

* **`FairSemaphoreProofs`**. The inductive invariant `SemInv` says what the type
  (a thread is queued once at most) and `PermitsConserved` leave open: a thread is
  queued exactly while it waits; one that left the queue is either signalled or the one some
  releaser holds in `granted`; `available` and the assigned threads add up to
  `Total`. From it follow type correctness, the bound, conservation, no idle permit,
  no lost wake-up, and with them each step is a step of `FifoPermits` or stutters
  (`Refinement`, `FifoOrder`).
* **`GovernorProofs`**. Each step of `Governor` is a step of the semaphore or
  leaves it alone (`GovernorUsesSemaphore`), so its invariant carries over.
  `GovInv` ties `pc` to `at`: a thread between `permit` and `drop` holds a
  permit; hence `AdmissionsBounded`. `ProbeFailureReopens` is inductive with the
  types; `RetryTheorem` needs `MaxRetries < 255`, as at 255 the attempt count
  saturates and the last retry is not made.
* **`SpineProofs`**. `SpineInv` holds the types, which parts of job and reply are
  set at each `pc`, and the discipline of the write lock: who is inside a transaction
  holds it, one process at most does, and while nobody does `tx` is `db`. On it
  rests `ChainInv`: `db` and `tx` verify, and their `autoinc` is the length of their
  log (what a rollback that burns a sequence number would break). The two are
  separate because an edited row breaks the second and leaves the first alone.
* **`SpineAdmissionProofs`**. The properties speak of `db`, and a transaction
  reaches it in several steps; none of them is inductive. `Clean` says what every
  committed database is like (a record per key with its task, warrant and
  message, and back; a run whole behind its task). `WriterInv` says, for each
  `pc` inside a transaction, that `tx` is `db` plus exactly what has been written so
  far, with the reply that goes with it. A commit therefore makes `db` grow by a
  whole admission, by a note or by nothing, and each keeps a `Clean` database
  `Clean`: hence `OneIngestPerKey`, `AdmissionIsWhole`, `RunsAreWhole`. The same three cases are the steps of `EventLog`
  (`EventLogRefinement`). `ToldInv` ties what callers were told to rows and records of
  `db`, which are never removed: hence `AckIsInLog` and `RepliesAgree`;
  with the runs of a `Clean` database, `StateToldMeansRun`.
* **`SpineFaultsProofs`**. `FaultInv` distinguishes whether an edited row is in the
  database. If not, `db`, `tx` and each database of `past` are `Clean`, so a power
  cut may bring back any of them (`PowerCutIsClean`). If one is, it is `Marked`: some row
  at or before the edit does not fit its stored hash, whatever is appended behind
  it, so each later run of `verify_chain` fails and its task's message says so
  (`AlterationIsNoticed`); a power cut brings back such a database or one from
  before the edit.
* **`DcgAdmitProofs`**. `DcgInv` carries, per process, what the guards it has
  passed have established and others cannot undo, since the log only grows: past
  the upper bound its fence is at most the log's length, past the submit its task
  is in the log. From it `NotPoisoned`, `GrantIsRecorded`,
  `CompensationHasCause`. `DisarmHolds` rests on a second invariant: after a
  disarm, `allowed` is at least the number of processes that have passed the
  arming check and not yet submitted, plus that of orphaned submits. Orphans
  carry what their process relied on when it was killed. `FencesRiseInTurn` has an
  invariant of its own, `TurnInv`: as long as nobody raced, one process or one orphan
  is at work on a resource, so what `read_last_fence` has shown is still so when
  the fence is recorded, however long that takes.
* **`PluginProofs`**. `PanelInv` says that the two panels have their fields and,
  sharing a feed, hold the same feed and count the same ticks; hence `PanelsAgree`,
  for any payloads. `AlertsStand` is put together from two facts about an
  event: it keeps the baseline of what is listed (`KeepsBaseline`) and, with the
  watch list as it was, what is shown (`StaysShown`). The second needs the watch
  list to fit the panel, a type of `PanelTypes`: what is watched and
  listed is then all shown.
  `ScheduleInv` bounds `age` by what the stagger has reached: an endpoint already
  polled in the first round has waited one timer for each polled after it, one
  not polled yet as long as the round has lasted. `PollsInTime` is the bound
  at its end, which the intervals keep, with any number of endpoints.
  For `SnapshotsAreForwardCuts`, `ReadersInv` says that what a reader has
  got so far is a forward cut of the log up to some position (`PartialCut`), which
  holds on as the log grows and is extended by each read, and `ShownInv` that
  what panels show is complete.
  `CooldownHolds` needs `PipeInv`: the newest accepted snapshot in the log is the one
  that `lastSnapshot` stands for, also after older entries have been cut off.
  `FeedShowsEachTickOnce` needs `GoodFeeds`: a tick on the list is still among
  those remembered, no farther from the end of `seen` than its entry is from the
  head of the list (`Remembers`), and no bus event on it is newer than
  `lastBusTick`. `PluginTypeOK` collects the types of the schedule and the panels:
  the cursor on its list, the watch list bounded and without repetitions.
* **`WidthProofs`**. `compute_width` returns the least ceiling for all ceilings, by
  the invariant of its loop over the labels already seen.

Two handlers fold over a list, an answer's events and the watch list, and the
registrations are concatenated. These are recursive functions, defined by
`CHOOSE` of a function that satisfies an equation; the library's induction
theorems cannot be instantiated, but the least-element theorem for a set of
numbers can. `FoldExists` and `FlattenTyped` prove that the equation has a
solution, by a smallest length without one, and `FoldInduction` and
`PrefixInduction` that what each step keeps holds at the end, by a smallest prefix
that breaks it. The models use `FoldLeft` and `SelectInSeq` for filters and searches
rather than `SelectSeq`, which the prover does not know.

The assumptions, which TLC evaluates in every run, and their grounds in the code:
the numbers are what their Rust types and constants make them (`TotalIsMaxInflight`,
`BudgetAssumption`, `BreakerAssumption`, `RetryAssumption`, `AimdAssumption`,
`PanelBounds`, `ClockIsUnsigned`: limits are unsigned and positive where the
constant is, clock readings are below 2^64); threads and processes are finitely many;
notes are entries of kinds of their own (`NotesAreNotTasks`, `NotesAreRecords`,
`PerceptionIsNote`: the callers of `append` in the repository); a module registers a
list of tags, intervals clamped to positive numbers by `config.rs` (`SourcesTyped`);
what a panel takes for a feed, an answer or the name of a campaign is one
(`PayloadsDecode`, `PipesDecode`: `serde_json` gives such a value or an error, and
anything that does not decode is text in the model). `RetryTheorem` has a
hypothesis of its own, given above.

Every invariant and every safety property of steps that the passing runs check is
proved. Model-checked only: liveness (`EveryWaiterServed`, `EveryCallReturns`,
`DamageReachesDashboard`, `EveryEndpointPolled`), which needs `ENABLED` and is out of
the prover's reach; and the violations, which are counterexamples.

## Plan

1. `FifoPermits`, `FairSemaphore`, `Governor` with proofs. Done.
2. `EventLog`, `Spine`, `SpineFaults`; chain, admission, replies, the refinement and
   the faults proved. Done.
3. `DcgAdmit` with proofs, fences in turn and the use of the log included. Done.
4. `SnapshotReader`, `BridgeClient`, the panels and `Plugin`, all of whose safety
   properties are proved. Done. Next: the rest of the reads (`queue_depth`,
   `snapshot_v2`), and the policy file, which a submit reads twice; with proofs of
   what they add.
5. `Width` with its proof. Done.

## Not modelled

* The kernel pipe (`handle_kernel_pipe`): it parses a message and answers that
  `orch-kernelctl submit` be used; it starts no command and changes no state.
  `handle_kernel_run_result` waits for a command that nothing starts.
* The plugin's state cache: written every 60 ticks and on `q`, read by `load`
  alone, before anything was written to it. A reloaded pane begins anew, as `Load`
  does.
* `queue_depth`, `snapshot_v2`, `replay_since` and `events_for_trace` as reads of
  the dashboard; the policy file's second reading.
* What perception observes and how it parses it: one sequential pass, each of whose
  observations is either there or not.
* The parsing of arguments, URLs and poll intervals, response types, rendering,
  `orch-kerneld` (a placeholder that prints one snapshot), the `govern`
  subcommand (a stub), the deployment scripts and the layouts: they hold no state
  that steps of several actors could disturb.
* Of the implementation's 25,900 lines more than half are unit tests inside the
  source files, and much of the rest is rendering, decoding, error types and
  documentation comments, none of which has behaviour for a model: the share of
  lines that the models stand for is small for that reason.

`append`'s lack of an idempotency key, the budget that denied calls use up, and
late results that settle another probe's breaker are what the code does, and no
document promises otherwise.
