# A TLA+ model of MemWeave

MemWeave keeps the memory of conversational agents. Everything that happens is
appended to an event log (the *authority*); what readers see are *projections*
of that log (session state, backends behind the projection dispatcher); side
effects leave through an outbox; long-lived memories are versioned rows. All of
it is Python over one SQL database, called by many threads of many processes,
and all of its correctness is in the order of small transactions. This
directory models those transactions in TLA+, checks them with TLC on small
instances and proves the most important properties with TLAPS.

Paths below are relative to `src/src/memweave/`.

## Inventory

| component | state | operations | talks to | model |
|---|---|---|---|---|
| Event authority, `events.py` | tables `events`, `stream_heads` | `append` (idempotent by event id or key), `find_existing`, `list_after`, `last_seq` | everyone reads it | `EventStore` |
| Session projection, `session.py` `SessionStore` | tables `session_states`, `session_event_receipts`, `session_command_leases`; per process the command locks and `_lease_release_errors` | `apply_event`, `validate_operation`, `command_lock`, `command_lease`, `upsert_active`, `apply_operation`, `get` | called by coordinator, runtime and readers | `SessionOperations`, `SessionCommands` (not the direct writers) |
| Explicit commands, `session.py` `SessionCommandCoordinator` | local variables of a call | `append_explicit` | event store, session store | `SessionCommands`, abstractly `SessionHistory` |
| Session read barrier, `session.py` `SessionReadBarrier` | local variables of a read | `read` | session store, projection runtime | `ReadBarrier` |
| Outbox, `outbox.py` | tables `outbox`, `outbox_consumer_receipts` | `enqueue`, `claim`, `begin_consume`, `mark_consumed`, `release_consume`, `mark_applied`, `mark_retryable`, `mark_dead_letter` | worker | `Outbox` |
| Local worker, `worker.py` | local variables of `run_once` | `run_once` | outbox, handlers | `Worker`, abstractly `Delivery` |
| Projection dispatcher, `storage/coordinator.py` | pending buffers, counters, errors in memory; checkpoints and receipts in the database (`storage/checkpoints.py`) | `project`, `replay_from`, `validate_checkpoint_receipts`, `clear_pending`, `watermarks`, `errors` | backends, checkpoint store | `Dispatcher` |
| Projection runtime, `storage/recovery.py` | per-stream state, live buffers, active recoveries | `recover`, `catch_up`, `publish`, `clear_buffer` | dispatcher, event store | `Projection`; its effect on a session is also in `SessionCommands` |
| Durable memory, `durable.py` | tables `durable_memories`, `durable_memory_identities`, `durable_memory_writes` | `create`, `update`, `forget`, `get_active`, `list_active` | callers, recall | `DurableMemory`, abstractly `MemoryHistory` |
| Recall, `recall.py` | local variables of a call | `recall` | session store, durable memory, a search index | `Recall` |
| Migrations, `storage/migrations.py`, `storage/sqlalchemy.py`, `migrations/versions/` | table `schema_migrations`, and every table that a migration rewrites | `apply`, `apply_migrations` | every process at start | `Migrations`, `Startup` |
| Operation parser, `policy.py` | none | `parse` | callers | not modelled: text parsing without a protocol |
| Models, protocol, clock, errors | none | validation of arguments | everyone | only `WellFormed` in `SessionOperations` and `DurableMemory` |
| Graph, keyword, vector stores | none | none (stubs) | nobody yet | not modelled |

What is hard, and what makes each part correct:

* **Event authority.** Racing appends and retries. Sequence numbers are
  allocated from a counter row in the same transaction as the insert; a retry is
  recognised by an event id over *all* streams or by a key within *its* stream.
  Correct: numbers have no holes or duplicates, identities have one event.
* **Session projection.** Three kinds of projectors (a coordinator that holds
  the lease, one whose lease ran out, the runtime without any lease) apply events
  to one row, and a restored backup may drop the row while receipts survive.
  Correct: the row is always the replay of a prefix of the log.
* **Explicit commands.** A command is validated, appended and projected in
  three transactions, guarded by a lock of the process and a lease of the
  database. Leases run out under slow owners, owners die, releases fail. Correct:
  commands exclude each other, only applicable commands are committed, success
  means committed and visible, calls return, everything committed is projected.
* **Outbox and worker.** Claim, consumer receipt, handler, receipt and item are
  five transactions. Correct: an item whose consumption is recorded is completed, a completed
  item never becomes claimable, an abandoned one is retried or dead-lettered.
* **Dispatcher and runtime.** Events out of order, apply, receipt and checkpoint
  in three transactions, live events during recovery. Correct: backends see each
  stream in order, a checkpoint is never ahead of what receipts prove, recovery
  ends only when the target is covered.
* **Durable memory.** Optimistic version chains with write identities. Correct:
  contiguous versions, one active version per key, one key per id, a retried write
  returns what it wrote however often that was superseded.
* **Recall.** Several reads, each in a transaction of its own, of stores that go on
  changing, and an index that lags behind them. Correct: every item was current at
  some moment of the call, nothing that stayed current is missing without a reason,
  one item per key, both budgets kept.
* **Migrations.** Processes start at the same time, on databases that any older
  version left, and die or collide half way. Correct: every migration takes effect
  once, a process serves only what is migrated and proven, a late starter does not
  touch what others serve, collisions do not use up the retries.

`PROJECT.json` lists every hazard at its line, with the property that covers it.

## Modules

* `EventStore`: the two tables and `append` as one step. `Earlier(r)` is the row
  the two lookups find, `NewEvent(r)` the row the insert makes. What `append`
  compares beside identity is one value, `body`. A generated event id is `None`.
* `SessionOperations`: the pure part of `apply_event`: `Refused` when
  `_apply_operation_to_state` raises, `ApplyOperation` what it does otherwise,
  `Applied` the state after an event. A memory is its id, value, version, the
  sequence number and event that wrote it; `recent_messages` are sequence numbers.
* `SessionCommands`: threads running `append_explicit`. `pc` names the place in
  the call:

  | pc | code | action |
  |---|---|---|
  | idle | before `command_lock` | `Begin` |
  | lease | the polling loop of `command_lease` | `AcquireLease`, `LeaseTimeout` |
  | target, state, list, apply | one round of `_catch_up_existing_events` | `ReadTarget`, `ReadState`, `ListEvents`, `ApplyListed` |
  | find | `find_existing` | `FindEarlier` |
  | validate | `validate_operation` | `Validate` |
  | append | `event_store.append` | `AppendCommand` |
  | project | `_apply_command_event`, first try | `ProjectCommand` |
  | reproject | its second try, after another catch-up | `ProjectCommand` |
  | release | the `finally` of `command_lease` | `Release`, `ReleaseFails` |

  Around the threads: `Crash` (a process dies: its threads, locks and release
  errors vanish, its lease stays), `LeaseRunsOut`, `StatementFails` (any
  transaction of the call fails and the call unwinds), `AppendPlain` (writers that
  are not coordinators), `RuntimeApplies` (the projection runtime, without a
  lease), `LoseSnapshot`. Time is only the moment a lease runs out. The history
  variable `views` holds the replay of every prefix of the log; no action of the
  code reads it.
* `SessionHistory`: the abstract specification. A log into which a body goes
  only if it applies to the replay of the whole log, and a view that follows one
  event at a time or starts over.
* `Outbox`: the two tables and one operator per method of `OutboxStore`. An item
  is its idempotency key. A lease token is the number of the claim that drew it.
  Of the clock only what the code compares is left: `locked` (`locked_at` is
  within the lease) and `due` (`available_at` has passed), which change by
  `ItemLeaseRunsOut`, `ReceiptLeaseRunsOut` and `RetryBecomesDue`.
* `Worker`: any number of threads in `run_once`:

  | pc | code | action |
  |---|---|---|
  | idle | `claim`, look up the handler | `Claim` |
  | begin | `begin_consume` | `BeginConsume` |
  | handle, running | `handler(item)` | `StartHandler`, `HandlerReturns`, `HandlerRaises` |
  | consume | `mark_consumed` | `FinishConsume` |
  | release | `release_consume` | `ReleaseReceipt` |
  | fail | `mark_retryable` or `mark_dead_letter` | `Fail` |
  | applied | `mark_applied` | `MarkApplied` |

  A write whose item is no longer the worker's raises (`Fenced`). `Stop` is a crash
  or a failed statement anywhere inside the call. The histories `succeeded` and
  `confirmed` are read by no action.
* `Delivery`: the abstract specification. An item is absent, open, done or
  dead; it is handled before its consumption is recorded, recorded before it is
  done, and never given up once it is recorded.
* `Dispatcher`: `project` for every backend in turn, over the tables `checkpoint`,
  `receipts` and the backends' `watermark`. `dispatch[p]` is the call under way in
  process `p`, with what it has read:

  | at | code | action |
  |---|---|---|
  | next | the loop over the backends | `ReadCheckpoint` |
  | watermark | after `checkpoint_store.get` | `ReadWatermark`: `Skip`, `RecordError` or `Enqueue` |
  | drain | `while next_seq in pending` | `Apply`, `SaveReceipt`, `FinishBackend` |
  | checkpoint | after `save_receipt` | `SaveCheckpoint` |

  Any exception ends in `RecordError` and goes no further. An event is its number.
* `Projection`: the runtime of each process. `call[p]` is the call of `recover` or
  `publish` under way; `Unlocked` are the places where `recover` does not hold the
  stream's lock, so that `publish` and `clear_buffer` may come in. `recover` reads
  target, boundary, audited events, receipts and events in that order, each in a
  step; then it projects event by event and drains the live buffer. Around it:
  `AppendEvent`, `CommandApplies` (an explicit command projects to the session
  itself), `Crash`, `Fail` (any statement, inside or outside `project`),
  `LoseRows` (a restored backend lost its snapshot, or a receipt), maintenance.
  `damaged` is a history variable: the backends that lost rows.
* `ReadBarrier`: `SessionReadBarrier.read` on top: `BeginRead`, `Compare` with the
  head or with an explicit target, `CatchUp`, `Answer`.
* `DurableMemory`: the three tables and the writers. A key is a key together with its
  scope; kind, value, confidence and evidence are one `content`. A call is a record
  (`Request`), and `WellFormed` says which ones the validation lets through. `at[w]` is
  the place in the transaction:

  | at | code | action |
  |---|---|---|
  | idle | before the call | `Call` |
  | match | `_find_write_match`, if there is a write event | `FindWriteMatch`: replayed, refused or new |
  | latest | `_latest_for_key`, `_find_forget_target` and the checks after them | `ReadLatest` |
  | write | `_supersede_latest`, `_insert_record` | `WriteVersion` |
  | answered, stale, conflict, failed | returned; `StaleWriteError`; the target's `ValueError`; another error | |

  SQLite runs match, latest and write under one lock (`BEGIN IMMEDIATE`). The store
  takes any SQL database and relies on row counts and unique constraints, so the
  three are separate steps: statements of other transactions come in between, and
  what holds here holds under the lock as well. `Refused` is what stops the last one.
* `MemoryHistory`: the abstract specification. A set of versions in which every step
  adds the next version of one key, with the key's id, deleting only what is there.
* `Migrations`: pure operators on a database `d`, one record with the tables that
  migrations rewrite: `Reset` is 0007, `BackfillSnapshots` 0008 and 0011,
  `BackfillCheckpoints` 0009 and 0010, `Registered` 0013, `EventsRepeat` 0016's test;
  `Accepted` says when none of them raises. The others create tables, columns and
  indexes, and are only their number. An event is its id and fingerprint; an
  `Extended` stream has more segments than tenant and session, and shared its row
  with `CanonicalOf` before 0006.
* `Startup`: the processes around it. `process[p]`:

  | pc | code | action |
  |---|---|---|
  | closed, again | before (another) `begin` in `apply_migrations` | `Begin` reads `schema_migrations` |
  | migrating | the loop of `MigrationRunner.apply` and its commit | `Migrate`: done, refused, in conflict, or all missing migrations at once; `Fault` |
  | open | the store is usable | its writers call, `Project` applies events |
  | failed | `apply_migrations` raised | |

  The missing migrations run in one transaction, whose effect is one step; that
  others committed in between shows in `seen`, and the primary key of
  `schema_migrations` refuses it. `Stop` closes a process anywhere and rolls its
  transactions back. `Project` lets a snapshot that 0007 dropped grow again.
  `Legal` says what an older version may have left.
* `Recall`: one call of `recall` next to a session. `recall.pc` goes through session (the
  session is read), durable (`unread` scopes are read in any order, each may fail),
  then `Answer` takes the index's hits, merges, ranks and packs. How well a query
  matches a content, and its cost in tokens, are functions of the content. The index
  answers with any set of rows that ever were active (`Indexed`). `ever` and `always`
  are history variables: what was current at some moment, or at every moment, of the
  call.
* `MemoryService`: all of these together: whatever the processes and writers do, recall
  observes.
* `MCSessionCommands`, `MCWorker`, `MCReadBarrier`, `MCMemoryService`: the instances for
  TLC.
* `SessionTypeProofs`, `SessionCommandsProofs`, `SessionLeaseProofs`, `WorkerProofs`,
  `DeliveryProofs`, `ProjectionProofs`, `StartupProofs`, `MemoryServiceProofs`: proofs.

An abstraction worth knowing: the ids of records are `uuid5` of the event that
made them, so inside a session an event's sequence number stands for its
identity, and 0 for the zero UUID that the preflight uses.

Simplifications of the projection modules. There is one stream, so the limits of
all buffers together (`max_buffer_events_total`) never bite before the limit of one;
with two backends `MaxPendingTotal` does. Events that differ under one number, for
which the code has conflict errors, cannot come out of `EventStore`, and the
branches that report them are left out. `get_receipt` is read together with the
watermark before it. A recovery's last assignment of the state and its removal from
the active recoveries, two critical sections, are one step. `ClearPending` waits for a
`project` under way, although in the code it takes the lock of one backend after the
other. What a read answers is what it read last and has no variable.

Simplifications of the memory modules. A conflict of one `updated_at` with another
falls either way, and so does the order in which a Python set of scopes is read.
`list_active` and `get_active` are read in one step, as one statement each. A query's
kinds are a score of 0 for the contents they leave out. The rows that recall reads
keep their type; a session that `get` refuses raises to the caller and the call is
over. `SessionChange` sets or forgets a key of the session as `SessionOperations` does.

## Runs

| run | assumes | shows |
|---|---|---|
| `session_leased` | a running command never outlives its lease; crashes, failures, retries allowed | `CommittedEventsApply`, `CommandsExclusive`, `OrphanLeaseReported`, `IdentitiesUnique`, the liveness properties `CallsReturn` and `EventuallyProjected`, and that the system implements `SessionHistory` |
| `session_fencing` | nothing: commands stall past their lease, snapshots get lost | `TypeOK`, `StreamsContiguous`, `ReceiptsProveSnapshot`, `ProjectionIsReplay`, `SuccessIsVisible`, `StaleThreadsNeverWrite` |
| `session_poison` | nothing | violated: `CommittedEventsApply` |
| `session_ahead` | as `session_leased` | violated: `AheadIsReal` |
| `session_retry` | as `session_leased` | violated: `RetryIsNotRejected` |
| `worker_leased` | a worker never outlives its lease; it may stop anywhere | `OneHandlerPerItem`, `ConfirmedNotRepeated`, the liveness property `ItemsSettle` |
| `worker_fencing` | nothing: workers stall past their lease | `TypeOK`, `StaleWorkersChangeNothing`, and that the system implements `Delivery` |
| `worker_repeat` | nothing | violated: `ConfirmedNotRepeated` |
| `projection_backends` | nobody polls `watermarks`; one crash, failed statement or loss of rows | one process with two backends: `TypeOK`, `PendingCounted`, `AppliedOnce`, `ReadyCovers`, the liveness property `EventuallyVisible` |
| `projection_replicas` | one crash, failed statement or loss of rows | two processes that project to one backend: `CheckpointsProven`, `AppliedInOrder` |
| `projection_monitored` | somebody polls `watermarks` | violated: `ReadyCovers` |
| `memory_service` | legal databases of any version; processes stop and fail anywhere | `TypeOK`; of the start `ServedIsMigrated`, `RetriesSuffice`, `LateStartIsHarmless`; of durable memory `ChainsAreWhole`, `ReplaysAreStable`, `AnswersAreEffects`, and that it implements `MemoryHistory`; of recall `RecallIsCurrent`, `RecallIsComplete`, `RecallFitsBudget` |

**Bounds.** Two processes with a thread each (threads of one process are
serialised by its command lock, so a second one adds nothing but queueing), one
memory key, two values, `MaxCalls` = 3 calls or plain appends together: enough for
create, versioned update and forget in every order, for a stale owner, its
successor and a plain writer in one behaviour, and for a retry of a committed
command. `RecentLimit` = 2 makes the recent list overflow. `session_leased` has a
second stream with an event under a command's event id. Threads and stores are
not declared symmetric because liveness is checked on the same instance.
Deadlock is not checked: calls run out and an idle system may stop.

The worker runs have two workers of one consumer and two items, one of which
nobody has a handler for (so that the path without a handler fires and the
oldest-first choice matters), `MaxAttempts` = 2 (one retry, then the dead letter).
In `worker_leased` workers stop twice; an item is claimed at most `MaxAttempts`
times and twice more for each stop (once lost with the stop, once finding the
receipt busy), so `MaxClaims` = 8 never cuts a behaviour short: that `ItemsSettle`
holds shows it. In `worker_fencing` the bound of 5 does cut: enough for a stalled
worker, its successor, a retry and the other item.

The projection runs have two events (`MaxSeq`), so that the second can come before
the first, and `MaxPending` = `MaxPendingTotal` = `MaxBuffer` = 1: with two
backends, one event out of order fills the total and the next is refused; with one
live event the recovery's buffer is full. One fault is enough to stop a call between
any two transactions and to lose a snapshot, and a recovery or a read then has to
repair it. `projection_replicas` needs no readers: any process may recover or
publish at any time. Its processes are symmetric, since it checks no liveness.

`memory_service` has two processes with a writer each. What they meet is one of the `MCDeployments`, each chosen for a
case, instead of one large instance: databases of every interesting age (empty;
from before streams had names, so that 0007 must drop rows; with names but without
receipts; with a snapshot across a gap or a contradicting receipt, which 0009 and
0011 must refuse; with ambiguous ids or repeated write events, which 0013 and 0016
must refuse, and the same without the ambiguity); and, on a migrated database, calls that compete for a
key, for an id or for an event, a key that is created, updated, deleted by its id and
created again, and recall with a write under its eyes. Three keys in two scopes, so
that two keys share a scope and two share a name. `MaxRetries` = 2 lets a conflict and a
fault use up the retries together; `MaxSessionSeq` = 2 lets the session set a key and
change or forget it during one call. A deployment offers its calls again and again,
so every retry happens, before and after everything else.

**Fairness.** `FairSpec` of `SessionCommands` assumes that a thread inside a call keeps taking steps
(`WF(Step(t))`; a call has no unbounded wait but the lease loop, which polls), that
a lease runs out (wall-clock time passes) and that the runtime keeps publishing
what it can apply. Nothing is assumed of new calls, failures, crashes or plain
writers. `CallsReturn` needs weak fairness only because calls are bounded: with
unlimited calls the polling loop is not a queue, and a caller may time out instead.

`FairSpec` of `Worker` assumes that the host calls `run_once` again and again on each
worker and that a call in progress goes on (handlers terminate), that leases run
out and that retries become due. Items are not assumed to be enqueued, nor
workers to stop or not to stop. One assumption is built into `ItemLeaseRunsOut`: an
older receipt's lease ends before the lease of the item's next claim, since both
have the same length and one clock.

`FairSpec` of `ReadBarrier` assumes that calls of `recover` and `publish` go on, and
that readers who ask for the head come again and again. A reader competes with
publishers for the lock of the stream, which is not fair: strong fairness of
`CatchUp` says that it gets the lock if that is free again and again. Comparing with
the head needs strong fairness because other readers, with targets of their own,
may compare in its place. Nothing is assumed of publishers: an event that nobody
hands to `publish` becomes visible all the same.

`memory_service` states no fairness: a call of durable memory, a recall and an attempt to
migrate end after a fixed number of steps, and there is nothing they wait for.

**Mutants.** Every property of a passing run is broken by a plausible bug, kept
as a definition above the one it resembles (`ValidateNothing` above `Validate`).
They are part of no specification.

## Findings

1. *A slow command can poison its session* (`session_poison`). Nothing checks the
   lease between `validate_operation` and `append`. If it runs out there, the
   successor commits a conflicting command, and the stale owner still appends its
   own, which no replay can apply: every later event of the session is blocked.
   The fence protects the projection (`StaleThreadsNeverWrite` holds), not the log.
2. *"Projection is ahead of event authority" without being ahead*
   (`session_ahead`). The head is read first, the projection second; an append and
   its projection in between make the call fail. Nothing is corrupted.
3. *A retry with a new event id is rejected* (`session_retry`). `find_existing`
   ignores the idempotency key when an event id is given, so a retry that renews
   the id is judged by the preflight and rejected as stale, where the task log
   promises the original event.
4. *A confirmed consumption is handled again* (`worker_repeat`). Between
   `begin_consume` and `handler(item)` nothing is checked, so a worker that stalls
   there past its lease calls the handler after its successor has confirmed the
   item. The task log says that receipts guarantee the opposite. The stale worker
   cannot write afterwards, so the records stay right.
5. *Polling `watermarks` can make a stream READY too early* (`projection_monitored`).
   `recover` learns from `errors` whether `project` succeeded, and `watermarks`,
   which takes no lock, clears an error as soon as the backend answers. Between a
   failed `project` and the check it hides the failure. Nothing in the package
   calls `watermarks`; it is there for applications. The next recovery repairs it.

## Proofs

All constants are arbitrary (any sets of streams, threads, stores, commands and
writes, any number of calls) under the assumptions named in the modules: bodies
are well formed, commands belong to the session, plain writers do not write
commands.

* `TypeCorrect`: `TypeOK`. Its leaves are about `Applied` keeping views well formed.
* `LogIsContiguous`, `RetriesCommitOnce`: inductive as they stand, by two lemmas:
  only an append changes the log (`StoreSteps`), and an append finds a row or
  inserts the next one (`AppendCases`).
* `ReceiptsAlwaysProve`, `ProjectionReplays`: inductive together with `Handled`
  (what a thread holds in its hands is an event of the session) and `ViewsReplay`
  (the history is the replay). Every write of the session row, whoever does it, is
  one of three cases (`TableSteps`).
* `CommandsExclude` assumes `PausesOutliveLease = FALSE`. The strengthening is that
  whoever is inside holds the lease (`HoldersOwnLease`).
* `CommittedCommandsApply`, under the same assumption, is the argument for the
  preflight. From `ReadTarget` to `AppendCommand` no other command can join
  the log, and plain events leave memories alone (`PlainKeepsMemories`), so the
  memories the command was validated against are those of the head
  (`SameMemories`). The preflight judges with sequence number `last_seq + 1` and
  identity 0, the projection later with other ones; `VerdictOfMemories` shows
  that the verdict is the same because all records are older (`MemoriesAreOld`).
* `SuccessShowsItself` needs no assumption about pauses. The invariant `Answered` says
  what a call knows of its own event at each place: nothing before the append, then
  an event with the values of its command, and in the answer a state at or past it.
* `WritesAreFenced`: by cases over the actions. Only a thread that catches up or
  projects its own command writes the projection and moves on, and both compare
  their token with the row.
* `OrphanLeasesAreReported` holds with and without stalls. Tokens are drawn once, and
  the newest one is known to the store that the row names (`Tokens`), so a thread
  that leaves without a release either leaves its report or lost the lease before.
* `SessionImplementsHistory` assumes `PausesOutliveLease = FALSE`. An event that joins the
  log is a `Commit` because `CommittedEventsApply` holds after the step and the replay
  of the longer log is one step more than that of the log (`CommitStep`); a projected
  event is the log's next one, since the snapshot is a replay of the log. `LogMatches`
  relates the sequence of bodies to the set of events, by their numbers.

* `WorkerTypeCorrect`, `StaleWorkersFenced`: any workers, consumers and items, any
  number of claims. A step writes only for the owner of the item
  (`OnlyOwnersWrite`) and leaves other workers where they are (`OwnStepOnly`).
* `HandlersExclude` assumes `StallsOutliveLease = FALSE`. Two parts: tokens are drawn once
  (`TokensUnique`), and whoever is inside `run_once` has its item under an
  unexpired lease (`KeepsLease`).
* `ConfirmedHandledOnce`, under the same assumption: what is confirmed stays on record,
  and a worker at its handler holds a receipt nobody has confirmed (`ReceiptsHeld`).
  Another worker could confirm it only with the same item in its hands. The run
  `worker_repeat` shows why the assumption is needed.
* `WorkersDeliver`: `Worker` implements `Delivery`, stalls included, if all workers
  have one consumer id and the same handlers (`SameWork`); without it a worker
  without a handler could give up an item that another consumer has recorded. The
  invariant says what a worker that still owns its item has achieved at each
  place (`InHand`): the receipt is its own while it handles, the consumption is
  recorded when it is about to complete, and is not when it is about to give up.
  Nothing is known of a worker that lost its item, and nothing is needed.

* `ProjectionTypeCorrect`: `TypeOK` of `ReadBarrier`, for any processes, backends
  and events. Its strengthening `Ranges` says that what a call of `project` is about
  to record is an event.
* `CheckpointsNeverSkip`, `BackendsSeeOrder`: the tables of a backend that keeps its
  rows only grow (`TablesGrow`), so what a call of `project` has read stays true of
  them (`Held`): the checkpoint it read is covered, the watermark it read is
  reached, and the event whose checkpoint it is about to save has its receipt and
  is applied. Hence the checkpoint moves only past covered events
  (`SaveCheckpointProven`), and the next event to apply is never beyond a gap.
* `BackendsSeeEventsOnce` assumes `OwnBackends`: no two processes project to the same
  backend. Then the watermark a call has read is not only reached but current
  (`Current`), and an event it applies is new. With shared backends the property is
  false by design: the backend itself ignores what it has.
* `CountersAgree`, for any processes, backends and limits. What waits is a finite set of
  places, and each step takes from it or adds to it as many as it counts. The point
  is the event whose checkpoint is being saved: it still waits (`Counted`), so that it is
  subtracted once, although calls of `publish` and `recover` come and go around it.
* `RecoveriesCoverTargets`, and its case `ReadyStreamsCovered` of a system without monitors.
  The invariant `Recovery` follows a recovery from place to place. It begins at a
  boundary that all backends have reached (`Reached`), and audits the stream up to its
  target at least; the replay hands out the events after the boundary in order
  (`ReplayedTo`). While one is handed out, every backend has its turn before it, has
  failed, or has the event (`Accounted`), and the event never just waits, because the
  one before it is covered everywhere (`Follows`). Errors are looked at after each
  event. A process of `Monitored` is excluded because `watermarks` clears those errors:
  there the property is false (`projection_monitored`). `UnmonitoredReadyCovers` is the
  part of it that always holds.

* `LateStartThm`, `ServedThm`, `RetriesThm` assume that the processes find a legal database
  (`DeploymentsAssumption`; TLC evaluates it for the instances). The invariant `Started`
  says that the database stays legal, that it has all migrations once a process is
  open, and that what a migrating process has read (`seen`) is what is recorded now
  unless all migrations are. They take effect only if the two are equal, hence once. `MigratedIsLegal` is the argument for the migrations themselves: what they
  accept they leave as the next version expects it. A retry without a fault means
  that another process recorded versions in between, which can happen only once.
* `ChainsThm`, `ReplaysThm`, `AnswersThm` and `HistoryThm` hold for any writers, keys, ids and
  contents, on any database that `Legal` admits. The invariant `Chained` joins `Started`,
  the types (`DurableTypeThm`), whole chains, registries that register exactly the rows
  (`Registry`), events bound to what was asked (`EventsKept`), and `Held`: the row that a
  call in its last step has read as the latest is still there, or has been superseded
  (`Lasts`). If it was superseded or deleted meanwhile, its successor has the version
  that the call is about to insert, so the constraint refuses it; if not, it still is
  the last one, and the new version extends the chain (`VersionAdded`). Rows change by
  this step only (`OnlyWrites`), and in one way: an active row becomes superseded
  (`Evolves`), which a replay does not look at.
* `ServiceIsStartup`: with recall the system still is `Startup`, so that these theorems hold
  of it.
* `RecallIsCurrentThm`, `RecallIsCompleteThm`, `ServiceTypeThm`, for any index, query, session
  and number of scopes, if a key is its scope and name (`NameOfAssumption`), durable
  scopes rank below the session's, and the session's items have ids of their own. The
  invariant `Sighted` says that what has been read was current at some moment, and
  that whatever stayed current in a scope that has been read is among what was read.
  An index hit that passes `_validated_provider_records` has the name, scope and
  version of a row that was read, so it is that row. The completeness argument then
  is about one answer: an item left out lost its key to another item, or its place in
  the budget.
* `RecallFitsBudgetThm` assumes besides that a database has finitely many keys, that
  costs, scores and ranks are numbers, and that budgets are positive, as `RecallRequest`
  requires. The loop's running total is a sum over a set, in an order that CHOOSE
  fixes. `TokensOfOneMore` shows that any item may be taken out of it first. The
  library's induction theorems take an operator and cannot be used; the proof takes
  the least set that is an exception instead (`LeastSubset`, from the well-foundedness of
  strict inclusion), also to show that the recursive function of the sum exists
  (`TotalExists`). The ranking is a strict total order on items of different names
  (`RankingIsTotal`), so one of the items taken ranks last (`LastTaken`). It was taken
  because it fits beside all others, and those are the rest of the answer.

Every safety invariant, action property and refinement that a passing run checks is
stated by a theorem. Only model-checked are the liveness properties `CallsReturn`,
`EventuallyProjected`, `ItemsSettle` and `EventuallyVisible`: the prover does not handle
fairness and ENABLED. That `views` is the replay is an invariant of a history variable
(`ViewsReplay`: empty at first, then each state is the one before with the next event
applied), not a statement about a recursive function.

## Not modelled

* *The direct writers of sessions* (`upsert_active`, `apply_operation`). They write into the
  session row what is not in the log, below the sequence number it has reached. With
  them the row is not the replay of the log by design, and no statement of the
  documents says what it should be instead.
* *The operation parser and the version negotiation*: functions of their argument,
  without state.
* *Graph, keyword and vector stores*: declarations without behaviour. The index that
  recall asks is modelled by what recall assumes of it: nothing.
* *Overlapping DDL.* Two PostgreSQL transactions that create the same table collide
  with an error that is retried; here they collide at the primary key.

Hazards left open, with the reason beside each in `PROJECT.json`: the audit of
a recovery can fail spuriously while another process moves the checkpoint
(`storage/recovery.py:95`); `recover` may return a number behind a gap
(`storage/recovery.py:139`), which the read barrier does not rely on; `_assert_newer`
compares `source_seq` only with the latest version's stream (`durable.py:513`); deleting
what is deleted registers no write event (`durable.py:319`); a deletion by a key and an
unknown id can only be made once (`durable.py:277`): it is the exception that
`ReplaysAreStable` names.

## Plan

In this order; each with its runs, then its theorems.

1. *done* `EventStore`, `SessionOperations`, `SessionHistory`, `SessionCommands`.
2. *done* `Outbox`, `Worker`, `Delivery`.
3. *done* `Dispatcher`, `Projection`, `ReadBarrier`.
4. *done* `DurableMemory`, `MemoryHistory`: version chains, write identities, fingerprints.
5. *done* `Migrations`, `Startup`: concurrent starters, databases of older versions.
6. *done* `Recall`, `MemoryService`: recall under writes.
7. *done* Proofs: the refinement of `SessionHistory`, fencing, answers and lease reports;
   confirmed consumption; the counter, and what a recovery covers; the budget of recall.
8. Proofs: the liveness properties stay with TLC. Next are lemmas about the abstract
   specifications alone (what `SessionHistory`, `Delivery` and `MemoryHistory` imply), so
   that a reader can use them without the modules that implement them.
