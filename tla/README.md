# A verification development of highwater

highwater runs *processes* (keyed, durable event handlers), *streams* with event
time, and *workflows* on a set of server processes that share an object store.
The server is Rust (`crates/server`), the workers and the client are Python
(`src/highwater`), and a console (`console`) and a landing page (`landing`) run
in the browser. This directory holds TLA+ modules of its core, the TLC
configurations that check them, and TLAPS proofs about them. Every definition is
translated from the implementation; paths below are relative to the repository,
and file names without a directory are under `crates/server/src`.

## 1. Inventory

A server process (*runtime*: one start of a *node*) holds a local RocksDB and a
set of numbered *lanes* (shards). Lane 0 is the control lane; lane *i* > 0 is
process partition *i*. All state is written by transactions of a lane:
`AppState::commit_shard` takes the lane's mutation lock, synchronises the lane,
runs the handler against the local state, and appends the resulting mutations to
the lane's journal; only then are they applied locally.

| Component | State | Operations | What makes it correct |
|---|---|---|---|
| Object-store journal (`journal.rs`) | immutable records, one head object per lane, one cursor per runtime and lane | append, sync (recover), publish_checkpoint | one chain per lane; acknowledged records stay; only current generations append |
| Durable store, transactions (`storage.rs`, `state.rs`) | RocksDB, local sequence per lane, mutation and sequence locks | commit_shard, sync_remote_shard, open, checkpoint | local state is a prefix of the lane; no transaction commits on stale reads |
| Checkpoints (`storage.rs`, `journal.rs`, `maintenance.rs`) | manifest with a vector of positions, barriers | prepare, publish, clean up, restore, barrier acknowledgement | the manifest describes what was copied; nothing needed is deleted; never goes back |
| Partition ownership (`keyspace.rs`, `maintenance.rs`) | `ProcessPartitionOwner` per lane | acquire, renew, lapse, three-step transfer | one runtime per generation; a drained partition reaches its target |
| Direct-ingress executions (`process.rs`, `maintenance.rs`) | `ProcessShardState`, mailbox, ready queue, executions, batch leases (grants), outcomes, key states | ingress, dispatch, poll, renew, complete, retry, quarantine, recover, finalize | nothing lost or doubled; one execution per key; limits; fenced completions; every event decided |
| Ingress routing (`process.rs`) | per-partition queues, forwarded batches | split, coalesce, forward, answer | every request answered for what became of it |
| Outputs and sinks (`process.rs`, `maintenance.rs`) | pending outputs, outbox messages with leases | promote, poll_sink, ack | each output delivered at least once, promoted once |
| Stream-fed and gated processes (`process.rs`) | mailbox, active keys, gates | dispatch, refresh, complete_process_through | gates open in event time; no deadlock with capacity |
| Streams, event time (`streaming.rs`, `stream_api.rs`) | partitions, watermarks, event ids | append, advance, idle, seal, late policy | watermarks monotone; late data classified once |
| Key groups, source leases (`keyspace.rs`) | leases, source cursors | claim, renew, assign | one writer per source partition; cursors monotone |
| Operator edges (`stream_engine.rs`) | edge frontiers, pending changes | frontier, drain, seal | downstream watermark never passes pending input |
| Stream and relational operators, views (`operators.rs`, `relational.rs`, `views.rs`) | accumulators, join indexes, rows | observe, retract, fire | incremental result equals the batch result |
| Workflow engine (`workflow.rs`) | workflows, events, tasks, activities, timers, deadlines, queries | activate, complete, signal, cancel, expire, continue-as-new | one terminal status; every event in one history; task tokens fence |
| Workflow replay (`src/highwater/runtime.py`, `workflow_runner.py`) | a position in a history | replay events, resolve commands | the same history gives the same commands; no history the server writes makes it fail |
| Startup, maintenance loop (`runtime.rs`, `maintenance.rs`) | none of its own | acquire, recover, serve; a tick every 250 ms | recovery before serving |
| Python worker, client, autoscaling (`src/highwater`) | in-flight grants, batches, scaling windows | poll/renew/complete; send/retry; scale | renewals stop with the grant |
| Console: session (`console/src/App.tsx`, `api.ts`) | login, stored login, overview, trend, overlapping loads | sign in and out, load every five seconds, 401 | a rejected login does not stay; an old answer distorts nothing; silence after sign-out |
| Console: pages (`App.tsx`) | tab history, routes, detail pages and their calls | open, close, back, forward, answers | answers for another job are ignored; what was closed stays closed; pages settle |
| Console: timeline (`App.tsx`) | none: lanes computed from a history | one pass over the events | each lane spans its own activity, inside the chart |
| Landing page (`landing/app.js`) | order of sections, menu, copy button | order, toggle, copy, timers | menu's four places agree; label reverts; no section lost |
| CLI, control server, protocol, website, deployment | – | input and output | – |

What is hard here: several runtimes append to a lane through an object store
whose responses may be lost or late; one runtime's threads share cursors and
locks; workers complete grants long after they were revoked; a partition changes
hands by lapse, by restart on the same node, and by transfer; five counters and
a key set are kept beside the records they count. A checkpoint is prepared,
published and cleaned up by several threads while commits go on, and a crash may
leave any of it half done. A workflow's history grows between the moment a worker
gets it and the moment the worker answers. In the browser, calls overlap and
their answers come in any order. `PROJECT.json` lists these as
hazards, each at its line, with the property that covers it or the module that
is to cover it.

## 2. Modules

| Module | What it is |
|---|---|
| `SharedLog` | What a lane promises: one growing sequence of records, replicas that are prefixes of it, acknowledgements only for records in it. |
| `ObjectJournal` | One lane, its store and the code that drives it, for several runtimes. Implements `SharedLog`. |
| `ObjectJournalProofs` | Its inductive invariant, its safety theorems and the refinement; sequences and positions, and the fencing of former owners. |
| `PartitionOwnership` | The owner record of one partition, the life of its runtimes, and transfers. |
| `ProcessShard` | The executions of one direct-ingress process on one partition. Extends `PartitionOwnership`: every step on a shard needs its owner. |
| `ProcessShardProofs` | Proofs about both: ownership, types, the fencing of grants. |
| `ShardAccountingProofs` | Proofs about the account a shard keeps: queues, counters, limits, what may wait, finalized keys; and about the transitions a key commits. |
| `CheckpointStore` | A server in local_checkpoint mode: WAL, RocksDB, checkpoints, their publication and cleanup, crashes and starts. |
| `CheckpointProofs` | Its inductive invariant and its safety theorems. |
| `WorkflowHistory` | Workflows, children, activities and timers on the control lane, and the replay by workers. |
| `WorkflowProofs` | Its inductive invariant, types, and what closing leaves behind. |
| `ReplayProofs` | The order its histories are written in, that every replay follows it, and that whoever waits has a reason. |
| `ConsoleSession`, `ConsolePages`, `ConsoleHistory` | The console in one tab: who is signed in and what is loaded; the pages and their calls; the timeline of a run. |
| `LandingPage` | The script of the landing page. |
| `Lists` | The elements and the filter of a list, for the browser modules and the replay. |
| `ConsoleProofs` | Proofs about session, pages, timeline and landing page. |
| `Induction` | Induction over numbers and lists, recursive functions, folds and filters, as lemmas that can be cited. |
| `MC…` | Small instances for TLC. |

The layers fit as follows. Each action of `PartitionOwnership` and `ProcessShard`
is one lane transaction and is atomic. `ObjectJournal` is the justification, and
states its limit: `QuietCommitsAreFenced` shows that a transaction commits only
for the owner and generation it read *if its own runtime applied nothing to the
lane between its reads and its append*, if its operation asks for the owner at
all. The run `journal_stale` shows that the code does not exclude the other case
(section 5). One operation that changes a shard does not ask, a transfer's return
of the leased executions; `PartitionOwnership` and `ProcessShard` have it as the
code has it: their `ReturnGrants` needs no owner.

### ObjectJournal and the code

| Code | Model |
|---|---|
| record object `JournalRecord`, `WalRecord` payload | `records[p]`; payload reduced to its sequence, writer, kind and the sequence its reads were made at |
| head object `JournalHead`, ETag | `head`; ETags are compared as heads, since no two heads name one record |
| `put_opts` of the head, lost or late | `requests`, decided by `StoreDecides` at any time or never |
| `cursors[partition]` of the journal service | `cursor[r]` |
| RocksDB and the sequence mutex of `DurableStore` | `applied[r]`; the sequence is its length |
| mutation lock, sequence lock | `phase[r]`, and `SequenceLockFree` |
| `recover` | `BeginWalk`, `WalkStep` per GET, `WalkFails`, `FinishWalk` |
| `commit_shard`: synchronise, read, append, apply | `BeginCommit`, walk, `ReadState`, `StageRecord`, `HeadAccepted` or `HeadErrored` with `ReadbackMatches`/`ReadbackFails`, `FinishCommit` |
| callers of `sync_remote_shard` without the mutation lock | `BeginBackgroundSync` |
| process start | `Crash`, `Open` |

A transaction's content is reduced to what the owner record sees of it (`Kinds`):
`claim` (installs a new generation), `renew` (rewrites the own record), `work`,
and the three transactions of a transfer, `drain`, `return` and `install`.
`MayCommit` is what each asks of the owner record: a renewal, work and a drain
that it names the runtime as ACTIVE, an installation that it names it as DRAINING,
a claim and the transfer's `return` nothing. What a lease clock would decide is
left to choice: a claim is always possible. The constant `Operations` chooses the
kinds an instance has. The ghost variables are `log` (the paths the head has
named) and `acked`. `ApplyFails` says whether a local RocksDB write may fail.
Checkpoints are the subject of `CheckpointStore`, which has the local-file WAL in
the place of the journal; the publication of a checkpoint to the object store is
not modelled.

### PartitionOwnership, ProcessShard and the code

`owner` is `ProcessPartitionOwner`; `live` says whether its lease has run out.
`stage` follows `run_with_args`: acquire, recover, then start the partition loops
and the maintenance loop. A transfer is the three transactions of
`transfer_process_partition`, each an action, with `AbandonTransfer` for an error
between them.

`limits` are those of the process record on lane 0 as they fall to one partition
(`sharded_process_concurrency`, `sharded_retry_concurrency`, the capacity's
`div_ceil`), and are those of the latest registration: `Reregister` is
`create_process` for a process that exists, which replaces them at any time,
whatever the partition holds, and dispatches nothing (`process.rs:911`). All
other actions read them as they are then. `Registrations` are the limits clients
may register.

`shard` has the fields of `ProcessShardState` under their names. `mailbox` and
`ready` are the records under their key prefixes; `execution[e]` keeps the
sequence, attempts and prior state of an event; `grants` are the
`ProcessBatchLease` records together with what workers remember of them, so that
a completion or renewal of *any* grant may arrive at any time. `transitions` is
the history of key states; a key's state is named by the sequence of the event
that produced it. `Ingress` is a coalesced batch of `append_process_shard_records`,
direct start included; `Settle` is the common part of completion and recovery
(`finish_sharded_process_execution`, `retry_or_quarantine_sharded_execution`,
dispatch). Retry backoff, batch delay and poll timeouts are left to the choice of
when a poll is taken and which retries are ready.

Abstracted: values of events and states, outputs, quarantine records' contents,
the second process on a partition, and the error of reusing an `event_id` with
different contents.

### CheckpointStore and the code

| Code (`storage.rs` unless named) | Model |
|---|---|
| `wal/` with a file per lane and sequence | `wal[l][s]` |
| RocksDB: what it shows, and what of it is flushed | `db`, `disk`; a lane's state is the sequence of records applied to it |
| `commit` under the sequence lock: file, sync, apply | `WriteWal`, `Apply`, `CommitFails`; the lock is held while `commit[l]` is a record |
| `prepare_checkpoint` under all sequence locks | `Prepare`: one step, since the locks keep commits out |
| `publish_checkpoint` under the publication lock | `Check`, `WriteManifest`, a `Trim` per WAL file, `TrimDone`, a `RemoveOldest` per directory, `Published`; `PublicationFails` in between |
| `create_checkpoint`, `create_checkpoint_barrier` | the publishers `Requests` |
| `checkpoint_if_needed` in the maintenance loop | the publisher `Maintenance`, which waits for `Threshold` records |
| `copy_checkpoint` into an empty state directory | `StartRestore`, `FinishRestore`, and `InterruptRestore` for a crash in between |
| `open` with `replay_wal_shards` | `Open`, which a gap in the WAL forbids |

`settled` is a ghost: what callers were told of or readers could see. `misread`
says whether a start has taken part of a copy for a database. A record whose
commit failed after its file was written is not settled until a start has replayed
it. The tail's deletion follows the listing of the directory, hence any order
within a lane.

### WorkflowHistory and the code

Each handler of `workflow.rs` is one transaction on the control lane; an operator
takes the keys of the lane (`lane.status`, `run`, `history`, `task`, `timers`,
`activities`) to what the transaction leaves. `Wake` is `append_event` with
`enqueue_workflow`. `close_workflow` calls itself for the children; `Close` has
the outcome in one step: `ClosingWith` is the least set that holds the workflow
and, under TERMINATE, the running children of its members, and `CloseDown` closes
them together. The order in which the code does it leaves no trace, since each has
its own history and only the topmost one has a parent that still runs.
`FireTimers`, `ExpireWorkflows` and `FailOverdue` fold the loops of the polls,
`Apply` is `apply_command` for the commands of one completion: those that complete
updates, then at most one that the workflow's code decided. A child that exists
makes the whole completion fail (`ChildExists`). `job` is what each worker is busy
with; a task's or activity's token is the worker it was given to, which holds one
at a time. `Replay` is `activate` of `workflow_runner.py`: command by command,
`Resolve` consumes what the history says of it, `Dispatch` is
`_dispatch_external`, `Completion` is `_completion`, `AfterRetries` its loop that
skips the retries of the same command (the retry of another makes the replay
fail), and the result is what the worker answers with. The recursion over commands
is a function, so that it can be proved about. Times are choices: a timer may
fire, a deadline pass and a lease expire at any moment. Workflows are programs of
activities, timers and children; values, queries, version markers and
`WAIT_CONDITION` are left out.

### The browser modules and the code

`ConsoleSession` has `App`'s state under its names; `loads` are the calls of
`load` that have not returned, `polling` the credential whose interval is
installed, which follows `credential` by an effect. The server is what the console
sees of it: it accepts one login, which a restart may change, and its overview is
known by the second it was generated at. `ConsolePages` has the tab's history as
`entries` and `at`; `runPage` and `jobPage` are the states of `RunDetailPage` and
`ProcessDetailPage` with their calls in flight, whose effects run in the step of
the render. `ConsoleHistory` grows a run's history as the server writes it and
computes `timelineLanes` and the chart's coordinates in whole pixels.
`LandingPage` has the four places the menu's state is spread over, and the calls
and timers of the copy button. Layout and wording are left out.

## 3. Runs

All runs disable deadlock checking: the bounded instances do stop, when record
names, grants or generations run out.

| Run | Instance | What it shows |
|---|---|---|
| `journal` | 2 runtimes, 3 records of any kind, no crash | `ChainIsLog`, `AckedAreCommitted`, `ReplicasArePrefixes`, `GenerationsFollow`, `SequenceIsPosition`, `QuietCommitsAreFenced` |
| `journal_refine` | 2 runtimes, 2 records (claims, renewals, work), 1 crash, failing local writes | refinement of `SharedLog`; replicas catch up |
| `journal_stale` | 3 records (claims, work) | *violated*: a former owner commits |
| `journal_poison` | 2 records, failing local writes | *violated*: a record with a sequence that is not its position |
| `process_shard` | two in one run: 1 key, 2 events, 2 runtimes of one node, 3 generations, 3 grants; and 2 keys, 3 events, 1 runtime, 4 grants, limits raised and lowered at any moment between 2 slots, 2 retry slots, capacity 3, batches of 2 and 1 slot, 1 retry slot, capacity 2, batches of 1 | nothing lost or doubled, exact counters, no lost update, one transition per event, revoked grants fenced, one runtime per generation; keys run one at a time, nothing is added beyond the limits in force, no transaction passes the first waiting event over, waiting events have an execution before them, finalized keys are quiet |
| `process_live` | 1 key, 2 events, 2 nodes, 2 generations, 6 grants | every admitted event is decided |
| `process_order` | 2 keys, 1 slot, 4 grants | *violated*: commits of a key out of mailbox order |
| `drain` | 2 nodes, one restarted, 4 generations | *violated*: a draining partition is taken back |
| `checkpoint` | 2 lanes of 2 records, 1 requesting thread and the maintenance loop, threshold 2, 2 faults | the published checkpoint exists, settled records survive any crash until a start takes part of a copy for a database, the recovery point never goes back, the tail is checkpointed |
| `checkpoint_restore` | the same instance | *violated*: after a crash during a restore the server comes up without settled records |
| `workflow` | a workflow with an activity and a child, the child with a timer and one continue-as-new, every close policy, 2 workers, 2 disturbances | replays succeed, results come once, a closed workflow is over, whoever waits waits for a result that is to come, every workflow closes |
| `console` | 2 logins, 2 overlapping loads, 2 runs, 2 jobs, a tab history of 2, run histories of 5 events, all orders of up to 4 sections | the trend and timeline are honest, session and polling follow each other, late answers and back/forward are harmless, the page's script keeps the document together |

Why the bounds are enough. Three records are the least with which a former owner
can commit after a takeover (its claim, the other's claim, its work) and with
which an append can follow one whose outcome is still unknown. Two runtimes are
the parties of every race on the head. A transfer's return after another runtime's
claim takes a fourth record, which the proofs allow. `journal` leaves crashes to
`journal_refine` and to the proofs, which allow any number. For a shard,
`MaxAttempts = 2` has a first attempt, a retry and a quarantine; two events on a
key have one waiting behind another; three grants include a revoked one, its
successor and a late completion; `MaxGrants = 6` in `process_live` is what two
events need when every grant is lost and some are returned by transfers.
`process_shard` explores two instances, which the registration tells apart
(`Explored` in `MCProcessShard`); their product is out of TLC's reach. In the
first (`ChangesHands`) one key's events go through crashes, lapses, transfers and
late completions under one registration. In the second (`ChangesLoad`) one runtime
serves, and three events over two keys fill two slots, overfill a capacity that
was lowered to two, and leave one waiting behind a concurrency lowered to one; the
registration may change between any two transactions, to either side. The proofs
(section 4) have no such division. `process_live` and `process_order` register
once. `MaxEpoch` bounds generations; under the last one the partition stays with
its runtime (`Lapse`, `Crash`, `Drain` and `Install` are cut off there), so that
the bound does not take away the progress the code would make.

For `checkpoint`, two lanes are what it takes for a vector to be ahead in one and
behind in the other, and two records per lane for a tail with a gap; `MaxFaults =
2` allows a failed publication or commit and then a crash. Two publishers are the
parties of every publication race; six directory names never run out. The second
record only differs in name and is used where a commit replaces the file of one
that failed (`SecondReplacesFirst` in `MCCheckpointStore`); the proofs have no
such restriction. For `workflow`, the two disturbances may be any of a signal, an
update, a cancel request, a termination, a lost or slow worker, a failed task or
activity, or a passed deadline: each two of them in any order and at any moment;
`MaxAttempts = 2` has a retry and its exhaustion. For `console`, two loads in
flight are enough for answers to be reordered. With a clock of seconds 0 to 2 and
a window of 1, a point of second 0 leaves the window when one of second 2 comes; a
mutant of the window's filter (`RecentReversed`) shows that this happens. Two
history entries are enough for back and forward; five events hold an activity with
a retry and its end among signals or another activity. Its four parts share no
state, so a behaviour of the run is one of one part (`part`), and the instance
their sum.

Every property of a passing run has a mutant in `PROJECT.json`: a plausible bug,
written beside the definition it replaces, under which TLC finds the property
violated. The definitions marked *Mutant* in the modules are these.

### Fairness

`ObjectJournal`: the maintenance loop of every runtime synchronises each lane
every 250 ms, so beginning a synchronisation, its steps, and resolving an append
are weakly fair; nothing is asked of the store's decisions on late requests.
Reads and local writes may fail any number of times but not for ever
(`<>[]`), without which no replica could catch up.

`ProcessShard`: some runtime eventually stays up; acquisition, the start's
recovery, polling and grant recovery are weakly fair (loops and workers' long
polls); leases that nobody renews lapse, and from some point on a renewed one
does not lapse before its renewal, which is what a lease of many ticks means.
**No fairness is asked of completions**: a worker may never answer. The one
assumption about workers is that none renews a grant for ever.

`CheckpointStore`: a commit under way returns, publishers go on, a server that is
down is started (weak), and the maintenance loop gets to prepare a checkpoint if
it can again and again (strong: it needs all sequence locks, which commits keep
taking). Nothing is asked of requests or of flushes.

`WorkflowHistory`: timers fall due and idle workers poll both queues (strong,
since another worker's poll may be in the way), a worker answers or learns that
its lease is lost, and the lease of a worker that is gone expires (weak). Clients
send nothing that progress depends on.

`ConsoleSession`: effects run and the interval fires; a server that is asked again
and again answers now and then, and some answers arrive (strong). Any single call
may fail. `ConsolePages`: calls return, with an answer or an error.

## 4. Proofs

`ObjectJournalProofs` proves, for any sets of runtimes and records, any number of
crashes, and whether or not local writes fail:

* `Invariant`: `Spec => []JournalInv`. The safety properties are not inductive.
  The strengthening says that every head anybody holds (a cursor, a request's
  condition, a walk's start) is `EmptyHead` or one the lane has had
  (`HeadsArePast`, `WalksFollowLog`), and that every undecided request proposes,
  as the successor of such a head, an uploaded record of its own that is not in
  the lane (`RequestsAreProposals`). An accepted request therefore extends the
  chain by one (`StoreDecidesInv`), and a finished walk holds exactly the missing
  part of the log (`FinishWalkInv`).
* from it `TypeCorrect`, `ChainCorrect`, `AcknowledgedStay`, `ReplicasCorrect`,
  `GenerationsCorrect`;
* `Implementation`: `Spec => ImplementsSharedLog`. An accepted head write is a
  `Commit`, a finished synchronisation a `Learn`, a finished append an
  `Acknowledge`, a crash a `Forget`, everything else stutters (`StepImplements`).

On top of it the module proves:

* `SequencesCorrect`, if local writes do not fail (`ApplyFails` is `FALSE`; the
  run `journal_poison` shows what happens otherwise): the sequence of a record is
  its position. It rests on `Agreement`: the cursor and the local state of a
  running runtime stay at one position, since a finished synchronisation moves
  both and a crash loses both (`SequencesAgree`).
* `OwnersShown`, without that condition, for each of the six kinds: an open
  transaction was allowed to run by a prefix of the lane and read its generation
  (`ReadsAreOfPrefixes`), and a record staged when nothing was applied in between
  is what its operation makes of such a prefix (`QuietRecordsAreAllowed`). What
  the owner record says after the first n records never changes again.
* `FencingCorrect`, from both: if local writes do not fail, a transaction its own
  runtime leaves alone commits only what its operation makes of the lane just
  before it (`AllowedAfter`). Work, renewals, drains and installations commit only
  for the owner their operation asks for; a claim or an installation under the
  next generation; everything else under the current one, which for a transfer's
  return need not be its writer's. That is what the atomic actions of
  `PartitionOwnership` and `ProcessShard` take for granted, and all the conditional
  head write gives: whether work is fenced is up to what its operation checks.

`ProcessShardProofs` proves, for any runtimes, nodes, events and keys, and any
registrations before and between the steps of a shard:

* `OwnershipInvariant` and `OneRuntime`: a generation is made ACTIVE by one
  runtime. Strengthening: no activated epoch is above the owner record's.
* `OwnershipImplemented`: `Spec => SpecOwnership`; the shard's transactions leave
  the owner record alone, so what is proved of `PartitionOwnership` holds of it.
* `ShardTypeCorrect` and `RevokedGrantsFenced`: every committed transition names
  a grant that was completed, and a completed or revoked grant never opens again
  (`GrantInv`). A late or repeated completion thus commits nothing.

`ShardAccountingProofs` proves on top of it, for the same constants:

* `AccountingInvariant`: `Spec => []AccountingInv`, the conjunction of
  `EveryPendingEventIsHeldOnce`, `ActiveKeysAreInFlight` and `CountersMatch` with
  two facts none of the runs checks. They are not inductive one by one: whether an
  event may start is decided by `active_keys` and the counters, and a counter that
  went wrong would start an event twice, or none, two steps later. No limit is part
  of it, since a registration may break any that was kept: a partition that holds
  three events may be told that it has room for two.
  `SequencesAreDistinct` is needed because dispatch takes the first *n* events by
  sequence: were two sequences equal, it could take more than *n* (`FirstBound`).
  `UntriedUntilStarted` is needed because what leaves the mailbox is counted in
  `running`, what is retried in `retry_running`: an event with an attempt behind
  it in the mailbox would be counted in the wrong one.
* the argument: every transaction settles some executions, then starts what
  fits. `Starting` and `Dispatching` say what the second half does to the
  account, `SettleAccounting` and `IngressAccounting` what the whole does; a poll
  and a return by transfer move events between `ready` and grants
  (`GrantAdded`, `GrantsReturned`) and change no sum.
* from it `NothingLostOrDoubled`, `OneExecutionPerKey`, `CountersAreExact`; and
  `FinalityHolds`, which needs the account to know that a key without pending work
  has none.
* `LimitsAreKept`, of the steps and not of the states: whatever is held, run or
  retried beyond the limits in force was there before, and no step adds to it.
  The code compares counters with the limits, and that these are the sizes of what
  they count is the account; that nothing is added to a partition over its limits
  rests on differences that stop at zero (`saturating_sub`).

`FirstIsNotPassedOver` states what is left of "a free slot is used": dispatch looks
at no more waiting events than may run (`process.rs:521`), so an event further back
may wait for nothing while the slots are free, but the first one is not passed
over. Every transaction that changes the mailbox, the slots or the active keys
leaves the event with none before it waiting only if its key has an execution or
every slot of the limits in force is taken. What a dispatch leaves over has that
reason: the first of the mailbox is in the window, it is the first of its key, and
if it was not started, as many events as there were free slots were started before
it, which none is. Every transaction that frees a slot or a key ends in a dispatch.
An ingress skips it only if `pending` is zero, and that the mailbox is then empty is
what `CountersMatch` says. A registration that raises the concurrency dispatches
nothing, and then the first waiter does wait with a slot free, until the next
result. `WaitersAreReached` is why there is a next one: while events wait,
something is in flight. A transaction that changes any of the three leaves the
first waiter with a reason, and either reason is an execution in flight, since no
limit is zero; a step that changes none of them leaves the key of that execution
active, and active keys have one.

The same module proves `HistoryInvariant`: the transitions of a key follow one
another (`TransitionsFollow`), belong to the key's committed events, one to each,
and, the strengthening that makes this inductive, the state an execution in
flight was given is the one its key has now (`PriorIsCurrent`). That is kept
because the key has no other execution in flight (`OneExecutionPerKey`), so nothing
commits on it meanwhile (`HistoryGrows`). From it `NoLostUpdate` and
`ExactlyOnceEffect`.

`CheckpointProofs` proves, for any lanes and records, any number of publishers,
directories, crashes and failures:

* `CheckpointInvariant`: `Spec => []CheckpointInv`. `PublicationInv` says that a
  directory's name has one content, which has the vector its publisher carries;
  that one thread publishes at a time, and what it is about to write it has
  checked. `RecoveryInv` says, until a start takes part of a copy for a database,
  that a lane's WAL files hold what is settled, all of it from the published
  position on, and at most one record more (`WalInv`); and that every copy of the
  database, flushed or in a checkpoint, is a prefix of what is settled, the
  flushed one not behind what anybody publishes (`CopiesInv`).
* from it `CheckpointTypeCorrect`, `PublishedCheckpointExists`,
  `RecoveryPointNeverRegresses` and `SettledRecoverable`. The last rests on
  `BaseRecovers`: replay on a prefix of the settled records that is not behind
  the checkpoint meets no gap and ends at the settled records or one further.
  That a tail without a gap is an interval (`TailIsInterval`) is proved by
  counting, without induction.

`WorkflowProofs` proves, for any tree of workflows with any programs, any workers,
attempts, runs and disturbances, and each policy:

* `WorkflowInvariantHolds`: `Spec => []WorkflowInvariant`. `ClosedIsFinal` says
  nothing of running workflows, and so is not inductive. The strengthening says of
  every workflow what its history looks like in its status (`Told`: empty, open,
  or ending in the only closing event), that only running workflows have tasks,
  timers and activities (`OnlyRunning`), so that nothing is ever appended behind a
  closing event, which children outlive a parent (`Orphans`), and that the holder
  of a task was given a beginning of the history there is now, and not an empty
  one (`Holding`), without which a replay might ask for anything.
* the argument: each operator on the lane keeps `Good`, the part of the invariant
  about the lane (`WakeGood`, `CloseDownGood`, `CloseGood`, `StartGood`,
  `ContinueGood`, `ScheduleGood`, `ApplyGood`), where the task of the workflow in
  hand may be out of order until its handler is through (`Good(S, {w})`). That
  `CloseDown` leaves no running child without reason is where the least set
  counts: it contains the running children of its members (`ClosingIs`). The loops
  of the polls keep it by induction over the set they fold (`FireTimersGood`,
  `ExpireWorkflowsGood`, `FailOverdueGood`), and an answer is well formed by
  induction over the commands left (`ReplayIs`).
* from it `WorkflowTypes` and `ClosedCorrect`.

`ReplayProofs` proves `HistoriesReplay` and `WaitingHasReason` for the same
parameters. The engine, which writes histories, and the runtime, which reads them,
agree on no more than the order of events; the proof has a half for each.

* the engine: `ReplayInvariantHolds`, `Spec => []ReplayInvariant`. Every event fits
  those before it (`Ordered`, `Fits`): a command is asked for behind the results
  of those before it, in the order of the program, once; its retries and its one
  result come behind that, and no retry behind the result. This is not inductive
  without knowing who may still report. `AwaitedOnce` says that a timer, an
  activity or a running child belongs to a command that was asked for and has no
  result; `OfTheirKind` that a command has one activity or timer, and of the kind
  its program says; `Begun` that a child which was asked for exists; and
  `SeenScheduled` that the holder of a task has seen every command asked for, so
  that what it asks for next is new (`NextIsNew`) although the history has grown
  since.
* each handler keeps it (`…Orderly`). The loops of the polls take what they
  settle out of the state first and report it afterwards; `Orderly(S, P)` carries
  the pairs `P` in between, by induction over the set that is folded
  (`FireTimersFine`, `FailOverdueFine`, `ExpireWorkflowsFine`).
* the runtime: `ResolveDoes` lists what `resolve` may do with command *c* at event
  *i*: wait, cancel or fail; ask for *c* when nothing is left but external events;
  go on with *c* + 1 behind the result (`Continued`); or meet an event it cannot
  explain (`Inexplicable`). By induction over the commands left, what a replay
  asks for is justified by the events it was given (`DecisionJustified`, which the
  engine's half uses for a completed task), and in an ordered history without a
  stray update completion no event is inexplicable (`Explicable`, `ReplayAnswers`).
* from both halves `HistoriesCorrect`. An event is inexplicable if it is of another
  kind or for another command, and so is, behind the retries of the command that
  are skipped, the retry of another (`Stray`, `runtime.py:113`): no history the
  server writes has one. Its only exception is `UpdateAstray`.
  `ResultHidden` makes no replay fail: it makes one wait for ever, and so is an
  exception of `WaitingHasReason` and `WorkflowsClose`.
* no wakeup is lost: `WaitingInvariantHolds` and, from it, `WaitingCorrect`. The
  invariant adds two facts to `ReplayInvariant`. `Expected` is the converse of
  `AwaitedOnce`: a command of a running workflow that was asked for and has no
  result (`Unanswered`) has something pending that will report one. `Motive` says
  that a running workflow without a task (`Resting`) awaits a command. Most
  handlers only have to leave the resting workflows as they were
  (`Undisturbed`), since whatever appends to a history makes a task as well. The
  exceptions are the retry of an activity, which awaits what it awaited, and a
  task that is completed: it leaves a workflow without one only if the worker had
  seen the whole history, and then the replay itself tells. `ReplayWaits`, by
  induction over the commands left, shows that a replay which decides nothing
  ended at a command that was scheduled and whose result it did not find, and
  that there was none to find (`NothingElse`).

`ConsoleProofs` proves, for any logins, runs, jobs, documents and bounds:

* `SessionInvariant`, from it `StorageCorrect` and `TrendCorrect`. Besides types,
  `SessionInv` says that every point of the trend was measured: its total is the
  one of its second, and its rate one the streams had (`Measured`). A late answer
  is measured against a point that is newer than itself; `RateSinceIsReal` shows
  that the code's two `Math.max` then leave zero. That `PeakRate`, a maximum over
  pairs of seconds, exists is `PeakRateIsPeak`; that a load finds a free identity
  is a counting argument (`FreeIdentity`).
* `PagesInvariant`: what an entry of the tab's history remembers as the page to
  return to is no detail page (`DetailsComeFromLists`), no detail page follows an
  entry of its own address (`DetailsAreNotRepeated`), and a call that is not put
  aside is for the job shown (`ActiveCallsAreCurrent`). The first two make
  `ClosedPagesCorrect` hold, the third `JobAnswersCorrect`.
* `HistoryInvariant`, from it `LanesCorrect` and `ChartCorrect`. The code draws all
  lanes in one pass, adding each mark to the first lane of its command; the
  property says what each lane must be, from the whole history. Each event fits
  those before it (`Follows`: one schedule per command, nothing behind its end, no
  time before the last one). The fold of the pass is unfolded once
  (`LanesArePassed`, through `FoldExists`), and by induction over the prefixes of
  the history the lanes so far are those its prefix calls for (`AddEventFollows`,
  `PassFollows`): an activity has one lane, so the first found is its own. In the
  chart every lane begins before it ends, within the run (`LanesFit`); that a
  share of the width stays below the width is two facts about `\div`
  (`QuotientGrows`, `ShareIsBounded`), and a run of one millisecond is scaled by
  one and not by zero.
* `LandingInvariant` and `LandingCorrect`. The script moves one section after the
  other to the end; by induction over the sections named, what it has moved so
  far stands in their order behind the rest (`MovePlacesNext`,
  `SectionsArePlaced`), whichever of them the document lacks.
* `ConsoleTypes`, for the composition of all parts.

The library's induction theorems take a predicate as a parameter, which no prover
here can instantiate. `Induction` states the same for sets: `SetInduction` (from
the well-foundedness of `<`, by `WFMin`), `ListInduction`, and the existence and
uniqueness of recursive functions (`Recursion`, `RecursionIsUnique`). With them
the filter `Among`, which `Lists` defines recursively for that purpose, can be
reasoned about: the lemmas `AmongElements`, `AmongAll`, `AmongTwice` and
`AmongBoth` carry the proofs about the trend and the sections. `FoldSet` of the
community modules removes elements one by one in an order it chooses:
`FoldExists` shows that there is such a fold over a finite set, `FoldInduction`
that what holds of the base and is kept by each element holds of the result.

Assumptions on constants, all stated in the modules: `NoPath` is no record name,
`NoRuntime` no runtime, there is a runtime, limits a process may be registered
with are positive, bounds are natural, finitely many events are sent; there are
finitely many workflows, and a workflow's parent is the one whose program starts
it; `NoRecord` is no record and `NoSnapshot` no directory; the records of all
streams never decrease (sums of `next_offset`,
`crates/server/src/console.rs:345`); a section is named once (`landing/app.js:3`).

Every safety invariant and every action property of the passing runs is proved,
and so is the refinement. Only model-checked are the liveness properties:
`ReplicasCatchUp`, `EveryEventIsDecided`, `TailIsCheckpointed`, `WorkflowsClose`,
`SignedOutFallsSilent`, `SessionFollowsServer` and `RunPageShowsItsRun`. Each
needs the enabledness of a fair action and an argument that something gets less,
and the prover handles neither. `WaitersAreReached` is the safety half of
`EveryEventIsDecided`: no state leaves events waiting without something in flight
whose end will dispatch. `WaitingHasReason` is that of `WorkflowsClose`: no state
leaves a workflow without a task and without anything that will make one. The
types of what runs in the browser, and that the timeline's chart stays inside its
bounds, are proved (`ConsoleTypes`, `ChartCorrect`) and not checked again by the
run.

## 5. Disagreements between the code and its documentation

1. **A former owner may commit** (`journal_stale`, `storage.rs:358`).
   `sync_remote_shard` does not take the mutation lock. Called by another thread
   of a runtime while its transaction is open, it moves the cursor the conditional
   write is made with, and `owner_epoch_for` then reads the new owner's epoch:
   work computed before a takeover commits under the new generation.
   `website/docs/concepts/leases-and-fencing.mdx:14` says every later completion
   fails.
2. **A failed local write can poison a lane** (`journal_poison`,
   `journal.rs:190`, `storage.rs:445`). The service's cursor moves before the tail
   is applied, and position and sequence are compared after the append is durable.
   Every later recovery then refuses the record (`storage.rs:233`).
3. **Commits out of mailbox order** (`process_order`, `process.rs:1190`). An
   ingress batch starts an event of an inactive key although an earlier event of
   the key waits in the mailbox. `website/docs/references/guarantees.mdx:12`,
   `docs/PROCESS_SIMULATION.md:26`.
4. **A draining partition may be taken back** (`drain`, `keyspace.rs:586`). The
   maintenance tick of the source's own node reactivates it, and the transfer
   fails. `docs/SCALING.md:19-24`. The second of the transfer's three transactions
   does not read the owner record (`maintenance.rs:352`): if the partition was
   taken back before it, by a runtime of the same node at once or by any other when
   the lease had run out, it gives back executions of the new generation, although
   `website/docs/concepts/leases-and-fencing.mdx:22` says the generation fences all
   work from a former owner. That this loses or doubles no event is what
   `EveryPendingEventIsHeldOnce` and `OneTransitionPerEvent` show: the work is done
   again, and the grants taken commit nothing.
5. **A restore that was interrupted is not resumed** (`checkpoint_restore`,
   `storage.rs:161`). A start restores only into a state directory that is absent
   or empty, and the copy is made in place, file by file. After a crash during the
   copy the next start takes the part for a database, restores nothing and comes up
   without the records of the checkpoint, whose WAL files are deleted.
   `docs/DURABILITY.md:31` says that the loss of the local RocksDB is made good from
   the checkpoint and its WAL tail. `SettledAreRecoverable` says what does hold: up
   to that start, whatever crashed before it, nothing settled is lost.

### What the code does not prevent

Cases the properties name as exceptions or leave room for, and which no document
rules out in so many words. Without the exception TLC finds each of them.

* A registration that raises the concurrency of a loaded process dispatches
  nothing, so an event of an idle key may wait with a slot free until the next
  result; one that lowers a limit leaves in place what exceeds it
  (`process.rs:911`; `FirstWaiterIsServed` and `LimitsAreRespected` are about the
  steps of the partition).
* The completion of an update is appended when its task completes. If an event or
  a command came between request and completion, every later replay fails
  (`src/highwater/runtime.py:61`; `UpdateAstray`).
* A signal or a cancel request behind the retry of an activity hides the
  activity's result from every later replay, and the workflow hangs
  (`runtime.py:107`; `ResultHidden`).
* Continue-as-new archives the events that arrived after the task was polled: a
  signal or a cancel request is dropped (`workflow.rs:888`; last disjunct of
  `ClosedIsFinal`).
* A child whose id exists already fails the completion, which is then retried
  without end (`workflow.rs:842`; `ChildExists`, which the instance does not meet).
* A late 401 for a former login signs the present one out
  (`console/src/App.tsx:352`), and the run page, which has no flag like the job
  page's, may show the run left before (`App.tsx:228`). `SessionFollowsServer`
  claims what holds nevertheless, and `RunPageShowsItsRun` that the page of a run
  comes to show that run or an error, whether or not an answer for another one
  replaces it later.

## 6. Plan

Done: the journal, ownership, shard executions, local checkpoints, workflows, the
browser code. Next, in this order:

1. `Outbox` and `IngressRouting`: promotion across lanes, sink leases; coalescing
   and forwarding with lost answers.
2. `EventTime`, `OperatorEdge`, `GatedProcess`: watermarks, idleness, sealing;
   frontier against retries (`stream_engine.rs:73`); capacity against gates
   (`process.rs:14`).
3. `SourceLease`, key groups; checkpoints published to the object store; stream
   operators as pure functions against a batch definition; the client's stream
   writer and the autoscaler.

### Not modelled

The CLI, the control server, authorization, the website and the deployment files
have no state of their own. The process simulator is a randomized test of what
`ProcessShard` models. `landing/demo` is a build of the console. The deployment
graph and annotations compile declarations into requests. Everything else that is
missing is named in `PROJECT.json` with its component.

## 7. Running

    tlc -workers 2 -config ObjectJournal.cfg MCObjectJournal
    tlc -workers 2 -config ProcessShard.cfg MCProcessShard
    tlc -workers 2 -config Checkpoint.cfg MCCheckpointStore
    tlc -workers 2 -config Workflow.cfg MCWorkflowHistory
    tlc -workers 2 -config Console.cfg MCConsole
    tlapm ObjectJournalProofs.tla
    tlapm ProcessShardProofs.tla
    tlapm ShardAccountingProofs.tla
    tlapm CheckpointProofs.tla
    tlapm Induction.tla
    tlapm WorkflowProofs.tla
    tlapm ReplayProofs.tla
    tlapm ConsoleProofs.tla

`PROJECT.json` lists every run with its module, configuration and expectation.
