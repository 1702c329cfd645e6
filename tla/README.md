# TLA+ specifications of aux-storage

aux-storage serves DynamoDB-, SQS- and SNS-compatible APIs over SQLite, Turso,
Postgres, RocksDB and FoundationDB. These specifications cover the parts of it
whose correctness depends on the order in which concurrent steps happen: the
queue service, publish and subscribe, the RocksDB native attempt, the build of
secondary indexes beside writes, streams and retention, and the admission
controller that stands in front of a backend. Everything is translated
from the Rust sources under `src/crates`; which lines a definition stands for is
recorded definition by definition in `PROJECT.json` ("map").

The workspace has about 255,000 lines in some 30 crates. What is modelled is the
concurrent core of five subsystems, not the whole; "Not modelled" says what is
left and why.

## The parts of the system

| part | state | operations | talks to |
| --- | --- | --- | --- |
| queue provider (`queue-provider`, rows in `kv-backend`) | catalog of queues, message rows per incarnation, cleanup checkpoint | create, delete, purge, set attributes, send, publish, receive, delete message, change visibility, checkpoint, cleanup page | a native attempt of some backend |
| publish and subscribe (`pubsub-provider`, `pubsub`) | topics, subscriptions, publish intents with snapshot chunks, delivery records | create and delete topic, subscribe, confirm, unsubscribe, publish, materialize chunk, claim, send, settle | native attempts; queues, HTTP endpoints, a custom sender |
| RocksDB attempts (`kv-backend/src/rocksdb`, `storage-common/src/{durability,retry}.rs`) | buffered writes, command channel, writer queue, settlement, durability group, write-ahead log | stage, read, drop a call, return, panic, commit, retry, sync, crash | the operation that runs in the attempt; the RocksDB engine |
| admission (`storage/src/admission`) | slots in use, waiter queue, limit, measurement window, control reserve | request, wait, grant, complete, release, control slots, window evaluation, drain | every request to a backend |
| secondary index builds and table streams (`storage-backfill`, `storage-provider` writes, table updates and maintenance, `kv-backend/src/gsi`) | items, stream entries, item histories, index rows, the state of each build, stream settings, retention frontier | put, delete, update table, initialize stream, advance a build, clean up, trim | native attempts; the maintenance scheduler |
| other table operations, stream readers, replication, SQL, FoundationDB, HTTP layers | see "Not modelled" | | |

How they interact: a request passes *admission*, then runs an operation of the
*queue*, *pub/sub* or *table* service as one or more native attempts; a *native
store* makes an attempt atomic, serial and (once answered) durable. `Queue`,
`Pubsub` and `GsiBackfill` take an attempt as one step because `NativeStore`
promises that, and `RocksDb` is shown to keep that promise. `Admission` takes its limit from `AdmissionLimit`,
and `AdmissionWindow` is shown to be such a limit.

What makes them hard:

- a request reads the clock and draws identities *before* its attempt, and its
  retries commit much later, after other requests, on nodes whose clocks differ;
- an attempt's future can be dropped at every await while a thread goes on with
  it; a commit is visible before it is durable; one writer thread serves all;
- a publication's audience is read in snapshot reads that conflict with nothing,
  and is turned into records chunk by chunk by workers that may be lost;
- a lease runs out while its holder is still sending, and all workers may have
  the same worker id;
- a permit travels through a channel to a receiver that may have gone, and the
  limit falls while slots are held;
- an index is scanned and then caught up with the stream while live writes
  project to it, streams start and stop, and retention removes the history that
  the catch-up reads;
- a cleanup cursor and a drain look at something that moves meanwhile.

`PROJECT.json` lists these hazards line by line with the properties that would
catch each of them going wrong.

## Modules

| module | models | main properties |
| --- | --- | --- |
| `Queue` | the queue service at its `QueueAttempt` port | `QueueInvariant`, `ClaimsProtected`, `NoLiveMessageLost`, `UnreachableStaysUnreachable`, `IdentitiesUnique`, `ReceiptsUnique`, `GarbageReclaimed` |
| `KvQueue` | the due and receipt indexes the key-value backends keep beside the rows of `Queue`, which it extends | `RowsIndexed`, `LookupsExact` |
| `Pubsub` | topics, acceptance, fan-out and delivery | `PubsubInvariant`, `AudienceKept`, `FanOutExact`, `OneSettler`, `SettledForGood`, `DeliveredReached`, `PublicationsSettled` |
| `NativeStore` | abstract: requests commit at most once, one at a time, over the contents they read; a crash removes a suffix nobody was told of | the specification `RocksDb` implements |
| `RocksDb` | attempt, writer thread, settlement, durability batch, retry, crash | `StoreInvariant`, `AcknowledgedDurable`, `ImplementsStore`, `WritesWhole`, `ReadsOwnWrites`, `SnapshotCoherent`, `WritesInvariant`, `RequestsAnswered` |
| `GsiBackfill` | builds of secondary indexes, item writes, table updates, stream initialization, history cleanup | `GsiInvariant`, `IndexesExact`, `NoProjectionConflict`, `BlockedOnlyByRetention`, `BuildsSettle` |
| `AdmissionLimit` | abstract: what permits and waiters rely on of a limit | the specification `AdmissionWindow` implements |
| `AdmissionWindow` | measurement windows: backoff, emergency, probe, pressure | `WindowInvariant`, `OneReductionPerWindow`, `RisesAreEarned`, `FailedProbeUndone`, `NotLockedLow`, `ImplementsLimit` |
| `Admission` | slots, bounded waiter queue, grants that lose their receiver, control reserve, draining; composed with `AdmissionLimit` | `AdmissionInvariant`, `PoolBounded`, `QueueOnlyWhenFull`, `NoOvertaking`, `WaitersAdmitted`, `DrainedIdle`, `DrainEnds` |
| `QueueProofs`, `PubsubProofs`, `RocksDbProofs`, `RocksDbWritesProofs`, `GsiStepProofs`, `GsiBackfillProofs`, `AdmissionProofs`, `AdmissionWindowProofs` | theorems and the lemmas they rest on | |
| `MC*` | one instance per run | |

Definitions commented "Mutation:" are deliberate bugs. They are used nowhere:
each is what a definition of the code would look like with a plausible mistake,
and `PROJECT.json` ("mutants") says which property catches it.

## How the models correspond to the code

### Queue

A request is two steps. `Start...` is what happens before the attempt: the clock
is read (up to `Skew` away from the reference clock `now`), incarnations, message
ids and receipt handles are drawn. The step named after the operation
(`CreateQueue`, `ReceiveMessages`, `DeleteMessage` ...) is the committed attempt:
it looks the queue up again, reads the rows it needs and writes. Any number of
ticks and commits of other requests lie between the two; that stands for waiting,
for conflicts and for retries, which reuse what was captured. `AbandonCall` is a
request that failed or whose client went away. The cleanup job (`StartCleanup`,
`CleanupPage`, `DeferCleanup`) keeps its cursor in a checkpoint and its captured
time for a turn.

Rows keep what decisions depend on: key, url, body, expiry, visibility, receipt,
receive count, checkpoint. Bodies are numbers, attributes the three that count
(delay, retention, size), and a page of due rows is a set that is a prefix in
index order. `leases` is a history variable: the claims granted and not given up.

`KvQueue` adds what `kv-backend/src/queue_message.rs` stores beside the rows. A
step of `KvNext` is a step of `Queue` together with `StageIndexes`, the mutations
`write_message_records` and `delete_message_records` stage in the same attempt for
the rows it replaces, writes and deletes: deletes of the old entries, then puts of
the new ones. Where two records of an attempt would name one receipt key, the
model leaves open which mutation comes last. `Queue` reads rows directly; the
code finds them through the indexes (`DueEntries`, `ReceiptEntries`, `Counted`),
and `LookupsExact` says that this is the same, so what is shown of `Queue` is true
of the indexed store.

### Pubsub

Topics carry an incarnation, subscriptions the incarnation they belong to. A
publish request is captured (`CapturePublish`), reads the topic and the
subscription pages (`ReadAudience`) and commits (`AcceptPublish`) if the topic
row, read with conflict protection, is unchanged; what commits in between to
subscriptions is not noticed. A conflict makes the attempt again (`RetryPublish`).

A worker's turn is `execute_due_deliveries`: claim due intents under a lease,
commit each claimed chunk (`CommitChunk`: records and continuation in one
attempt, only if the intent is still the one claimed), read the clock again,
claim due delivery records, and for each look up (confirmations), send and
settle. `Settles` is the test of `DeliveryRecord::settle`: generation and owner.
`LoseTurn` and `LoseClaim` are failed attempts, restarts, and deliveries that end
without an outcome. `SendDelivery` covers queues, HTTP and the custom sender: the
receiver takes the message, refuses it, or nobody knows.

Times are kept relative to the clock: `Tick` moves stored times into the past,
and times older than any reading still in use are not told apart. That keeps the
state space finite and merges only times no comparison can tell apart, with one
exception on the safe side: a chunk's commit compares leases for equality, and
merged leases make it succeed more often. The audience's history (`must`, `may`)
is kept with the request.

Abstracted: the order of the deliveries within a page (`buffered`), so any order;
`created_at` as a lower bound of the due index; message bodies and rendering.
`AcceptedByCustomSender` is the outcome "delivered".

### RocksDb

An attempt is shared by the operation (which may have several calls in flight,
`Slots`), the writer thread (the head of `queue`), the supervisor that outlives a
cancelled caller, and the durability task. The operation stages writes, begins
and resumes reads, drops calls, exhausts its budget, returns or panics. The
thread takes commands in order, applies batches, reads at its snapshot, commits
or drops. `Settle` records what happened in the shared settlement; the supervisor
retries proven conflicts only, and passes commits to the durability batch, whose
barrier syncs a prefix of the log. A crash keeps a prefix of the log that
contains all that was synced.

Abstracted: a read of one key stands for batches, pages and first-key reads; an
engine error or conflict may come at any commit; a reply and the pop of its
command are one step; the discriminant that cannot occur, the death of the writer
thread and the shutdown of the writer are left out.

### GsiBackfill

One table with one lineage of its stream; an index that is deleted and created
again is a new member of `Indexes`. Each action is one attempt.

- `Put`, `Delete` and `DeleteAbsent` are the item write with all it does: the new
  revision, the stream entry, the image and, where it is missing, the anchor of
  the image before it, and the projection to every index that is not blocked.
- `UpdateTable` creates or deletes an index, enables or disables the stream, or
  does both at once, and starts a sweep of the histories when nothing captures
  any more. `InitializeStream` anchors one page of items.
- `AdvanceBuild` is a turn of the scheduler: the next runnable build projects a
  page of the scan (`AdvanceScan`), a page of the stream (`AdvanceCatchUp`), or
  becomes active (`Activate`); it is blocked by missing history or by a conflict
  of images, and waits while a stream is initialized.
- `CleanupWave` retires entries that have expired and deletes the images no
  entry, live item or reader needs (`Plan`, `Protected`), by the pointers of the
  entries or in a sweep over the items. `TrimSystem` trims the system stream.

A row keeps its source version and whether it is live or a tombstone. An image is
an index key and one value that stands for the other attributes: ALL projects
that value, KEYS_ONLY does not. When an entry expires is a free choice of a
prefix, and the byte limit of a catch-up page a free choice of a shorter one.

### Admission and AdmissionWindow

Every critical section of the controller's mutex is one step; what happens
between two of them (a grant in a channel, a dropped receiver, a destructor that
has not run yet, the two reads of the drain) is a phase of the caller, the
control task or the drain. `GrantWaiters` is `grant_waiters_from_locked`, with
the waiters it finds closed. A controller that is not enabled is the instance
`Minimum = Maximum`. tokio's oneshot, semaphore and `Notify` are modelled by how
they are used.

`AdmissionWindow` has one step per evaluation. What a window measured is one
Boolean per comparison in the code, so every sequence of measurements is covered;
counters are kept as far as they are compared. `opened`, `before` and `calm` are
history variables. Metrics, baselines and reasons for a change are left out.

## Runs

All finish in less than three minutes on two cores. "states" are distinct states.

| run | instance | states | shows |
| --- | --- | --- | --- |
| `queue_claims` | 2 clients, 1 queue, skew 1, clocks to 3, claims of 2, one message that can be published again | 481,719 | claims hold and nothing live is lost on clocks that differ, through expiry, redelivery, checkpoints and cleanup |
| `queue_incarnations` | 3 clients, 2 names, 2 urls, 3 incarnations, a message too large for changed attributes | 166,616 | creates, deletes and purges that commit late keep identities unique and retired rows unreachable |
| `queue_indexes` | 2 clients, 2 messages delayed or not, batches of 2, time to 2, 3 receipt handles | 415,682 | every row keeps exactly its index entries; lookups and counts through the indexes answer what the rows say |
| `queue_reclaim` | 2 messages (one sent, one published), pages of 2, 2 incarnations, fair | 22,570 | all garbage is reclaimed |
| `pubsub_audience` | 1 topic with 2 incarnations, queue and HTTP endpoint, 2 subscriptions, 1 publication, 1 worker | 361,594 | the audience is right and the invariant holds from subscription to settlement |
| `pubsub_delivery` | 2 workers with one id, audience of 3 (one pending) in 2 chunks, 2 attempts, 1 fault, fair | 123,683 | fan-out is exact, claims settle once, everything is settled |
| `rocksdb_crash` | 2 writers, 2 tries, durability channel of 2, 1 crash, fair | 120,338 | the backend is serial though reads are not tracked, acknowledged writes survive, unknown ones are not retried, all are answered |
| `rocksdb_calls` | 1 writer with 2 concurrent calls, 1 reader, 2 keys | 933,224 | no write is lost on its way, commits are whole, calls see earlier writes, a reader sees one snapshot |
| `gsi_backfill` | 2 items, 2 indexes (ALL and KEYS_ONLY), 3 images, pages of 1 and 2, 2 stream entries, 2 table updates, fair | 158,739 | active indexes are exact, replay and live writes never conflict, only retention blocks a build, and every build ends |
| `admission_window` | limits 2 to 24, keeping 80 or 90 percent, fair | 46,464 | the properties of the limit; it implements `AdmissionLimit` |
| `admission` | 4 callers, 2 control tasks, limit 1 to 3, reserve 1, queue of 3 | 136,020 | slots are exact, bounded and handed on, in order |
| `admission_drain` | 3 callers, 1 control task, limit 1 to 2, fair | 50,538 | waiters get in, a drain ends and is right |

Why the bounds are enough. Every interesting case needs at most two parties and
what one of them holds: two claims on a row, two creates of a name, a late worker
and a new one, a waiter that leaves and one behind it; a third client, caller or
subscription is there where a bystander matters. Times go one past the longest
lease or timeout of the instance. Limits of 2 to 24 include those where five
percent rounds to nothing, where halving meets the minimum, and where a probe
meets the maximum. Every safety property is also proved for all values of the
constants (below), so there the bounds only decide how soon a mistake in the
model would be seen; for liveness they matter.

`pubsub_delivery` starts from an accepted publication whose topic and
subscriptions are already gone: from there the catalog can no longer matter to
notifications, which carry their subscription. The one fault (a lost turn, a lost
claim or a lease that runs out on its holder) may strike anywhere.

`gsi_backfill` starts in two ways: from a table whose first index was created and
deleted again, so that the second meets streams that start and stop; and from two
new indexes that are built side by side. The bounds are those of one item that
moves between keys, vanishes and comes back, with another beside it.

Deadlock is checked in the queue runs, the window, `pubsub_delivery` and
`gsi_backfill`. The
RocksDB, admission and audience instances end: all requests are answered, the
drain is over, or the bounded identities are used up.

## Fairness, and why the code justifies it

- Queue: the maintenance runtime schedules the cleanup job again and again (weak
  fairness of `StartCleanup`), and a store does not fail every attempt of a turn
  for ever (strong fairness of `CleanupPage`, which `DeferCleanup` interrupts).
  Clients owe nothing.
- Pubsub: `run_worker` loops, each thing it awaits ends (sends have timeouts), and
  time goes on. Faults are finite (`MaxFaults`): "The claim lease must cover the
  slowest in-flight delivery window" (`pubsub/src/manager.rs`) asks of the
  configuration that leases are not overrun all the time. One case is excluded by
  this and listed as a hazard: an error of rendering or signing leaves
  `deliver_claimed_record` before the attempt is counted, so a record for which
  that always fails is tried for ever.
- RocksDb: the operation comes to its end, calls that have their answer resume,
  and the writer thread, the supervisors and the durability task run.
- GsiBackfill: the maintenance handler gives builds and stream initializations
  their turns again and again (weak fairness of `AdvanceBuild` and
  `InitializeStream`). Writers, table updates and cleanup owe nothing.
- Admission: a permit's holder finishes, a task that can go on does, a destructor
  that began ends, control work gets a slot or gives up. No deadline of a waiter
  is assumed to come, so `WaitersAdmitted` is about grants alone.
- AdmissionWindow: requests keep completing, so windows keep closing.

## What is proved

TLAPS checks the theorems below for every value of the constants that satisfies
the `ASSUME` of the module (sets of any size, `Minimum <= Maximum`, factors of 80
to 90 percent as the code computes them, positive leases, page and chunk sizes,
and a nonempty worker id). Each proof has the shape: an inductive invariant, one lemma
per action or group of actions, and theorems that follow.

| invariant | what it adds to the properties | theorems |
| --- | --- | --- |
| `Queue!QueueInvariant` | identities held by requests in flight are nobody else's; rows match their queue and their claims; captures are not ahead of the clocks | `InvariantHolds`, `TypesHold`, `IdentitiesStayUnique`, `ReceiptsStayUnique`, `ClaimsStayProtected`, `UnreachableForGood`, `LiveMessagesKept` |
| `KvQueue!RowsIndexed` (beside `QueueInvariant`) | nothing: keys are unique before and after a step, and a handle never moves to another row (`HandlesStay`), so a staged delete never hits the entry of a row that stays | `RowsStayIndexed`, `LookupsStayExact` |
| `Pubsub!PubsubInvariant` | the audience of the moment lies between those who stayed and those who ever were in it; the intent carries the accepted snapshot; no two claims of a record have one generation, and settled records have no owner | `PubsubCorrect`, `AudienceAlwaysKept`, `FanOutAlwaysExact`, `AlwaysOneSettler`, `DeliveredAlwaysReached`, `SettledStaysSettled` |
| `RocksDb!StoreInvariant` | the writer has one open transaction and nothing committed since its snapshot; whoever waits has committed and the barrier reaches its group; a committed request was not told otherwise | `StoreInvariantHolds`, `AcknowledgedStaysDurable`, `SnapshotsCoherent`, `RocksDbImplementsStore` |
| `RocksDb!WritesInvariant` (beside `StoreInvariant`) | while nothing was rejected, each command in the channel has a call of its own that waits for it, a flush is ahead of every read, and native transaction, channel and buffer overlaid in that order are what the operation staged; the commit command brings the rest; an operation that has returned has no calls left | `WritesInvariantHolds`, `CommitsStayWhole`, `ReadsSeeOwnWrites` |
| `GsiBackfill!GsiInvariant` | a build that reads the stream is fed by it; a public stream holds the current image of every item its initialization has passed, and both images of every entry that is not retired; a row is never newer than its item, is live only with the item's projection, and lacks it only ahead of the scan; what a build has yet to read of the stream, its rows have seen or may still take | `GsiInvariance`, `IndexesStayExact`, `ProjectionsNeverConflict`, `BuildsBlockedOnlyByRetention` |
| `Admission!AdmissionInvariant` | slots and control counts are those of the tasks; queue entries are distinct and open or closing; a drain that has looked saw nothing | `AdmissionHolds`, `NoSlotWasted`, `PoolNeverExceeded`, `DrainedStaysIdle`, `WaitersInOrder` |
| `AdmissionWindow!WindowInvariant` | a reduction implies an emergency, an emergency's clear windows are calm ones, a probe remembers the limit it started from and did not lower it | `WindowCorrect`, `AlwaysOneReduction`, `RisesAlwaysEarned`, `FailedProbeAlwaysUndone`, `WindowImplementsLimit` |

Apart from `RowsIndexed` none of the properties is inductive, and that one only
beside `QueueInvariant`. That a claim is respected, for
example, follows only because a receive in flight holds handles no row has; that
a late worker cannot settle, only because generations of claims on a record
differ; that the store is serial, only because a snapshot is opened after the
last commit; that a commit is whole, only because a write that left the buffer is
in the one command ahead of all others; that a replayed entry cannot conflict,
only because the row it would touch took the same version from the live write.
Each invariant is itself checked by TLC in one of the runs.

The proof for the index builds takes what it needs of finite sets (a nonempty set
of numbers has a smallest and a largest member, a page of the smallest is ahead
of the rest) as the hypothesis `SetFacts` of the step lemmas in `GsiStepProofs`;
`GsiBackfillProofs` proves it from the theorems on finite sets and discharges it.
`BlockedOnlyByRetention` is an action property and follows from `HistoryHeld`:
what a build finds missing lies at or below the retired frontier, or was trimmed.

The two refinement proofs show that every initial state maps to an initial state
and every step to a step or a stutter. In `RocksDbImplementsStore` only a commit,
an answer, a barrier and a crash are visible; in `WindowImplementsLimit` pressure,
a pressed close and a quiet close are the three steps of the abstract limit.

## What is only model-checked

Liveness: `GarbageReclaimed`, `PublicationsSettled`, `RequestsAnswered`,
`BuildsSettle`, `WaitersAdmitted`, `DrainEnds`, `NotLockedLow`. Fairness and
`ENABLED` are beyond the prover. Every safety property of the runs is a theorem.

## Findings

None. The comments and tests of the modelled code that state a promise
("one window can apply at most one emergency reduction", "A delayed outcome
cannot rewind a newer claim", "deleting and recreating a topic cannot make an old
subscription visible under the new topic", "A fresh incarnation makes old
messages unreachable after delete/recreate") hold in the models, and all four
are theorems.

Two observations, neither of them a disagreement. The grants in `remove_waiter`
never find anybody to admit, because `QueueOnlyWhenFull` holds before; and the
same invariant makes the test for an empty queue in `try_grant_locked` redundant
when the limit is not reached.

## Not modelled

| part | why |
| --- | --- |
| byte encoding of keys and values, catalog rows of the key-value backend | a key is modelled by the fields it is built from, in their order |
| FoundationDB, memory and SQL backends | only their promise, `NativeStore`; their engines and generated statements are not shown to keep it |
| pub/sub: attribute changes, stop flag and delivery permit of a worker, `PreparedPublishChunk`, the port's SQL implementation | no bearing on the properties, or another implementation of the same port |
| tables, items, transactions (`storage-provider`) beyond the item write and the table update of `GsiBackfill` | expression evaluation and table lifecycles over serial attempts |
| index builds: the TTL index, INCLUDE projections, tasks bound to another job or a lost fence, several lineages of the system stream | variants of the same build, or checks that only end a turn |
| streams: changes of the retention period, several tables in a cleanup wave, table deletion, `stream-provider` with its readers and iterators | read by clients after the fact; the entries the builds read are modelled |
| regional replication (73,800 lines, with its ports and types) | several protocols; a project of its own |
| immediate queue worker, job store, infrastructure ports, startup, migration, maintenance, point-read batching | thin users or wiring of what is modelled |
| types, conditions, configuration, derive macros, HTTP and remote clients | data, parsing and transport without state of their own |
| test support and chaos runners | code that tests the system |

## Checking

In this directory, `tlc -config MCQueueClaims.cfg MCQueueClaims` runs one
instance, `tlapm QueueProofs.tla` checks the proofs of one module.
