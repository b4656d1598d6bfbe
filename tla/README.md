# Verification of arkiv-quickwit-bridge

The bridge is a daemon that tails an arkiv chain over JSON-RPC and keeps a
Quickwit index in step with the entities on it. Its difficult part is not any
one computation but the order of its writes: it has a SQLite store in which
every statement commits on its own, an index that can only be appended to or
pruned by a query, a chain that may replace its tip, and a process that may be
killed between any two calls. This directory models that part in TLA+, shows
that it implements an abstract crawl, checks it with TLC on small instances, and
proves with TLAPS, for every instance, most of what TLC checks of its states, the
refinement included. The POSTs with their retries, the life of the process, the
audit and the functions without state have models, and proofs, of their own.

Paths below are relative to the repository; `control_loop.rs` is
`src/control_loop.rs`, and so on.

## 1. The system

| Component | State it keeps | Operations | Interacts with |
| --- | --- | --- | --- |
| Control loop (`control_loop.rs`) | the locals of an iteration: range, logs, block, documents, delete queries | `run`, `run_iteration`, `process_block`, `hydrate`, `split_batches` | calls everything below, in one task |
| Reorg check (`reorg.rs`) | none; a sample and the bounds of a bisection while it runs | `check_buffer`, `find_fork_point`, `retract` | reads block hashes from the node; reads and rolls back the store |
| Delete scheduler (`delete_scheduler.rs`) | none | the three delete queries, `drain_pending_deletes` | store to Quickwit |
| State store (`state_store.rs`) | cursor, reorg buffer, emitted rows, pending deletes | one SQL statement per method, autocommitted | only the control loop |
| Quickwit client (`quickwit_client.rs`) | none; a retry loop per POST | `ingest`, `create_delete_task` | Quickwit over HTTP |
| arkiv clients (`rpc/`) | none | head, block hash, logs, entity at a block, liveness at head, code | the node over JSON-RPC |
| Documents and filters (`doc.rs`) | none | `to_quickwit_doc`, `doc_id`, `entity_matches_filters` | pure |
| Payload extraction (`extract.rs`) | none | content type to body text | pure |
| Sampling audit (`audit.rs`) | a mismatch counter in memory | compare recorded hashes with the code of the entity | node, store; may halt the loop |
| Configuration (`config.rs`), start-up and shutdown (`main.rs`), metrics (`metrics.rs`) | configuration; a cancellation token; counters | load and validate; checks at start; signals; an HTTP endpoint | systemd, which restarts the daemon after a failure |

There is one writer: everything that changes the store or the index happens in
the task of the control loop. The concurrency is with the outside: the chain
moves between two JSON-RPC calls, Quickwit may have accepted a POST whose
answer is lost, and the process may die between two statements.

What makes each part correct:

- **Control loop.** The cursor passes a block only when its documents are in
  the index and its deletes are on record, whatever fails (`NoGaps`,
  `NoStale`). A document that is skipped because its entity is dead at head
  leaves no gap (`NoGapsButDead`, `NoStaleButDead`). It always gets back to
  the tip (`CatchesUp`). All of it together implements "at least once, then
  pass" (`CrawlIsAtLeastOnce`).
- **Reorg check and retraction.** A document of an orphaned block can be found
  and is removed (`OrphanWitness`, `NoOrphans`), the crawl resumes where
  nothing is skipped (`NoGapsAfterReorg`), and a fork too deep to undo halts
  (`RetractedOrHalted`), provided that the check comes to an orphan before the
  windows drop it (`NoticedInTime`).
- **Delete scheduler.** A delete is on record until it took effect, and is
  harmless when it is repeated (`MarkedIsDone`, inside `IInv`).
- **Quickwit client.** A POST that is reported as done was carried out, whatever
  became of its earlier copies, before the block is passed (`BlockIsDone`); its
  retries are bounded in number (`TypeOK`) and spacing (`BackoffIsCapped`).
- **Start-up and shutdown.** A shutdown request is obeyed (`ShutdownStops`), and
  the crawl recovers when failures end (`Recovers`), unless the daemon stays down:
  `systemd/arkiv-quickwit-bridge.service` restarts it after a failure, a few times,
  and a daemon that was stopped waits for its operator.
- **Sampling audit and paranoid mode.** An alarm is never raised over honest
  answers (`NoFalseAlarm`), a completed pass has counted what it could read
  (`PassesAreComplete`), and a discrepancy is not passed over
  (`DiscrepancyHalts`, which the code violates).
- **Decoders, documents, filters.** The logs of a fetch are the events of the
  chain in their order (`LogsAreExact`); a spoiled field is an error, but for three that
  are read as something else (`BadLogFailsFetch`); attributes and filters mean the same to the
  entity, its document and the configuration (`AttributesAreKept`,
  `FiltersSeeAnnotations`, `FiltersAreAsWritten`).
- **Payload extraction.** Text gets a body (`TextIsIndexed`), and a page what
  its reader sees (`VisibleTextOnly`).
- **Configuration.** What `validate()` accepts lets the crawl go forward
  (`AcceptedConfigProgresses`).
- **State store.** No single statement loses what a crash at that point would
  need.

The hazards of the code, each at its line and with the properties that would
catch it, are listed in `PROJECT.json`.

## 2. The modules

```
ArkivChain   StateStore   Quickwit          parts: chain, SQLite, index
        \        |        /
              Bridge                        the control loop and all its calls
                |
        BridgeProperties                    what it should guarantee
                |
           Refinement                       how it implements AtLeastOnce
                |
         CrawlInvariant                     why, as inductive invariants:
                |                             reorgs above the confirmed blocks,
        RecrawlInvariant                      and reorgs of confirmed ones
                |
            MCBridge                        eight runs of TLC

ArkivChain --- Audit --- MCAudit            audit and paranoid mode, by themselves

Quickwit --- PostWithRetry --- Daemon --- MCDaemon
                                            the POSTs and the life of the process

Documents --- Config --+
Extract  Decode  Batching --- Algorithms --- MCAlgorithms
                                            functions without state
```

The proofs are in modules of their own:

| Module | Extends | Proves |
| --- | --- | --- |
| `ChainProofs` | `ArkivChain` | lemmas: what `EntityAt` chooses, and what a step of the chain leaves alone |
| `ControlProofs` | `BridgeProperties`, `ChainProofs` | types and control flow of `Bridge` |
| `IndexProofs` | `ControlProofs` | the witnesses of documents, and the retraction |
| `CrawlProofs` | `CrawlInvariant`, `ControlProofs` | the crawl of confirmed blocks: no gap, nothing stale, every step one of `AtLeastOnce` or a stutter |
| `RecrawlProofs` | `RecrawlInvariant`, `IndexProofs`, `CrawlProofs` | reorgs of confirmed blocks: no orphan stays, if the reorg check comes to it in time; and when it does |
| `AuditProofs` | `Audit`, `ChainProofs` | the audit: alarms are real, passes complete |
| `DaemonProofs` | `Daemon` | a block that is passed is done; the backoff |
| `AlgorithmProofs` | `Algorithms` | the sample of the buffer, attributes, filters, accepted configurations |

### `ArkivChain`: the node as JSON-RPC shows it

`chain` is the canonical chain, a sequence of blocks that carry operations on
entities; `epoch` counts the reorgs. `Mine` adds a block, `Reorg` replaces the
blocks above any fork point by as many others, and either keeps entity
histories well formed (created once, touched while alive). The operators are
the answers: `HeadBlock`, `BlockHash`, `EntityAt` (`get_entity_at`),
`LiveAtHead` (`is_live_at_head`).

Abstractions. A hash is the number of reorgs when the block was mined: with the
height it names one block, and a reorg changes every hash above the fork. The
six operations fall into the three classes that the loop tells apart. An entity
carries the outcome of the filters, not its annotations.

### `StateStore`: SQLite

One operator per writing method, named as in the source. Every method is one
statement, so every use of an operator is one atomic, durable step. `forgotten`
is a history variable: the blocks whose rows a pruning window has dropped, from
which nothing can be expected later.

### `Quickwit`: the index and the delete queries

`index` is the set of documents that a search can return. A document is its
key, block and log index (what `_doc_id` hashes), and the hash of the block its
log came from, which the properties read and no query does. Copies are not
counted: consumers group on `_doc_id`, and a delete removes every copy. A
delete task takes effect when it is accepted.

### `Bridge`: the control loop

`pc` names the next call. A step ends at each call that someone else can
observe or a crash can separate from the next one: a JSON-RPC read, a POST, a
commit. The actions follow the source:

| Source | Actions |
| --- | --- |
| `drain_pending_deletes` | `DrainPost`, `MarkSubmitted`, `DrainDone`, `DrainFails`; `ret` says which of its three callers goes on |
| `run_iteration`, start | `Idle`, `BeginIteration` (with `ReadHead`, which sets the first cursor) |
| `check_buffer`, `find_fork_point` | `CheckMatch`, `CheckMismatch`, `Probe`, `ForkFound` |
| logs and hashes | `FetchLogs`, `ObserveLog`, `ObserveMismatch`, `ObserveEnd` |
| `process_block` | `NextBlock`, `DeleteLog`, `EmitDoc`, `SkipLog`, `HydrationFails`, `ProbeLive`, `ProbeDead`, `AllHydrated`, `IngestBatch`, `AllIngested`, `EnqueueDelete`, `AllEnqueued` |
| cursor and pruning | `CommitBlock`, `FinishRange`, `PruneBuffer`, `PruneEmitted` |
| `retract` | `TooDeep`, `BeginRetract`, `EnqueueRetraction`, `TruncateBuffer`, `ForgetEmitted`, `RollBack` |
| failures | `RpcError`, `IngestFails`, `DrainFails`, `Crash`, `Restart` |

Details that are easy to get wrong, and are as in the code: the sample of
`check_buffer` is the newest block and the rotating window for some iteration
number; a mismatch at an empty end block is ignored; `find_fork_point` bisects
over the buffer while the chain may move; the mismatch found while ingesting
reports the block below, without a search; an error of the drain after a
retraction ends `run`, while the same error inside an iteration is retried; a
failed POST may or may not have taken effect.

### `AtLeastOnce` and `Refinement`: what the crawl promises

`AtLeastOnce` is the abstract specification behind "Exactly-once semantics" of
the README: a first block that is not passed, the index, and a set of promised
deletes. Its steps are to emit documents of unpassed confirmed blocks (`Emit`,
any subset, any number of times), to promise a delete that spares everything
current (`Promise`), to carry a promise out (`Honour`), to drop one that is kept
(`Forget`), and to pass blocks that are `Done`: every document they owe is in
the index, and every older version is gone or promised to go. It has no process
and no failures; a retry, a crash and a replay are repetitions.

`Refinement` maps `Bridge` to it: `next` is the cursor, `promised` the rows of
`pending_deletes`; the program counter and the locals are forgotten, so most
steps stutter. `CrawlIsAtLeastOnce` is `AtLeastOnce`'s `Spec` under that mapping.
It is a stronger statement than `NoGaps` and `NoStale`, which look at states: a
delete that removes a current document and is repaired before the cursor moves
would pass those two and is no step here. It is a statement about chains whose
confirmed blocks stay; a retraction has no counterpart in `AtLeastOnce`.

### `PostWithRetry` and `Daemon`: one POST, and the process around it

`PostWithRetry` is one call of `post_with_retry`: `Send`, the wait, the answer
(`Success`, `Refused` with its status, `NotDelivered`, `AnswerLost`, `TimedOut`),
`Wake` after the sleep. A copy whose answer timed out is a straggler: it may land
(`Lands`) at any later time, also after the process that sent it has died.

`Daemon` is what `Bridge` takes for granted around it: `StartUp` and
`StartUpFails` (`main.rs`), `Stop` at the top of the loop, `SleepOver`, the signal
(`Cancelled`; `Terminated` before its handler is installed), `Crash`, `PowerLoss`, and
the unit that runs it: after a failure `Restart` (`Restart=on-failure`) or `GivesUp`
(`StartLimitBurst`), after a stop only the operator's `Start`. There is no clock, so
that any failure may be the one too many within `StartLimitIntervalSec`. A drain walks
its `snapshot` of the queue, as `drain_pending_deletes` does. A power loss takes the store back to any state it
had before (`synchronous=NORMAL`); the index keeps what it was given. The blocks are those of one entity that every block updates,
selected by the filters or not, so that every ingest and every delete meets the
ones before. `Bridge` gives a POST three outcomes in one step; `BlockIsDone`
shows that `post_with_retry` delivers just these whenever the cursor passes a
block for the first time (`furthest` is the history variable for that: blocks that
a power loss has taken back are done again), except for a straggler that
lands after its block was passed. The history variable `overtaken` records that
case; without that disjunct `BlockIsDone` is violated: a late ingest brings back
a document that a later block has removed, and a late tombstone removes one that
a later block has ingested. So "Repeating the same delete query is a no-op"
(`quickwit_client.rs:49-50`) and "re-emissions only happen on a crash"
(`delete_scheduler.rs:46-48`) are true only of copies that land in their turn.

### `Extract`, `Decode`, `Documents`, `Batching`, `Config`, `Algorithms`

Functions without state are operators, translated from the source, each next to
a reference definition that says what it is for and is written another way: a
page is pieces of which a reader sees some, against the stripper's automaton over
tokens; a log is what the contract emitted, in either schema and possibly
spoiled, against the decoders; a filter is what its author wrote, against the
untagged enum. `Algorithms` calls them: every action is one function on any input
within the bounds, at the call site of the loop, and its properties compare
`answer` with `call`.

### `Audit`: wrong answers

The audit (`audit.rs`) and paranoid mode (`hydrate`) have a module of their own
on `ArkivChain`, with as much of the loop as decides when they run: ranges,
blocks, logs, the emitted rows with their payload, the window that prunes them,
and an `IterationFails` for everything else that may go wrong. `Bridge` runs
with the audit disabled and without a backup. `Liars` are the nodes that may
answer a hydration with a payload nobody wrote; `eth_getCode` is the truth, as
the code assumes.

| Source | Actions |
| --- | --- |
| `hydrate`, `process_block` | `Hydrate`, `HydrateBackup`, `HydrationFails`, `MismatchHalts`, `MismatchSkipped` |
| end of `run_iteration` | `FinishRange` (with `sample_emitted_docs`), `PassDone` |
| `run_audit_pass` | `Verify`, `CountMismatch`, `CodeFails` |
| start-up | `Restart`, which forgets the counter and `last_audit_block` |

A row that is emitted twice keeps its first payload (`record_emitted_doc`), as
the conflict clause has it. `counted` and `excused` are history variables: the
rows this process counted as mismatches, and those whose code was gone.

## 3. What TLC checks

| Run | Instance | Result |
| --- | --- | --- |
| `confirmed` | one key, all operations, filters that change their mind, chain of 4, confirmation depth 1, one reorg of unconfirmed blocks, ranges of 2, crashes and failed calls | `TypeOK`, `NoGaps`, `NoStale`, their inductive invariant `CrawlInv` and the refinement `CrawlIsAtLeastOnce` hold |
| `hydration` | one key, two operations in a block, chain of 3, tail-only start, any hydration may fail, failed calls | `NoGapsButDead`, `NoStaleButDead` hold |
| `reorgs` | one key, creates and updates, empty blocks, chain of 4, a reorg of at most 2 blocks, retractions up to a depth of 3, ranges of 2, buffer of 2 and window of 1 (as short as that reorg allows), a sample of 6, crashes and failed calls | `IInv`, `OrphanWitness`, `NoOrphans`, `NoticedInTime`, `RetractedOrHalted` and the inductive invariants `NoticedInv`, `SettledInv` hold |
| `recrawl` | three keys, creates, chain of 3, two reorgs of at most 2 blocks, ranges of 1, buffer of 4, window of 1, a sample of 2, delete tasks of one key, failed calls | `NoGapsAfterReorg`, the invariant behind it `RecrawlInv`, `RetractedOrHalted` and, under `FairSpec`, `CatchesUp` hold |
| `crash_in_retract` | as `recrawl` with one reorg and crashes | `NoGapsAfterReorg` is violated |
| `orphaned_update` | as `recrawl` with one reorg and updates | `NoGapsAfterReorg` is violated |
| `deep_reorg` | a buffer of 2 and a permitted depth of 4, a reorg of 3 blocks | `RetractedOrHalted` is violated |
| `legacy_hydration` | as `confirmed`, with a node that ignores `atBlock`, tail-only, nothing failing | `NoGapsButDead` is violated |
| `audit` | one key, all operations, two in a block, chain of 3, confirmation depth 1, one reorg of unconfirmed blocks, two nodes that may both be wrong, samples of every row, a threshold of 2, crashes and failed calls | `AuditTypeOK`, `NoFalseAlarm`, `PassesAreComplete` and the inductive invariants `AuditInv`, `PassInv` hold |
| `paranoid` | the same instance | `DiscrepancyHalts` is violated |
| `post` | two blocks, selected or not; no attempt, one, or three; a first backoff below or above the maximum; one straggler per request; a crash or a power loss, any number of refusals, shutdowns and failed starts; restarts that systemd makes or gives up | `TypeOK`, `BackoffIsCapped`, `BlockIsDone`, its inductive invariant `DaemonInv` and, under `FairSpec`, `ShutdownStops`, `Recovers` hold |
| `algorithms` | pages of 5 pieces, payloads of 3 characters around the limit, two events in any order with any fault, two attributes, two rules of two conditions, 5 documents, buffers of 1 to 30 and 256 with samples up to 9, every choice of optional sizes | the ten properties of `Algorithms` hold |

**Bounds.** `MaxHeight`, `MaxOpsPerBlock`, `MaxReorgs` and the number of keys
bound the chain; everything else is a configured number of the daemon. A chain
of three or four blocks is enough for a range to hold a processed and an
unprocessed block, for a version to be superseded and for its successor to be
orphaned, and for the pruning windows to drop something. Two reorgs let a
second one strike while the first is being retracted. In `reorgs` the buffer holds
at most the blocks 0 to 4, which a sample of 6 takes whole. Retries need no bound:
they return to states already seen. `confirmed` and `reorgs` need one key because
only the chunks of a retraction relate two entities; `recrawl` has three, and delete
tasks of one, so that a retraction is cut. `post` needs two blocks, for a straggler of the first to land after the
second, and three attempts, for the backoff to reach its maximum below the last
one; crashes are bounded to one, which may strike anywhere. In `algorithms` the
bounds are chosen at the boundaries: `MaxBodyBytes` is 2, so that a character of
two bytes may straddle it; `U8Bits` is 3 and `U64Bits` 4, so that an operation
between the two widths is cut, and collides with another; five pieces hold a container, the wrong closing tag, the
right one, and words around them; buffers up to 30 hold multiples of 7 and 13.

**Fairness.** `FairSpec` assumes weak fairness of `Work`, the steps of the loop
when every call succeeds (one task, never abandoned, that has always exactly
one call to make), and of `Restart` (systemd restarts the daemon). Nothing is
assumed of the chain or of failures: `CatchesUp` says that the bridge reaches
the tip again and again provided that calls fail only finitely often. `Bridge` leaves
out the clean stop and the failing start, so what `Restart` follows is a failure or a
kill, after which systemd does restart the unit, five times in ten minutes. In the run of
`CatchesUp` only the drain after a retraction ends the process, and a restart drains
inside an iteration, where a failure is retried: there are no more exits than
retractions, and the limit is not reached.

In `Daemon`, where it may be, weak fairness is assumed of the loop with the successful
outcomes of a POST, and of the unit, which restarts a failed daemon or gives it up; not
of failures, of stragglers, of the signal, or of the operator's `Start`. `Recovers`
assumes that faults and signals end, that at least one attempt is configured, and that
the daemon is not down for good: after a clean stop, or a restart that was given up,
nothing in the code or its unit starts it. `ShutdownStops` assumes nothing of the
kind: a POST fails after finitely many attempts, a failed iteration is over, and a
failed process is as much an end as a stopped one.

**What the violations say.** Each of them is a short trace of the program as
it is written; `PROJECT.json` quotes the sentence that it contradicts.

1. `crash_in_retract`: `retract` rolls the buffer back before the cursor, in
   separate commits. A crash in between leaves a store that looks healthy and a
   cursor above the fork: a permanent gap.
2. `orphaned_update`: an update deletes the older version; when the update is
   orphaned the older version is current again, and the re-crawl starts above it.
3. `deep_reorg`: with a buffer shorter than `retract_max_depth` (both defaults
   are), a fork below the buffer is reported just below its oldest block: some
   orphans stay and nothing halts.
4. `legacy_hydration`: a legacy node hydrates at head. A delete in an unconfirmed
   block suppresses a document for good if that block is reorganised away.
5. `paranoid`: a discrepancy between the nodes is one more hydration error: if
   the entity is dead at head by then, the document is skipped and the crawl
   goes on.

Three more follow from a run that passes by changing constants (they have no run
of their own):

6. `MCReorgs.cfg` with `RecheckSampleSize = 2`, and even with `Crashes` and `Faults`
   set to FALSE, violates `RetractedOrHalted`: a reorg between `check_buffer` and the
   read of the hash of the range's end leaves the newest buffered hash in agreement with
   the new chain. A sample that is smaller than the buffer (8 of 256 by default) may miss
   the older hashes in every iteration until they are pruned, and their documents stay.
   "A rolling 256-block hash buffer re-checked every iteration" (`README.md:43-44`) is
   what would be needed, and not what is done.
7. `MCRecrawl.cfg` with `MaxReorgs = 1`, `FetchBatchSize = 2` violates
   `NoGapsAfterReorg`: `run_iteration` observes the hashes of a range before it processes
   a block of it, and a failure leaves them above the cursor. If a block of the range is
   then reorganised, the fork point may be at or above the cursor, and `retract` moves
   the cursor forward over blocks that were never processed.
8. `MCRecrawl.cfg` with `MaxReorgs = 1`, `MinOpsPerBlock = 0` violates it, too: the logs
   of an empty end block and its hash come from two calls. A reorg in between records the
   new hash for logs that nobody fetched.

1 to 3 and 6 to 8 need a reorg deeper than the confirmation depth, which is what
the buffer and the retraction are for; 4 and 5 do not. `recrawl` shows that
without these ingredients (crashes, ranges longer than a block, empty blocks,
updates) the re-crawl is right.

**Provisos.** Some properties that hold say where their promise ends:
`VisibleTextOnly` up to the first "<" that begins no tag; `TextIsIndexed` unless
the limit cuts a character; `FiltersAreAsWritten` unless a rule mixes `all_of`
with a condition; `FiltersSeeAnnotations` unless a string key comes twice;
`SampleCoversBuffer` for samples of 8, the default, or for buffers whose length
is no multiple of 7; `BadLogFailsFetch` but for the three fields that `rpc/eth.rs` does not
refuse, of which it says what they are read as: an expiration that is missing or too wide,
the owner of a legacy transfer, and an operation above 255, cut to its low byte;
`BlockIsDone` up to stragglers; `Recovers` for at least one attempt and a daemon that
does not stay down. Each proviso is needed: TLC finds the property violated without it.

## 4. What is proved

Every theorem holds for every value of the constants that its module assumes to
be of the right type; TLC evaluates those assumptions on the instances of the
runs. `ChainAssumption`, `BridgeAssumption`, `PostAssumption`, `BoundsAssumption`
and `InputsAssumption` say that numbers are naturals, operations operations, and
that what `validate()` requires to be positive is; `RequestAssumption` that the
requests of `Daemon` are those its blocks call for; `AuditAssumption` also that
reorgs stay above the confirmation depth. Everything else that a theorem needs is
in its statement.

### Types and control flow (`ControlProofs`)

`ControlCorrect`: `Spec => []ControlInv`. `TypeOK` is not inductive alone: the
log index has to lie inside the block (`InRange`) for the document to have a
type, the range inside the chain for its hash to exist, the queue not empty while
a row is marked. `Phases` adds which locals are alive when. `TypeCorrect` is its
corollary.

### Witnesses and retraction (`IndexProofs`)

`Inductive`: `Spec => []IInv`; `WitnessKept` (`[]OrphanWitness`) and
`OrphansRetracted` (`[]NoOrphans`) are corollaries. A document in the index has
either its block's hash in the buffer, or a matching delete on record, or fell
out of a pruning window. That is kept by an ingest only because the hash was
observed and the row recorded before (`Observed`); by a mark only because the
delete took effect before it (`MarkedIsDone`); by the truncation only because
every document above the fork got its delete on record first (`Retracting`),
which in turn needs that `entity_keys_after` knows every document (`Recorded`).
One lemma per group of actions shows the step; `StoreKept` and `IndexKept`
collect the argument for the many that lose nothing.

### The crawl of confirmed blocks (`CrawlProofs`)

The theorems assume `ConfirmedCase`: reorgs stay above the confirmation depth
(which is what that depth is for; deeper ones are `IndexProofs`' subject), the
node honours `atBlock` (the modern schema), and hydrations fail only where there
are no reorgs. The last two are needed: `legacy_hydration` is the trace that loses
a document when a dead-at-head answer is reorganised away.

`CrawlCorrect`: `ConfirmedCase => (Spec => []CrawlInv)`. The invariant has two
halves. `Durable` is what a crash finds: the cursor is at a confirmed block
(`CursorConfirmed`), the buffer agrees with the chain (`BufferAgrees`), a document
that a passed block owes is in the index or replaced by a confirmed block
(`Kept`), what a passed block replaces is on record to go (`Retired`), the index
holds nothing that is not due nor anything a replay has not reached
(`IndexIsDue`), and the deletes on record belong to the one block that a replay
reaches first and spare what it owes (`PendingSpare`). The last two are what makes
a crash harmless: whatever a crash leaves half done belongs to the block that is
done again. `Volatile` is what the locals add while `process_block` runs: the logs
are those of the range, and below the log index everything owed is built
(`BlockBuilt`) and everything replaced is queued, on record or gone
(`BlockRetired`). `Durable` is shown first against six abstract steps (a delete is
carried out, the index grows, a delete is promised, forgotten, a block is passed,
the crawl begins), and each action of `Bridge` is one of them.

`GapFree` and `StaleFree` (`NoGaps`, `NoStale`, when hydrations do not fail),
`GapFreeButDead` and `StaleFreeButDead` (when they may) follow: what a passed block
owes is its last version, because a later version is a later touch.

`CrawlImplemented`: `Spec => CrawlIsAtLeastOnce`, step by step. A POST of a delete is
`Honour`, a mark `Forget`, an ingest `Emit`, an enqueue `Promise`, the cursor's move
`Pass`; everything else stutters, a crash included. It needs no fairness:
`AtLeastOnce` promises nothing about progress.

### Reorgs of confirmed blocks (`RecrawlProofs`)

`NoOrphans` speaks of the blocks that the windows remember. What the reader of the
index wants is stronger: nothing orphaned stays at all (`RetractedOrHalted`). That
depends on two things the code leaves to its configuration and to chance.

*The windows.* `WindowsCoverReorgs`: `buffer_size` and `dedup_window_blocks + 1` are at
least the depth of the deepest reorg. `deep_reorg` shows what a shorter one does.

*The sample.* `check_buffer` re-reads only a part of the buffer, so that a prune may
drop the hash of an orphaned block that no iteration came to. `NoticedInTime` says that
this does not happen: what `PruneBuffer` drops agrees with the chain (`BufferNoticed`),
and so does what leaves the window of emitted rows (`WindowNoticed`). It is a
hypothesis of the theorems below, and not one that the code meets under every
configuration: item 6 of section 3 is a behaviour without it. Nor can it be dropped in
favour of a coverage of the sample over several iterations, since the iteration counter
is advanced by idle and failed iterations too and the buffer slides under the rotation.

- `OrphansDoNotStay`: `WindowsCoverReorgs => (Spec /\ []NoticedInTime =>
  []RetractedOrHalted)`, for crashes anywhere, any failed call, ranges of any length and
  all operations. The invariant `SettledInv` says that what a window has dropped is out
  of reach of every reorg to come (`ForgottenIsDeep`), agreed with the chain when it was
  dropped, and therefore agrees for good, unless its delete is on record
  (`ForgottenAgrees`).
- `SampledIsNoticed`: `WindowsCoverReorgs => (Spec /\ []SampleTakesAll =>
  []NoticedInTime)`. Where the sample is larger than the buffer and the length of the
  buffer is no multiple of 13, every call of `check_buffer` reads all of it: the strides
  of 13 reach every index (`StrideInverse`, `SlotsReachAll`, `CoveredIsSampled`). The
  invariant `NoticedInv` follows the range from the check to the prune: a block that
  lies out of reach of the coming reorgs was read in this iteration and stays what it
  was (`DeepIsRead`); this needs that a range ends where it began to
  (`RangeIsOrderly`) and that the buffer holds one hash for a block, none above the
  next range (`BufferIsOrderly`). The length of the buffer is no constant: a process
  killed before every prune lets it grow, which is why `SampleTakesAll` is a
  hypothesis about the behaviour. It holds throughout the run `reorgs`.
- `SampledOrphansGo` puts the two together, without `NoticedInTime`.

That the crawl comes back to what a reorg replaced (`NoGapsAfterReorg`) has no theorem.
The code does not keep it under crashes, updates, empty blocks or ranges of several
blocks (items 1, 2, 7 and 8 of section 3), and with none of them there is little left
that a proof for every chain would add to the run `recrawl`. `RecrawlInv` says why it
holds there, and TLC checks it in that run: the documents of every passed block are in
the index, or the buffer still tells that it was orphaned (`PassedOrSuspect`); a later
reorg of it would show in the buffer (`Guarded`); and the retractions on record spare
everything below the cursor (`OnlyRetractions`). While `retract` rolls back, the claim
ends at the fork point and not at the cursor (`Reach`), which is exactly what a crash
between its statements breaks.

### The audit (`AuditProofs`)

`AuditCorrect`: `Spec => []AuditInv`. A row is of a confirmed block, and its payload
is what the chain says of that block or was answered wrongly (`RowsAgree`); the
crawl only works on confirmed blocks (`WorkIsConfirmed`), so that no reorg makes a
right row wrong; nothing is audited that is not crawled (`AuditIsBehind`).
`AlarmsAreReal` (`NoFalseAlarm`) and `AuditTypeCorrect` follow, for any two nodes,
both of which may lie. `PassesComplete` proves `PassesAreComplete` for behaviours in
which a sample takes every row (`Cardinality(emitted) <= SampleSize` throughout):
with smaller samples a pass is a random choice and no pass need be complete. It follows
from `PassesGoOn`, which proves the invariant `PassInv` under the same hypothesis:
what a pass under way has still to read.

### The daemon (`DaemonProofs`)

`DaemonCorrect`: `Spec => []DaemonInv`. One POST is under way at most, and it is the
one the loop waits for (`PostInHand`); the delete on record is of the block at the
cursor, and what a drain has still to post is what is on record (`OneOnRecord`), also
after a power loss; what is on the wire or in the index
comes from blocks that the cursor reached (`OnlyReached`); and once a POST of the
block at the cursor is answered, the index shows it (`BlockSoFar`), which a
straggler of the same block repeats and only one of a passed block can undo
(`overtaken`). `PassedIsDone` (`BlockIsDone`) and `DaemonTypeCorrect` follow.

`BackoffCapped` proves `BackoffIsCapped`. It is inductive given the types; the work is
in the power of two, a recursive function whose existence is shown by least
counterexamples (`DoublesExist`, `DoublesAgree`, `PowerUnfolds`), since the library's
induction theorems cannot be instantiated by the provers.

### Functions without state (`AlgorithmProofs`)

Each theorem rests on a lemma about every input, and not only those of the run.
`SamplesCover`: for a buffer of any length `len`, some multiple of 7 is congruent to
`t - 13 s` modulo `len` for a slot `s` of the sample (`Aligned`), and the least
iteration at which that slot is at `t` is at most `len` (`SoonReached`).
`FiltersSelect`: what is read of a rule is what is written in it (`ReadAsWritten`), an
accepted rule has a condition (`HasConditions`), so that the entity has a string.
`AcceptedProgresses`: the sizes that `validate()` accepts are not zero
(`AcceptedSizes`), so that a range ends at or above its cursor. `AttributesStay`
(`AttributesAreKept`) and `FiltersSee` (`FiltersSeeAnnotations`) hold for lists of
attributes of any length: a key with several attributes has a last one, which the
well-foundedness of the naturals gives, and a bag holds its value.

### Only model-checked

- `CatchesUp`, `ShutdownStops`, `Recovers`: liveness under fairness is beyond the prover.
- `NoGapsAfterReorg` and `RecrawlInv`, in the one case in which they hold.
- `VisibleTextOnly`, `TextIsIndexed`, `LogsAreExact`, `BadLogFailsFetch`,
  `BatchesAreRight`: they speak of folds, sorts or selections over sequences, whose
  facts need induction over data.

`NoticedInTime`, `RetractedOrHalted`, `PassesAreComplete` and the
invariants behind them are proved under the hypotheses that their theorems state and no
further; the violation runs show that the code does not give them without.

## 5. What is not modelled

The audit together with deletes, ingests and deep reorgs (`Audit` has a loop of
its own). `PostWithRetry` inside `Bridge` (`Daemon` composes it with a coarser
loop without reorgs). The decoding of entities, blocks and code, and the
characters of hexadecimal fields. The texts that the JSON and the markdown
extractor produce, only whether there is one. Hashes, taken to be injective.
The fields of the configuration that no property speaks of. Metrics: counters
and an endpoint that nothing in the loop reads; the end of `main`, which waits
for the connections of that endpoint. Failures of SQLite itself. In `Bridge`
and `Audit` a commit is durable; that `synchronous=NORMAL` may lose the last ones
when the machine loses power is modelled in `Daemon`, without reorgs. A reorg never shortens the chain.

## 6. Plan

In the order of what they add:

1. **The sliding buffer**: how many iterations a smaller sample needs to come to
   every block while the buffer loses its oldest one with every block crawled, and so
   which `recheck_sample_size`, short of the whole buffer, would give `NoticedInTime`.
2. **Audit and Bridge together**: a deep reorg that the audit notices before
   `check_buffer` does and halts on; a document emitted twice with different
   payloads, of which the row keeps the first; the legacy node, whose hydration
   and code speak of different blocks.
3. **Lost commits in `Bridge`**: a power loss after a retraction, which leaves
   documents of the new chain without a row or a hash.
4. **The bisection** of `find_fork_point` on a buffer that is not monotone,
   against the highest matching block.
