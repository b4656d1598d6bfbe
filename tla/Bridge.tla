-------------------------------- MODULE Bridge --------------------------------
(***************************************************************************)
(* The control loop of the bridge (control_loop.rs), with the reorg check, *)
(* the fork search and the retraction it calls (reorg.rs) and the drain of *)
(* the delete queue (delete_scheduler.rs), between the arkiv node          *)
(* (ArkivChain), the SQLite store (StateStore) and Quickwit.               *)
(*                                                                         *)
(* A step of the bridge ends at each call that another party can observe   *)
(* or a crash can separate from the next one: a JSON-RPC read (the chain   *)
(* may change between two of them), a POST to Quickwit, a commit to        *)
(* SQLite.  A read and the commit that follows it, with no other call in   *)
(* between, make one step.                                                 *)
(*                                                                         *)
(* Abstractions:                                                           *)
(*  - `iteration`, which only moves the sample of check_buffer, is any     *)
(*    number: idle and failed passes count too, and a restart resets it.   *)
(*  - The byte limit of a batch is the freedom to cut it short.            *)
(*  - A shutdown request is noticed at the top of the loop, where nothing  *)
(*    is in flight: what it leaves is what a Crash there leaves.           *)
(*  - audit.enabled is FALSE, and there is no backup RPC.                  *)
(*  - SQLite itself never fails, and every log and entity decodes.         *)
(***************************************************************************)
EXTENDS ArkivChain, StateStore, Quickwit

CONSTANTS
  ConfirmationDepth,    \* arkiv.confirmation_depth
  FetchBatchSize,       \* arkiv.fetch_batch_size_blocks
  StartNumber,          \* arkiv.start_block (0 is "genesis")
  TailOnly,             \* arkiv.start_block = "head"
  Historical,           \* the node honours atBlock: event_schema is not legacy
  IngestBatchDocs,      \* quickwit.ingest_batch_size_docs
  MaxDeleteTerms,       \* bridge.max_delete_terms_per_task
  DedupWindow,          \* bridge.dedup_window_blocks
  BufferSize,           \* bridge.reorg.buffer_size
  RetractMaxDepth,      \* bridge.reorg.retract_max_depth
  RecheckSampleSize,    \* bridge.reorg.recheck_sample_size
  Crashes,              \* the run has crashes
  Faults,               \* the run has RPC and HTTP failures, hydration apart
  HydrationErrors       \* the run has hydrations that fail, for any reason

ASSUME BridgeAssumption ==
  /\ {ConfirmationDepth, StartNumber, DedupWindow, BufferSize, RetractMaxDepth,
      RecheckSampleSize} \subseteq Nat
  /\ {FetchBatchSize, IngestBatchDocs, MaxDeleteTerms} \subseteq Nat \ {0}
  /\ {TailOnly, Historical, Crashes, Faults, HydrationErrors} \subseteq BOOLEAN

VARIABLES
  pc,              \* the next call of the control loop
  ret,             \* where drain_pending_deletes returns to
  end_block,       \* the last block of the range
  logs,            \* the fetched blocks with operations, still to process
  unseen,          \* those whose hash has not been observed yet
  entry,           \* the block in process_block
  pos,             \* the log it is at
  docs,            \* the documents built for it and not yet ingested
  delete_queries,  \* the delete queries collected for it
  sample,          \* buffered blocks that check_buffer has still to read
  search,          \* the bounds of find_fork_point
  fork_point,      \* the detected fork point
  retracted_keys,  \* keys still to be put in a retraction query
  start            \* history: where the crawl began

crawlVars == <<end_block, logs, unseen, entry, pos, docs, delete_queries>>
reorgVars == <<sample, search, fork_point, retracted_keys>>
vars == <<chainVars, storeVars, index, pc, ret, crawlVars, reorgVars, start>>

Row == [key : Key, block : Nat, log : Nat]
Doc == [key : Key, block : Nat, log : Nat, hash : Nat]
Query == [kind : {"supersede", "tombstone", "retraction"}, keys : SUBSET Key, bound : Nat]
BlockId == [block : Nat, hash : Nat]
Entry == [block : Nat, hash : Nat, ops : Seq(Op)]

RowOf(d) == [key |-> d.key, block |-> d.block, log |-> d.log]
IdOf(d) == [block |-> d.block, hash |-> d.hash]

NoEntry == [block |-> 0, hash |-> 0, ops |-> <<>>]
NoSearch == [first_bad |-> 0, low |-> 0, high |-> 0]

\* The process does not run: it was killed, it stopped at a reorg too deep to
\* retract, or run() returned a transient error.
Down == {"stopped", "halted", "failed"}

Running ==
  {"drain", "mark", "head", "check", "find", "logs", "observe", "block", "hydrate", "probe",
   "ingest", "enqueue", "commit", "prune_buffer", "prune_emitted", "retract", "retract_enqueue",
   "forget", "rollback"}

StoreTypeOK ==
  /\ cursor \in Nat \cup {NoCursor}
  /\ reorg_buffer \subseteq BlockId /\ IsFiniteSet(reorg_buffer)
  /\ emitted_dedup \subseteq Row
  /\ pending_deletes \in Seq(Query)
  /\ forgotten \subseteq Nat

CrawlTypeOK ==
  /\ end_block \in Nat
  /\ logs \subseteq Entry
  /\ unseen \subseteq Entry
  /\ entry \in Entry
  /\ pos \in Nat
  /\ docs \in Seq(Doc)
  /\ delete_queries \in Seq(Query)

ReorgTypeOK ==
  /\ sample \subseteq Nat
  /\ search \in [first_bad : Nat, low : Nat, high : Nat]
  /\ fork_point \in Nat
  /\ retracted_keys \subseteq Key

TypeOK ==
  /\ ChainTypeOK
  /\ StoreTypeOK
  /\ index \subseteq Doc
  /\ pc \in Running \cup Down
  /\ ret \in {"head", "commit", "loop"}
  /\ CrawlTypeOK
  /\ ReorgTypeOK
  /\ start \in Nat

ResetCrawl ==
  /\ end_block' = 0
  /\ logs' = {}
  /\ unseen' = {}
  /\ entry' = NoEntry
  /\ pos' = 0
  /\ docs' = <<>>
  /\ delete_queries' = <<>>

ResetReorg ==
  /\ sample' = {}
  /\ search' = NoSearch
  /\ fork_point' = 0
  /\ retracted_keys' = {}

\* The top of the loop: run_iteration begins with a drain.
LoopTop ==
  /\ pc' = "drain"
  /\ ret' = "head"
  /\ ResetCrawl
  /\ ResetReorg

\* run() ends, or the process does.
Exit(how) ==
  /\ pc' = how
  /\ ret' = "head"
  /\ ResetCrawl
  /\ ResetReorg

Init ==
  /\ ChainInit
  /\ StoreInit
  /\ QuickwitInit
  /\ pc = "drain" /\ ret = "head"
  /\ end_block = 0 /\ logs = {} /\ unseen = {} /\ entry = NoEntry /\ pos = 0
  /\ docs = <<>> /\ delete_queries = <<>>
  /\ sample = {} /\ search = NoSearch /\ fork_point = 0 /\ retracted_keys = {}
  /\ start = 0

-----------------------------------------------------------------------------
(* drain_pending_deletes: at the top of an iteration, at the end of          *)
(* process_block and after a retraction.                                     *)

DrainDone ==
  /\ pc = "drain"
  /\ pending_deletes = <<>>
  /\ IF ret = "loop"
     THEN LoopTop
     ELSE pc' = ret /\ ret' = "head" /\ UNCHANGED <<crawlVars, reorgVars>>
  /\ UNCHANGED <<chainVars, storeVars, index, start>>

\* The head of the queue is the next row of the snapshot that the drain walks: nothing
\* but the loop writes the queue, and it does not while it drains.
DrainPost ==
  /\ pc = "drain"
  /\ pending_deletes # <<>>
  /\ DeleteTask(Head(pending_deletes))
  /\ pc' = "mark"
  /\ UNCHANGED <<chainVars, storeVars, ret, crawlVars, reorgVars, start>>

MarkSubmitted ==
  /\ pc = "mark"
  /\ mark_delete_submitted
  /\ pc' = "drain"
  /\ UNCHANGED <<chainVars, cursor, reorg_buffer, emitted_dedup, forgotten, index,
                 ret, crawlVars, reorgVars, start>>

\* post_with_retry gives up: the task was created or was not.  Inside an
\* iteration the error is retried; after a retraction run() returns it.
DrainFails ==
  /\ Faults
  /\ pc = "drain"
  /\ pending_deletes # <<>>
  /\ DeleteTask(Head(pending_deletes)) \/ UNCHANGED index
  /\ IF ret = "loop" THEN Exit("failed") ELSE LoopTop
  /\ UNCHANGED <<chainVars, storeVars, start>>

-----------------------------------------------------------------------------
(* run_iteration, up to the reorg check.                                     *)

\* Faulty variant: no confirmation depth.
TargetUnconfirmed == HeadBlock

Target == SatSub(HeadBlock, ConfirmationDepth)

\* Faulty variant: one block earlier, with a subtraction that wraps.
FirstBlockBefore == (IF TailOnly THEN HeadBlock ELSE StartNumber) - 1

FirstBlock == IF TailOnly THEN HeadBlock ELSE StartNumber

\* eth_blockNumber and the cursor, which the first launch sets.
ReadHead ==
  /\ pc = "head"
  /\ IF cursor = NoCursor
     THEN set_cursor(FirstBlock) /\ start' = FirstBlock
     ELSE UNCHANGED <<cursor, start>>

Idle ==
  /\ ReadHead
  /\ cursor' > Target
  /\ LoopTop
  /\ UNCHANGED <<chainVars, reorg_buffer, emitted_dedup, pending_deletes, forgotten, index>>

Candidates(first_bad) == {e \in reorg_buffer : e.block < first_bad}

\* A buffered block's index in ascending order.
Rank(e) == Cardinality(Candidates(e.block))

\* Faulty variant: the slots of an iteration all take the same block.
SampledInPlace(iteration) ==
  {e \in reorg_buffer :
     IsNewest(e.block) \/ Rank(e) = (7 * iteration) % Cardinality(reorg_buffer)}

\* The blocks that check_buffer re-reads: the newest and a window that moves
\* with the iteration.
Sampled(iteration) ==
  {e \in reorg_buffer :
     \/ IsNewest(e.block)
     \/ \E slot \in 0..RecheckSampleSize - 2 :
          Rank(e) = (7 * iteration + 13 * slot) % Cardinality(reorg_buffer)}

\* The last block of the range, and the sample; only the remainder of the
\* iteration counts.
BeginIteration ==
  /\ ReadHead
  /\ cursor' <= Target
  /\ end_block' = IF cursor' + FetchBatchSize - 1 < Target
                  THEN cursor' + FetchBatchSize - 1 ELSE Target
  /\ IF reorg_buffer = {}
     THEN sample' = {} /\ pc' = "logs"
     ELSE /\ \E iteration \in 0..Cardinality(reorg_buffer) - 1 :
               sample' = {e.block : e \in Sampled(iteration)}
          /\ pc' = "check"
  /\ UNCHANGED <<chainVars, reorg_buffer, emitted_dedup, pending_deletes, forgotten, index,
                 ret, logs, unseen, entry, pos, docs, delete_queries,
                 search, fork_point, retracted_keys>>

-----------------------------------------------------------------------------
(* check_buffer and find_fork_point.                                         *)

\* The newest block is read first, the others in any order.
SampledNow(e) ==
  /\ e.block \in sample
  /\ IsNewest(e.block) \/ ~ \E b \in sample : IsNewest(b)

Matches(e) == BlockHash(e.block) = e.hash

CheckMatch ==
  /\ pc = "check"
  /\ \E e \in reorg_buffer :
       /\ SampledNow(e)
       /\ Matches(e)
       /\ sample' = sample \ {e.block}
  /\ pc' = IF sample' = {} THEN "logs" ELSE "check"
  /\ UNCHANGED <<chainVars, storeVars, index, ret, crawlVars,
                 search, fork_point, retracted_keys, start>>

CheckMismatch ==
  /\ pc = "check"
  /\ \E e \in reorg_buffer :
       /\ SampledNow(e)
       /\ ~Matches(e)
       /\ search' = [first_bad |-> e.block, low |-> 0, high |-> Rank(e)]
  /\ pc' = "find"
  /\ sample' = {}
  /\ ResetCrawl
  /\ UNCHANGED <<chainVars, storeVars, index, ret, fork_point, retracted_keys, start>>

Probe ==
  /\ pc = "find"
  /\ search.low < search.high
  /\ LET middle == (search.low + search.high) \div 2 IN
     \E e \in reorg_buffer :
       /\ Rank(e) = middle
       /\ search' = IF Matches(e) THEN [search EXCEPT !.low = middle + 1]
                                  ELSE [search EXCEPT !.high = middle]
  /\ UNCHANGED <<chainVars, storeVars, index, pc, ret, crawlVars,
                 sample, fork_point, retracted_keys, start>>

\* The last candidate that matches or, when none does (there may be none), the
\* block below the oldest one buffered.
ForkFound ==
  /\ pc = "find"
  /\ search.low >= search.high
  /\ \E e \in reorg_buffer :
       IF search.low = 0
       THEN Rank(e) = 0 /\ fork_point' = SatSub(e.block, 1)
       ELSE Rank(e) = search.low - 1 /\ fork_point' = e.block
  /\ pc' = "retract"
  /\ search' = NoSearch
  /\ UNCHANGED <<chainVars, storeVars, index, ret, crawlVars, sample, retracted_keys, start>>

-----------------------------------------------------------------------------
(* run_iteration: the logs of the range and the hashes they carry.           *)

\* eth_getLogs answers for the blocks that have operations.
FetchLogs ==
  /\ pc = "logs"
  /\ logs' = {[block |-> b, hash |-> chain[b].hash, ops |-> chain[b].ops] :
                b \in {c \in cursor..end_block : c > 0 /\ chain[c].ops # <<>>}}
  /\ unseen' = logs'
  /\ pc' = "observe"
  /\ UNCHANGED <<chainVars, storeVars, index, ret, end_block, entry, pos, docs,
                 delete_queries, reorgVars, start>>

\* The blocks are observed in the order of a HashMap: any.
ObserveLog ==
  /\ pc = "observe"
  /\ \E l \in unseen :
       /\ ~Contradicts(l.block, l.hash)
       /\ observe_block(l.block, l.hash)
       /\ unseen' = unseen \ {l}
  /\ UNCHANGED <<chainVars, cursor, emitted_dedup, pending_deletes, forgotten, index,
                 pc, ret, end_block, logs, entry, pos, docs, delete_queries, reorgVars, start>>

ObserveMismatch ==
  /\ pc = "observe"
  /\ \E l \in unseen :
       /\ Contradicts(l.block, l.hash)
       /\ fork_point' = SatSub(l.block, 1)
  /\ pc' = "retract"
  /\ ResetCrawl
  /\ UNCHANGED <<chainVars, storeVars, index, ret, sample, search, retracted_keys, start>>

\* The end of the range is recorded too; a mismatch there is not looked at.
ObserveEnd ==
  /\ pc = "observe"
  /\ unseen = {}
  /\ IF \E l \in logs : l.block = end_block
     THEN UNCHANGED reorg_buffer
     ELSE observe_block(end_block, BlockHash(end_block))
  /\ pc' = "block"
  /\ UNCHANGED <<chainVars, cursor, emitted_dedup, pending_deletes, forgotten, index,
                 ret, crawlVars, reorgVars, start>>

-----------------------------------------------------------------------------
(* process_block, for the blocks of the range in order.                      *)

NextBlock ==
  /\ pc = "block"
  /\ \E l \in logs :
       /\ \A m \in logs : l.block <= m.block
       /\ entry' = l
  /\ pos' = 1
  /\ pc' = "hydrate"
  /\ UNCHANGED <<chainVars, storeVars, index, ret, end_block, logs, unseen, docs,
                 delete_queries, reorgVars, start>>

Log == entry.ops[pos]

AtLog == pc = "hydrate" /\ pos <= Len(entry.ops)

\* DELETE or EXPIRE.
DeleteLog ==
  /\ AtLog
  /\ Log.op = "delete"
  /\ delete_queries' = Append(delete_queries, tombstone_query(Log.key))
  /\ pos' = pos + 1
  /\ UNCHANGED <<chainVars, storeVars, index, pc, ret, end_block, logs, unseen, entry, docs,
                 reorgVars, start>>

\* arkiv_query at the log's block, or at head where the node ignores atBlock.
Hydrated == EntityAt(Log.key, IF Historical THEN entry.block ELSE HeadBlock)

\* entity_matches_filters: the chain carries its outcome.
Selected == Hydrated.live /\ Hydrated.match

\* to_quickwit_doc.
NewDoc == [key |-> Log.key, block |-> entry.block, log |-> pos, hash |-> entry.hash]

EmitDoc ==
  /\ AtLog
  /\ Log.op # "delete"
  /\ Selected
  /\ delete_queries' = IF Log.op = "create" THEN delete_queries
                       ELSE Append(delete_queries, supersede_query(Log.key, entry.block))
  /\ record_emitted_doc(RowOf(NewDoc))
  /\ docs' = Append(docs, NewDoc)
  /\ pos' = pos + 1
  /\ UNCHANGED <<chainVars, cursor, reorg_buffer, pending_deletes, forgotten, index,
                 pc, ret, end_block, logs, unseen, entry, reorgVars, start>>

\* The entity does not exist at that block, or the filters drop it: an update
\* that moves it out of the filtered set retires its documents.
\* (Faulty variant: it does not.)
SkipQueriesNone == <<>>

SkipQueries ==
  IF Hydrated.live /\ Log.op # "create" THEN <<tombstone_query(Log.key)>> ELSE <<>>

SkipLog ==
  /\ AtLog
  /\ Log.op # "delete"
  /\ ~Selected
  /\ delete_queries' = delete_queries \o SkipQueries
  /\ pos' = pos + 1
  /\ UNCHANGED <<chainVars, storeVars, index, pc, ret, end_block, logs, unseen, entry, docs,
                 reorgVars, start>>

\* The node answers with an error (it no longer holds the state of that block,
\* or fails for another reason: the code does not tell them apart) ...
HydrationFails ==
  /\ HydrationErrors
  /\ AtLog
  /\ Log.op # "delete"
  /\ pc' = "probe"
  /\ UNCHANGED <<chainVars, storeVars, index, ret, crawlVars, reorgVars, start>>

\* ... which is_live_at_head tells from a node problem: retry the block, or
\* skip the document.
ProbeLive ==
  /\ pc = "probe"
  /\ LiveAtHead(Log.key)
  /\ LoopTop
  /\ UNCHANGED <<chainVars, storeVars, index, start>>

ProbeDead ==
  /\ pc = "probe"
  /\ ~LiveAtHead(Log.key)
  /\ pc' = "hydrate"
  /\ pos' = pos + 1
  /\ UNCHANGED <<chainVars, storeVars, index, ret, end_block, logs, unseen, entry, docs,
                 delete_queries, reorgVars, start>>

AllHydrated ==
  /\ pc = "hydrate"
  /\ pos > Len(entry.ops)
  /\ pc' = "ingest"
  /\ UNCHANGED <<chainVars, storeVars, index, ret, crawlVars, reorgVars, start>>

\* The first n of the documents to ingest.
Batch(n) == {docs[i] : i \in 1..n}

BatchSizes == {n \in 1..Len(docs) : n <= IngestBatchDocs}

IngestBatch ==
  /\ pc = "ingest"
  /\ \E n \in BatchSizes :
       /\ Ingest(Batch(n))
       /\ docs' = SubSeq(docs, n + 1, Len(docs))
  /\ UNCHANGED <<chainVars, storeVars, pc, ret, end_block, logs, unseen, entry, pos, delete_queries,
                 reorgVars, start>>

\* post_with_retry gives up: some attempt was accepted, or none was.
IngestFails ==
  /\ Faults
  /\ pc = "ingest"
  /\ \E n \in BatchSizes : Ingest(Batch(n)) \/ UNCHANGED index
  /\ LoopTop
  /\ UNCHANGED <<chainVars, storeVars, start>>

\* Faulty variant: the deletes of the block are not put on record.
AllIngestedNoDeletes ==
  /\ pc = "ingest"
  /\ docs = <<>>
  /\ pc' = "drain"
  /\ ret' = "commit"
  /\ delete_queries' = <<>>
  /\ UNCHANGED <<chainVars, storeVars, index, end_block, logs, unseen, entry, pos, docs,
                 reorgVars, start>>

AllIngested ==
  /\ pc = "ingest"
  /\ docs = <<>>
  /\ pc' = "enqueue"
  /\ UNCHANGED <<chainVars, storeVars, index, ret, crawlVars, reorgVars, start>>

EnqueueDelete ==
  /\ pc = "enqueue"
  /\ delete_queries # <<>>
  /\ enqueue_delete(Head(delete_queries))
  /\ delete_queries' = Tail(delete_queries)
  /\ UNCHANGED <<chainVars, cursor, reorg_buffer, emitted_dedup, forgotten, index,
                 pc, ret, end_block, logs, unseen, entry, pos, docs, reorgVars, start>>

AllEnqueued ==
  /\ pc = "enqueue"
  /\ delete_queries = <<>>
  /\ pc' = "drain"
  /\ ret' = "commit"
  /\ UNCHANGED <<chainVars, storeVars, index, crawlVars, reorgVars, start>>

-----------------------------------------------------------------------------
(* run_iteration: the cursor, and the end of the range.                      *)

CommitBlock ==
  /\ pc = "commit"
  /\ set_cursor(entry.block + 1)
  /\ logs' = logs \ {entry}
  /\ entry' = NoEntry
  /\ pos' = 0
  /\ pc' = "block"
  /\ UNCHANGED <<chainVars, reorg_buffer, emitted_dedup, pending_deletes, forgotten, index,
                 ret, end_block, unseen, docs, delete_queries, reorgVars, start>>

FinishRange ==
  /\ pc = "block"
  /\ logs = {}
  /\ set_cursor(end_block + 1)
  /\ pc' = "prune_buffer"
  /\ UNCHANGED <<chainVars, reorg_buffer, emitted_dedup, pending_deletes, forgotten, index,
                 ret, crawlVars, reorgVars, start>>

PruneBuffer ==
  /\ pc = "prune_buffer"
  /\ prune_reorg_buffer(BufferSize)
  /\ pc' = "prune_emitted"
  /\ UNCHANGED <<chainVars, cursor, emitted_dedup, pending_deletes, index,
                 ret, crawlVars, reorgVars, start>>

PruneEmitted ==
  /\ pc = "prune_emitted"
  /\ prune_emitted_before(SatSub(end_block, DedupWindow))
  /\ LoopTop
  /\ UNCHANGED <<chainVars, cursor, reorg_buffer, pending_deletes, index, start>>

-----------------------------------------------------------------------------
(* retract.                                                                  *)

Depth == SatSub(cursor, fork_point)

TooDeep ==
  /\ pc = "retract"
  /\ Depth > RetractMaxDepth
  /\ Exit("halted")
  /\ UNCHANGED <<chainVars, storeVars, index, start>>

BeginRetract ==
  /\ pc = "retract"
  /\ Depth <= RetractMaxDepth
  /\ retracted_keys' = entity_keys_after(fork_point)
  /\ pc' = "retract_enqueue"
  /\ UNCHANGED <<chainVars, storeVars, index, ret, crawlVars,
                 sample, search, fork_point, start>>

\* One task for MaxDeleteTerms keys, the last one for what is left of them.
EnqueueRetraction ==
  /\ pc = "retract_enqueue"
  /\ \E chunk \in SUBSET retracted_keys :
       /\ chunk # {}
       /\ Cardinality(chunk) <= MaxDeleteTerms
       /\ Cardinality(chunk) = MaxDeleteTerms \/ chunk = retracted_keys
       /\ enqueue_delete(retraction_query(chunk, fork_point))
       /\ retracted_keys' = retracted_keys \ chunk
  /\ UNCHANGED <<chainVars, cursor, reorg_buffer, emitted_dedup, forgotten, index,
                 pc, ret, crawlVars, sample, search, fork_point, start>>

TruncateBuffer ==
  /\ pc = "retract_enqueue"
  /\ retracted_keys = {}
  /\ truncate_reorg_buffer_after(fork_point)
  /\ pc' = "forget"
  /\ UNCHANGED <<chainVars, cursor, emitted_dedup, pending_deletes, forgotten, index,
                 ret, crawlVars, reorgVars, start>>

ForgetEmitted ==
  /\ pc = "forget"
  /\ prune_emitted_after(fork_point)
  /\ pc' = "rollback"
  /\ UNCHANGED <<chainVars, cursor, reorg_buffer, pending_deletes, forgotten, index,
                 ret, crawlVars, reorgVars, start>>

\* Faulty variant: the crawl resumes one block late.
new_cursor_late == fork_point + 2

new_cursor == fork_point + 1

RollBack ==
  /\ pc = "rollback"
  /\ set_cursor(new_cursor)
  /\ pc' = "drain"
  /\ ret' = "loop"
  /\ ResetReorg
  /\ UNCHANGED <<chainVars, reorg_buffer, emitted_dedup, pending_deletes, forgotten, index,
                 crawlVars, start>>

-----------------------------------------------------------------------------
(* Failures.                                                                 *)

\* A JSON-RPC call fails: the iteration ends, and the next one starts over.
RpcError ==
  /\ Faults
  /\ \/ pc \in {"head", "check", "logs", "probe"}
     \/ pc = "find" /\ search.low < search.high
     \/ pc = "observe" /\ unseen = {} /\ ~ \E l \in logs : l.block = end_block
     \/ pc = "block" /\ logs # {}
  /\ LoopTop
  /\ UNCHANGED <<chainVars, storeVars, index, start>>

\* The process is killed: what is not in SQLite is gone.
Crash ==
  /\ Crashes
  /\ pc \in Running
  /\ Exit("stopped")
  /\ UNCHANGED <<chainVars, storeVars, index, start>>

Restart ==
  /\ pc \in Down
  /\ LoopTop
  /\ UNCHANGED <<chainVars, storeVars, index, start>>

-----------------------------------------------------------------------------
Drain == DrainDone \/ DrainPost \/ MarkSubmitted

CheckBuffer == CheckMatch \/ CheckMismatch \/ Probe \/ ForkFound

Observe == FetchLogs \/ ObserveLog \/ ObserveMismatch \/ ObserveEnd

ProcessBlock ==
  \/ NextBlock \/ DeleteLog \/ EmitDoc \/ SkipLog \/ AllHydrated
  \/ IngestBatch \/ AllIngested \/ EnqueueDelete \/ AllEnqueued \/ CommitBlock

Finish == FinishRange \/ PruneBuffer \/ PruneEmitted

Retract ==
  TooDeep \/ BeginRetract \/ EnqueueRetraction \/ TruncateBuffer \/ ForgetEmitted \/ RollBack

\* What the bridge does when every call succeeds.
Work ==
  \/ Drain \/ Idle \/ BeginIteration \/ CheckBuffer \/ Observe \/ ProcessBlock \/ Finish \/ Retract

Hydration == HydrationFails \/ ProbeLive \/ ProbeDead

Failure == DrainFails \/ IngestFails \/ RpcError \/ Crash

Environment == ChainNext /\ UNCHANGED <<storeVars, index, pc, ret, crawlVars, reorgVars, start>>

Next == Work \/ Hydration \/ Failure \/ Restart \/ Environment

Spec == Init /\ [][Next]_vars

\* The task of the control loop is never abandoned, and a process that has ended
\* is started again.  systemd does so after a failure and after a kill, a few times
\* (Daemon models the limit); failed calls end the process once for a retraction at
\* most, in the drain that follows it, since a restart drains inside an iteration.
FairSpec == Spec /\ WF_vars(Work) /\ WF_vars(Restart)
=============================================================================
