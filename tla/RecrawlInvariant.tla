--------------------------- MODULE RecrawlInvariant ---------------------------
(***************************************************************************)
(* Why reorgs of confirmed blocks are undone: the invariants behind        *)
(* RetractedOrHalted and NoGapsAfterReorg.                                 *)
(***************************************************************************)
EXTENDS CrawlInvariant

(***************************************************************************)
(* No prune drops what the store knows of an orphaned block.  check_buffer *)
(* reads a sample, so that an orphan may stay unnoticed for a while; this  *)
(* says that the rotating sample comes to it before the windows leave it   *)
(* behind.                                                                 *)
(***************************************************************************)
BufferNoticed ==
  pc = "prune_buffer" => \A e \in reorg_buffer \ KeptBy(BufferSize) : Matches(e)

WindowNoticed ==
  pc = "prune_emitted" =>
    \A e \in reorg_buffer : e.block < SatSub(end_block, DedupWindow) => Matches(e)

NoticedInTime == BufferNoticed /\ WindowNoticed

-----------------------------------------------------------------------------
(* Nothing orphaned stays.                                                   *)

\* The windows (bridge.reorg.buffer_size, bridge.dedup_window_blocks) are as
\* long as the deepest reorg.
WindowsCoverReorgs ==
  /\ MaxReorgDepth <= BufferSize
  /\ MaxReorgDepth <= DedupWindow + 1

\* What is observed, or about to be, is of blocks that exist.
BufferBelowHead ==
  /\ \A e \in reorg_buffer : e.block <= HeadBlock
  /\ \A l \in unseen : l.block \in 1..HeadBlock

\* What a prune has dropped is out of reach of a reorg ...
ForgottenIsDeep == \A b \in forgotten : b + MaxReorgDepth <= HeadBlock

\* ... and agrees with the chain, but for what is on record to go.
ForgottenAgrees ==
  /\ \A e \in reorg_buffer : e.block \in forgotten => Matches(e)
  /\ \A l \in unseen : l.block \in forgotten => Matches(l)
  /\ \A d \in index : d.block \in forgotten => Matches(d) \/ Covered(d)

SettledInv == BufferBelowHead /\ ForgottenIsDeep /\ ForgottenAgrees

-----------------------------------------------------------------------------
(* What every iteration re-reads is noticed.                                 *)

\* bridge.reorg.recheck_sample_size is large enough for check_buffer to re-read
\* every buffered block.
AlwaysSampled ==
  \A iteration \in 0..Cardinality(reorg_buffer) - 1 : Sampled(iteration) = reorg_buffer

\* So it is when the sample is larger than the buffer, whose length is no
\* multiple of 13, the stride of the sample.
SampleTakesAll ==
  LET n == Cardinality(reorg_buffer) IN n > 0 => n % 13 # 0 /\ n < RecheckSampleSize

\* From the reorg check of an iteration to its end.
InIteration ==
  pc \in {"check", "logs", "prune_buffer", "prune_emitted"} \/ WithLogs

\* No reorg that is still to come reaches block b.
OutOfReach(b) == b + MaxReorgDepth <= end_block

\* The first hash of a block stays, and the buffer is of blocks that the next
\* range does not end before.
BufferIsOrderly ==
  /\ \A e, f \in reorg_buffer : e.block = f.block => e = f
  /\ \A e \in reorg_buffer : e.block <= Target /\ e.block <= cursor + FetchBatchSize - 1
  /\ pc \in {"forget", "rollback"} => \A e \in reorg_buffer : e.block <= fork_point

\* The range ends where it began to, whatever block of it is passed.
RangeIsOrderly ==
  /\ InIteration =>
       /\ end_block <= Target /\ end_block <= cursor + FetchBatchSize - 1
       /\ \A e \in reorg_buffer : e.block <= end_block
  /\ \A l \in logs : l.block <= end_block /\ end_block <= l.block + FetchBatchSize - 1
  /\ InBlock => end_block <= entry.block + FetchBatchSize - 1
  /\ unseen \subseteq logs
  /\ logs # {} => WithLogs
  /\ ret = "commit" => pc \in {"drain", "mark"}

\* What lies deep is re-read before the iteration goes on, and stays what it is.
DeepIsRead ==
  InIteration =>
    /\ \A e \in reorg_buffer :
         OutOfReach(e.block) => Matches(e) \/ (pc = "check" /\ e.block \in sample)
    /\ \A l \in unseen : OutOfReach(l.block) => Matches(l)

NoticedInv == BufferIsOrderly /\ RangeIsOrderly /\ DeepIsRead

-----------------------------------------------------------------------------
(* The crawl comes back to what a reorg replaces.                            *)

(***************************************************************************)
(* What the guarantee about the re-crawl rests on: the process is not      *)
(* killed, entities are only created, every block has an operation, ranges *)
(* are of one block, and the buffer is as long as the deepest reorg.  The  *)
(* code guarantees none of them, and without each of the first four blocks *)
(* are missed: so RecrawlInv is for the run of that case, and there is no  *)
(* theorem.                                                                *)
(***************************************************************************)
OnlyCreates(ops) == \A i \in DOMAIN ops : ops[i].op = "create"

\* Hashes are those of the reorgs so far; every block creates something.
CreatingChain ==
  /\ ChainOK
  /\ \A b \in 1..HeadBlock :
       chain[b].hash <= epoch /\ chain[b].ops # <<>> /\ OnlyCreates(chain[b].ops)

InRetraction == pc \in {"retract", "retract_enqueue", "forget", "rollback"}

\* The first block of which nothing is claimed.
Reach == IF pc \in {"forget", "rollback"} THEN fork_point + 1 ELSE cursor

\* The buffer ends at the cursor, and a retraction goes back.
BufferIsBehind ==
  /\ \A e \in reorg_buffer :
       /\ e.hash <= epoch /\ (e.block = 0 => e.hash = 0)
       /\ e.block <= HeadBlock /\ e.block <= cursor /\ e.block <= Reach
  /\ start < cursor => cursor <= HeadBlock + 1
  /\ InRetraction => fork_point < cursor
  /\ pc = "find" => /\ search.first_bad \in 1..cursor
                    /\ search.low <= search.high
                    /\ search.high <= Cardinality(Candidates(search.first_bad))

\* A range is one block, the one at the cursor, and so are its logs.
OneBlock ==
  /\ pc \in {"check", "logs", "observe"} \/ InBlock \/ logs # {} => cursor = end_block
  /\ pc = "observe" => logs # {} \/ end_block = 0
  /\ pc = "block" /\ logs = {} => cursor = end_block + 1 \/ (cursor = 0 /\ end_block = 0)
  /\ unseen \subseteq logs
  /\ logs # {} => WithLogs
  /\ \A l, m \in logs : l = m
  /\ \A l \in logs : l.block = end_block /\ l.block > 0 /\ l.hash <= epoch /\ OnlyCreates(l.ops)
  /\ \A l \in logs : Matches(l) => l.ops = chain[l.block].ops
  /\ InBlock => entry \in logs /\ unseen = {}
  /\ InBlock /\ pc \notin {"hydrate", "probe"} => pos > Len(entry.ops)
  /\ pc = "probe" => pos <= Len(entry.ops)
  /\ ret = "commit" => pc \in {"drain", "mark"}

\* Deletes are retractions, and spare what is below the cursor.
OnlyRetractions ==
  /\ delete_queries = <<>>
  /\ pending_deletes # <<>> => pc \in {"drain", "mark", "retract_enqueue", "forget", "rollback"} \cup Down
  /\ ret = "commit" => pending_deletes = <<>>
  /\ \A i \in 1..Len(pending_deletes) :
       /\ pending_deletes[i].kind = "retraction"
       /\ pending_deletes[i].bound + 1 >= IF InRetraction THEN fork_point + 1 ELSE cursor

\* The buffer tells that block b was orphaned.
Suspect(b) == \E e \in reorg_buffer : e.block = b /\ ~Matches(e)

\* A reorg of block b would show in the buffer, or comes too late to happen.
Guarded(b) == b \in BufferedBlocks \/ b + MaxReorgDepth <= HeadBlock

\* A passed block has its documents in the index, or is known to be orphaned.
PassedOrSuspect ==
  \A b \in 1..HeadBlock : start <= b /\ b < Reach =>
    Guarded(b) /\ (Suspect(b) \/ Crawl!Due(b) \subseteq index)

\* So is the block at work built, up to the log index.
BuiltOrSuspect ==
  InBlock /\ Matches(entry) =>
    \A d \in Crawl!Due(entry.block) : d.log < pos => Built(d)

RecrawlInv ==
  /\ CreatingChain /\ BufferIsBehind /\ OneBlock /\ OnlyRetractions
  /\ PassedOrSuspect /\ BuiltOrSuspect
=============================================================================
