------------------------------ MODULE StateStore ------------------------------
(***************************************************************************)
(* The SQLite state store.  Every operation is one autocommitted           *)
(* statement: it is atomic and durable, and nothing ties two of them       *)
(* together.  The operations below are the parts of an action that a call  *)
(* to the store contributes; the control loop is the only caller.          *)
(*                                                                         *)
(* Abstractions: timestamps, the payload hash and length and the emission  *)
(* count of an emitted document are left out (only the log line and the    *)
(* audit read them); a delete task that has been submitted is never read   *)
(* again, so pending_deletes holds the rows with submitted = 0 only.       *)
(***************************************************************************)
EXTENDS Integers, Sequences, FiniteSets

VARIABLES
  cursor,           \* next block to crawl, or NoCursor
  reorg_buffer,     \* {[block, hash]}: the hashes the bridge has relied on
  emitted_dedup,    \* {[key, block, log]}: the documents it has built
  pending_deletes,  \* delete queries to submit, oldest first
  forgotten         \* history: blocks whose rows a prune has dropped

storeVars == <<cursor, reorg_buffer, emitted_dedup, pending_deletes, forgotten>>

\* The empty cursor table.
NoCursor == -1

StoreInit ==
  /\ cursor = NoCursor
  /\ reorg_buffer = {}
  /\ emitted_dedup = {}
  /\ pending_deletes = <<>>
  /\ forgotten = {}

SatSub(a, b) == IF a > b THEN a - b ELSE 0

-----------------------------------------------------------------------------
set_cursor(next_block) == cursor' = next_block

\* The stored hash differs: the reorg signal.
Contradicts(block, hash) ==
  \E e \in reorg_buffer : e.block = block /\ e.hash # hash

\* The first hash observed for a block stays.
observe_block(block, hash) ==
  reorg_buffer' =
    IF \E e \in reorg_buffer : e.block = block
    THEN reorg_buffer
    ELSE reorg_buffer \cup {[block |-> block, hash |-> hash]}

BufferedBlocks == {e.block : e \in reorg_buffer}

IsNewest(block) ==
  block \in BufferedBlocks /\ \A b \in BufferedBlocks : b <= block

\* Faulty variant: the row at the edge of the window goes, too.
KeptByShort(buffer_size) ==
  {e \in reorg_buffer : \A b \in BufferedBlocks : b + 1 < e.block + buffer_size}

\* The rows with block_number > MAX(block_number) - buffer_size.
KeptBy(buffer_size) ==
  {e \in reorg_buffer : \A b \in BufferedBlocks : b < e.block + buffer_size}

prune_reorg_buffer(buffer_size) ==
  /\ reorg_buffer' = KeptBy(buffer_size)
  /\ forgotten' = forgotten \cup {e.block : e \in reorg_buffer \ KeptBy(buffer_size)}

\* Faulty variant: the block above the fork point keeps its stale hash.
truncate_above_next(fork_point) ==
  reorg_buffer' = {e \in reorg_buffer : e.block <= fork_point + 1}

truncate_reorg_buffer_after(fork_point) ==
  reorg_buffer' = {e \in reorg_buffer : e.block <= fork_point}

record_emitted_doc(row) == emitted_dedup' = emitted_dedup \cup {row}

\* Faulty variant: the block above the fork point is not retracted.
entity_keys_after_next(fork_point) ==
  {r.key : r \in {s \in emitted_dedup : s.block > fork_point + 1}}

entity_keys_after(fork_point) ==
  {r.key : r \in {s \in emitted_dedup : s.block > fork_point}}

prune_emitted_after(fork_point) ==
  emitted_dedup' = {r \in emitted_dedup : r.block <= fork_point}

\* Faulty variant: the row at the edge of the window goes, too.
prune_emitted_through(min_block) ==
  /\ emitted_dedup' = {r \in emitted_dedup : r.block > min_block}
  /\ forgotten' = forgotten \cup {r.block : r \in {s \in emitted_dedup : s.block <= min_block}}

prune_emitted_before(min_block) ==
  /\ emitted_dedup' = {r \in emitted_dedup : r.block >= min_block}
  /\ forgotten' = forgotten \cup {r.block : r \in {s \in emitted_dedup : s.block < min_block}}

enqueue_delete(query) == pending_deletes' = Append(pending_deletes, query)

\* Faulty variant: one submission marks every row.
mark_all_submitted == pending_deletes' = <<>>

\* Deletes are submitted in order, so the row marked is the oldest one.
mark_delete_submitted == pending_deletes' = Tail(pending_deletes)
=============================================================================
