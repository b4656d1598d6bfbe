--------------------------- MODULE BridgeProperties ---------------------------
(***************************************************************************)
(* What the bridge should guarantee about the Quickwit index.              *)
(***************************************************************************)
EXTENDS Bridge

\* At the top of the loop with no delete left over: nothing is in flight.
Quiet ==
  /\ pc = "drain" /\ ret = "head"
  /\ pending_deletes = <<>>

\* Some pending delete query will remove document d.
Covered(d) == \E i \in 1..Len(pending_deletes) : QueryMatches(pending_deletes[i], d)

\* The bridge still remembers the hash of the block d came from.
Witnessed(d) == IdOf(d) \in reorg_buffer

Emitted(d) == RowOf(d) \in emitted_dedup

\* What is known of entity k once every block below the cursor is processed.
AtCursor(k) == EntityAt(k, SatSub(cursor, 1))

\* An operation on k that the crawl has not passed, up to block h.
TouchedUpTo(k, h) ==
  \E b \in (1..h) : b >= cursor /\ \E i \in 1..Len(chain[b].ops) : chain[b].ops[i].key = k

\* The index holds the document of the operation that made k what AtCursor says.
HasDoc(k) ==
  \E d \in index : /\ d.key = k
                   /\ d.block = AtCursor(k).block
                   /\ d.hash = BlockHash(d.block)

Owed(k) ==
  /\ AtCursor(k).live /\ AtCursor(k).match
  /\ AtCursor(k).block >= start

-----------------------------------------------------------------------------
(***************************************************************************)
(* No gaps: an entity that lives and that the filters select, as of the    *)
(* blocks below the cursor, is in the index, unless the crawl is at work   *)
(* on a later block that touches it.  The cursor may only pass a block     *)
(* when Quickwit has its documents (control_loop.rs, the order of          *)
(* process_block and set_cursor), whatever call fails and wherever the     *)
(* process dies.                                                           *)
(***************************************************************************)
NoGaps == \A k \in Key : Owed(k) /\ ~TouchedUpTo(k, Target) => HasDoc(k)

(***************************************************************************)
(* The same when hydrations may fail: a document may be skipped when its   *)
(* entity is dead at head, which a block above the target may have caused. *)
(***************************************************************************)
NoGapsButDead == \A k \in Key : Owed(k) /\ ~TouchedUpTo(k, HeadBlock) => HasDoc(k)

(***************************************************************************)
(* No stale document: what the index holds from below the cursor is the    *)
(* last version of a live, selected entity, unless a delete task that will *)
(* remove it is on record or a later operation is still to be crawled.     *)
(* Supersede and tombstone queries are enqueued after the ingest and       *)
(* before the cursor moves, so that a crash cannot lose one.               *)
(***************************************************************************)
StaleOnlyIf(k, d, h) ==
  \/ Covered(d)
  \/ TouchedUpTo(k, h)
  \/ /\ AtCursor(k).live /\ AtCursor(k).match
     /\ d.block = AtCursor(k).block

NoStale == \A d \in index : d.block < cursor => StaleOnlyIf(d.key, d, Target)

NoStaleButDead == \A d \in index : d.block < cursor => StaleOnlyIf(d.key, d, HeadBlock)

-----------------------------------------------------------------------------
(***************************************************************************)
(* Every document in the index comes from a block whose hash is still in   *)
(* the reorg buffer, where a later check can find it orphaned, or is       *)
(* matched by a delete task on record; documents from blocks that the      *)
(* pruning windows dropped are excepted.  retract (reorg.rs) has to put    *)
(* the deletes on record before it drops the hashes and the emitted rows,  *)
(* and process_block may only ingest what it has observed and recorded.    *)
(***************************************************************************)
OrphanWitness == \A d \in index : d.block \in forgotten \/ Witnessed(d) \/ Covered(d)

(***************************************************************************)
(* The inductive invariant behind OrphanWitness.                           *)
(***************************************************************************)
\* The range exists, the log index is inside or just past the block, and there
\* is a row to mark.
InRange ==
  /\ end_block <= Len(chain)
  /\ pc \in {"hydrate", "probe"} => pos >= 1
  /\ pc = "mark" => pending_deletes # <<>>

\* The locals that are alive in each phase of an iteration.
Phases ==
  /\ pc # "observe" => unseen = {}
  /\ pc \in {"hydrate", "probe"} => entry \in logs
  /\ pc \notin {"hydrate", "probe", "ingest"} => docs = <<>>
  /\ pc \in {"find", "prune_buffer", "prune_emitted", "retract", "retract_enqueue", "forget",
             "rollback"} => logs = {}

\* A log is processed once its hash is in the buffer; a document is built from
\* such a log, and recorded.
Observed ==
  /\ \A l \in logs \ unseen : IdOf(l) \in reorg_buffer
  /\ \A i \in 1..Len(docs) : Witnessed(docs[i]) /\ Emitted(docs[i])

\* entity_keys_after finds every document that a delete on record does not.
Recorded == \A d \in index : d.block \in forgotten \/ Emitted(d) \/ Covered(d)

\* A delete task is marked after it took effect.
MarkedIsDone ==
  pc = "mark" => \A d \in index : ~QueryMatches(Head(pending_deletes), d)

\* retract has put on record a delete for what it is about to forget.
Retracting ==
  /\ pc = "retract_enqueue" =>
       \A d \in index : d.block > fork_point =>
         d.block \in forgotten \/ d.key \in retracted_keys \/ Covered(d)
  /\ pc = "forget" =>
       \A d \in index : d.block > fork_point => d.block \in forgotten \/ Covered(d)

ControlInv == TypeOK /\ InRange /\ Phases

Evidence == Observed /\ OrphanWitness /\ Recorded /\ MarkedIsDone /\ Retracting

IInv == ControlInv /\ Evidence

(***************************************************************************)
(* When nothing is in flight and every buffered hash agrees with the       *)
(* chain, no document of an orphaned block is in the index.                *)
(***************************************************************************)
BufferMatchesChain == \A e \in reorg_buffer : Matches(e)

NoOrphans ==
  Quiet /\ BufferMatchesChain =>
    \A d \in index : d.block \in forgotten \/ d.hash = BlockHash(d.block)

(***************************************************************************)
(* No gaps across reorgs of confirmed blocks: when nothing is in flight    *)
(* and every buffered hash agrees with the chain, the index holds the      *)
(* document of every owed entity.  The crawl restarts right above the fork *)
(* point, so that retracted documents come back from the new chain.        *)
(***************************************************************************)
NoGapsAfterReorg ==
  Quiet /\ BufferMatchesChain => \A k \in Key : Owed(k) /\ ~TouchedUpTo(k, Target) => HasDoc(k)

(***************************************************************************)
(* On a fork the daemon retracts, or past retract_max_depth it halts       *)
(* (README.md:43-46): the loop never goes on, with every buffered hash in  *)
(* agreement with the chain, while the index holds an orphaned document,   *)
(* whether or not a prune has dropped what the store knew of it.           *)
(***************************************************************************)
RetractedOrHalted ==
  Quiet /\ BufferMatchesChain => \A d \in index : d.hash = BlockHash(d.block)

(***************************************************************************)
(* The bridge ends up at the tip with nothing in flight, when calls fail   *)
(* and processes die only finitely often: no reorg, retraction or left-    *)
(* over delete leaves the loop going round.                                *)
(***************************************************************************)
AtTip == Quiet /\ cursor > Target

CatchesUp == <>[][~Failure]_vars => []<>AtTip
=============================================================================
