---------------------------- MODULE CrawlInvariant ----------------------------
(***************************************************************************)
(* Why the crawl passes no gap, leaves nothing stale and implements        *)
(* AtLeastOnce: the inductive invariant, when reorgs stay above the        *)
(* confirmed blocks.  Its first half is what a crash finds in the chain,   *)
(* the store and the index; its second half is what the locals add.        *)
(***************************************************************************)
EXTENDS Refinement

(***************************************************************************)
(* What the guarantees about confirmed blocks rest on: the confirmation    *)
(* depth is one (arkiv.confirmation_depth), the node answers at the block  *)
(* it is asked for (arkiv.event_schema is not legacy), and where documents *)
(* may be skipped because their entity is dead at head, it stays dead.     *)
(***************************************************************************)
ConfirmedCase ==
  /\ MaxReorgDepth <= ConfirmationDepth
  /\ Historical
  /\ HydrationErrors => MaxReorgs = 0

\* A block above which a replay finds nothing: the first one with operations
\* that is not passed.
IsNext(b) ==
  /\ b \in 1..Target /\ b >= cursor
  /\ chain[b].ops # <<>>
  /\ \A c \in 1..Target : cursor <= c /\ c < b => chain[c].ops = <<>>

\* Block b or one above it deletes entity k: is_live_at_head may have called
\* it dead.
DeletedFrom(k, b) ==
  /\ HydrationErrors
  /\ \E c \in 1..HeadBlock :
       c >= b /\ \E i \in DOMAIN chain[c].ops :
                   chain[c].ops[i].key = k /\ chain[c].ops[i].op = "delete"

\* A delete query of block b: it is about entities that b touches, and spares
\* what b owes.
QueryOf(q, b) ==
  /\ \A k \in q.keys : Crawl!Touches(b, k)
  /\ \A d \in Crawl!Due(b) : ~QueryMatches(q, d)

-----------------------------------------------------------------------------
(* What outlives the process.                                                *)

\* The buffer holds hashes of confirmed blocks: no reorg is ever seen.
BufferAgrees == \A e \in reorg_buffer : e.block <= Target /\ Matches(e)

\* The cursor only passes confirmed blocks.
CursorConfirmed ==
  IF cursor = NoCursor
  THEN index = {} /\ pending_deletes = <<>>
  ELSE start <= cursor /\ (start < cursor => cursor <= Target + 1)

\* What is in the index is due, and from no block that a replay has not reached.
IndexIsDue ==
  \A d \in index :
    /\ d.block \in 1..Target /\ d.block >= start
    /\ d \in Crawl!Due(d.block)
    /\ \A c \in 1..Target : cursor <= c /\ c < d.block => chain[c].ops = <<>>

\* A document that a passed block owes is there, or a confirmed block replaces it.
Kept ==
  \A b \in 1..Target : start <= b /\ b < cursor =>
    \A d \in Crawl!Due(b) :
      \/ d \in index
      \/ \E c \in 1..Target : b < c /\ Crawl!Touches(c, d.key)
      \/ DeletedFrom(d.key, cursor)

\* What a passed block replaces is on record to go.
Retired ==
  \A d \in index, b \in 1..Target :
    d.block < b /\ b < cursor /\ Crawl!Touches(b, d.key) =>
      Covered(d) \/ DeletedFrom(d.key, cursor)

\* The deletes on record are of the next block.
PendingSpare ==
  \A i \in 1..Len(pending_deletes) :
    \E b \in 1..Target : IsNext(b) /\ QueryOf(pending_deletes[i], b)

Durable ==
  /\ ChainOK /\ BufferAgrees /\ CursorConfirmed
  /\ IndexIsDue /\ Kept /\ Retired /\ PendingSpare

-----------------------------------------------------------------------------
(* What an iteration adds.                                                   *)

\* Phases in which process_block is at work on `entry`.
InBlock == pc \in {"hydrate", "probe", "ingest", "enqueue", "commit"} \/ ret = "commit"

\* Phases in which the logs of the range are at hand.
WithLogs == pc \in {"observe", "block"} \/ InBlock

\* What FetchLogs answers, and would answer again: the range is confirmed.
RangeLogs ==
  {[block |-> b, hash |-> chain[b].hash, ops |-> chain[b].ops] :
     b \in {c \in cursor..end_block : c > 0 /\ chain[c].ops # <<>>}}

\* No retraction begins.
Undisturbed ==
  /\ pc \notin {"find", "retract", "retract_enqueue", "forget", "rollback"}
  /\ ret # "loop"
  /\ ret = "commit" => pc \in {"drain", "mark"}

\* The range ends at a confirmed block.
RangeConfirmed ==
  /\ cursor = NoCursor => pc \in {"drain", "head"} \cup Down /\ ret = "head"
  /\ pc \in {"check", "logs"} \/ WithLogs => end_block <= Target /\ cursor <= end_block + 1
  /\ pc \in {"check", "logs"} => cursor <= end_block

\* The logs are those of the range, and the block at work is the first of them.
LogsAreFresh ==
  /\ WithLogs => logs = RangeLogs
  /\ unseen \subseteq logs
  /\ InBlock => entry \in logs /\ \A m \in logs : entry.block <= m.block
  /\ InBlock /\ pc \notin {"hydrate", "probe"} => pos > Len(entry.ops)
  /\ pc \notin {"hydrate", "probe", "ingest", "enqueue"} => delete_queries = <<>>

\* is_live_at_head is asked about an entity that a log creates or updates.
Probing == pc = "probe" => HydrationErrors /\ pos <= Len(entry.ops) /\ Log.op # "delete"

\* Nothing is left to submit but at the drain and before it.
Drained == pending_deletes # <<>> => pc \in {"enqueue", "drain", "mark"} \cup Down

\* The deletes of the block at work are about it.
BlockSpare == InBlock => \A i \in 1..Len(delete_queries) : QueryOf(delete_queries[i], entry.block)

Queued(d) == \E i \in 1..Len(delete_queries) : QueryMatches(delete_queries[i], d)

Built(d) == d \in index \/ \E i \in 1..Len(docs) : docs[i] = d

\* A delete of k in the block that the loop has not come to.
DeleteAhead(k) ==
  \E i \in DOMAIN entry.ops : i >= pos /\ entry.ops[i].key = k /\ entry.ops[i].op = "delete"

\* The logs below `pos` are done: what they owe is built ...
BlockBuilt ==
  InBlock =>
    /\ \A i \in 1..Len(docs) : docs[i] \in Crawl!Due(entry.block)
    /\ \A d \in Crawl!Due(entry.block) :
         d.log < pos => Built(d) \/ DeletedFrom(d.key, entry.block + 1)

\* ... and what they replace is queued, on record or gone.
BlockRetired ==
  InBlock =>
    \A d \in index, i \in DOMAIN entry.ops :
      d.block < entry.block /\ i < pos /\ entry.ops[i].key = d.key =>
        Queued(d) \/ Covered(d) \/ DeleteAhead(d.key) \/ DeletedFrom(d.key, entry.block + 1)

Volatile ==
  /\ Undisturbed /\ RangeConfirmed /\ LogsAreFresh /\ Probing /\ Drained /\ MarkedIsDone
  /\ BlockSpare /\ BlockBuilt /\ BlockRetired

CrawlInv == ControlInv /\ Durable /\ Volatile
=============================================================================
