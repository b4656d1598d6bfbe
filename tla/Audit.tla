-------------------------------- MODULE Audit --------------------------------
(***************************************************************************)
(* What the bridge does against a node that answers wrongly: the sampling  *)
(* audit (audit.rs) and paranoid mode (hydrate in control_loop.rs), with   *)
(* as much of the control loop as decides when they run and what they see. *)
(*                                                                         *)
(* Abstractions:                                                           *)
(*  - Deletes, ingests and the reorg check are in Bridge.  Here they only  *)
(*    matter because the iteration may fail in them: IterationFails.  The  *)
(*    commits at the end of a range, with no other call in between, make   *)
(*    one step, and the crawl starts at the genesis block.                 *)
(*  - Reorgs stay above the confirmation depth (AuditAssumption).          *)
(*  - A payload is named by the block that last wrote the entity.  It is   *)
(*    found in the entity's code exactly when it is the one that the code  *)
(*    was built from: keccak has no collision, and a payload is never      *)
(*    empty (an empty one verifies against any code).                      *)
(*  - A wrong answer is one and the same payload, that no block wrote.     *)
(*  - The node honours atBlock and the filters select every entity.        *)
(***************************************************************************)
EXTENDS ArkivChain

CONSTANTS
  ConfirmationDepth,      \* arkiv.confirmation_depth
  FetchBatchSize,         \* arkiv.fetch_batch_size_blocks
  DedupWindow,            \* bridge.dedup_window_blocks
  SampleEveryNBlocks,     \* bridge.audit.sample_every_n_blocks
  SampleSize,             \* bridge.audit.sample_size
  MismatchHaltThreshold,  \* bridge.audit.mismatch_halt_threshold
  Paranoid,               \* arkiv.rpc_url_backup is set
  Liars                   \* the nodes that may answer a hydration wrongly

ASSUME AuditAssumption ==
  /\ {ConfirmationDepth, DedupWindow, SampleEveryNBlocks, SampleSize,
      MismatchHaltThreshold} \subseteq Nat
  /\ FetchBatchSize \in Nat \ {0}
  /\ Paranoid \in BOOLEAN
  /\ Liars \subseteq {"primary", "backup"}
  /\ MaxReorgDepth <= ConfirmationDepth

VARIABLES
  cursor,            \* SQLite: the next block to crawl
  emitted,           \* SQLite: the rows of emitted_dedup, with code_hash
  pc,                \* the next call
  end_block,         \* the last block of the range
  block,             \* the block in process_block
  pos,               \* the log it is at
  answer,            \* what the primary node hydrated
  sample,            \* the rows that the audit pass has still to read
  last_audit_block,  \* end of the range after which a pass was completed
  mismatches,        \* METRICS.audit_mismatch
  counted,           \* history: rows counted as mismatches by this process
  excused            \* history: rows it could not read, their entity dead

memory == <<end_block, block, pos, answer, sample>>
auditVars == <<chainVars, cursor, emitted, pc, memory, last_audit_block, mismatches, counted, excused>>

Payload == [block : Nat, hash : Nat]

\* The entity does not exist, or its account has no code.
Empty == [block |-> 0, hash |-> 0]

\* A payload that no block wrote.
Wrong == [block |-> 0, hash |-> 1]

Row == [key : Key, block : Nat, log : Nat, payload : Payload]

Running == {"head", "block", "log", "backup", "suspect", "audit"}

AuditTypeOK ==
  /\ ChainTypeOK
  /\ cursor \in Nat
  /\ emitted \subseteq Row
  /\ pc \in Running \cup {"halted", "stopped"}
  /\ {end_block, block, pos, last_audit_block} \subseteq Nat
  /\ answer \in Payload
  /\ sample \subseteq emitted
  /\ mismatches \in Nat
  /\ pc \in Running /\ mismatches > 0 => mismatches < MismatchHaltThreshold
  /\ counted \subseteq Row
  /\ excused \subseteq Row

ResetMemory ==
  /\ end_block' = 0
  /\ block' = 0
  /\ pos' = 0
  /\ answer' = Empty
  /\ sample' = {}

Init ==
  /\ ChainInit
  /\ cursor = 0 /\ emitted = {}
  /\ pc = "head" /\ end_block = 0 /\ block = 0 /\ pos = 0 /\ answer = Empty /\ sample = {}
  /\ last_audit_block = 0 /\ mismatches = 0 /\ counted = {} /\ excused = {}

SatSub(a, b) == IF a > b THEN a - b ELSE 0

-----------------------------------------------------------------------------
(* The iteration, up to the log.                                            *)

Target == SatSub(HeadBlock, ConfirmationDepth)

BeginIteration ==
  /\ pc = "head"
  /\ cursor <= Target
  /\ end_block' = IF cursor + FetchBatchSize - 1 < Target
                  THEN cursor + FetchBatchSize - 1 ELSE Target
  /\ pc' = "block"
  /\ UNCHANGED <<chainVars, cursor, emitted, block, pos, answer, sample,
                 last_audit_block, mismatches, counted, excused>>

Unprocessed == {b \in cursor..end_block : b > 0 /\ chain[b].ops # <<>>}

NextBlock ==
  /\ pc = "block"
  /\ \E b \in Unprocessed :
       /\ \A c \in Unprocessed : b <= c
       /\ block' = b
  /\ pos' = 1
  /\ pc' = "log"
  /\ UNCHANGED <<chainVars, cursor, emitted, end_block, answer, sample,
                 last_audit_block, mismatches, counted, excused>>

AtLog == pc = "log" /\ pos <= Len(chain[block].ops)

Log == chain[block].ops[pos]

DeleteLog ==
  /\ AtLog
  /\ Log.op = "delete"
  /\ pos' = pos + 1
  /\ UNCHANGED <<chainVars, cursor, emitted, pc, end_block, block, answer, sample,
                 last_audit_block, mismatches, counted, excused>>

CommitBlock ==
  /\ pc = "log"
  /\ pos > Len(chain[block].ops)
  /\ cursor' = block + 1
  /\ block' = 0
  /\ pos' = 0
  /\ pc' = "block"
  /\ UNCHANGED <<chainVars, emitted, end_block, answer, sample,
                 last_audit_block, mismatches, counted, excused>>

-----------------------------------------------------------------------------
(* hydrate, and record_emitted_doc.                                         *)

\* The payload of an entity in the state of block b: what arkiv_query answers
\* with atBlock, and what eth_getCode finds at the entity's account.
PayloadAt(key, b) ==
  LET e == EntityAt(key, b) IN
  IF e.live THEN [block |-> e.block, hash |-> BlockHash(e.block)] ELSE Empty

\* Faulty variant: hydration ignores atBlock.
AnswersAtHead(node) ==
  {PayloadAt(Log.key, HeadBlock)} \cup (IF node \in Liars THEN {Wrong} ELSE {})

\* get_entity_at at the log's block.
Answers(node) ==
  {PayloadAt(Log.key, block)} \cup (IF node \in Liars THEN {Wrong} ELSE {})

IsEmitted(key, b, log) ==
  \E r \in emitted : r.key = key /\ r.block = b /\ r.log = log

\* A second emission leaves the first hash where it is.
record_emitted_doc(key, b, log, payload) ==
  emitted' = IF IsEmitted(key, b, log) THEN emitted
             ELSE emitted \cup {[key |-> key, block |-> b, log |-> log, payload |-> payload]}

\* The hydrated entity becomes a document, unless there is none.
Emit(payload) ==
  /\ IF payload = Empty
     THEN UNCHANGED emitted
     ELSE record_emitted_doc(Log.key, block, pos, payload)
  /\ pos' = pos + 1
  /\ pc' = "log"

Hydrate ==
  /\ AtLog
  /\ Log.op # "delete"
  /\ \E payload \in Answers("primary") :
       IF Paranoid
       THEN pc' = "backup" /\ answer' = payload /\ UNCHANGED <<emitted, pos>>
       ELSE Emit(payload) /\ UNCHANGED answer
  /\ UNCHANGED <<chainVars, cursor, end_block, block, sample,
                 last_audit_block, mismatches, counted, excused>>

HydrateBackup ==
  /\ pc = "backup"
  /\ \E payload \in Answers("backup") :
       IF payload = answer
       THEN Emit(answer) /\ answer' = Empty
       ELSE pc' = "suspect" /\ UNCHANGED <<emitted, pos, answer>>
  /\ UNCHANGED <<chainVars, cursor, end_block, block, sample,
                 last_audit_block, mismatches, counted, excused>>

\* One of the two reads fails: the log is skipped when the entity is dead at
\* head, the block is retried otherwise.
HydrationFails ==
  /\ \/ AtLog /\ Log.op # "delete"
     \/ pc = "backup"
  /\ IF LiveAtHead(Log.key)
     THEN pc' = "head" /\ ResetMemory
     ELSE /\ pc' = "log"
          /\ pos' = pos + 1
          /\ answer' = Empty
          /\ UNCHANGED <<end_block, block, sample>>
  /\ UNCHANGED <<chainVars, cursor, emitted, last_audit_block, mismatches, counted, excused>>

\* A mismatch is one more hydration error: is_live_at_head decides whether the
\* loop stops.
MismatchHalts ==
  /\ pc = "suspect"
  /\ LiveAtHead(Log.key)
  /\ pc' = "halted"
  /\ ResetMemory
  /\ UNCHANGED <<chainVars, cursor, emitted, last_audit_block, mismatches, counted, excused>>

MismatchSkipped ==
  /\ pc = "suspect"
  /\ ~LiveAtHead(Log.key)
  /\ pos' = pos + 1
  /\ pc' = "log"
  /\ answer' = Empty
  /\ UNCHANGED <<chainVars, cursor, emitted, end_block, block, sample,
                 last_audit_block, mismatches, counted, excused>>

-----------------------------------------------------------------------------
(* The end of the range, and run_audit_pass.                                *)

OldestKept == SatSub(end_block, DedupWindow)

AuditDue == SatSub(end_block, last_audit_block) >= SampleEveryNBlocks

\* The cursor, the pruning, and the sample: SampleSize rows in an order that
\* depends on rowid and end_block, so any of them.
FinishRange ==
  /\ pc = "block"
  /\ Unprocessed = {}
  /\ cursor' = end_block + 1
  /\ emitted' = {r \in emitted : r.block >= OldestKept}
  /\ IF AuditDue
     THEN /\ pc' = "audit"
          /\ \E rows \in SUBSET emitted' :
               /\ Cardinality(rows) <= SampleSize
               /\ Cardinality(rows) = SampleSize \/ rows = emitted'
               /\ sample' = rows
          /\ UNCHANGED <<end_block, block, pos, answer>>
     ELSE pc' = "head" /\ ResetMemory
  /\ UNCHANGED <<chainVars, last_audit_block, mismatches, counted, excused>>

\* eth_getCode at the row's block: without code the row says nothing.
CodeAgrees(r) == PayloadAt(r.key, r.block) \in {Empty, r.payload}

Verify ==
  /\ pc = "audit"
  /\ \E r \in sample : CodeAgrees(r) /\ sample' = sample \ {r}
  /\ UNCHANGED <<chainVars, cursor, emitted, pc, end_block, block, pos, answer,
                 last_audit_block, mismatches, counted, excused>>

\* Faulty variant: the loop stops one mismatch late.
ThresholdPassed(n) == n > MismatchHaltThreshold

ThresholdReached(n) == n >= MismatchHaltThreshold

CountMismatch ==
  /\ pc = "audit"
  /\ \E r \in sample :
       /\ ~CodeAgrees(r)
       /\ mismatches' = mismatches + 1
       /\ counted' = counted \cup {r}
       /\ IF ThresholdReached(mismatches')
          THEN pc' = "halted" /\ ResetMemory
          ELSE sample' = sample \ {r} /\ UNCHANGED <<pc, end_block, block, pos, answer>>
  /\ UNCHANGED <<chainVars, cursor, emitted, last_audit_block, excused>>

\* Faulty variant: whatever cannot be read is passed over.
CodeFailsUnasked ==
  /\ pc = "audit"
  /\ \E r \in sample : sample' = sample \ {r}
  /\ UNCHANGED <<chainVars, cursor, emitted, pc, end_block, block, pos, answer,
                 last_audit_block, mismatches, counted, excused>>

\* The code cannot be read: fine when the entity is dead at head, otherwise
\* the pass fails and the next range repeats it.
CodeFails ==
  /\ pc = "audit"
  /\ \E r \in sample :
       IF LiveAtHead(r.key)
       THEN pc' = "head" /\ ResetMemory /\ UNCHANGED excused
       ELSE /\ sample' = sample \ {r}
            /\ excused' = excused \cup {r}
            /\ UNCHANGED <<pc, end_block, block, pos, answer>>
  /\ UNCHANGED <<chainVars, cursor, emitted, last_audit_block, mismatches, counted>>

\* run_iteration remembers the pass once it has succeeded.
PassDone ==
  /\ pc = "audit"
  /\ sample = {}
  /\ last_audit_block' = end_block
  /\ pc' = "head"
  /\ ResetMemory
  /\ UNCHANGED <<chainVars, cursor, emitted, mismatches, counted, excused>>

-----------------------------------------------------------------------------
(* Failures.                                                                *)

\* Any other call of the iteration fails: fetching, ingesting, deleting, the
\* question whether an entity lives.
IterationFails ==
  /\ \/ pc = "block" /\ Unprocessed # {}
     \/ pc \in {"log", "backup", "suspect"}
     \/ pc = "audit" /\ sample # {}
  /\ pc' = "head"
  /\ ResetMemory
  /\ UNCHANGED <<chainVars, cursor, emitted, last_audit_block, mismatches, counted, excused>>

Crash ==
  /\ pc \in Running
  /\ pc' = "stopped"
  /\ ResetMemory
  /\ UNCHANGED <<chainVars, cursor, emitted, last_audit_block, mismatches, counted, excused>>

\* The counter and last_audit_block are not in SQLite.
Restart ==
  /\ pc \in {"halted", "stopped"}
  /\ pc' = "head"
  /\ last_audit_block' = 0
  /\ mismatches' = 0
  /\ counted' = {}
  /\ excused' = {}
  /\ UNCHANGED <<chainVars, cursor, emitted, memory>>

-----------------------------------------------------------------------------
ProcessBlock ==
  \/ NextBlock \/ DeleteLog \/ Hydrate \/ HydrateBackup \/ HydrationFails
  \/ MismatchHalts \/ MismatchSkipped \/ CommitBlock

AuditPass == Verify \/ CountMismatch \/ CodeFails \/ PassDone

Environment ==
  /\ ChainNext
  /\ UNCHANGED <<cursor, emitted, pc, memory, last_audit_block, mismatches, counted, excused>>

Next ==
  \/ BeginIteration \/ ProcessBlock \/ FinishRange \/ AuditPass
  \/ IterationFails \/ Crash \/ Restart \/ Environment

Spec == Init /\ [][Next]_auditVars

-----------------------------------------------------------------------------
(* Properties.                                                              *)

\* No alarm over an honest answer: a row that run_audit_pass counts as a mismatch
\* was recorded from a wrong one, and an honest answer that hydrate compares is
\* still what the chain says, so that two of them agree.  Hydration, the backup's
\* answer and eth_getCode are read at different times, across retries, restarts,
\* updates, deletes and reorgs of unconfirmed blocks.
NoFalseAlarm ==
  /\ \A r \in counted : r.payload = Wrong
  /\ pc \in {"backup", "suspect"} => answer \in {Wrong, PayloadAt(Log.key, block)}

\* When samples take every row, a process has counted every wrong row up to its
\* last_audit_block, unless the code was gone with the entity: a pass that fails
\* halfway is repeated, and a row is only passed over for what audit.rs says.
PassesAreComplete ==
  \A r \in emitted :
    r.payload = Wrong /\ r.block <= last_audit_block =>
      r \in counted \cup excused \/ PayloadAt(r.key, r.block) = Empty

-----------------------------------------------------------------------------
(***************************************************************************)
(* The inductive invariants behind NoFalseAlarm and PassesAreComplete.     *)
(***************************************************************************)
AtBlock == pc \in {"log", "backup", "suspect"}

\* The range ends at a confirmed block, and the crawl is at a log of one that it
\* has not passed.
WorkIsConfirmed ==
  /\ end_block <= Target
  /\ pc = "block" => cursor <= end_block + 1
  /\ AtBlock => block \in 1..Target /\ cursor <= block /\ block <= end_block /\ pos >= 1
  /\ pc \in {"backup", "suspect"} => pos <= Len(chain[block].ops)

\* A row is of a confirmed block; it is wrong, or still what the chain says.
RowsAgree ==
  /\ IsFiniteSet(emitted)
  /\ \A r \in emitted : r.block \in 1..Target /\ r.payload \in {Wrong, PayloadAt(r.key, r.block)}

\* What is not crawled is not audited.
AuditIsBehind ==
  /\ last_audit_block = 0 \/ last_audit_block < cursor
  /\ pc = "audit" => cursor = end_block + 1

\* Why no alarm is false: every row that a pass may meet comes from a block that
\* no reorg replaces, so that a mismatch is a wrong answer and nothing else.
AuditInv ==
  /\ AuditTypeOK /\ ChainOK
  /\ WorkIsConfirmed /\ RowsAgree /\ AuditIsBehind
  /\ NoFalseAlarm

\* Why a pass that takes every row is complete: what it has not counted, excused
\* or found without code it has still to read, and the rows of later blocks are
\* above last_audit_block.
PassInv ==
  /\ PassesAreComplete
  /\ pc = "audit" =>
       \A r \in emitted :
         r.payload = Wrong =>
           r \in sample \cup counted \cup excused \/ PayloadAt(r.key, r.block) = Empty

\* The doc of hydrate: a discrepancy between the two nodes is unrecoverable.  The
\* crawl never goes on behind one: the loop stops, or the block is retried.
DiscrepancyHalts ==
  [][pc = "suspect" => pc' \in {"suspect", "halted", "stopped", "head"}]_auditVars
=============================================================================
