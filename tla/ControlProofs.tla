----------------------------- MODULE ControlProofs -----------------------------
(***************************************************************************)
(* The control flow of the bridge, for every value of the constants: what  *)
(* every variable may hold, and which locals are alive in which phase.     *)
(***************************************************************************)
EXTENDS BridgeProperties, ChainProofs, FiniteSetTheorems

-----------------------------------------------------------------------------
(* Facts about the operators.                                               *)

\* SatSub is a subtraction of naturals.
LEMMA SatSubType == ASSUME NEW a \in Nat, NEW b \in Nat PROVE SatSub(a, b) \in Nat
  BY DEF SatSub

\* The last block of a range is a block up to the target.
LEMMA RangeEnd ==
  ASSUME NEW from \in Nat, NEW target \in Nat, NEW head \in Nat, target <= head
  PROVE  LET last == IF from + FetchBatchSize - 1 < target THEN from + FetchBatchSize - 1
                     ELSE target
         IN  last \in Nat /\ last <= head
  <1>1. FetchBatchSize \in Nat /\ FetchBatchSize >= 1
    BY BridgeAssumption
  <1> QED BY <1>1

\* The index of a buffered block is a natural.
LEMMA RankType == ASSUME StoreTypeOK, NEW e PROVE Rank(e) \in Nat
  <1>1. IsFiniteSet(Candidates(e.block))
    BY FS_Subset DEF StoreTypeOK, Candidates
  <1> QED BY <1>1, FS_CardinalityType DEF Rank

\* The queries of delete_scheduler.rs are queries.
LEMMA QueryTypes ==
  ASSUME NEW k \in Key, NEW b \in Nat
  PROVE  supersede_query(k, b) \in Query /\ tombstone_query(k) \in Query
  BY DEF supersede_query, tombstone_query, Query

LEMMA RetractionType ==
  ASSUME NEW keys \in SUBSET Key, NEW b \in Nat
  PROVE  retraction_query(keys, b) \in Query
  BY DEF retraction_query, Query

\* The operation at the log index is one of the block's.
LEMMA LogType == ASSUME CrawlTypeOK, AtLog, pos >= 1 PROVE Log \in Op
  <1>1. entry.ops \in Seq(Op) /\ pos \in 1..Len(entry.ops)
    BY DEF CrawlTypeOK, AtLog, Entry
  <1> QED BY <1>1, ElementOfSeq DEF Log

\* So is the document that is built from it.
LEMMA NewDocType ==
  ASSUME CrawlTypeOK, AtLog, pos >= 1 PROVE NewDoc \in Doc /\ RowOf(NewDoc) \in Row
  <1>1. Log.key \in Key
    BY LogType DEF Op
  <1>2. entry.block \in Nat /\ entry.hash \in Nat /\ pos \in Nat
    BY DEF CrawlTypeOK, Entry
  <1> QED BY <1>1, <1>2 DEF NewDoc, RowOf, Doc, Row

\* The node's answers are naturals.
LEMMA AnswerTypes ==
  ASSUME ChainTypeOK
  PROVE  /\ HeadBlock \in Nat /\ Target \in Nat /\ FirstBlock \in Nat
         /\ \A b \in 0..Len(chain) : BlockHash(b) \in Nat
  <1>1. HeadBlock \in Nat
    BY DEF ChainTypeOK, HeadBlock
  <1>2. Target \in Nat /\ FirstBlock \in Nat
    BY <1>1, BridgeAssumption, SatSubType DEF Target, FirstBlock
  <1>3. ASSUME NEW b \in 0..Len(chain) PROVE BlockHash(b) \in Nat
    <2>1. CASE b = 0
      BY <2>1 DEF BlockHash
    <2>2. CASE b # 0
      <3>1. chain[b] \in Block
        BY <2>2, ElementOfSeq DEF ChainTypeOK
      <3> QED BY <2>2, <3>1 DEF BlockHash, Block
    <2> QED BY <2>1, <2>2
  <1> QED BY <1>1, <1>2, <1>3

-----------------------------------------------------------------------------
(* The control invariant.                                                   *)

\* Nothing is in flight at the top of the loop, or after the end of run().
LEMMA RestingControl ==
  ASSUME ChainTypeOK', StoreTypeOK', (index \subseteq Doc)', (start \in Nat)',
         LoopTop \/ \E how \in Down : Exit(how)
  PROVE  ControlInv'
  <1>1. ResetCrawl /\ ResetReorg /\ pc' \in {"drain"} \cup Down /\ ret' = "head"
    BY DEF LoopTop, Exit
  <1>2. CrawlTypeOK'
    BY <1>1 DEF ResetCrawl, CrawlTypeOK, NoEntry, Entry
  <1>3. ReorgTypeOK'
    BY <1>1 DEF ResetReorg, ReorgTypeOK, NoSearch
  <1>4. InRange'
    BY <1>1 DEF InRange, ChainTypeOK, Down, ResetCrawl
  <1>5. Phases'
    BY <1>1 DEF Phases, Down, ResetCrawl
  <1> QED BY <1>1, <1>2, <1>3, <1>4, <1>5 DEF ControlInv, TypeOK, Running

\* The initial states satisfy it.
LEMMA ControlInit == Init => ControlInv
  <1> SUFFICES ASSUME Init PROVE ControlInv
    OBVIOUS
  <1> USE DEF Init, ChainInit, StoreInit, QuickwitInit
  <1>1. ChainTypeOK
    BY DEF ChainTypeOK
  <1>2. StoreTypeOK
    BY FS_EmptySet DEF StoreTypeOK, NoCursor
  <1>3. CrawlTypeOK /\ ReorgTypeOK
    BY DEF CrawlTypeOK, ReorgTypeOK, NoEntry, NoSearch, Entry
  <1>4. InRange /\ Phases
    BY DEF InRange, Phases
  <1> QED BY <1>1, <1>2, <1>3, <1>4 DEF ControlInv, TypeOK, Running

\* What every step that leaves the chain, the store and the index alone keeps.
LEMMA ControlFrame ==
  ASSUME ControlInv
  PROVE  /\ UNCHANGED chainVars => ChainTypeOK'
         /\ UNCHANGED storeVars => StoreTypeOK'
         /\ UNCHANGED crawlVars => CrawlTypeOK'
         /\ UNCHANGED reorgVars => ReorgTypeOK'
  BY DEF ControlInv, TypeOK, ChainTypeOK, StoreTypeOK, CrawlTypeOK, ReorgTypeOK,
         chainVars, storeVars, crawlVars, reorgVars

\* The drain of the delete queue.
LEMMA DrainControl == ASSUME ControlInv, Drain PROVE ControlInv'
  <1> USE ControlFrame DEF ControlInv, TypeOK
  <1>1. CASE DrainDone
    <2>1. CASE ret = "loop"
      BY <1>1, <2>1, RestingControl DEF DrainDone
    <2>2. CASE ret # "loop"
      <3>1. InRange' /\ Phases'
        BY <1>1, <2>2 DEF DrainDone, InRange, Phases, chainVars, storeVars, crawlVars
      <3> QED BY <1>1, <2>2, <3>1 DEF DrainDone, Running
    <2> QED BY <2>1, <2>2
  <1>2. CASE DrainPost
    <2>1. InRange' /\ Phases'
      BY <1>2 DEF DrainPost, InRange, Phases, chainVars, storeVars, crawlVars
    <2> QED BY <1>2, <2>1 DEF DrainPost, DeleteTask, Running
  <1>3. CASE MarkSubmitted
    <2>1. (pending_deletes \in Seq(Query))'
      BY <1>3, HeadTailProperties DEF MarkSubmitted, mark_delete_submitted, StoreTypeOK, InRange
    <2>2. StoreTypeOK'
      BY <1>3, <2>1 DEF MarkSubmitted, StoreTypeOK
    <2>3. InRange' /\ Phases'
      BY <1>3 DEF MarkSubmitted, InRange, Phases, chainVars, crawlVars
    <2> QED BY <1>3, <2>2, <2>3 DEF MarkSubmitted, Running
  <1> QED BY <1>1, <1>2, <1>3 DEF Drain

\* The head, the range and the sample.
LEMMA IterationControl == ASSUME ControlInv, Idle \/ BeginIteration PROVE ControlInv'
  <1> USE ControlFrame DEF ControlInv, TypeOK
  <1>1. ReadHead => cursor' \in Nat \cup {NoCursor} /\ start' \in Nat
    BY AnswerTypes DEF ReadHead, set_cursor, StoreTypeOK
  <1>2. CASE Idle
    <2>1. StoreTypeOK'
      BY <1>1, <1>2 DEF Idle, StoreTypeOK
    <2> QED BY <1>1, <1>2, <2>1, RestingControl DEF Idle
  <1>3. CASE BeginIteration
    <2>1. StoreTypeOK'
      BY <1>1, <1>3 DEF BeginIteration, StoreTypeOK
    <2>2. cursor' \in Nat /\ Target \in Nat /\ Target <= Len(chain)
      <3>1. cursor' # NoCursor
        BY <1>3, AnswerTypes DEF BeginIteration, ReadHead, set_cursor, NoCursor
      <3>2. Target <= HeadBlock
        BY AnswerTypes, BridgeAssumption DEF Target, SatSub
      <3> QED BY <1>1, <1>3, <3>1, <3>2, AnswerTypes DEF BeginIteration, HeadBlock
    <2>3. end_block' \in Nat /\ end_block' <= Len(chain)
      <3>1. end_block' = IF cursor' + FetchBatchSize - 1 < Target
                         THEN cursor' + FetchBatchSize - 1 ELSE Target
        BY <1>3 DEF BeginIteration
      <3>2. Len(chain) \in Nat
        BY DEF ChainTypeOK
      <3> QED BY <2>2, <3>1, <3>2, RangeEnd
    <2>4. CrawlTypeOK'
      BY <1>3, <2>3 DEF BeginIteration, CrawlTypeOK
    <2>5. sample' \subseteq Nat
      BY <1>3 DEF BeginIteration, Sampled, StoreTypeOK, BlockId
    <2>6. ReorgTypeOK'
      BY <1>3, <2>5 DEF BeginIteration, ReorgTypeOK
    <2>7. pc = "head" /\ pc' \in {"logs", "check"}
      BY <1>3 DEF BeginIteration, ReadHead
    <2>8. InRange'
      BY <1>3, <2>3, <2>7 DEF BeginIteration, InRange, chainVars
    <2>9. Phases'
      BY <1>3, <2>7 DEF BeginIteration, Phases
    <2> QED BY <1>1, <1>3, <2>1, <2>4, <2>6, <2>7, <2>8, <2>9 DEF BeginIteration, Running
  <1> QED BY <1>2, <1>3

\* The reorg check and the fork search.
LEMMA CheckControl == ASSUME ControlInv, CheckBuffer PROVE ControlInv'
  <1> USE ControlFrame DEF ControlInv, TypeOK
  <1>1. CASE CheckMatch
    <2>1. ReorgTypeOK'
      BY <1>1 DEF CheckMatch, ReorgTypeOK
    <2>2. InRange' /\ Phases'
      BY <1>1 DEF CheckMatch, InRange, Phases, chainVars, storeVars, crawlVars
    <2> QED BY <1>1, <2>1, <2>2 DEF CheckMatch, Running
  <1>2. CASE CheckMismatch
    <2>1. CrawlTypeOK'
      BY <1>2 DEF CheckMismatch, ResetCrawl, CrawlTypeOK, NoEntry, Entry
    <2>2. search' \in [first_bad : Nat, low : Nat, high : Nat]
      BY <1>2, RankType DEF CheckMismatch, StoreTypeOK, BlockId
    <2>3. ReorgTypeOK'
      BY <1>2, <2>2 DEF CheckMismatch, ReorgTypeOK
    <2>4. InRange' /\ Phases'
      BY <1>2 DEF CheckMismatch, ResetCrawl, InRange, Phases, chainVars, ChainTypeOK
    <2> QED BY <1>2, <2>1, <2>3, <2>4 DEF CheckMismatch, Running
  <1>3. CASE Probe
    <2>1. search' \in [first_bad : Nat, low : Nat, high : Nat]
      BY <1>3 DEF Probe, ReorgTypeOK
    <2>2. ReorgTypeOK'
      BY <1>3, <2>1 DEF Probe, ReorgTypeOK
    <2>3. InRange' /\ Phases'
      BY <1>3 DEF Probe, InRange, Phases, chainVars, storeVars, crawlVars
    <2> QED BY <1>3, <2>2, <2>3 DEF Probe
  <1>4. CASE ForkFound
    <2>1. fork_point' \in Nat
      BY <1>4, SatSubType DEF ForkFound, StoreTypeOK, BlockId
    <2>2. ReorgTypeOK'
      BY <1>4, <2>1 DEF ForkFound, ReorgTypeOK, NoSearch
    <2>3. InRange' /\ Phases'
      BY <1>4 DEF ForkFound, InRange, Phases, chainVars, storeVars, crawlVars
    <2> QED BY <1>4, <2>2, <2>3 DEF ForkFound, Running
  <1> QED BY <1>1, <1>2, <1>3, <1>4 DEF CheckBuffer

\* The logs of the range and their hashes.
LEMMA ObserveControl == ASSUME ControlInv, Observe PROVE ControlInv'
  <1> USE ControlFrame DEF ControlInv, TypeOK
  <1>1. ASSUME NEW b \in Nat, NEW h \in Nat, observe_block(b, h)
        PROVE  reorg_buffer' \subseteq BlockId /\ IsFiniteSet(reorg_buffer')
    <2>1. [block |-> b, hash |-> h] \in BlockId
      BY DEF BlockId
    <2> QED BY <1>1, <2>1, FS_AddElement DEF observe_block, StoreTypeOK
  <1>2. CASE FetchLogs
    <2>1. logs' \subseteq Entry
      <3>1. ASSUME NEW b \in Nat, b > 0, b <= Len(chain) PROVE chain[b] \in Block
        BY <3>1, ElementOfSeq DEF ChainTypeOK
      <3>2. ASSUME NEW b \in cursor..end_block, b > 0 PROVE b \in Nat /\ b <= Len(chain)
        BY <3>2 DEF StoreTypeOK, NoCursor, InRange, CrawlTypeOK, ChainTypeOK
      <3> QED BY <1>2, <3>1, <3>2 DEF FetchLogs, Entry, Block
    <2>2. CrawlTypeOK'
      BY <1>2, <2>1 DEF FetchLogs, CrawlTypeOK
    <2>3. InRange' /\ Phases'
      BY <1>2 DEF FetchLogs, InRange, Phases, chainVars
    <2> QED BY <1>2, <2>2, <2>3 DEF FetchLogs, Running
  <1>3. CASE ObserveLog
    <2>1. StoreTypeOK'
      BY <1>1, <1>3 DEF ObserveLog, StoreTypeOK, CrawlTypeOK, Entry
    <2>2. CrawlTypeOK'
      BY <1>3 DEF ObserveLog, CrawlTypeOK
    <2>3. InRange' /\ Phases'
      BY <1>3 DEF ObserveLog, InRange, Phases, chainVars
    <2> QED BY <1>3, <2>1, <2>2, <2>3 DEF ObserveLog
  <1>4. CASE ObserveMismatch
    <2>1. CrawlTypeOK'
      BY <1>4 DEF ObserveMismatch, ResetCrawl, CrawlTypeOK, NoEntry, Entry
    <2>2. fork_point' \in Nat
      <3>1. PICK l \in unseen : fork_point' = SatSub(l.block, 1)
        BY <1>4 DEF ObserveMismatch
      <3>2. l.block \in Nat
        BY DEF CrawlTypeOK, Entry
      <3> QED BY <3>1, <3>2, SatSubType
    <2>3. ReorgTypeOK'
      BY <1>4, <2>2 DEF ObserveMismatch, ReorgTypeOK
    <2>4. InRange' /\ Phases'
      BY <1>4 DEF ObserveMismatch, ResetCrawl, InRange, Phases, chainVars, ChainTypeOK
    <2> QED BY <1>4, <2>1, <2>3, <2>4 DEF ObserveMismatch, Running
  <1>5. CASE ObserveEnd
    <2>1. end_block \in Nat /\ end_block \in 0..Len(chain)
      BY DEF CrawlTypeOK, InRange, ChainTypeOK
    <2>2. StoreTypeOK'
      <3>1. CASE \E l \in logs : l.block = end_block
        BY <1>5, <3>1 DEF ObserveEnd, StoreTypeOK
      <3>2. CASE ~ \E l \in logs : l.block = end_block
        BY <1>1, <1>5, <2>1, <3>2, AnswerTypes DEF ObserveEnd, StoreTypeOK
      <3> QED BY <3>1, <3>2
    <2>3. InRange' /\ Phases'
      BY <1>5 DEF ObserveEnd, InRange, Phases, chainVars, crawlVars
    <2> QED BY <1>5, <2>2, <2>3 DEF ObserveEnd, Running
  <1> QED BY <1>2, <1>3, <1>4, <1>5 DEF Observe


\* The blocks of the range.
LEMMA ProcessControl == ASSUME ControlInv, ProcessBlock PROVE ControlInv'
  <1> USE ControlFrame DEF ControlInv, TypeOK
  <1>1. CASE NextBlock
    <2>1. entry' \in logs
      BY <1>1 DEF NextBlock
    <2>2. CrawlTypeOK'
      BY <1>1, <2>1 DEF NextBlock, CrawlTypeOK
    <2>3. InRange' /\ Phases'
      BY <1>1, <2>1 DEF NextBlock, InRange, Phases, chainVars
    <2> QED BY <1>1, <2>2, <2>3 DEF NextBlock, Running
  <1>2. CASE DeleteLog
    <2>1. Log.key \in Key
      BY <1>2, LogType DEF DeleteLog, InRange, AtLog, Op
    <2>2. delete_queries' \in Seq(Query)
      BY <1>2, <2>1, QueryTypes, AppendProperties DEF DeleteLog, CrawlTypeOK
    <2>3. CrawlTypeOK'
      BY <1>2, <2>2 DEF DeleteLog, CrawlTypeOK
    <2>4. InRange' /\ Phases'
      BY <1>2 DEF DeleteLog, AtLog, InRange, Phases, chainVars, CrawlTypeOK
    <2> QED BY <1>2, <2>3, <2>4 DEF DeleteLog
  <1>3. CASE EmitDoc
    <2>1. /\ Log.key \in Key /\ entry.block \in Nat
          /\ NewDoc \in Doc /\ RowOf(NewDoc) \in Row
      BY <1>3, LogType, NewDocType DEF EmitDoc, InRange, AtLog, Op, CrawlTypeOK, Entry
    <2>2. delete_queries' \in Seq(Query)
      BY <1>3, <2>1, QueryTypes, AppendProperties DEF EmitDoc, CrawlTypeOK
    <2>3. docs' \in Seq(Doc)
      BY <1>3, <2>1, AppendProperties DEF EmitDoc, CrawlTypeOK
    <2>4. CrawlTypeOK'
      BY <1>3, <2>2, <2>3 DEF EmitDoc, CrawlTypeOK
    <2>5. StoreTypeOK'
      BY <1>3, <2>1 DEF EmitDoc, record_emitted_doc, StoreTypeOK
    <2>6. InRange' /\ Phases'
      BY <1>3 DEF EmitDoc, AtLog, InRange, Phases, chainVars, CrawlTypeOK
    <2> QED BY <1>3, <2>4, <2>5, <2>6 DEF EmitDoc
  <1>4. CASE SkipLog
    <2>1. Log.key \in Key
      BY <1>4, LogType DEF SkipLog, InRange, AtLog, Op
    <2>2. SkipQueries \in Seq(Query)
      BY <2>1, QueryTypes DEF SkipQueries
    <2>3. delete_queries' \in Seq(Query)
      BY <1>4, <2>2, ConcatProperties DEF SkipLog, CrawlTypeOK
    <2>4. CrawlTypeOK'
      BY <1>4, <2>3 DEF SkipLog, CrawlTypeOK
    <2>5. InRange' /\ Phases'
      BY <1>4 DEF SkipLog, AtLog, InRange, Phases, chainVars, CrawlTypeOK
    <2> QED BY <1>4, <2>4, <2>5 DEF SkipLog
  <1>5. CASE AllHydrated
    <2>1. InRange' /\ Phases'
      BY <1>5 DEF AllHydrated, InRange, Phases, chainVars, storeVars, crawlVars
    <2> QED BY <1>5, <2>1 DEF AllHydrated, Running
  <1>6. CASE IngestBatch
    <2>1. PICK n \in BatchSizes : Ingest(Batch(n)) /\ docs' = SubSeq(docs, n + 1, Len(docs))
      BY <1>6 DEF IngestBatch
    <2>2. docs \in Seq(Doc) /\ n \in 1..Len(docs)
      BY DEF CrawlTypeOK, BatchSizes
    <2>3. (index \subseteq Doc)'
      BY <2>1, <2>2, ElementOfSeq DEF Ingest, Batch
    <2>4. docs' \in Seq(Doc)
      BY <2>1, <2>2, SubSeqProperties
    <2>5. CrawlTypeOK'
      BY <1>6, <2>4 DEF IngestBatch, CrawlTypeOK
    <2>6. InRange' /\ Phases'
      BY <1>6 DEF IngestBatch, InRange, Phases, chainVars, storeVars
    <2> QED BY <1>6, <2>3, <2>5, <2>6 DEF IngestBatch
  <1>7. CASE AllIngested
    <2>1. InRange' /\ Phases'
      BY <1>7 DEF AllIngested, InRange, Phases, chainVars, storeVars, crawlVars
    <2> QED BY <1>7, <2>1 DEF AllIngested, Running
  <1>8. CASE EnqueueDelete
    <2>1. Head(delete_queries) \in Query /\ Tail(delete_queries) \in Seq(Query)
      BY <1>8, HeadTailProperties DEF EnqueueDelete, CrawlTypeOK
    <2>2. pending_deletes' \in Seq(Query)
      BY <1>8, <2>1, AppendProperties DEF EnqueueDelete, enqueue_delete, StoreTypeOK
    <2>3. StoreTypeOK'
      BY <1>8, <2>2 DEF EnqueueDelete, StoreTypeOK
    <2>4. CrawlTypeOK'
      BY <1>8, <2>1 DEF EnqueueDelete, CrawlTypeOK
    <2>5. InRange' /\ Phases'
      BY <1>8 DEF EnqueueDelete, InRange, Phases, chainVars
    <2> QED BY <1>8, <2>3, <2>4, <2>5 DEF EnqueueDelete
  <1>9. CASE AllEnqueued
    <2>1. InRange' /\ Phases'
      BY <1>9 DEF AllEnqueued, InRange, Phases, chainVars, storeVars, crawlVars
    <2> QED BY <1>9, <2>1 DEF AllEnqueued, Running
  <1>10. CASE CommitBlock
    <2>1. StoreTypeOK'
      BY <1>10 DEF CommitBlock, set_cursor, StoreTypeOK, CrawlTypeOK, Entry
    <2>2. NoEntry \in Entry
      BY DEF NoEntry, Entry
    <2>3. CrawlTypeOK'
      BY <1>10, <2>2 DEF CommitBlock, CrawlTypeOK
    <2>4. InRange' /\ Phases'
      BY <1>10 DEF CommitBlock, InRange, Phases, chainVars
    <2> QED BY <1>10, <2>1, <2>3, <2>4 DEF CommitBlock, Running
  <1> QED BY <1>1, <1>2, <1>3, <1>4, <1>5, <1>6, <1>7, <1>8, <1>9, <1>10 DEF ProcessBlock

\* The end of the range.
LEMMA FinishControl == ASSUME ControlInv, Finish PROVE ControlInv'
  <1> USE ControlFrame DEF ControlInv, TypeOK
  <1>1. CASE FinishRange
    <2>1. StoreTypeOK'
      BY <1>1 DEF FinishRange, set_cursor, StoreTypeOK, CrawlTypeOK
    <2>2. InRange' /\ Phases'
      BY <1>1 DEF FinishRange, InRange, Phases, chainVars, crawlVars
    <2> QED BY <1>1, <2>1, <2>2 DEF FinishRange, Running
  <1>2. CASE PruneBuffer
    <2>1. reorg_buffer' \subseteq reorg_buffer /\ forgotten' \subseteq Nat
      BY <1>2 DEF PruneBuffer, prune_reorg_buffer, KeptBy, StoreTypeOK, BlockId
    <2>2. StoreTypeOK'
      BY <1>2, <2>1, FS_Subset DEF PruneBuffer, StoreTypeOK
    <2>3. InRange' /\ Phases'
      BY <1>2 DEF PruneBuffer, InRange, Phases, chainVars, crawlVars
    <2> QED BY <1>2, <2>2, <2>3 DEF PruneBuffer, Running
  <1>3. CASE PruneEmitted
    <2>1. emitted_dedup' \subseteq Row /\ forgotten' \subseteq Nat
      BY <1>3 DEF PruneEmitted, prune_emitted_before, StoreTypeOK, Row
    <2>2. StoreTypeOK'
      BY <1>3, <2>1 DEF PruneEmitted, StoreTypeOK
    <2> QED BY <1>3, <2>2, RestingControl DEF PruneEmitted
  <1> QED BY <1>1, <1>2, <1>3 DEF Finish

\* The retraction.
LEMMA RetractControl == ASSUME ControlInv, Retract PROVE ControlInv'
  <1> USE ControlFrame DEF ControlInv, TypeOK
  <1>1. CASE TooDeep
    BY <1>1, RestingControl DEF TooDeep, Down
  <1>2. CASE BeginRetract
    <2>1. retracted_keys' \subseteq Key
      BY <1>2 DEF BeginRetract, entity_keys_after, StoreTypeOK, Row
    <2>2. ReorgTypeOK'
      BY <1>2, <2>1 DEF BeginRetract, ReorgTypeOK
    <2>3. InRange' /\ Phases'
      BY <1>2 DEF BeginRetract, InRange, Phases, chainVars, storeVars, crawlVars
    <2> QED BY <1>2, <2>2, <2>3 DEF BeginRetract, Running
  <1>3. CASE EnqueueRetraction
    <2>1. PICK chunk \in SUBSET retracted_keys :
            /\ enqueue_delete(retraction_query(chunk, fork_point))
            /\ retracted_keys' = retracted_keys \ chunk
      BY <1>3 DEF EnqueueRetraction
    <2>2. retraction_query(chunk, fork_point) \in Query
      <3>1. chunk \in SUBSET Key /\ fork_point \in Nat
        BY DEF ReorgTypeOK
      <3> QED BY <3>1, RetractionType
    <2>3. pending_deletes' \in Seq(Query)
      BY <2>1, <2>2, AppendProperties DEF enqueue_delete, StoreTypeOK
    <2>4. StoreTypeOK'
      BY <1>3, <2>3 DEF EnqueueRetraction, StoreTypeOK
    <2>5. ReorgTypeOK'
      BY <1>3, <2>1 DEF EnqueueRetraction, ReorgTypeOK
    <2>6. InRange' /\ Phases'
      BY <1>3 DEF EnqueueRetraction, InRange, Phases, chainVars, crawlVars
    <2> QED BY <1>3, <2>4, <2>5, <2>6 DEF EnqueueRetraction
  <1>4. CASE TruncateBuffer
    <2>1. reorg_buffer' \subseteq reorg_buffer
      BY <1>4 DEF TruncateBuffer, truncate_reorg_buffer_after
    <2>2. StoreTypeOK'
      BY <1>4, <2>1, FS_Subset DEF TruncateBuffer, StoreTypeOK
    <2>3. InRange' /\ Phases'
      BY <1>4 DEF TruncateBuffer, InRange, Phases, chainVars, crawlVars
    <2> QED BY <1>4, <2>2, <2>3 DEF TruncateBuffer, Running
  <1>5. CASE ForgetEmitted
    <2>1. StoreTypeOK'
      BY <1>5 DEF ForgetEmitted, prune_emitted_after, StoreTypeOK
    <2>2. InRange' /\ Phases'
      BY <1>5 DEF ForgetEmitted, InRange, Phases, chainVars, crawlVars
    <2> QED BY <1>5, <2>1, <2>2 DEF ForgetEmitted, Running
  <1>6. CASE RollBack
    <2>1. StoreTypeOK'
      BY <1>6 DEF RollBack, set_cursor, new_cursor, StoreTypeOK, ReorgTypeOK
    <2>2. ReorgTypeOK'
      BY <1>6 DEF RollBack, ResetReorg, ReorgTypeOK, NoSearch
    <2>3. InRange' /\ Phases'
      BY <1>6 DEF RollBack, InRange, Phases, chainVars, crawlVars
    <2> QED BY <1>6, <2>1, <2>2, <2>3 DEF RollBack, Running
  <1> QED BY <1>1, <1>2, <1>3, <1>4, <1>5, <1>6 DEF Retract

\* Hydrations that fail, calls that fail, a crash and the restart.
LEMMA FailureControl == ASSUME ControlInv, Hydration \/ Failure \/ Restart PROVE ControlInv'
  <1> USE ControlFrame DEF ControlInv, TypeOK
  <1>1. CASE HydrationFails
    <2>1. InRange' /\ Phases'
      BY <1>1 DEF HydrationFails, AtLog, InRange, Phases, chainVars, storeVars, crawlVars
    <2> QED BY <1>1, <2>1 DEF HydrationFails, Running
  <1>2. CASE ProbeLive
    BY <1>2, RestingControl DEF ProbeLive
  <1>3. CASE ProbeDead
    <2>1. CrawlTypeOK'
      BY <1>3 DEF ProbeDead, CrawlTypeOK
    <2>2. InRange' /\ Phases'
      BY <1>3 DEF ProbeDead, InRange, Phases, chainVars, storeVars, CrawlTypeOK
    <2> QED BY <1>3, <2>1, <2>2 DEF ProbeDead, Running
  <1>4. CASE DrainFails
    <2>1. (index \subseteq Doc)'
      BY <1>4 DEF DrainFails, DeleteTask
    <2>2. LoopTop \/ Exit("failed")
      BY <1>4 DEF DrainFails
    <2> QED BY <1>4, <2>1, <2>2, RestingControl DEF DrainFails, Down
  <1>5. CASE IngestFails
    <2>1. (index \subseteq Doc)'
      <3>1. CASE UNCHANGED index
        BY <3>1
      <3>2. CASE \E n \in BatchSizes : Ingest(Batch(n))
        <4>1. ASSUME NEW n \in BatchSizes PROVE Batch(n) \subseteq Doc
          <5>1. docs \in Seq(Doc) /\ n \in 1..Len(docs)
            BY DEF CrawlTypeOK, BatchSizes
          <5> QED BY <5>1, ElementOfSeq DEF Batch
        <4> QED BY <3>2, <4>1 DEF Ingest
      <3> QED BY <1>5, <3>1, <3>2 DEF IngestFails
    <2> QED BY <1>5, <2>1, RestingControl DEF IngestFails
  <1>6. CASE RpcError
    BY <1>6, RestingControl DEF RpcError
  <1>7. CASE Crash
    BY <1>7, RestingControl DEF Crash, Down
  <1>8. CASE Restart
    BY <1>8, RestingControl DEF Restart
  <1> QED BY <1>1, <1>2, <1>3, <1>4, <1>5, <1>6, <1>7, <1>8 DEF Hydration, Failure

\* The chain only grows, so the range stays inside it.
LEMMA EnvironmentControl == ASSUME ControlInv, Environment PROVE ControlInv'
  <1> USE ControlFrame DEF ControlInv, TypeOK
  <1>1. ChainTypeOK' /\ Len(chain') >= Len(chain)
    BY ChainStep DEF Environment
  <1>2. InRange' /\ Phases'
    BY <1>1 DEF Environment, InRange, Phases, storeVars, crawlVars, ChainTypeOK, CrawlTypeOK
  <1> QED BY <1>1, <1>2 DEF Environment

\* Every step preserves it.
LEMMA ControlStep == ControlInv /\ [Next]_vars => ControlInv'
  <1> SUFFICES ASSUME ControlInv, [Next]_vars PROVE ControlInv'
    OBVIOUS
  <1>1. CASE Work
    BY <1>1, DrainControl, IterationControl, CheckControl, ObserveControl, ProcessControl,
       FinishControl, RetractControl DEF Work
  <1>2. CASE Hydration \/ Failure \/ Restart
    BY <1>2, FailureControl
  <1>3. CASE Environment
    BY <1>3, EnvironmentControl
  <1>4. CASE UNCHANGED vars
    <2>1. InRange' /\ Phases'
      BY <1>4 DEF vars, chainVars, storeVars, crawlVars, ControlInv, InRange, Phases
    <2> QED BY <1>4, <2>1, ControlFrame DEF vars, ControlInv, TypeOK
  <1> QED BY <1>1, <1>2, <1>3, <1>4 DEF Next

(***************************************************************************)
(* The control flow keeps its invariant: types, the range inside the chain *)
(* even while reorgs replace it, the log index inside the block, and which *)
(* of run_iteration's locals are alive in which phase.                     *)
(***************************************************************************)
THEOREM ControlCorrect == Spec => []ControlInv
  BY ControlInit, ControlStep, PTL DEF Spec

(***************************************************************************)
(* Every variable of the bridge has its type: in particular the cursor is  *)
(* a block number once it is set, and the buffer is finite.                *)
(***************************************************************************)
THEOREM TypeCorrect == Spec => []TypeOK
  <1>1. ControlInv => TypeOK
    BY DEF ControlInv
  <1> QED BY <1>1, ControlCorrect, PTL
=============================================================================
