------------------------------ MODULE IndexProofs ------------------------------
(***************************************************************************)
(* What the store knows of the index, for every value of the constants: no *)
(* document outlives the evidence that a later reorg check needs to find   *)
(* it orphaned.                                                            *)
(***************************************************************************)
EXTENDS ControlProofs

\* The store loses nothing that the invariant relies on.
StoreKept ==
  /\ reorg_buffer \subseteq reorg_buffer'
  /\ emitted_dedup \subseteq emitted_dedup'
  /\ forgotten \subseteq forgotten'
  /\ \A d \in Doc : Covered(d) => Covered(d)'

-----------------------------------------------------------------------------
\* A delete on record stays on record when another one is queued behind it ...
LEMMA CoveredKept ==
  ASSUME StoreTypeOK, NEW q \in Query, pending_deletes' = Append(pending_deletes, q),
         NEW d \in Doc, Covered(d)
  PROVE  Covered(d)'
  <1>1. PICK i \in 1..Len(pending_deletes) : QueryMatches(pending_deletes[i], d)
    BY DEF Covered
  <1>2. /\ Len(pending_deletes') = Len(pending_deletes) + 1
        /\ i \in 1..Len(pending_deletes') /\ pending_deletes'[i] = pending_deletes[i]
    BY AppendProperties DEF StoreTypeOK
  <1> QED BY <1>1, <1>2 DEF Covered, QueryMatches

\* ... which covers the documents it matches.
LEMMA CoveredNow ==
  ASSUME StoreTypeOK, NEW q \in Query, pending_deletes' = Append(pending_deletes, q),
         NEW d \in Doc, QueryMatches(q, d)
  PROVE  Covered(d)'
  <1>1. /\ Len(pending_deletes') = Len(pending_deletes) + 1
        /\ pending_deletes'[Len(pending_deletes')] = q
    BY AppendProperties DEF StoreTypeOK
  <1>2. Len(pending_deletes') \in 1..Len(pending_deletes')
    BY <1>1, AppendProperties DEF StoreTypeOK
  <1> QED BY <1>1, <1>2 DEF Covered, QueryMatches

\* When the oldest delete is marked, the others stay on record.
LEMMA CoveredAfterMark ==
  ASSUME StoreTypeOK, pending_deletes # <<>>, pending_deletes' = Tail(pending_deletes),
         NEW d \in Doc, Covered(d), ~QueryMatches(Head(pending_deletes), d)
  PROVE  Covered(d)'
  <1>1. PICK i \in 1..Len(pending_deletes) : QueryMatches(pending_deletes[i], d)
    BY DEF Covered
  <1>2. i # 1 /\ i - 1 \in 1..Len(pending_deletes')
    BY <1>1 DEF StoreTypeOK
  <1>3. pending_deletes'[i - 1] = pending_deletes[i]
    BY <1>2 DEF StoreTypeOK
  <1> QED BY <1>1, <1>2, <1>3 DEF Covered, QueryMatches

\* A step that leaves the store alone loses nothing.
LEMMA StoreUnchanged == ASSUME UNCHANGED storeVars PROVE StoreKept
  BY DEF storeVars, StoreKept, Covered, QueryMatches

\* Where nothing is lost and no document is added, what the store knows of
\* the index is kept.
LEMMA IndexKept ==
  ASSUME IInv, StoreKept, index' \subseteq index
  PROVE  OrphanWitness' /\ Recorded'
  <1>1. index \subseteq Doc
    BY DEF IInv, ControlInv, TypeOK
  <1>2. OrphanWitness'
    BY <1>1 DEF StoreKept, IInv, Evidence, OrphanWitness, Witnessed
  <1>3. Recorded'
    BY <1>1 DEF StoreKept, IInv, Evidence, Recorded, Emitted
  <1> QED BY <1>2, <1>3

\* The other parts say nothing at the top of the loop or after run().
LEMMA RestingEvidence ==
  ASSUME LoopTop \/ \E how \in Down : Exit(how)
  PROVE  Observed' /\ MarkedIsDone' /\ Retracting'
  <1>1. logs' = {} /\ docs' = <<>> /\ pc' \in {"drain"} \cup Down
    BY DEF LoopTop, Exit, ResetCrawl
  <1> QED BY <1>1 DEF Observed, MarkedIsDone, Retracting, Down

LEMMA EvidenceInit == Init => Evidence
  <1> SUFFICES ASSUME Init PROVE Evidence
    OBVIOUS
  <1>1. index = {} /\ logs = {} /\ docs = <<>> /\ pc = "drain"
    BY DEF Init, QuickwitInit
  <1> QED BY <1>1 DEF Evidence, Observed, OrphanWitness, Recorded, MarkedIsDone, Retracting

-----------------------------------------------------------------------------
\* What the steps that leave the store, the index, the logs and the documents
\* alone keep.
LEMMA EvidenceFrame ==
  ASSUME IInv, UNCHANGED storeVars, UNCHANGED index
  PROVE  /\ OrphanWitness' /\ Recorded'
         /\ logs' = logs /\ unseen' = unseen /\ docs' = docs => Observed'
  <1>1. OrphanWitness' /\ Recorded'
    BY StoreUnchanged, IndexKept
  <1>2. ASSUME logs' = logs, unseen' = unseen, docs' = docs PROVE Observed'
    BY <1>2 DEF storeVars, IInv, Evidence, Observed, Witnessed, Emitted
  <1> QED BY <1>1, <1>2

\* Queries that are posted, or of which nothing is known, only remove documents.
LEMMA DrainEvidence == ASSUME IInv, Drain \/ DrainFails PROVE Evidence'
  <1> USE DEF Evidence
  <1>1. CASE DrainDone
    <2>1. OrphanWitness' /\ Recorded'
      BY <1>1, EvidenceFrame DEF DrainDone
    <2>2. CASE ret = "loop"
      BY <1>1, <2>1, <2>2, RestingEvidence DEF DrainDone
    <2>3. CASE ret # "loop"
      <3>1. pc' \in {"head", "commit"}
        BY <1>1, <2>3 DEF DrainDone, IInv, ControlInv, TypeOK
      <3>2. Observed'
        BY <1>1, <2>3, EvidenceFrame DEF DrainDone, crawlVars
      <3> QED BY <2>1, <3>1, <3>2 DEF MarkedIsDone, Retracting
    <2> QED BY <2>2, <2>3
  <1>2. CASE DrainPost
    <2>1. index' \subseteq index
      BY <1>2 DEF DrainPost, DeleteTask
    <2>2. OrphanWitness' /\ Recorded'
      BY <1>2, <2>1, StoreUnchanged, IndexKept DEF DrainPost
    <2>3. Observed'
      BY <1>2 DEF DrainPost, storeVars, crawlVars, IInv, Observed, Witnessed, Emitted
    <2>4. MarkedIsDone'
      BY <1>2 DEF DrainPost, DeleteTask, MarkedIsDone, storeVars, QueryMatches
    <2>5. Retracting'
      BY <1>2 DEF DrainPost, Retracting
    <2> QED BY <2>2, <2>3, <2>4, <2>5
  <1>3. CASE MarkSubmitted
    <2>1. /\ pending_deletes # <<>> /\ pending_deletes' = Tail(pending_deletes)
          /\ index \subseteq Doc /\ StoreTypeOK
          /\ \A d \in index : ~QueryMatches(Head(pending_deletes), d)
      BY <1>3 DEF MarkSubmitted, mark_delete_submitted, IInv, ControlInv, TypeOK, InRange, MarkedIsDone
    <2>2. \A d \in index : Covered(d) => Covered(d)'
      BY <2>1, CoveredAfterMark
    <2>3. OrphanWitness' /\ Recorded'
      BY <1>3, <2>2 DEF MarkSubmitted, IInv, OrphanWitness, Recorded, Witnessed, Emitted
    <2>4. Observed'
      BY <1>3 DEF MarkSubmitted, crawlVars, IInv, Observed, Witnessed, Emitted
    <2>5. MarkedIsDone' /\ Retracting'
      BY <1>3 DEF MarkSubmitted, MarkedIsDone, Retracting
    <2> QED BY <2>3, <2>4, <2>5
  <1>4. CASE DrainFails
    <2>1. index' \subseteq index
      BY <1>4 DEF DrainFails, DeleteTask
    <2>2. OrphanWitness' /\ Recorded'
      BY <1>4, <2>1, StoreUnchanged, IndexKept DEF DrainFails
    <2>3. LoopTop \/ Exit("failed")
      BY <1>4 DEF DrainFails
    <2> QED BY <2>2, <2>3, RestingEvidence DEF Down
  <1> QED BY <1>1, <1>2, <1>3, <1>4 DEF Drain

\* The steps that only read, or only move the cursor.
LEMMA ReadEvidence ==
  ASSUME IInv, Idle \/ BeginIteration \/ CheckBuffer PROVE Evidence'
  <1> USE DEF Evidence
  <1>1. ASSUME UNCHANGED <<reorg_buffer, emitted_dedup, pending_deletes, forgotten, index>>
        PROVE  OrphanWitness' /\ Recorded'
    BY <1>1, IndexKept DEF StoreKept, Covered, QueryMatches
  <1>2. CASE Idle
    BY <1>1, <1>2, RestingEvidence DEF Idle
  <1>3. CASE BeginIteration
    <2>1. pc' \in {"logs", "check"}
      BY <1>3 DEF BeginIteration
    <2>2. Observed'
      BY <1>3 DEF BeginIteration, IInv, Observed, Witnessed, Emitted
    <2> QED BY <1>1, <1>3, <2>1, <2>2 DEF BeginIteration, MarkedIsDone, Retracting
  <1>4. CASE CheckMatch
    <2>1. pc' \in {"logs", "check"}
      BY <1>4 DEF CheckMatch
    <2> QED BY <1>4, <2>1, EvidenceFrame DEF CheckMatch, crawlVars, MarkedIsDone, Retracting
  <1>5. CASE CheckMismatch
    <2>1. logs' = {} /\ docs' = <<>> /\ pc' = "find"
      BY <1>5 DEF CheckMismatch, ResetCrawl
    <2>2. Observed'
      BY <2>1 DEF Observed
    <2> QED BY <1>5, <2>1, <2>2, EvidenceFrame DEF CheckMismatch, MarkedIsDone, Retracting
  <1>6. CASE Probe
    BY <1>6, EvidenceFrame DEF Probe, crawlVars, MarkedIsDone, Retracting
  <1>7. CASE ForkFound
    BY <1>7, EvidenceFrame DEF ForkFound, crawlVars, MarkedIsDone, Retracting
  <1> QED BY <1>2, <1>3, <1>4, <1>5, <1>6, <1>7 DEF CheckBuffer

\* A log counts as seen once its hash is in the buffer.
LEMMA ObserveEvidence == ASSUME IInv, Observe PROVE Evidence'
  <1> USE DEF Evidence
  <1>1. ASSUME reorg_buffer \subseteq reorg_buffer',
               UNCHANGED <<emitted_dedup, pending_deletes, forgotten, index>>
        PROVE  OrphanWitness' /\ Recorded'
    BY <1>1, IndexKept DEF StoreKept, Covered, QueryMatches
  <1>2. CASE FetchLogs
    <2>1. docs' = <<>> /\ logs' = unseen' /\ pc' = "observe"
      BY <1>2 DEF FetchLogs, IInv, ControlInv, Phases
    <2>2. Observed'
      BY <2>1 DEF Observed
    <2> QED BY <1>2, <2>1, <2>2, EvidenceFrame DEF FetchLogs, MarkedIsDone, Retracting
  <1>3. CASE ObserveLog
    <2>1. PICK l \in unseen : /\ ~Contradicts(l.block, l.hash)
                              /\ observe_block(l.block, l.hash)
                              /\ unseen' = unseen \ {l}
      BY <1>3 DEF ObserveLog
    <2>2. reorg_buffer \subseteq reorg_buffer'
      BY <2>1 DEF observe_block
    <2>3. IdOf(l) \in reorg_buffer'
      <3>1. CASE \E e \in reorg_buffer : e.block = l.block
        <4>1. PICK e \in reorg_buffer : e.block = l.block
          BY <3>1
        <4>2. e.hash = l.hash
          BY <2>1, <4>1 DEF Contradicts
        <4>3. e \in BlockId
          BY DEF IInv, ControlInv, TypeOK, StoreTypeOK
        <4>4. e = IdOf(l)
          BY <4>1, <4>2, <4>3 DEF BlockId, IdOf
        <4> QED BY <2>2, <4>4
      <3>2. CASE ~ \E e \in reorg_buffer : e.block = l.block
        BY <2>1, <3>2 DEF observe_block, IdOf
      <3> QED BY <3>1, <3>2
    <2>4. Observed'
      BY <1>3, <2>1, <2>2, <2>3 DEF ObserveLog, IInv, Observed, Witnessed, Emitted
    <2> QED BY <1>1, <1>3, <2>2, <2>4 DEF ObserveLog, MarkedIsDone, Retracting
  <1>4. CASE ObserveMismatch
    <2>1. logs' = {} /\ docs' = <<>> /\ pc' = "retract"
      BY <1>4 DEF ObserveMismatch, ResetCrawl
    <2>2. Observed'
      BY <2>1 DEF Observed
    <2> QED BY <1>4, <2>1, <2>2, EvidenceFrame DEF ObserveMismatch, MarkedIsDone, Retracting
  <1>5. CASE ObserveEnd
    <2>1. reorg_buffer \subseteq reorg_buffer'
      BY <1>5 DEF ObserveEnd, observe_block
    <2>2. Observed'
      BY <1>5, <2>1 DEF ObserveEnd, crawlVars, IInv, Observed, Witnessed, Emitted
    <2> QED BY <1>1, <1>5, <2>1, <2>2 DEF ObserveEnd, MarkedIsDone, Retracting
  <1> QED BY <1>2, <1>3, <1>4, <1>5 DEF Observe

\* A document is built from a log that was seen, and recorded.
LEMMA EmitEvidence == ASSUME IInv, EmitDoc PROVE Observed'
  <1>1. pc = "hydrate" /\ unseen = {} /\ entry \in logs
    BY DEF EmitDoc, AtLog, IInv, ControlInv, Phases
  <1>2. reorg_buffer' = reorg_buffer /\ emitted_dedup' = emitted_dedup \cup {RowOf(NewDoc)}
    BY DEF EmitDoc, record_emitted_doc
  <1>3. IdOf(entry) \in reorg_buffer
    BY <1>1 DEF IInv, Evidence, Observed
  <1>4. IdOf(NewDoc) = IdOf(entry)
    BY DEF IdOf, NewDoc
  <1>5. ASSUME NEW i \in 1..Len(docs')
        PROVE  IdOf(docs'[i]) \in reorg_buffer' /\ RowOf(docs'[i]) \in emitted_dedup'
    <2>1. docs \in Seq(Doc) /\ NewDoc \in Doc
      BY <1>1, NewDocType DEF EmitDoc, IInv, ControlInv, TypeOK, CrawlTypeOK, InRange
    <2>2. docs' = Append(docs, NewDoc)
      BY DEF EmitDoc
    <2>3. CASE i \in 1..Len(docs)
      <3>1. docs'[i] = docs[i]
        BY <2>1, <2>2, <2>3, AppendProperties
      <3>2. Witnessed(docs[i]) /\ Emitted(docs[i])
        BY <2>3 DEF IInv, Evidence, Observed
      <3> QED BY <1>2, <3>1, <3>2 DEF Witnessed, Emitted
    <2>4. CASE i = Len(docs) + 1
      <3>1. docs'[i] = NewDoc
        BY <2>1, <2>2, <2>4, AppendProperties
      <3> QED BY <1>2, <1>3, <1>4, <3>1
    <2>5. Len(docs') = Len(docs) + 1 /\ Len(docs) \in Nat
      BY <2>1, <2>2, AppendProperties
    <2> QED BY <2>3, <2>4, <2>5
  <1>6. logs' \ unseen' = logs
    BY <1>1 DEF EmitDoc
  <1>7. \A l \in logs : IdOf(l) \in reorg_buffer'
    BY <1>1, <1>2 DEF IInv, Evidence, Observed
  <1> QED BY <1>5, <1>6, <1>7 DEF Observed, Witnessed, Emitted

\* What is ingested was seen and recorded.
LEMMA IngestEvidence ==
  ASSUME IInv, UNCHANGED storeVars, NEW n \in BatchSizes, Ingest(Batch(n))
  PROVE  OrphanWitness' /\ Recorded'
  <1>1. \A d \in Batch(n) : Witnessed(d) /\ Emitted(d)
    <2>1. n \in 1..Len(docs) /\ docs \in Seq(Doc)
      BY DEF BatchSizes, IInv, ControlInv, TypeOK, CrawlTypeOK
    <2>2. \A i \in 1..Len(docs) : Witnessed(docs[i]) /\ Emitted(docs[i])
      BY DEF IInv, Evidence, Observed
    <2> QED BY <2>1, <2>2 DEF Batch
  <1>2. \A d \in Doc : Covered(d) => Covered(d)'
    BY StoreUnchanged DEF StoreKept
  <1>3. index' = index \cup Batch(n) /\ index \subseteq Doc
    BY DEF Ingest, IInv, ControlInv, TypeOK
  <1> QED BY <1>1, <1>2, <1>3 DEF storeVars, IInv, Evidence, OrphanWitness, Recorded,
                                   Witnessed, Emitted

\* The blocks of the range.
LEMMA ProcessEvidence == ASSUME IInv, ProcessBlock PROVE Evidence'
  <1> USE DEF Evidence
  <1>1. CASE NextBlock
    BY <1>1, EvidenceFrame DEF NextBlock, MarkedIsDone, Retracting
  <1>2. CASE DeleteLog
    BY <1>2, EvidenceFrame DEF DeleteLog, AtLog, MarkedIsDone, Retracting
  <1>3. CASE EmitDoc
    <2>1. StoreKept
      BY <1>3 DEF EmitDoc, record_emitted_doc, StoreKept, Covered, QueryMatches
    <2> QED BY <1>3, <2>1, EmitEvidence, IndexKept DEF EmitDoc, AtLog, MarkedIsDone, Retracting
  <1>4. CASE SkipLog
    BY <1>4, EvidenceFrame DEF SkipLog, AtLog, MarkedIsDone, Retracting
  <1>5. CASE AllHydrated
    BY <1>5, EvidenceFrame DEF AllHydrated, crawlVars, MarkedIsDone, Retracting
  <1>6. CASE IngestBatch
    <2>1. PICK n \in BatchSizes : Ingest(Batch(n)) /\ docs' = SubSeq(docs, n + 1, Len(docs))
      BY <1>6 DEF IngestBatch
    <2>2. OrphanWitness' /\ Recorded'
      BY <1>6, <2>1, IngestEvidence DEF IngestBatch
    <2>3. \A i \in 1..Len(docs') : \E j \in 1..Len(docs) : docs'[i] = docs[j]
      BY <2>1, SubSeqProperties DEF BatchSizes, IInv, ControlInv, TypeOK, CrawlTypeOK
    <2>4. Observed'
      BY <1>6, <2>3 DEF IngestBatch, storeVars, IInv, Observed, Witnessed, Emitted
    <2> QED BY <1>6, <2>2, <2>4 DEF IngestBatch, MarkedIsDone, Retracting
  <1>7. CASE AllIngested
    BY <1>7, EvidenceFrame DEF AllIngested, crawlVars, MarkedIsDone, Retracting
  <1>8. CASE EnqueueDelete
    <2>1. Head(delete_queries) \in Query /\ StoreTypeOK
      BY <1>8, HeadTailProperties DEF EnqueueDelete, IInv, ControlInv, TypeOK, CrawlTypeOK
    <2>2. StoreKept
      BY <1>8, <2>1, CoveredKept DEF EnqueueDelete, enqueue_delete, StoreKept
    <2>3. Observed'
      BY <1>8 DEF EnqueueDelete, IInv, Observed, Witnessed, Emitted
    <2> QED BY <1>8, <2>2, <2>3, IndexKept DEF EnqueueDelete, MarkedIsDone, Retracting
  <1>9. CASE AllEnqueued
    BY <1>9, EvidenceFrame DEF AllEnqueued, crawlVars, MarkedIsDone, Retracting
  <1>10. CASE CommitBlock
    <2>1. StoreKept
      BY <1>10 DEF CommitBlock, StoreKept, Covered, QueryMatches
    <2>2. Observed'
      BY <1>10 DEF CommitBlock, IInv, Observed, Witnessed, Emitted
    <2> QED BY <1>10, <2>1, <2>2, IndexKept DEF CommitBlock, MarkedIsDone, Retracting
  <1> QED BY <1>1, <1>2, <1>3, <1>4, <1>5, <1>6, <1>7, <1>8, <1>9, <1>10 DEF ProcessBlock

\* What a prune drops is forgotten.
LEMMA FinishEvidence == ASSUME IInv, Finish PROVE Evidence'
  <1> USE DEF Evidence
  <1>1. CASE FinishRange
    <2>1. StoreKept
      BY <1>1 DEF FinishRange, StoreKept, Covered, QueryMatches
    <2>2. Observed'
      BY <1>1 DEF FinishRange, crawlVars, IInv, Observed, Witnessed, Emitted
    <2> QED BY <1>1, <2>1, <2>2, IndexKept DEF FinishRange, MarkedIsDone, Retracting
  <1>2. CASE PruneBuffer
    <2>1. logs' = {} /\ docs' = <<>>
      BY <1>2 DEF PruneBuffer, crawlVars, IInv, ControlInv, Phases
    <2>2. Observed'
      BY <2>1 DEF Observed
    <2>3. \A d \in index : Witnessed(d) => Witnessed(d)' \/ d.block \in forgotten'
      BY <1>2 DEF PruneBuffer, prune_reorg_buffer, Witnessed, IdOf
    <2>4. forgotten \subseteq forgotten'
      BY <1>2 DEF PruneBuffer, prune_reorg_buffer
    <2>5. \A d \in index : Covered(d) => Covered(d)'
      BY <1>2 DEF PruneBuffer, Covered, QueryMatches
    <2>6. OrphanWitness'
      BY <1>2, <2>3, <2>4, <2>5 DEF PruneBuffer, IInv, OrphanWitness
    <2>7. Recorded'
      BY <1>2, <2>4, <2>5 DEF PruneBuffer, IInv, Recorded, Emitted
    <2> QED BY <1>2, <2>2, <2>6, <2>7 DEF PruneBuffer, MarkedIsDone, Retracting
  <1>3. CASE PruneEmitted
    <2>1. \A d \in index : Emitted(d) => Emitted(d)' \/ d.block \in forgotten'
      <3>1. \A d \in index : RowOf(d).block = d.block
        BY DEF RowOf
      <3>2. \A d \in index : RowOf(d) \in emitted_dedup =>
              RowOf(d) \in emitted_dedup' \/ RowOf(d).block \in forgotten'
        <4>1. \A r \in emitted_dedup : r.block \in Nat
          BY DEF IInv, ControlInv, TypeOK, StoreTypeOK, Row
        <4>2. SatSub(end_block, DedupWindow) \in Nat
          BY BridgeAssumption, SatSubType DEF IInv, ControlInv, TypeOK, CrawlTypeOK
        <4> QED BY <1>3, <4>1, <4>2 DEF PruneEmitted, prune_emitted_before
      <3> QED BY <3>1, <3>2 DEF Emitted
    <2>2. forgotten \subseteq forgotten'
      BY <1>3 DEF PruneEmitted, prune_emitted_before
    <2>3. \A d \in index : Covered(d) => Covered(d)'
      BY <1>3 DEF PruneEmitted, Covered, QueryMatches
    <2>4. OrphanWitness'
      BY <1>3, <2>2, <2>3 DEF PruneEmitted, IInv, OrphanWitness, Witnessed
    <2>5. Recorded'
      BY <1>3, <2>1, <2>2, <2>3 DEF PruneEmitted, IInv, Recorded
    <2> QED BY <1>3, <2>4, <2>5, RestingEvidence DEF PruneEmitted
  <1> QED BY <1>1, <1>2, <1>3 DEF Finish

\* A retraction puts the deletes on record before it drops what it knows.
LEMMA RetractEvidence == ASSUME IInv, Retract PROVE Evidence'
  <1> USE DEF Evidence
  <1>0. ASSUME UNCHANGED crawlVars, UNCHANGED <<reorg_buffer, emitted_dedup>> PROVE Observed'
    BY <1>0 DEF crawlVars, IInv, Observed, Witnessed, Emitted
  <1>1. CASE TooDeep
    BY <1>1, EvidenceFrame, RestingEvidence DEF TooDeep, Down
  <1>2. CASE BeginRetract
    <2>1. \A d \in index : d.block > fork_point /\ Emitted(d) => d.key \in retracted_keys'
      BY <1>2 DEF BeginRetract, entity_keys_after, Emitted, RowOf
    <2>2. \A d \in index : Covered(d) => Covered(d)'
      BY <1>2 DEF BeginRetract, storeVars, Covered, QueryMatches
    <2>3. Retracting'
      BY <1>2, <2>1, <2>2 DEF BeginRetract, storeVars, IInv, Recorded, Retracting
    <2> QED BY <1>2, <2>3, EvidenceFrame DEF BeginRetract, crawlVars, MarkedIsDone
  <1>3. CASE EnqueueRetraction
    <2>1. PICK chunk \in SUBSET retracted_keys :
            /\ pending_deletes' = Append(pending_deletes, retraction_query(chunk, fork_point))
            /\ retracted_keys' = retracted_keys \ chunk
      BY <1>3 DEF EnqueueRetraction, enqueue_delete
    <2>2. StoreTypeOK /\ index \subseteq Doc /\ chunk \in SUBSET Key /\ fork_point \in Nat
      BY DEF IInv, ControlInv, TypeOK, ReorgTypeOK
    <2>3. retraction_query(chunk, fork_point) \in Query
      BY <2>2, RetractionType
    <2>4. StoreKept
      BY <1>3, <2>1, <2>2, <2>3, CoveredKept DEF EnqueueRetraction, StoreKept
    <2>5. \A d \in index : d.block > fork_point /\ d.key \in chunk => Covered(d)'
      <3>1. ASSUME NEW d \in index, d.block > fork_point, d.key \in chunk
            PROVE  QueryMatches(retraction_query(chunk, fork_point), d)
        BY <3>1 DEF QueryMatches, retraction_query
      <3> QED BY <2>1, <2>2, <2>3, <3>1, CoveredNow
    <2>6. Retracting'
      BY <1>3, <2>1, <2>2, <2>4, <2>5 DEF EnqueueRetraction, StoreKept, IInv, Retracting
    <2> QED BY <1>0, <1>3, <2>4, <2>6, IndexKept DEF EnqueueRetraction, MarkedIsDone
  <1>4. CASE TruncateBuffer
    <2>1. \A d \in index : Covered(d) => Covered(d)'
      BY <1>4 DEF TruncateBuffer, Covered, QueryMatches
    <2>2. \A d \in index : d.block > fork_point => d.block \in forgotten \/ Covered(d)
      BY <1>4 DEF TruncateBuffer, IInv, Retracting
    <2>3. \A d \in index : d.block <= fork_point /\ Witnessed(d) => Witnessed(d)'
      BY <1>4 DEF TruncateBuffer, truncate_reorg_buffer_after, Witnessed, IdOf
    <2>4. \A d \in index : d.block <= fork_point \/ d.block > fork_point
      BY DEF IInv, ControlInv, TypeOK, ReorgTypeOK, Doc
    <2>5. OrphanWitness'
      BY <1>4, <2>1, <2>2, <2>3, <2>4 DEF TruncateBuffer, IInv, OrphanWitness
    <2>6. Recorded'
      BY <1>4, <2>1 DEF TruncateBuffer, IInv, Recorded, Emitted
    <2>7. Retracting'
      BY <1>4, <2>1, <2>2 DEF TruncateBuffer, reorgVars, Retracting
    <2>8. logs' = {} /\ docs' = <<>>
      BY <1>4 DEF TruncateBuffer, crawlVars, IInv, ControlInv, Phases
    <2>9. Observed' /\ MarkedIsDone'
      BY <1>4, <2>8 DEF TruncateBuffer, Observed, MarkedIsDone
    <2> QED BY <2>5, <2>6, <2>7, <2>9
  <1>5. CASE ForgetEmitted
    <2>1. \A d \in index : Covered(d) => Covered(d)'
      BY <1>5 DEF ForgetEmitted, Covered, QueryMatches
    <2>2. \A d \in index : d.block > fork_point => d.block \in forgotten \/ Covered(d)
      BY <1>5 DEF ForgetEmitted, IInv, Retracting
    <2>3. \A d \in index : d.block <= fork_point /\ Emitted(d) => Emitted(d)'
      BY <1>5 DEF ForgetEmitted, prune_emitted_after, Emitted, RowOf
    <2>4. \A d \in index : d.block <= fork_point \/ d.block > fork_point
      BY DEF IInv, ControlInv, TypeOK, ReorgTypeOK, Doc
    <2>5. OrphanWitness'
      BY <1>5, <2>1 DEF ForgetEmitted, IInv, OrphanWitness, Witnessed
    <2>6. Recorded'
      BY <1>5, <2>1, <2>2, <2>3, <2>4 DEF ForgetEmitted, IInv, Recorded
    <2>7. logs' = {} /\ docs' = <<>>
      BY <1>5 DEF ForgetEmitted, crawlVars, IInv, ControlInv, Phases
    <2>8. Observed' /\ MarkedIsDone' /\ Retracting'
      BY <1>5, <2>7 DEF ForgetEmitted, Observed, MarkedIsDone, Retracting
    <2> QED BY <2>5, <2>6, <2>8
  <1>6. CASE RollBack
    <2>1. StoreKept
      BY <1>6 DEF RollBack, StoreKept, Covered, QueryMatches
    <2> QED BY <1>0, <1>6, <2>1, IndexKept DEF RollBack, MarkedIsDone, Retracting
  <1> QED BY <1>1, <1>2, <1>3, <1>4, <1>5, <1>6 DEF Retract

\* A failure forgets the locals and keeps the store.
LEMMA FailureEvidence ==
  ASSUME IInv, Hydration \/ IngestFails \/ RpcError \/ Crash \/ Restart PROVE Evidence'
  <1> USE DEF Evidence
  <1>1. CASE HydrationFails
    BY <1>1, EvidenceFrame DEF HydrationFails, crawlVars, MarkedIsDone, Retracting
  <1>2. CASE ProbeLive
    BY <1>2, EvidenceFrame, RestingEvidence DEF ProbeLive
  <1>3. CASE ProbeDead
    BY <1>3, EvidenceFrame DEF ProbeDead, MarkedIsDone, Retracting
  <1>4. CASE IngestFails
    <2>1. OrphanWitness' /\ Recorded'
      BY <1>4, IngestEvidence, EvidenceFrame DEF IngestFails
    <2> QED BY <1>4, <2>1, RestingEvidence DEF IngestFails
  <1>5. CASE RpcError
    BY <1>5, EvidenceFrame, RestingEvidence DEF RpcError
  <1>6. CASE Crash
    BY <1>6, EvidenceFrame, RestingEvidence DEF Crash, Down
  <1>7. CASE Restart
    BY <1>7, EvidenceFrame, RestingEvidence DEF Restart
  <1> QED BY <1>1, <1>2, <1>3, <1>4, <1>5, <1>6, <1>7 DEF Hydration

\* Nothing in the invariant but the range depends on the chain.
LEMMA StutterEvidence == ASSUME IInv, Environment \/ UNCHANGED vars PROVE Evidence'
  <1>1. UNCHANGED <<storeVars, index, pc, crawlVars, reorgVars>>
    BY DEF Environment, vars
  <1>2. OrphanWitness' /\ Recorded' /\ Observed'
    BY <1>1, EvidenceFrame DEF crawlVars
  <1>3. MarkedIsDone'
    BY <1>1 DEF storeVars, IInv, Evidence, MarkedIsDone, QueryMatches
  <1>4. Retracting'
    BY <1>1 DEF storeVars, reorgVars, IInv, Evidence, Retracting, Covered, QueryMatches
  <1> QED BY <1>2, <1>3, <1>4 DEF Evidence

\* IInv is inductive.
LEMMA EvidenceStep == IInv /\ [Next]_vars => IInv'
  <1> SUFFICES ASSUME IInv, [Next]_vars PROVE IInv'
    OBVIOUS
  <1>1. ControlInv'
    BY ControlStep DEF IInv
  <1>2. Evidence'
    <2>1. CASE Work
      BY <2>1, DrainEvidence, ReadEvidence, ObserveEvidence, ProcessEvidence, FinishEvidence,
         RetractEvidence DEF Work
    <2>2. CASE Hydration \/ Failure \/ Restart
      BY <2>2, DrainEvidence, FailureEvidence DEF Failure
    <2>3. CASE Environment \/ UNCHANGED vars
      BY <2>3, StutterEvidence
    <2> QED BY <2>1, <2>2, <2>3 DEF Next
  <1> QED BY <1>1, <1>2 DEF IInv

-----------------------------------------------------------------------------
(***************************************************************************)
(* The inductive invariant holds: in particular a retraction is complete   *)
(* on record before anything is dropped, a delete is marked after it took  *)
(* effect, and a document is ingested after its block's hash and its own   *)
(* row are durable.                                                        *)
(***************************************************************************)
THEOREM Inductive == Spec => []IInv
  <1>1. Init => IInv
    BY ControlInit, EvidenceInit DEF IInv
  <1> QED BY <1>1, EvidenceStep, PTL DEF Spec

(***************************************************************************)
(* However calls fail, the process dies and the chain reorganises, every   *)
(* document in the index, but for those the pruning windows dropped, can   *)
(* still be found orphaned or has a delete on record: retract (reorg.rs)   *)
(* and process_block (control_loop.rs) order their writes right.           *)
(***************************************************************************)
THEOREM WitnessKept == Spec => []OrphanWitness
  <1>1. IInv => OrphanWitness
    BY DEF IInv, Evidence
  <1> QED BY <1>1, Inductive, PTL

(***************************************************************************)
(* So whenever nothing is in flight and the buffered hashes agree with the *)
(* chain, the index holds no orphaned document of a remembered block.      *)
(***************************************************************************)
THEOREM OrphansRetracted == Spec => []NoOrphans
  <1>1. IInv => NoOrphans
    <2> SUFFICES ASSUME IInv, Quiet, BufferMatchesChain, NEW d \in index
                 PROVE  d.block \in forgotten \/ d.hash = BlockHash(d.block)
      BY DEF NoOrphans
    <2>1. ~Covered(d)
      BY DEF Quiet, Covered
    <2>2. CASE Witnessed(d)
      BY <2>2 DEF Witnessed, IdOf, BufferMatchesChain, Matches
    <2> QED BY <2>1, <2>2 DEF IInv, Evidence, OrphanWitness
  <1> QED BY <1>1, Inductive, PTL
=============================================================================
