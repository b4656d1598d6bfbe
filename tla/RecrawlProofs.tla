---------------------------- MODULE RecrawlProofs ----------------------------
(***************************************************************************)
(* What reorgs of confirmed blocks orphan is retracted, for every value of *)
(* the constants, if the reorg check comes to it in time; and when it does.*)
(***************************************************************************)
EXTENDS RecrawlInvariant, IndexProofs, CrawlProofs

-----------------------------------------------------------------------------
(* Nothing orphaned stays.                                                   *)

\* What the proofs need to know of the types.
LEMMA ReorgTypes ==
  ASSUME IInv
  PROVE  /\ ChainTypeOK /\ Len(chain) \in Nat /\ HeadBlock = Len(chain)
         /\ \A e \in reorg_buffer : e.block \in Nat /\ e.hash \in Nat /\ IdOf(e) = e
         /\ \A d \in index : d \in Doc /\ d.block \in Nat
         /\ forgotten \subseteq Nat
         /\ end_block \in Nat /\ end_block <= Len(chain)
         /\ {MaxReorgDepth, BufferSize, DedupWindow} \subseteq Nat
  <1>1. ChainTypeOK /\ Len(chain) \in Nat /\ HeadBlock = Len(chain)
    BY DEF IInv, ControlInv, TypeOK, ChainTypeOK, HeadBlock
  <1>2. \A e \in reorg_buffer : e.block \in Nat /\ e.hash \in Nat /\ IdOf(e) = e
    BY DEF IInv, ControlInv, TypeOK, StoreTypeOK, BlockId, IdOf
  <1>3. \A d \in index : d \in Doc /\ d.block \in Nat
    BY DEF IInv, ControlInv, TypeOK, Doc
  <1>4. forgotten \subseteq Nat /\ end_block \in Nat /\ end_block <= Len(chain)
    BY DEF IInv, ControlInv, TypeOK, StoreTypeOK, CrawlTypeOK, InRange
  <1>5. {MaxReorgDepth, BufferSize, DedupWindow} \subseteq Nat
    BY ChainAssumption, BridgeAssumption
  <1> QED BY <1>1, <1>2, <1>3, <1>4, <1>5

\* A hash that is observed or a document that is ingested agrees with the
\* chain, unless no prune has come to its block.
Sound(x) == x.block <= HeadBlock /\ (x.block \in forgotten => Matches(x))

\* What a step that forgets nothing has to keep.
LEMMA StaysSettled ==
  ASSUME SettledInv, chain' = chain, forgotten' = forgotten,
         \A e \in reorg_buffer' : e \in reorg_buffer \/ Sound(e),
         \A l \in unseen' : l \in unseen \/ (l.block > 0 /\ l.block \in Nat /\ Sound(l)),
         \A d \in index' : d \in index \/ Sound(d),
         \A d \in index : Covered(d) => Covered(d)'
  PROVE  SettledInv'
  <1>1. HeadBlock' = HeadBlock /\ \A x : Matches(x)' = Matches(x)
    BY DEF HeadBlock, Matches, BlockHash
  <1>2. BufferBelowHead'
    BY <1>1 DEF SettledInv, BufferBelowHead, Sound
  <1>3. ForgottenIsDeep'
    BY <1>1 DEF SettledInv, ForgottenIsDeep
  <1>4. ForgottenAgrees'
    <2>1. \A e \in reorg_buffer' : e.block \in forgotten' => Matches(e)'
      BY <1>1 DEF SettledInv, ForgottenAgrees, Sound
    <2>2. \A l \in unseen' : l.block \in forgotten' => Matches(l)'
      BY <1>1 DEF SettledInv, ForgottenAgrees, Sound
    <2>3. \A d \in index' : d.block \in forgotten' => Matches(d)' \/ Covered(d)'
      BY <1>1 DEF SettledInv, ForgottenAgrees, Sound
    <2> QED BY <2>1, <2>2, <2>3 DEF ForgottenAgrees
  <1> QED BY <1>2, <1>3, <1>4 DEF SettledInv

\* Most steps bring nothing, and leave the deletes alone.
LEMMA NothingNew ==
  ASSUME SettledInv, UNCHANGED <<chain, forgotten, pending_deletes>>,
         reorg_buffer' \subseteq reorg_buffer, unseen' \subseteq unseen, index' \subseteq index
  PROVE  SettledInv'
  <1>1. \A d \in index : Covered(d) => Covered(d)'
    BY DEF Covered, QueryMatches
  <1> QED BY <1>1, StaysSettled

\* What is ingested was observed.
LEMMA BuiltIsSound ==
  ASSUME IInv, SettledInv, NEW n \in BatchSizes, NEW d \in Batch(n)
  PROVE  Sound(d)
  <1>1. PICK i \in 1..Len(docs) : d = docs[i]
    BY DEF Batch, BatchSizes, IInv, ControlInv, TypeOK, CrawlTypeOK
  <1>2. IdOf(d) \in reorg_buffer
    BY <1>1 DEF IInv, Evidence, Observed, Witnessed
  <1>3. IdOf(d).block = d.block /\ IdOf(d).hash = d.hash
    BY DEF IdOf
  <1> QED BY <1>2, <1>3 DEF SettledInv, BufferBelowHead, ForgottenAgrees, Sound, Matches

LEMMA DrainSettled == ASSUME IInv, SettledInv, Drain \/ DrainFails PROVE SettledInv'
  <1> USE DEF chainVars, storeVars, crawlVars
  <1>1. CASE DrainDone
    BY <1>1, NothingNew DEF DrainDone, LoopTop, ResetCrawl
  <1>2. CASE DrainPost
    BY <1>2, NothingNew DEF DrainPost, DeleteTask
  <1>3. CASE MarkSubmitted
    <2>1. \A d \in index : Covered(d) => Covered(d)'
      BY <1>3, CoveredAfterMark
         DEF MarkSubmitted, mark_delete_submitted, IInv, ControlInv, TypeOK, InRange, Evidence,
             MarkedIsDone
    <2> QED BY <1>3, <2>1, StaysSettled DEF MarkSubmitted
  <1>4. CASE DrainFails
    BY <1>4, NothingNew DEF DrainFails, DeleteTask, Exit, LoopTop, ResetCrawl
  <1> QED BY <1>1, <1>2, <1>3, <1>4 DEF Drain

LEMMA ReadSettled ==
  ASSUME IInv, SettledInv, Idle \/ BeginIteration \/ CheckBuffer PROVE SettledInv'
  <1> USE DEF chainVars, storeVars, crawlVars
  <1>1. CASE Idle
    BY <1>1, NothingNew DEF Idle, LoopTop, ResetCrawl
  <1>2. CASE BeginIteration
    BY <1>2, NothingNew DEF BeginIteration
  <1>3. CASE CheckMatch \/ Probe \/ ForkFound
    BY <1>3, NothingNew DEF CheckMatch, Probe, ForkFound
  <1>4. CASE CheckMismatch
    BY <1>4, NothingNew DEF CheckMismatch, ResetCrawl
  <1> QED BY <1>1, <1>2, <1>3, <1>4 DEF CheckBuffer

\* The node answers about blocks that it has.
LEMMA ObserveSettled == ASSUME IInv, SettledInv, Observe PROVE SettledInv'
  <1>1. CASE FetchLogs
    <2>1. /\ UNCHANGED <<chain, reorg_buffer, forgotten, pending_deletes, index>>
          /\ unseen' = {[block |-> b, hash |-> chain[b].hash, ops |-> chain[b].ops] :
                          b \in {c \in cursor..end_block : c > 0 /\ chain[c].ops # <<>>}}
      BY <1>1 DEF FetchLogs, chainVars, storeVars
    <2>2. \A l \in unseen' : l.block > 0 /\ l.block \in Nat /\ Sound(l)
      <3> SUFFICES ASSUME NEW b \in cursor..end_block, b > 0,
                          NEW l, l = [block |-> b, hash |-> chain[b].hash, ops |-> chain[b].ops]
                   PROVE  l.block > 0 /\ l.block \in Nat /\ Sound(l)
        BY <2>1
      <3>1. b \in Int /\ b <= end_block /\ l.block = b /\ l.hash = chain[b].hash
        OBVIOUS
      <3> QED BY <3>1, ReorgTypes DEF Sound, Matches, BlockHash
    <2>3. \A d \in index : Covered(d) => Covered(d)'
      BY <2>1 DEF Covered, QueryMatches
    <2> QED BY <2>1, <2>2, <2>3, StaysSettled
  <1>2. CASE ObserveLog
    <2>1. PICK l \in unseen : observe_block(l.block, l.hash) /\ unseen' = unseen \ {l}
      BY <1>2 DEF ObserveLog
    <2>2. UNCHANGED <<chain, forgotten, pending_deletes, index>>
      BY <1>2 DEF ObserveLog, chainVars
    <2>3. \A e \in reorg_buffer' : e \in reorg_buffer \/ Sound(e)
      <3>1. l.block \in 1..HeadBlock /\ (l.block \in forgotten => Matches(l)) /\ HeadBlock \in Nat
        BY ReorgTypes DEF SettledInv, BufferBelowHead, ForgottenAgrees
      <3> QED BY <2>1, <3>1 DEF observe_block, Sound, Matches
    <2>4. \A d \in index : Covered(d) => Covered(d)'
      BY <2>2 DEF Covered, QueryMatches
    <2> QED BY <2>1, <2>2, <2>3, <2>4, StaysSettled
  <1>3. CASE ObserveMismatch
    BY <1>3, NothingNew DEF ObserveMismatch, ResetCrawl, chainVars, storeVars
  <1>4. CASE ObserveEnd
    <2>1. UNCHANGED <<chain, forgotten, pending_deletes, index, unseen>>
      BY <1>4 DEF ObserveEnd, chainVars, crawlVars
    <2>2. \A e \in reorg_buffer' : e \in reorg_buffer \/ Sound(e)
      BY <1>4, ReorgTypes DEF ObserveEnd, observe_block, Sound, Matches
    <2>3. \A d \in index : Covered(d) => Covered(d)'
      BY <2>1 DEF Covered, QueryMatches
    <2> QED BY <2>1, <2>2, <2>3, StaysSettled
  <1> QED BY <1>1, <1>2, <1>3, <1>4 DEF Observe

LEMMA ProcessSettled == ASSUME IInv, SettledInv, ProcessBlock \/ IngestFails PROVE SettledInv'
  <1> USE DEF chainVars, storeVars, crawlVars
  <1>1. CASE NextBlock \/ DeleteLog \/ EmitDoc \/ SkipLog \/ AllHydrated \/ AllIngested
             \/ AllEnqueued \/ CommitBlock
    BY <1>1, NothingNew
       DEF NextBlock, DeleteLog, EmitDoc, SkipLog, AllHydrated, AllIngested, AllEnqueued, CommitBlock
  <1>2. ASSUME NEW n \in BatchSizes, Ingest(Batch(n)), unseen' \subseteq unseen,
               UNCHANGED <<chainVars, storeVars>>
        PROVE  SettledInv'
    <2>1. \A d \in index' : d \in index \/ Sound(d)
      BY <1>2, BuiltIsSound DEF Ingest
    <2>2. \A d \in index : Covered(d) => Covered(d)'
      BY <1>2 DEF Covered, QueryMatches
    <2> QED BY <1>2, <2>1, <2>2, StaysSettled
  <1>3. CASE IngestBatch
    BY <1>2, <1>3 DEF IngestBatch
  <1>4. CASE IngestFails
    <2>1. unseen' \subseteq unseen /\ UNCHANGED <<chainVars, storeVars>>
      BY <1>4 DEF IngestFails, LoopTop, ResetCrawl
    <2>2. PICK n \in BatchSizes : Ingest(Batch(n)) \/ UNCHANGED index
      BY <1>4 DEF IngestFails
    <2>3. CASE UNCHANGED index
      BY <2>1, <2>3, NothingNew
    <2> QED BY <1>2, <2>1, <2>2, <2>3
  <1>5. CASE EnqueueDelete
    <2>1. Head(delete_queries) \in Query /\ StoreTypeOK /\ index \subseteq Doc
      BY <1>5, HeadTailProperties DEF EnqueueDelete, IInv, ControlInv, TypeOK, CrawlTypeOK
    <2>2. \A d \in index : Covered(d) => Covered(d)'
      BY <1>5, <2>1, CoveredKept DEF EnqueueDelete, enqueue_delete
    <2> QED BY <1>5, <2>2, StaysSettled DEF EnqueueDelete
  <1> QED BY <1>1, <1>3, <1>4, <1>5 DEF ProcessBlock

\* What a prune drops is out of reach, and agrees with the chain or is to go.
LEMMA PruneSettled ==
  ASSUME IInv, SettledInv, UNCHANGED <<chain, pending_deletes, index>>,
         reorg_buffer' \subseteq reorg_buffer, unseen' = {},
         NEW gone, forgotten' = forgotten \cup gone,
         \A b \in gone : b + MaxReorgDepth <= HeadBlock,
         \A b \in gone : \A e \in reorg_buffer : e.block = b => Matches(e)
  PROVE  SettledInv'
  <1>1. HeadBlock' = HeadBlock /\ \A x : Matches(x)' = Matches(x)
    BY DEF HeadBlock, Matches, BlockHash
  <1>2. BufferBelowHead' /\ ForgottenIsDeep'
    BY <1>1 DEF SettledInv, BufferBelowHead, ForgottenIsDeep
  <1>3. \A d \in index : Covered(d) => Covered(d)'
    BY DEF Covered, QueryMatches
  <1>4. ASSUME NEW d \in index, d.block \in gone PROVE Matches(d) \/ Covered(d)
    <2>1. CASE d.block \in forgotten
      BY <2>1 DEF SettledInv, ForgottenAgrees
    <2>2. CASE Witnessed(d)
      <3>1. IdOf(d) \in reorg_buffer /\ IdOf(d).block = d.block /\ IdOf(d).hash = d.hash
        BY <2>2 DEF Witnessed, IdOf
      <3> QED BY <1>4, <3>1 DEF Matches
    <2> QED BY <2>1, <2>2 DEF IInv, Evidence, OrphanWitness
  <1>5. ForgottenAgrees'
    <2>1. \A e \in reorg_buffer' : e.block \in forgotten' => Matches(e)'
      BY <1>1 DEF SettledInv, ForgottenAgrees
    <2>2. \A d \in index' : d.block \in forgotten' => Matches(d)' \/ Covered(d)'
      BY <1>1, <1>3, <1>4 DEF SettledInv, ForgottenAgrees
    <2> QED BY <2>1, <2>2 DEF ForgottenAgrees
  <1> QED BY <1>2, <1>5 DEF SettledInv

LEMMA FinishSettled ==
  ASSUME WindowsCoverReorgs, IInv, SettledInv, NoticedInTime, Finish PROVE SettledInv'
  <1>1. CASE FinishRange
    BY <1>1, NothingNew DEF FinishRange, chainVars, crawlVars
  <1>2. CASE PruneBuffer
    <2> DEFINE dropped == reorg_buffer \ KeptBy(BufferSize)
    <2>1. /\ UNCHANGED <<chain, pending_deletes, index, unseen>>
          /\ reorg_buffer' = KeptBy(BufferSize)
          /\ forgotten' = forgotten \cup {e.block : e \in dropped}
      BY <1>2 DEF PruneBuffer, prune_reorg_buffer, chainVars, crawlVars
    <2>2. unseen = {} /\ \A e \in dropped : Matches(e)
      BY <1>2 DEF PruneBuffer, NoticedInTime, BufferNoticed, IInv, ControlInv, Phases
    <2>3. \A e \in dropped : e.block + MaxReorgDepth <= HeadBlock
      <3> SUFFICES ASSUME NEW e \in dropped PROVE e.block + MaxReorgDepth <= HeadBlock
        OBVIOUS
      <3>1. PICK c \in reorg_buffer : ~(c.block < e.block + BufferSize)
        BY DEF KeptBy, BufferedBlocks
      <3>2. c.block <= HeadBlock /\ MaxReorgDepth <= BufferSize
        BY <3>1 DEF SettledInv, BufferBelowHead, WindowsCoverReorgs
      <3> QED BY <3>1, <3>2, ReorgTypes
    <2>4. \A d \in dropped : \A e \in reorg_buffer : e.block = d.block => e \in dropped
      BY DEF KeptBy
    <2>5. \A b \in {e.block : e \in dropped} : \A e \in reorg_buffer : e.block = b => Matches(e)
      BY <2>2, <2>4
    <2> HIDE DEF dropped
    <2>6. reorg_buffer' \subseteq reorg_buffer
      BY <2>1 DEF KeptBy
    <2> QED BY <2>1, <2>2, <2>3, <2>5, <2>6, PruneSettled
  <1>3. CASE PruneEmitted
    <2> DEFINE first == SatSub(end_block, DedupWindow)
               gone == {r.block : r \in {s \in emitted_dedup : s.block < first}}
    <2>1. /\ UNCHANGED <<chain, pending_deletes, index, reorg_buffer>> /\ unseen' = {}
          /\ forgotten' = forgotten \cup gone
      BY <1>3 DEF PruneEmitted, prune_emitted_before, LoopTop, ResetCrawl, chainVars
    <2>2. \A b \in gone : b \in Nat /\ b < first
      BY DEF IInv, ControlInv, TypeOK, StoreTypeOK, Row
    <2>3. \A b \in gone : b + MaxReorgDepth <= HeadBlock
      <3> SUFFICES ASSUME NEW b \in gone PROVE b + MaxReorgDepth <= HeadBlock
        OBVIOUS
      <3>1. b + DedupWindow + 1 <= end_block
        BY <2>2, ReorgTypes DEF SatSub
      <3> QED BY <2>2, <3>1, ReorgTypes DEF WindowsCoverReorgs
    <2>4. \A b \in gone : \A e \in reorg_buffer : e.block = b => Matches(e)
      BY <1>3, <2>2 DEF PruneEmitted, NoticedInTime, WindowNoticed
    <2> QED BY <2>1, <2>3, <2>4, PruneSettled
  <1> QED BY <1>1, <1>2, <1>3 DEF Finish

LEMMA RetractSettled == ASSUME IInv, SettledInv, Retract PROVE SettledInv'
  <1> USE DEF chainVars, storeVars, crawlVars
  <1>1. CASE TooDeep \/ BeginRetract \/ ForgetEmitted \/ RollBack
    BY <1>1, NothingNew DEF TooDeep, Exit, ResetCrawl, BeginRetract, ForgetEmitted, RollBack
  <1>2. CASE EnqueueRetraction
    <2>1. PICK chunk \in SUBSET retracted_keys : enqueue_delete(retraction_query(chunk, fork_point))
      BY <1>2 DEF EnqueueRetraction
    <2>2. retraction_query(chunk, fork_point) \in Query /\ StoreTypeOK /\ index \subseteq Doc
      BY RetractionType DEF IInv, ControlInv, TypeOK, ReorgTypeOK
    <2>3. \A d \in index : Covered(d) => Covered(d)'
      BY <2>1, <2>2, CoveredKept DEF enqueue_delete
    <2> QED BY <1>2, <2>3, StaysSettled DEF EnqueueRetraction
  <1>3. CASE TruncateBuffer
    BY <1>3, NothingNew DEF TruncateBuffer, truncate_reorg_buffer_after
  <1> QED BY <1>1, <1>2, <1>3 DEF Retract

LEMMA FailureSettled ==
  ASSUME IInv, SettledInv, Hydration \/ RpcError \/ Crash \/ Restart \/ UNCHANGED vars
  PROVE  SettledInv'
  <1> USE DEF chainVars, storeVars, crawlVars
  <1>1. CASE HydrationFails \/ ProbeDead \/ UNCHANGED vars
    BY <1>1, NothingNew DEF HydrationFails, ProbeDead, vars
  <1>2. CASE ProbeLive \/ RpcError \/ Restart
    BY <1>2, NothingNew DEF ProbeLive, RpcError, Restart, LoopTop, ResetCrawl
  <1>3. CASE Crash
    BY <1>3, NothingNew DEF Crash, Exit, ResetCrawl
  <1> QED BY <1>1, <1>2, <1>3 DEF Hydration

\* A reorg does not reach what is forgotten.
LEMMA ChainSettled == ASSUME IInv, SettledInv, Environment PROVE SettledInv'
  <1>1. /\ UNCHANGED <<reorg_buffer, pending_deletes, forgotten, index, unseen>> /\ ChainNext
        /\ ChainTypeOK
    BY ReorgTypes DEF Environment, storeVars, crawlVars
  <1>2. Len(chain) \in Nat /\ Len(chain') \in Nat /\ Len(chain) <= Len(chain')
    BY <1>1, ChainStep DEF ChainTypeOK
  <1>3. BufferBelowHead'
    BY <1>1, <1>2, ReorgTypes DEF SettledInv, BufferBelowHead, HeadBlock
  <1>4. ForgottenIsDeep'
    BY <1>1, <1>2, ReorgTypes DEF SettledInv, ForgottenIsDeep, HeadBlock
  <1>5. \A b \in forgotten : BlockHash(b)' = BlockHash(b)
    <2> SUFFICES ASSUME NEW b \in forgotten, b # 0 PROVE chain'[b] = chain[b]
      BY DEF BlockHash
    <2>1. b + MaxReorgDepth <= Len(chain) /\ b \in 1..Len(chain) /\ MaxReorgDepth \in Nat
      BY ReorgTypes DEF SettledInv, ForgottenIsDeep
    <2> QED BY <1>1, <2>1, TipMoves
  <1>6. \A d \in index : Covered(d) => Covered(d)'
    BY <1>1 DEF Covered, QueryMatches
  <1>7. ForgottenAgrees'
    BY <1>1, <1>5, <1>6 DEF SettledInv, ForgottenAgrees, Matches
  <1> QED BY <1>3, <1>4, <1>7 DEF SettledInv

LEMMA SettledStep ==
  WindowsCoverReorgs /\ IInv /\ SettledInv /\ NoticedInTime /\ [Next]_vars => SettledInv'
  <1> SUFFICES ASSUME WindowsCoverReorgs, IInv, SettledInv, NoticedInTime, [Next]_vars
               PROVE  SettledInv'
    OBVIOUS
  <1> QED BY DrainSettled, ReadSettled, ObserveSettled, ProcessSettled, FinishSettled,
             RetractSettled, FailureSettled, ChainSettled
          DEF Next, Work, Failure

LEMMA SettledInit == Init => SettledInv
  BY DEF Init, StoreInit, QuickwitInit, SettledInv, BufferBelowHead, ForgottenIsDeep,
         ForgottenAgrees

(***************************************************************************)
(* No reorg within the windows leaves an orphaned document behind for      *)
(* good: what the reorg check comes to before its evidence is pruned is    *)
(* retracted, or the daemon halts (README.md:43-46), wherever the process  *)
(* dies and whatever call fails.                                           *)
(***************************************************************************)
THEOREM OrphansDoNotStay ==
  WindowsCoverReorgs => (Spec /\ []NoticedInTime => []RetractedOrHalted)
  <1> SUFFICES ASSUME WindowsCoverReorgs PROVE Spec /\ []NoticedInTime => []RetractedOrHalted
    OBVIOUS
  <1>1. IInv /\ SettledInv /\ NoticedInTime /\ [Next]_vars => SettledInv'
    BY SettledStep
  <1>2. IInv /\ SettledInv => RetractedOrHalted
    <2> SUFFICES ASSUME IInv, SettledInv, Quiet, BufferMatchesChain, NEW d \in index
                 PROVE  d.hash = BlockHash(d.block)
      BY DEF RetractedOrHalted
    <2>1. ~Covered(d)
      BY DEF Quiet, Covered
    <2>2. CASE Witnessed(d)
      BY <2>2 DEF Witnessed, IdOf, BufferMatchesChain, Matches
    <2>3. CASE d.block \in forgotten
      BY <2>1, <2>3 DEF SettledInv, ForgottenAgrees, Matches
    <2> QED BY <2>1, <2>2, <2>3 DEF IInv, Evidence, OrphanWitness
  <1>3. Spec => []IInv
    BY Inductive
  <1> QED BY <1>1, <1>2, <1>3, SettledInit, PTL DEF Spec

-----------------------------------------------------------------------------
(* What every iteration re-reads is noticed.                                 *)

LEMMA NoticedTypes ==
  ASSUME IInv
  PROVE  /\ cursor \in Int /\ end_block \in Nat /\ FetchBatchSize \in Nat /\ FetchBatchSize >= 1
         /\ Target \in Nat /\ fork_point \in Nat /\ MaxReorgDepth \in Nat
         /\ \A e \in reorg_buffer : e.block \in Nat
         /\ logs \subseteq Entry /\ unseen \subseteq Entry /\ entry \in Entry
         /\ \A l \in Entry : l.block \in Nat
  <1>1. TypeOK
    BY DEF IInv, ControlInv
  <1>2. cursor \in Int
    BY <1>1 DEF TypeOK, StoreTypeOK, NoCursor
  <1>3. FetchBatchSize \in Nat /\ FetchBatchSize >= 1 /\ MaxReorgDepth \in Nat
    BY BridgeAssumption, ChainAssumption
  <1>4. Target \in Nat
    BY <1>1, AnswerTypes DEF TypeOK
  <1>5. end_block \in Nat /\ logs \subseteq Entry /\ unseen \subseteq Entry /\ entry \in Entry
    BY <1>1 DEF TypeOK, CrawlTypeOK
  <1>6. fork_point \in Nat
    BY <1>1 DEF TypeOK, ReorgTypeOK
  <1>7. \A e \in reorg_buffer : e.block \in Nat
    BY ReorgTypes
  <1>8. \A l \in Entry : l.block \in Nat
    BY DEF Entry
  <1> QED BY <1>2, <1>3, <1>4, <1>5, <1>6, <1>7, <1>8

LEMMA AnswersUnchanged ==
  ASSUME UNCHANGED chainVars
  PROVE  Target' = Target /\ \A x : Matches(x)' = Matches(x)
  <1>1. chain' = chain
    BY DEF chainVars
  <1> QED BY <1>1 DEF Target, HeadBlock, SatSub, Matches, BlockHash

\* A step that is not part of an iteration, or ends one.
LEMMA OutsideNoticed ==
  ASSUME IInv, NoticedInv, ~InIteration', UNCHANGED chainVars,
         cursor' \in Int, cursor' >= cursor,
         reorg_buffer' \subseteq reorg_buffer, pc' \notin {"forget", "rollback"},
         logs' = {}, unseen' = {}
  PROVE  NoticedInv'
  <1>1. Target' = Target
    BY AnswersUnchanged
  <1>2. BufferIsOrderly'
    <2>1. \A e \in reorg_buffer' : e.block <= Target' /\ e.block <= cursor' + FetchBatchSize - 1
      BY <1>1, NoticedTypes DEF NoticedInv, BufferIsOrderly
    <2> QED BY <2>1 DEF NoticedInv, BufferIsOrderly
  <1>3. ~InBlock'
    BY DEF InIteration, WithLogs
  <1>4. RangeIsOrderly'
    <2>1. ret' # "commit"
      BY <1>3 DEF InBlock
    <2> QED BY <1>3, <2>1 DEF RangeIsOrderly
  <1>5. DeepIsRead'
    BY DEF DeepIsRead
  <1> QED BY <1>2, <1>4, <1>5 DEF NoticedInv

\* A step of an iteration that reads nothing from the chain.
LEMMA InsideNoticed ==
  ASSUME IInv, NoticedInv, InIteration, pc # "check", UNCHANGED <<chainVars, end_block>>,
         cursor' \in Int, cursor' = cursor \/ end_block <= cursor' + FetchBatchSize - 1,
         reorg_buffer' \subseteq reorg_buffer, pc' \notin {"forget", "rollback"},
         logs' \subseteq logs, unseen' \subseteq unseen, unseen' \subseteq logs',
         logs' # {} => WithLogs', ret' = "commit" => pc' \in {"drain", "mark"},
         (InBlock => end_block <= entry.block + FetchBatchSize - 1)'
  PROVE  NoticedInv'
  <1>1. Target' = Target /\ \A x : Matches(x)' = Matches(x)
    BY AnswersUnchanged
  <1>2. end_block <= cursor' + FetchBatchSize - 1
    BY DEF NoticedInv, RangeIsOrderly
  <1>3. BufferIsOrderly'
    <2>1. \A e \in reorg_buffer : e.block <= Target /\ e.block <= end_block
      BY DEF NoticedInv, BufferIsOrderly, RangeIsOrderly
    <2>2. \A e \in reorg_buffer' : e.block <= Target' /\ e.block <= cursor' + FetchBatchSize - 1
      BY <1>1, <1>2, <2>1, NoticedTypes
    <2> QED BY <2>2 DEF NoticedInv, BufferIsOrderly
  <1>4. RangeIsOrderly'
    <2>1. end_block' = end_block /\ end_block' <= Target' /\ end_block' <= cursor' + FetchBatchSize - 1
      BY <1>1, <1>2 DEF NoticedInv, RangeIsOrderly
    <2>2. \A e \in reorg_buffer' : e.block <= end_block'
      BY <2>1 DEF NoticedInv, RangeIsOrderly
    <2>3. \A l \in logs' : l.block <= end_block' /\ end_block' <= l.block + FetchBatchSize - 1
      BY <2>1 DEF NoticedInv, RangeIsOrderly
    <2> QED BY <2>1, <2>2, <2>3 DEF RangeIsOrderly
  <1>5. DeepIsRead'
    BY <1>1 DEF NoticedInv, DeepIsRead, OutOfReach
  <1> QED BY <1>3, <1>4, <1>5 DEF NoticedInv

LEMMA DrainNoticed == ASSUME IInv, NoticedInv, Drain \/ DrainFails PROVE NoticedInv'
  <1>1. UNCHANGED <<chainVars, cursor, reorg_buffer>> /\ cursor \in Int
    BY NoticedTypes DEF Drain, DrainDone, DrainPost, MarkSubmitted, DrainFails, storeVars
  <1>2. CASE DrainFails \/ (DrainDone /\ ret = "loop")
    <2>1. /\ pc' \in {"drain"} \cup Down /\ ret' = "head" /\ logs' = {} /\ unseen' = {}
      BY <1>2 DEF DrainFails, DrainDone, LoopTop, Exit, ResetCrawl, Down
    <2>2. ~InIteration'
      BY <2>1 DEF InIteration, WithLogs, InBlock, Down
    <2> QED BY <1>1, <2>1, <2>2, OutsideNoticed DEF Down
  <1>3. CASE Drain /\ ~(DrainDone /\ ret = "loop")
    <2>1. /\ UNCHANGED crawlVars /\ pc \in {"drain", "mark"} /\ ret \in {"head", "commit", "loop"}
          /\ \/ pc' \in {"drain", "mark"} /\ ret' = ret
             \/ pc' = ret /\ ret \in {"head", "commit"} /\ ret' = "head"
      BY <1>3 DEF Drain, DrainDone, DrainPost, MarkSubmitted, IInv, ControlInv, TypeOK
    <2>2. UNCHANGED <<end_block, logs, unseen, entry>>
      BY <2>1 DEF crawlVars
    <2>3. CASE ret = "commit"
      <3>1. InIteration /\ InBlock
        BY <2>3 DEF InIteration, WithLogs, InBlock
      <3>2. /\ (InBlock => end_block <= entry.block + FetchBatchSize - 1)'
            /\ unseen' \subseteq logs'
        BY <2>2, <3>1 DEF NoticedInv, RangeIsOrderly
      <3>3. WithLogs' /\ (ret' = "commit" => pc' \in {"drain", "mark"})
        BY <2>1, <2>3 DEF WithLogs, InBlock
      <3> QED BY <1>1, <2>1, <2>2, <2>3, <3>1, <3>2, <3>3, InsideNoticed
    <2>4. CASE ret # "commit"
      <3>1. ~InIteration' /\ ~WithLogs
        BY <2>1, <2>4 DEF InIteration, WithLogs, InBlock
      <3>2. logs' = {} /\ unseen' = {}
        BY <2>2, <3>1 DEF NoticedInv, RangeIsOrderly
      <3> QED BY <1>1, <2>1, <2>4, <3>1, <3>2, OutsideNoticed
    <2> QED BY <2>3, <2>4
  <1> QED BY <1>2, <1>3

\* An iteration begins with every buffered block in the sample.
LEMMA BeginNoticed ==
  ASSUME AlwaysSampled, IInv, NoticedInv, Idle \/ BeginIteration PROVE NoticedInv'
  <1>1. UNCHANGED <<chainVars, reorg_buffer>> /\ cursor' \in Int /\ cursor' >= cursor /\ pc = "head"
    <2>1. FirstBlock \in Nat
      BY AnswerTypes DEF IInv, ControlInv, TypeOK
    <2>2. cursor' = cursor \/ (cursor = NoCursor /\ cursor' = FirstBlock)
      BY DEF Idle, BeginIteration, ReadHead, set_cursor
    <2>3. cursor' \in Int /\ cursor' >= cursor
      BY <2>1, <2>2, NoticedTypes DEF NoCursor
    <2> QED BY <2>3 DEF Idle, BeginIteration, ReadHead
  <1>2. CASE Idle
    <2>1. /\ pc' = "drain" /\ ret' = "head" /\ logs' = {} /\ unseen' = {}
      BY <1>2 DEF Idle, LoopTop, ResetCrawl
    <2>2. ~InIteration'
      BY <2>1 DEF InIteration, WithLogs, InBlock
    <2> QED BY <1>1, <2>1, <2>2, OutsideNoticed
  <1>3. CASE BeginIteration
    <2>1. /\ UNCHANGED <<ret, logs, unseen, entry>> /\ pc' \in {"check", "logs"}
          /\ end_block' = IF cursor' + FetchBatchSize - 1 < Target
                          THEN cursor' + FetchBatchSize - 1 ELSE Target
          /\ (reorg_buffer # {} =>
                pc' = "check" /\ \E iteration \in 0..Cardinality(reorg_buffer) - 1 :
                                   sample' = {e.block : e \in Sampled(iteration)})
      BY <1>3 DEF BeginIteration
    <2>2. Target' = Target /\ \A x : Matches(x)' = Matches(x)
      BY <1>1, AnswersUnchanged
    <2>3. end_block' <= Target /\ end_block' <= cursor' + FetchBatchSize - 1 /\ end_block' \in Int
          /\ (end_block' = Target \/ end_block' = cursor' + FetchBatchSize - 1)
      BY <1>1, <2>1, NoticedTypes
    <2>4. \A e \in reorg_buffer :
            e.block <= Target /\ e.block <= cursor' + FetchBatchSize - 1 /\ e.block <= end_block'
      <3>1. \A e \in reorg_buffer : e.block <= Target /\ e.block <= cursor + FetchBatchSize - 1
        BY DEF NoticedInv, BufferIsOrderly
      <3> QED BY <1>1, <2>3, <3>1, NoticedTypes
    <2>5. BufferIsOrderly'
      BY <1>1, <2>1, <2>2, <2>4 DEF NoticedInv, BufferIsOrderly
    <2>6. logs = {} /\ unseen = {} /\ ret # "commit"
      BY <1>1 DEF NoticedInv, RangeIsOrderly, WithLogs, InBlock
    <2>7. ~InBlock'
      BY <2>1, <2>6 DEF InBlock
    <2>8. RangeIsOrderly'
      BY <1>1, <2>1, <2>2, <2>3, <2>4, <2>6, <2>7 DEF RangeIsOrderly
    <2>9. DeepIsRead'
      <3>1. reorg_buffer # {} => pc' = "check" /\ sample' = {e.block : e \in reorg_buffer}
        BY <2>1 DEF AlwaysSampled
      <3>2. \A e \in reorg_buffer' : pc' = "check" /\ e.block \in sample'
        BY <1>1, <3>1
      <3> QED BY <2>1, <2>6, <3>2 DEF DeepIsRead
    <2> QED BY <2>5, <2>8, <2>9 DEF NoticedInv
  <1> QED BY <1>2, <1>3

\* What leaves the sample has been found to match.
LEMMA CheckNoticed == ASSUME IInv, NoticedInv, CheckBuffer PROVE NoticedInv'
  <1>1. UNCHANGED <<chainVars, storeVars, ret>> /\ pc \in {"check", "find"} /\ cursor \in Int
    BY NoticedTypes DEF CheckBuffer, CheckMatch, CheckMismatch, Probe, ForkFound
  <1>2. UNCHANGED <<cursor, reorg_buffer>>
    BY <1>1 DEF storeVars
  <1>3. ret # "commit" /\ logs = {} /\ unseen = {}
    BY <1>1 DEF NoticedInv, RangeIsOrderly, WithLogs, InBlock
  <1>4. CASE CheckMatch
    <2>1. PICK e \in reorg_buffer : Matches(e) /\ sample' = sample \ {e.block}
      BY <1>4 DEF CheckMatch
    <2>2. /\ UNCHANGED <<end_block, logs, unseen, entry>> /\ pc = "check"
          /\ pc' = (IF sample' = {} THEN "logs" ELSE "check")
      BY <1>4 DEF CheckMatch, crawlVars
    <2>3. Target' = Target /\ \A x : Matches(x)' = Matches(x)
      BY <1>1, AnswersUnchanged
    <2>4. InIteration /\ ~InBlock'
      BY <1>1, <1>3, <2>2 DEF InIteration, InBlock
    <2>5. BufferIsOrderly'
      BY <1>2, <2>2, <2>3 DEF NoticedInv, BufferIsOrderly
    <2>6. RangeIsOrderly'
      BY <1>1, <1>2, <1>3, <2>2, <2>3, <2>4 DEF NoticedInv, RangeIsOrderly
    <2>7. DeepIsRead'
      <3>1. ASSUME NEW f \in reorg_buffer, OutOfReach(f.block)
            PROVE  Matches(f) \/ (pc' = "check" /\ f.block \in sample')
        <4>1. Matches(f) \/ f.block \in sample
          BY <2>4, <3>1 DEF NoticedInv, DeepIsRead
        <4>2. f.block = e.block => f = e
          BY DEF NoticedInv, BufferIsOrderly
        <4> QED BY <2>1, <2>2, <4>1, <4>2
      <3> QED BY <1>2, <1>3, <2>2, <2>3, <3>1 DEF DeepIsRead, OutOfReach
    <2> QED BY <2>5, <2>6, <2>7 DEF NoticedInv
  <1>5. CASE CheckMismatch \/ Probe \/ ForkFound
    <2>1. pc' \in {"find", "retract"} /\ logs' = {} /\ unseen' = {}
      BY <1>1, <1>3, <1>5 DEF CheckMismatch, Probe, ForkFound, ResetCrawl, crawlVars
    <2>2. ~InIteration'
      BY <1>1, <1>3, <2>1 DEF InIteration, WithLogs, InBlock
    <2> QED BY <1>1, <1>2, <2>1, <2>2, OutsideNoticed
  <1> QED BY <1>4, <1>5 DEF CheckBuffer

\* What is observed was just fetched.
LEMMA ObserveNoticed == ASSUME IInv, NoticedInv, Observe PROVE NoticedInv'
  <1>1. /\ UNCHANGED <<chainVars, cursor, ret>> /\ pc \in {"logs", "observe"} /\ ret # "commit"
        /\ cursor \in Int /\ InIteration
    BY NoticedTypes DEF Observe, FetchLogs, ObserveLog, ObserveMismatch, ObserveEnd, storeVars,
                        NoticedInv, RangeIsOrderly, InIteration, WithLogs
  <1>2. Target' = Target /\ \A x : Matches(x)' = Matches(x)
    BY <1>1, AnswersUnchanged
  <1>3. /\ end_block <= Target /\ end_block <= cursor + FetchBatchSize - 1
        /\ \A e \in reorg_buffer : /\ e.block <= end_block
                                   /\ OutOfReach(e.block) => Matches(e)
        /\ \A l \in unseen : OutOfReach(l.block) => Matches(l)
    BY <1>1 DEF NoticedInv, RangeIsOrderly, DeepIsRead
  <1>4. CASE FetchLogs
    <2>1. /\ logs' = {[block |-> b, hash |-> chain[b].hash, ops |-> chain[b].ops] :
                        b \in {c \in cursor..end_block : c > 0 /\ chain[c].ops # <<>>}}
          /\ unseen' = logs' /\ pc' = "observe" /\ UNCHANGED <<reorg_buffer, end_block>>
      BY <1>4 DEF FetchLogs, storeVars
    <2>2. \A l \in logs' : /\ l.block <= end_block /\ end_block <= l.block + FetchBatchSize - 1
                           /\ Matches(l)
      <3> SUFFICES ASSUME NEW b \in cursor..end_block, b > 0,
                          NEW l, l = [block |-> b, hash |-> chain[b].hash, ops |-> chain[b].ops]
                   PROVE  /\ l.block <= end_block /\ end_block <= l.block + FetchBatchSize - 1
                          /\ Matches(l)
        BY <2>1
      <3>1. b \in Int /\ b >= cursor /\ b <= end_block /\ l.block = b /\ l.hash = chain[b].hash
        BY <1>1
      <3>2. Matches(l)
        BY <3>1 DEF Matches, BlockHash
      <3>3. end_block <= b + FetchBatchSize - 1
        BY <1>1, <1>3, <3>1, NoticedTypes
      <3> QED BY <3>1, <3>2, <3>3
    <2>3. ~InBlock' /\ WithLogs'
      BY <1>1, <2>1 DEF InBlock, WithLogs
    <2>4. BufferIsOrderly'
      BY <1>1, <1>2, <2>1 DEF NoticedInv, BufferIsOrderly
    <2>5. RangeIsOrderly'
      BY <1>1, <1>2, <1>3, <2>1, <2>2, <2>3 DEF RangeIsOrderly
    <2>6. DeepIsRead'
      BY <1>2, <1>3, <2>1, <2>2 DEF DeepIsRead, OutOfReach
    <2> QED BY <2>4, <2>5, <2>6 DEF NoticedInv
  <1>5. ASSUME UNCHANGED <<end_block, logs>>, pc' \in {"observe", "block"}, pc = "observe",
               unseen' \subseteq unseen, NEW x, observe_block(x.block, x.hash) \/ UNCHANGED reorg_buffer,
               x.block \in Nat, x.block <= end_block, OutOfReach(x.block) => Matches(x)
        PROVE  NoticedInv'
    <2> DEFINE y == [block |-> x.block, hash |-> x.hash]
    <2>1. y.block = x.block /\ y.hash = x.hash
      OBVIOUS
    <2>2. \A e \in reorg_buffer' : e \in reorg_buffer \/
            (e = y /\ \A f \in reorg_buffer : f.block # y.block)
      BY <1>5, <2>1 DEF observe_block
    <2>3. y.block <= end_block /\ (OutOfReach(y.block) => Matches(y))
      BY <1>5, <2>1 DEF Matches
    <2> HIDE DEF y
    <2>4. ~InBlock' /\ WithLogs' /\ InIteration'
      BY <1>1, <1>5 DEF InBlock, WithLogs, InIteration
    <2>5. BufferIsOrderly'
      <3>1. \A e, f \in reorg_buffer' : e.block = f.block => e = f
        BY <2>2 DEF NoticedInv, BufferIsOrderly
      <3>2. \A e \in reorg_buffer' : e.block <= Target' /\ e.block <= cursor' + FetchBatchSize - 1
        <4> SUFFICES ASSUME NEW e \in reorg_buffer'
                     PROVE  e.block <= Target' /\ e.block <= cursor' + FetchBatchSize - 1
          OBVIOUS
        <4>1. CASE e \in reorg_buffer
          BY <1>1, <1>2, <4>1 DEF NoticedInv, BufferIsOrderly
        <4>2. CASE e = y
          <5>1. y.block \in Nat
            BY <1>5, <2>1
          <5> QED BY <1>1, <1>2, <1>3, <2>3, <4>2, <5>1, NoticedTypes
        <4> QED BY <2>2, <4>1, <4>2
      <3> QED BY <1>5, <3>1, <3>2 DEF BufferIsOrderly
    <2>6. RangeIsOrderly'
      <3>1. \A e \in reorg_buffer' : e.block <= end_block
        BY <1>3, <2>2, <2>3
      <3> QED BY <1>1, <1>2, <1>3, <1>5, <2>4, <3>1 DEF NoticedInv, RangeIsOrderly
    <2>7. DeepIsRead'
      <3>1. \A e \in reorg_buffer' : OutOfReach(e.block) => Matches(e)
        BY <1>3, <2>2, <2>3
      <3> QED BY <1>2, <1>3, <1>5, <3>1 DEF DeepIsRead, OutOfReach
    <2> QED BY <2>5, <2>6, <2>7 DEF NoticedInv
  <1> QED
    <2>1. CASE ObserveLog
      <3>1. PICK l \in unseen : observe_block(l.block, l.hash) /\ unseen' = unseen \ {l}
        BY <2>1 DEF ObserveLog
      <3>2. l.block <= end_block /\ l.block \in Nat
        BY NoticedTypes DEF NoticedInv, RangeIsOrderly
      <3> QED BY <1>3, <1>5, <2>1, <3>1, <3>2 DEF ObserveLog
    <2>2. CASE ObserveMismatch
      <3>1. pc' = "retract" /\ logs' = {} /\ unseen' = {} /\ reorg_buffer' = reorg_buffer
        BY <2>2 DEF ObserveMismatch, ResetCrawl, storeVars
      <3>2. ~InIteration'
        BY <1>1, <3>1 DEF InIteration, WithLogs, InBlock
      <3> QED BY <1>1, <3>1, <3>2, OutsideNoticed
    <2>3. CASE ObserveEnd
      <3> DEFINE x == [block |-> end_block, hash |-> BlockHash(end_block)]
      <3>1. /\ x.block = end_block /\ x.hash = BlockHash(end_block) /\ Matches(x)
        BY DEF Matches
      <3>2. observe_block(x.block, x.hash) \/ UNCHANGED reorg_buffer
        BY <2>3, <3>1 DEF ObserveEnd
      <3>3. UNCHANGED <<end_block, logs, unseen>> /\ pc = "observe" /\ pc' = "block"
        BY <2>3 DEF ObserveEnd, crawlVars
      <3>4. x.block <= end_block /\ x.block \in Nat
        BY <3>1, NoticedTypes
      <3> HIDE DEF x
      <3> QED BY <1>5, <3>1, <3>2, <3>3, <3>4
    <2> QED BY <1>4, <2>1, <2>2, <2>3 DEF Observe

LEMMA BlockNoticed ==
  ASSUME IInv, NoticedInv, ProcessBlock \/ Hydration \/ IngestFails PROVE NoticedInv'
  <1>1. /\ UNCHANGED <<chainVars, reorg_buffer>>
        /\ pc \in {"block", "hydrate", "probe", "ingest", "enqueue", "commit"}
        /\ InIteration /\ cursor \in Int /\ ret # "commit"
    BY NoticedTypes
       DEF ProcessBlock, NextBlock, DeleteLog, EmitDoc, SkipLog, AtLog, AllHydrated, IngestBatch,
           AllIngested, EnqueueDelete, AllEnqueued, CommitBlock, Hydration, HydrationFails, ProbeLive,
           ProbeDead, IngestFails, storeVars, InIteration, WithLogs, InBlock, NoticedInv,
           RangeIsOrderly
  <1>2. CASE ProbeLive \/ IngestFails
    <2>1. cursor' = cursor /\ pc' = "drain" /\ ret' = "head" /\ logs' = {} /\ unseen' = {}
      BY <1>2 DEF ProbeLive, IngestFails, LoopTop, ResetCrawl, storeVars
    <2>2. ~InIteration'
      BY <2>1 DEF InIteration, WithLogs, InBlock
    <2> QED BY <1>1, <2>1, <2>2, OutsideNoticed
  <1>3. CASE ~(ProbeLive \/ IngestFails)
    <2>1. /\ UNCHANGED <<end_block, unseen>> /\ logs' \subseteq logs
          /\ pc' \in {"block", "hydrate", "probe", "ingest", "enqueue", "commit", "drain"}
          /\ ret' = "commit" <=> pc' = "drain"
      BY <1>1, <1>3
         DEF ProcessBlock, NextBlock, DeleteLog, EmitDoc, SkipLog, AllHydrated, IngestBatch,
             AllIngested, EnqueueDelete, AllEnqueued, CommitBlock, Hydration, HydrationFails,
             ProbeDead, crawlVars
    <2>2. unseen = {}
      BY <1>1 DEF IInv, ControlInv, Phases
    <2>3. WithLogs'
      BY <2>1 DEF WithLogs, InBlock
    <2>4. CASE CommitBlock
      <3>1. cursor' = entry.block + 1 /\ pc = "commit" /\ pc' = "block"
        BY <2>4 DEF CommitBlock, set_cursor
      <3>2. end_block <= entry.block + FetchBatchSize - 1 /\ entry.block \in Nat
        BY <3>1, NoticedTypes DEF NoticedInv, RangeIsOrderly, InBlock
      <3>3. cursor' \in Int /\ end_block <= cursor' + FetchBatchSize - 1
        BY <3>1, <3>2, NoticedTypes
      <3>4. ~InBlock'
        BY <2>1, <3>1 DEF InBlock
      <3> QED BY <1>1, <2>1, <2>2, <2>3, <3>1, <3>3, <3>4, InsideNoticed
    <2>5. CASE NextBlock
      <3>1. cursor' = cursor /\ entry' \in logs
        BY <2>5 DEF NextBlock, storeVars
      <3>2. end_block' <= entry'.block + FetchBatchSize - 1
        BY <2>1, <3>1 DEF NoticedInv, RangeIsOrderly
      <3> QED BY <1>1, <2>1, <2>2, <2>3, <3>1, <3>2, InsideNoticed
    <2>6. CASE ~(CommitBlock \/ NextBlock)
      <3>1. UNCHANGED <<cursor, entry>> /\ InBlock
        BY <1>1, <1>3, <2>6
           DEF ProcessBlock, DeleteLog, EmitDoc, SkipLog, AtLog, AllHydrated, IngestBatch,
               AllIngested, EnqueueDelete, AllEnqueued, Hydration, HydrationFails, ProbeDead,
               crawlVars, storeVars, InBlock
      <3>2. end_block' <= entry'.block + FetchBatchSize - 1
        BY <2>1, <3>1 DEF NoticedInv, RangeIsOrderly
      <3> QED BY <1>1, <2>1, <2>2, <2>3, <3>1, <3>2, InsideNoticed
    <2> QED BY <2>4, <2>5, <2>6
  <1> QED BY <1>2, <1>3

LEMMA FinishNoticed == ASSUME IInv, NoticedInv, Finish PROVE NoticedInv'
  <1>1. UNCHANGED chainVars /\ InIteration /\ cursor \in Int /\ ret # "commit"
    BY NoticedTypes
       DEF Finish, FinishRange, PruneBuffer, PruneEmitted, InIteration, WithLogs, NoticedInv,
           RangeIsOrderly
  <1>2. CASE PruneEmitted
    <2>1. /\ UNCHANGED <<cursor, reorg_buffer>>
          /\ pc' = "drain" /\ ret' = "head" /\ logs' = {} /\ unseen' = {}
      BY <1>2 DEF PruneEmitted, LoopTop, ResetCrawl
    <2>2. ~InIteration'
      BY <2>1 DEF InIteration, WithLogs, InBlock
    <2> QED BY <1>1, <2>1, <2>2, OutsideNoticed
  <1>3. CASE FinishRange \/ PruneBuffer
    <2>1. /\ UNCHANGED <<end_block, logs, unseen, ret>> /\ logs = {}
          /\ pc \in {"block", "prune_buffer"} /\ pc' \in {"prune_buffer", "prune_emitted"}
          /\ reorg_buffer' \subseteq reorg_buffer
          /\ cursor' = cursor \/ cursor' = end_block + 1
      BY <1>3 DEF FinishRange, PruneBuffer, crawlVars, set_cursor, prune_reorg_buffer, KeptBy, IInv,
                  ControlInv, Phases
    <2>2. unseen = {}
      BY <2>1 DEF IInv, ControlInv, Phases
    <2>3. cursor' \in Int /\ (cursor' = cursor \/ end_block <= cursor' + FetchBatchSize - 1)
      BY <1>1, <2>1, NoticedTypes
    <2>4. ~InBlock'
      BY <1>1, <2>1 DEF InBlock
    <2> QED BY <1>1, <2>1, <2>2, <2>3, <2>4, InsideNoticed
  <1> QED BY <1>2, <1>3 DEF Finish

LEMMA RetractNoticed == ASSUME IInv, NoticedInv, Retract PROVE NoticedInv'
  <1>1. /\ UNCHANGED chainVars /\ pc \in {"retract", "retract_enqueue", "forget", "rollback"}
        /\ cursor \in Int /\ ret # "commit" /\ logs = {} /\ unseen = {}
    BY NoticedTypes
       DEF Retract, TooDeep, BeginRetract, EnqueueRetraction, TruncateBuffer, ForgetEmitted, RollBack,
           NoticedInv, RangeIsOrderly, WithLogs, InBlock
  <1>2. /\ logs' = {} /\ unseen' = {} /\ ret' # "commit"
        /\ pc' \in {"retract_enqueue", "forget", "rollback", "drain"} \cup Down
    BY <1>1
       DEF Retract, TooDeep, BeginRetract, EnqueueRetraction, TruncateBuffer, ForgetEmitted, RollBack,
           Exit, ResetCrawl, crawlVars, Down
  <1>3. ~InIteration' /\ ~InBlock'
    BY <1>2 DEF InIteration, WithLogs, InBlock, Down
  <1>4. CASE TooDeep \/ BeginRetract \/ EnqueueRetraction
    <2>1. UNCHANGED <<cursor, reorg_buffer>> /\ pc' \notin {"forget", "rollback"}
      BY <1>4 DEF TooDeep, BeginRetract, EnqueueRetraction, storeVars, Exit
    <2> QED BY <1>1, <1>2, <1>3, <2>1, OutsideNoticed
  <1>5. CASE TruncateBuffer \/ ForgetEmitted \/ RollBack
    <2>1. /\ reorg_buffer' \subseteq reorg_buffer /\ \A e \in reorg_buffer' : e.block <= fork_point
          /\ \/ cursor' = cursor /\ fork_point' = fork_point
             \/ cursor' = fork_point + 1 /\ pc' = "drain"
      BY <1>5 DEF TruncateBuffer, truncate_reorg_buffer_after, ForgetEmitted, RollBack, reorgVars,
                  set_cursor, new_cursor, NoticedInv, BufferIsOrderly
    <2>2. Target' = Target
      BY <1>1, AnswersUnchanged
    <2>3. BufferIsOrderly'
      <3>1. ASSUME NEW e \in reorg_buffer'
            PROVE  e.block <= Target' /\ e.block <= cursor' + FetchBatchSize - 1
        <4>1. /\ e \in reorg_buffer /\ e.block <= Target /\ e.block <= cursor + FetchBatchSize - 1
              /\ e.block <= fork_point /\ e.block \in Nat
          BY <2>1, NoticedTypes DEF NoticedInv, BufferIsOrderly
        <4> QED BY <2>1, <2>2, <4>1, NoticedTypes
      <3> QED BY <2>1, <3>1 DEF NoticedInv, BufferIsOrderly
    <2> QED BY <1>2, <1>3, <2>3 DEF NoticedInv, RangeIsOrderly, DeepIsRead
  <1> QED BY <1>4, <1>5 DEF Retract

\* A reorg does not reach what lies deep when the range ends below the head.
LEMMA ChainNoticed == ASSUME IInv, NoticedInv, Environment PROVE NoticedInv'
  <1>1. /\ UNCHANGED <<storeVars, pc, ret, crawlVars, reorgVars>> /\ ChainNext /\ ChainTypeOK
    BY ReorgTypes DEF Environment
  <1>2. UNCHANGED <<cursor, reorg_buffer, end_block, logs, unseen, entry, sample, fork_point>>
    BY <1>1 DEF storeVars, crawlVars, reorgVars
  <1>3. Target <= Target' /\ Target' \in Nat
    <2>1. /\ Len(chain) \in Nat /\ Len(chain') \in Nat /\ Len(chain) <= Len(chain')
      BY <1>1, ChainStep DEF ChainTypeOK
    <2>2. ConfirmationDepth \in Nat
      BY BridgeAssumption
    <2> QED BY <2>1, <2>2 DEF Target, SatSub, HeadBlock
  <1>4. ASSUME NEW x, x.block \in Nat, OutOfReach(x.block) PROVE Matches(x)' = Matches(x)
    <2>1. x.block + MaxReorgDepth <= Len(chain)
      BY <1>4, ReorgTypes DEF OutOfReach
    <2>2. x.block # 0 => chain'[x.block] = chain[x.block]
      <3>1. x.block # 0 => x.block \in 1..Len(chain)
        BY <1>4, <2>1, ReorgTypes
      <3>2. MaxReorgDepth \in Nat /\ MaxReorgDepth <= MaxReorgDepth
        BY NoticedTypes
      <3> QED BY <1>1, <2>1, <3>1, <3>2, TipMoves
    <2> QED BY <2>2 DEF Matches, BlockHash
  <1>5. InIteration' = InIteration /\ InBlock' = InBlock /\ WithLogs' = WithLogs
    BY <1>1 DEF InIteration, InBlock, WithLogs
  <1>6. BufferIsOrderly'
    <2>1. \A e \in reorg_buffer : e.block <= Target'
      BY <1>3, NoticedTypes DEF NoticedInv, BufferIsOrderly
    <2> QED BY <1>1, <1>2, <2>1 DEF NoticedInv, BufferIsOrderly
  <1>7. RangeIsOrderly'
    <2>1. InIteration => end_block <= Target'
      BY <1>3, NoticedTypes DEF NoticedInv, RangeIsOrderly
    <2> QED BY <1>1, <1>2, <1>5, <2>1 DEF NoticedInv, RangeIsOrderly
  <1>8. DeepIsRead'
    <2>1. \A e \in reorg_buffer : OutOfReach(e.block) => Matches(e)' = Matches(e)
      BY <1>4, NoticedTypes
    <2>2. \A l \in unseen : OutOfReach(l.block) => Matches(l)' = Matches(l)
      <3>1. \A l \in unseen : l.block \in Nat
        BY NoticedTypes
      <3> QED BY <1>4, <3>1
    <2> QED BY <1>1, <1>2, <1>5, <2>1, <2>2 DEF NoticedInv, DeepIsRead, OutOfReach
  <1> QED BY <1>6, <1>7, <1>8 DEF NoticedInv

LEMMA IdleNoticed ==
  ASSUME IInv, NoticedInv, RpcError \/ Crash \/ Restart \/ UNCHANGED vars PROVE NoticedInv'
  <1>1. CASE RpcError \/ Crash \/ Restart
    <2>1. /\ UNCHANGED <<chainVars, cursor, reorg_buffer>> /\ cursor \in Int
          /\ pc' \in {"drain"} \cup Down /\ ret' = "head" /\ logs' = {} /\ unseen' = {}
      BY <1>1, NoticedTypes
         DEF RpcError, Crash, Restart, LoopTop, Exit, ResetCrawl, storeVars, Down
    <2>2. ~InIteration' /\ pc' \notin {"forget", "rollback"}
      BY <2>1 DEF InIteration, WithLogs, InBlock, Down
    <2> QED BY <2>1, <2>2, OutsideNoticed
  <1>2. CASE UNCHANGED vars
    <2>1. /\ UNCHANGED <<chainVars, cursor, reorg_buffer, pc, ret, end_block, logs, unseen, entry>>
          /\ UNCHANGED <<sample, fork_point>>
      BY <1>2 DEF vars, storeVars, crawlVars, reorgVars
    <2>2. Target' = Target /\ \A x : Matches(x)' = Matches(x)
      BY <2>1, AnswersUnchanged
    <2>3. InIteration' = InIteration /\ InBlock' = InBlock /\ WithLogs' = WithLogs
      BY <2>1 DEF InIteration, InBlock, WithLogs
    <2>4. BufferIsOrderly' /\ RangeIsOrderly'
      BY <2>1, <2>2, <2>3 DEF NoticedInv, BufferIsOrderly, RangeIsOrderly
    <2>5. DeepIsRead'
      BY <2>1, <2>2, <2>3 DEF NoticedInv, DeepIsRead, OutOfReach
    <2> QED BY <2>4, <2>5 DEF NoticedInv
  <1> QED BY <1>1, <1>2

LEMMA NoticedInit == Init => NoticedInv
  <1> SUFFICES ASSUME Init PROVE NoticedInv
    OBVIOUS
  <1>1. /\ reorg_buffer = {} /\ pc = "drain" /\ ret = "head" /\ logs = {} /\ unseen = {}
    BY DEF Init, StoreInit
  <1>2. ~InIteration /\ ~InBlock
    BY <1>1 DEF InIteration, WithLogs, InBlock
  <1> QED BY <1>1, <1>2 DEF NoticedInv, BufferIsOrderly, RangeIsOrderly, DeepIsRead

LEMMA NoticedStep ==
  AlwaysSampled /\ IInv /\ NoticedInv /\ [Next]_vars => NoticedInv'
  <1> SUFFICES ASSUME AlwaysSampled, IInv, NoticedInv, [Next]_vars PROVE NoticedInv'
    OBVIOUS
  <1> QED BY DrainNoticed, BeginNoticed, CheckNoticed, ObserveNoticed, BlockNoticed, FinishNoticed,
             RetractNoticed, ChainNoticed, IdleNoticed
          DEF Next, Work, Failure

\* What a prune drops lies deep.
LEMMA DeepIsNoticed ==
  ASSUME WindowsCoverReorgs, IInv, NoticedInv PROVE NoticedInTime
  <1>1. /\ BufferSize \in Nat /\ DedupWindow \in Nat /\ MaxReorgDepth \in Nat
        /\ MaxReorgDepth <= BufferSize /\ MaxReorgDepth <= DedupWindow + 1
    BY BridgeAssumption, ChainAssumption DEF WindowsCoverReorgs
  <1>2. ASSUME pc \in {"prune_buffer", "prune_emitted"}, NEW e \in reorg_buffer, OutOfReach(e.block)
        PROVE  Matches(e)
    BY <1>2 DEF NoticedInv, DeepIsRead, InIteration
  <1>3. ASSUME pc = "prune_buffer", NEW e \in reorg_buffer \ KeptBy(BufferSize)
        PROVE  Matches(e)
    <2>1. PICK f \in reorg_buffer : ~(f.block < e.block + BufferSize)
      BY <1>3 DEF KeptBy, BufferedBlocks
    <2>2. f.block <= end_block
      BY <1>3 DEF NoticedInv, RangeIsOrderly, InIteration
    <2>3. OutOfReach(e.block)
      BY <1>1, <2>1, <2>2, NoticedTypes DEF OutOfReach
    <2> QED BY <1>2, <1>3, <2>3
  <1>4. ASSUME pc = "prune_emitted", NEW e \in reorg_buffer,
               e.block < SatSub(end_block, DedupWindow)
        PROVE  Matches(e)
    <2>1. OutOfReach(e.block)
      BY <1>1, <1>4, NoticedTypes DEF OutOfReach, SatSub
    <2> QED BY <1>2, <1>4, <2>1
  <1> QED BY <1>3, <1>4 DEF NoticedInTime, BufferNoticed, WindowNoticed

-----------------------------------------------------------------------------
(* Which samples leave nothing out.                                          *)

\* A remainder tells a multiple apart.
LEMMA RemainderOfMultiple ==
  ASSUME NEW n \in Nat, n > 0, NEW r \in 0..n - 1, NEW k \in Int PROVE (r + n * k) % n = r
  <1> DEFINE x == r + n * k
             q == x \div n
             s == x % n
  <1>1. x \in Int /\ q \in Int /\ s \in 0..n - 1 /\ x = n * q + s
    OBVIOUS
  <1>2. n * (k - q) = s - r
    BY <1>1
  <1> HIDE DEF x, q, s
  <1>3. k - q >= 1 => n * (k - q) >= n
    BY <1>1
  <1>4. k - q <= -1 => n * (k - q) <= -n
    BY <1>1
  <1>5. k = q
    BY <1>1, <1>2, <1>3, <1>4
  <1>6. s = r
    BY <1>1, <1>2, <1>5
  <1> QED BY <1>6 DEF s, x

\* 13, the stride of check_buffer, has an inverse for every length that is no
\* multiple of it.
LEMMA StrideInverse ==
  ASSUME NEW n \in Nat, n % 13 # 0 PROVE \E u, m \in Nat : 13 * u = m * n + 1
  <1> DEFINE k == n % 13
             d == n \div 13
  <1>1. k \in 1..12 /\ d \in Nat /\ n = 13 * d + k
    OBVIOUS
  <1> HIDE DEF k, d
  <1>2. \E m \in 1..12, c \in 0..12 : m * k + 1 = 13 * c
    <2>1. k = 1 => 12 * k + 1 = 13 * 1
      OBVIOUS
    <2>2. k = 2 => 6 * k + 1 = 13 * 1
      OBVIOUS
    <2>3. k = 3 => 4 * k + 1 = 13 * 1
      OBVIOUS
    <2>4. k = 4 => 3 * k + 1 = 13 * 1
      OBVIOUS
    <2>5. k = 5 => 5 * k + 1 = 13 * 2
      OBVIOUS
    <2>6. k = 6 => 2 * k + 1 = 13 * 1
      OBVIOUS
    <2>7. k = 7 => 11 * k + 1 = 13 * 6
      OBVIOUS
    <2>8. k = 8 => 8 * k + 1 = 13 * 5
      OBVIOUS
    <2>9. k = 9 => 10 * k + 1 = 13 * 7
      OBVIOUS
    <2>10. k = 10 => 9 * k + 1 = 13 * 7
      OBVIOUS
    <2>11. k = 11 => 7 * k + 1 = 13 * 6
      OBVIOUS
    <2>12. k = 12 => 1 * k + 1 = 13 * 1
      OBVIOUS
    <2> QED BY <1>1, <2>1, <2>2, <2>3, <2>4, <2>5, <2>6, <2>7, <2>8, <2>9, <2>10, <2>11, <2>12
  <1>3. PICK m \in 1..12, c \in 0..12 : m * k + 1 = 13 * c
    BY <1>2
  <1>4. m * n + 1 = 13 * (m * d + c) /\ m * d + c \in Nat /\ m \in Nat
    BY <1>1, <1>3
  <1> QED BY <1>4

\* So the slots reach every rank, wherever the iteration starts them.
LEMMA SlotsReachAll ==
  ASSUME NEW n \in Nat, n % 13 # 0, NEW r \in 0..n - 1, NEW iteration \in Nat
  PROVE  \E slot \in 0..n - 1 : r = (7 * iteration + 13 * slot) % n
  <1>0. n > 0
    OBVIOUS
  <1>1. PICK u, m \in Nat : 13 * u = m * n + 1
    BY StrideInverse
  <1> DEFINE t == r - 7 * iteration
             q == (u * t) \div n
             slot == (u * t) % n
  <1>2. t \in Int /\ u * t \in Int
    OBVIOUS
  <1>3. q \in Int /\ slot \in 0..n - 1 /\ u * t = n * q + slot
    BY <1>0, <1>2
  <1>4. t = r - 7 * iteration
    OBVIOUS
  <1> HIDE DEF t, q, slot
  <1>5. 13 * (u * t) = (m * n + 1) * t
    <2>1. 13 * (u * t) = (13 * u) * t
      BY <1>2
    <2> QED BY <1>1, <2>1
  <1>6. (m * n + 1) * t = n * (m * t) + t
    BY <1>2
  <1>7. 13 * (n * q) = n * (13 * q)
    BY <1>3
  <1>8. 13 * slot = t + n * (m * t) - n * (13 * q)
    BY <1>2, <1>3, <1>5, <1>6, <1>7
  <1>9. n * (m * t) - n * (13 * q) = n * (m * t - 13 * q) /\ m * t - 13 * q \in Int
    BY <1>2, <1>3
  <1>10. 7 * iteration + 13 * slot = r + n * (m * t - 13 * q)
    BY <1>2, <1>3, <1>4, <1>8, <1>9
  <1>11. PICK k \in Int : 7 * iteration + 13 * slot = r + n * k
    BY <1>9, <1>10
  <1>12. (7 * iteration + 13 * slot) % n = r
    BY <1>0, <1>11, RemainderOfMultiple
  <1> QED BY <1>3, <1>12

LEMMA CoveredIsSampled == ASSUME IInv, SampleTakesAll PROVE AlwaysSampled
  <1> DEFINE n == Cardinality(reorg_buffer)
  <1>1. IsFiniteSet(reorg_buffer) /\ \A e \in reorg_buffer : e.block \in Nat
    BY NoticedTypes DEF IInv, ControlInv, TypeOK, StoreTypeOK
  <1>2. n \in Nat /\ RecheckSampleSize \in Nat
    BY <1>1, FS_CardinalityType, BridgeAssumption
  <1>3. ASSUME NEW iteration \in 0..n - 1, NEW e \in reorg_buffer PROVE e \in Sampled(iteration)
    <2>1. n > 0 /\ n % 13 # 0 /\ n < RecheckSampleSize /\ iteration \in Nat
      BY <1>2, <1>3 DEF SampleTakesAll
    <2>2. Rank(e) \in 0..n - 1
      <3>1. Candidates(e.block) \in SUBSET (reorg_buffer \ {e})
        BY <1>1 DEF Candidates
      <3>2. IsFiniteSet(reorg_buffer \ {e}) /\ Cardinality(reorg_buffer \ {e}) = n - 1
        BY <1>1, FS_RemoveElement
      <3>3. Rank(e) <= n - 1 /\ Rank(e) \in Nat
        BY <3>1, <3>2, FS_Subset, FS_CardinalityType DEF Rank
      <3> QED BY <1>2, <3>3
    <2> HIDE DEF n
    <2>3. PICK slot \in 0..n - 1 : Rank(e) = (7 * iteration + 13 * slot) % n
      BY <1>2, <2>1, <2>2, SlotsReachAll
    <2>4. slot \in 0..RecheckSampleSize - 2
      BY <1>2, <2>1, <2>3
    <2> QED BY <2>3, <2>4 DEF Sampled, n
  <1> QED BY <1>3 DEF AlwaysSampled, Sampled

(***************************************************************************)
(* A recheck_sample_size above the length of the buffer keeps the promise: *)
(* where that length is no multiple of the stride, every call of           *)
(* check_buffer re-reads every buffered block, and no prune drops an       *)
(* orphan unnoticed.                                                       *)
(***************************************************************************)
THEOREM SampledIsNoticed ==
  WindowsCoverReorgs => (Spec /\ []SampleTakesAll => []NoticedInTime)
  <1> SUFFICES ASSUME WindowsCoverReorgs PROVE Spec /\ []SampleTakesAll => []NoticedInTime
    OBVIOUS
  <1>1. SampleTakesAll /\ IInv /\ NoticedInv /\ [Next]_vars => NoticedInv'
    BY NoticedStep, CoveredIsSampled
  <1>2. IInv /\ NoticedInv => NoticedInTime
    BY DeepIsNoticed
  <1>3. Spec => []IInv
    BY Inductive
  <1> QED BY <1>1, <1>2, <1>3, NoticedInit, PTL DEF Spec

(***************************************************************************)
(* So with such a sample nothing is left to chance: within the windows     *)
(* every orphaned document is retracted, or the daemon halts.              *)
(***************************************************************************)
THEOREM SampledOrphansGo ==
  WindowsCoverReorgs => (Spec /\ []SampleTakesAll => []RetractedOrHalted)
  <1>1. CASE WindowsCoverReorgs
    <2>1. Spec /\ []SampleTakesAll => []NoticedInTime
      BY <1>1, SampledIsNoticed
    <2>2. Spec /\ []NoticedInTime => []RetractedOrHalted
      BY <1>1, OrphansDoNotStay
    <2>3. Spec /\ []SampleTakesAll => []RetractedOrHalted
      BY <2>1, <2>2, PTL
    <2> QED BY <2>3
  <1> QED BY <1>1
=============================================================================
