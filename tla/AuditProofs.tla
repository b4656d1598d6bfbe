----------------------------- MODULE AuditProofs -----------------------------
(***************************************************************************)
(* The audit raises no false alarm and passes nothing over, for every      *)
(* value of the constants.                                                 *)
(***************************************************************************)
EXTENDS Audit, ChainProofs, FiniteSetTheorems

-----------------------------------------------------------------------------
(* What the node says of a confirmed block.                                  *)

\* The target is a block of the chain.
LEMMA TargetIs ==
  ASSUME ChainTypeOK PROVE Target \in Nat /\ Target <= Len(chain) /\ Len(chain) \in Nat
  <1>1. Len(chain) \in Nat /\ ConfirmationDepth \in Nat
    BY AuditAssumption DEF ChainTypeOK
  <1> QED BY <1>1 DEF Target, HeadBlock, SatSub

\* An entity was last touched at or below the block that is asked about.
LEMMA LastTouched ==
  ASSUME ChainTypeOK, ChainOK, NEW k, NEW b \in 0..Len(chain)
  PROVE  /\ EntityAt(k, b).block \in 0..b
         /\ EntityAt(k, b).live => EntityAt(k, b).block \in 1..b
  <1>0. b \in Nat
    BY DEF ChainTypeOK
  <1>1. CASE \A c \in 1..b : \A i \in DOMAIN chain[c].ops : OpOf(c, i).key # k
    <2>1. EntityAt(k, b) = [live |-> FALSE, match |-> FALSE, block |-> 0]
      BY <1>1, NoOperations
    <2> QED BY <1>0, <2>1
  <1>2. CASE ~(\A c \in 1..b : \A i \in DOMAIN chain[c].ops : OpOf(c, i).key # k)
    <2>1. PICK c \in 1..b : \E i \in DOMAIN chain[c].ops : OpOf(c, i).key = k
      BY <1>2
    <2>2. PICK i \in DOMAIN chain[c].ops : OpOf(c, i).key = k
      BY <2>1
    <2>3. PICK d \in 1..b : \E j \in DOMAIN chain[d].ops : IsLast(k, b, d, j)
      BY <2>2, LastExists
    <2>4. PICK j \in DOMAIN chain[d].ops : IsLast(k, b, d, j)
      BY <2>3
    <2>5. EntityAt(k, b).block = d
      BY <2>4, EntityIs
    <2> QED BY <1>0, <2>5
  <1> QED BY <1>1, <1>2

\* A payload is a payload, and no block wrote the wrong one.
LEMMA PayloadIs ==
  ASSUME ChainTypeOK, ChainOK, NEW k, NEW b \in 0..Len(chain)
  PROVE  PayloadAt(k, b) \in Payload /\ PayloadAt(k, b) # Wrong
  <1> DEFINE e == EntityAt(k, b)
  <1>1. e.live => e.block \in 1..Len(chain)
    BY LastTouched DEF ChainTypeOK
  <1> HIDE DEF e
  <1>2. CASE e.live
    <2>1. PayloadAt(k, b) = [block |-> e.block, hash |-> chain[e.block].hash]
      BY <1>1, <1>2 DEF PayloadAt, BlockHash, e
    <2>2. e.block \in Nat /\ e.block # 0 /\ chain[e.block].hash \in Nat
      BY <1>1, <1>2, BlockTypes
    <2> QED BY <2>1, <2>2 DEF Payload, Wrong
  <1>3. CASE ~e.live
    BY <1>3 DEF PayloadAt, Payload, Wrong, Empty, e
  <1> QED BY <1>2, <1>3

\* It is the same payload as long as the blocks up to it are the same.
LEMMA PayloadStays ==
  ASSUME ChainTypeOK, ChainOK, NEW k, NEW b \in 0..Len(chain), \A c \in 1..b : chain'[c] = chain[c]
  PROVE  PayloadAt(k, b)' = PayloadAt(k, b)
  <1> DEFINE e == EntityAt(k, b)
  <1>1. (EntityAt(k, b))' = e
    BY EntityStays
  <1>2. e.block \in 0..b /\ b \in Nat
    BY LastTouched DEF ChainTypeOK
  <1> HIDE DEF e
  <1>3. BlockHash(e.block) = IF e.block = 0 THEN 0 ELSE chain'[e.block].hash
    BY <1>2 DEF BlockHash
  <1> QED BY <1>1, <1>3 DEF PayloadAt, BlockHash, e

\* The steps of the bridge leave the chain alone.
LEMMA SameChain ==
  ASSUME ChainTypeOK, ChainOK, UNCHANGED chainVars
  PROVE  /\ chain' = chain /\ ChainTypeOK' /\ ChainOK' /\ Target' = Target
         /\ \A k, b : PayloadAt(k, b)' = PayloadAt(k, b)
  <1>1. chain' = chain /\ epoch' = epoch
    BY DEF chainVars
  <1>2. ChainTypeOK' /\ ChainOK' /\ Target' = Target
    BY <1>1 DEF ChainTypeOK, ChainOK, WellFormed, Positions, OpAt, Before, HeadBlock, Target
  <1>3. \A k, b : PayloadAt(k, b)' = PayloadAt(k, b)
    BY <1>1 DEF PayloadAt, EntityAt, Positions, OpAt, Before, BlockHash
  <1> QED BY <1>1, <1>2, <1>3

\* The chain's own steps leave the confirmed blocks alone.
LEMMA ChainMoves ==
  ASSUME ChainTypeOK, ChainOK, ChainNext
  PROVE  /\ ChainTypeOK' /\ ChainOK' /\ Target \in Nat /\ Target' \in Nat /\ Target <= Target'
         /\ \A b \in 1..Target : chain'[b] = chain[b]
         /\ \A k : \A b \in 1..Target : PayloadAt(k, b)' = PayloadAt(k, b)
  <1>1. ChainTypeOK' /\ ChainOK' /\ Len(chain') >= Len(chain)
    BY ChainStep, ChainStays
  <1>2. Len(chain) \in Nat /\ Len(chain') \in Nat /\ ConfirmationDepth \in Nat
    BY <1>1, AuditAssumption DEF ChainTypeOK
  <1>3. Target = SatSub(Len(chain), ConfirmationDepth) /\ Target' = SatSub(Len(chain'), ConfirmationDepth)
    BY DEF Target, HeadBlock
  <1>4. Target \in Nat /\ Target' \in Nat /\ Target <= Target'
    BY <1>1, <1>2, <1>3 DEF SatSub
  <1>5. \A b \in 1..Target : b \in 1..Len(chain) /\ b + ConfirmationDepth <= Len(chain)
    BY <1>2, <1>3 DEF SatSub
  <1>6. \A b \in 1..Target : chain'[b] = chain[b]
    BY <1>2, <1>5, TipMoves, AuditAssumption
  <1>7. \A k : \A b \in 1..Target : PayloadAt(k, b)' = PayloadAt(k, b)
    <2> SUFFICES ASSUME NEW k, NEW b \in 1..Target PROVE PayloadAt(k, b)' = PayloadAt(k, b)
      OBVIOUS
    <2>1. b \in 0..Len(chain) /\ \A c \in 1..b : c \in 1..Target
      BY <1>2, <1>4, <1>5
    <2> QED BY <1>6, <2>1, PayloadStays
  <1> QED BY <1>1, <1>4, <1>6, <1>7

-----------------------------------------------------------------------------
(* AuditInv, step by step.                                                   *)

\* What the log at work is about.
LEMMA AtWork ==
  ASSUME AuditInv, AtBlock
  PROVE  /\ block \in 1..Len(chain) /\ block \in 0..Len(chain) /\ cursor <= block /\ pos \in Nat /\ pos >= 1
         /\ Target \in Nat /\ cursor \in Nat
         /\ pos <= Len(chain[block].ops) => Log.key \in Key
  <1>1. ChainTypeOK /\ block \in 1..Target /\ cursor <= block /\ pos \in Nat /\ pos >= 1 /\ cursor \in Nat
    BY DEF AuditInv, AuditTypeOK, WorkIsConfirmed
  <1>2. block \in 1..Len(chain) /\ block \in 0..Len(chain) /\ Target \in Nat
    BY <1>1, TargetIs
  <1>3. pos <= Len(chain[block].ops) => Log.key \in Key
    <2>1. pos <= Len(chain[block].ops) => pos \in DOMAIN chain[block].ops
      BY <1>1, <1>2, BlockTypes
    <2> QED BY <1>1, <1>2, <2>1, BlockTypes DEF OpOf, Log, Op
  <1> QED BY <1>1, <1>2, <1>3

\* A row names a confirmed block, and what the node says of it is a payload.
LEMMA RowFacts ==
  ASSUME AuditInv, NEW r \in emitted
  PROVE  /\ r \in Row /\ r.block \in 1..Target /\ r.block \in 0..Len(chain) /\ r.block \in Nat
         /\ r.payload \in {Wrong, PayloadAt(r.key, r.block)}
         /\ PayloadAt(r.key, r.block) # Wrong
  <1>1. ChainTypeOK /\ ChainOK /\ r \in Row /\ r.block \in 1..Target
    BY DEF AuditInv, AuditTypeOK, RowsAgree
  <1>2. r.block \in 0..Len(chain) /\ r.block \in Nat
    BY <1>1, TargetIs
  <1>3. r.payload \in {Wrong, PayloadAt(r.key, r.block)}
    BY DEF AuditInv, RowsAgree
  <1> QED BY <1>1, <1>2, <1>3, PayloadIs

\* Steps that record nothing: the types and the work in hand decide.
LEMMA NothingRecorded ==
  ASSUME AuditInv, UNCHANGED chainVars,
         emitted' \subseteq emitted,
         AuditTypeOK', WorkIsConfirmed', AuditIsBehind',
         \A r \in counted' : r.payload = Wrong,
         pc' \in {"backup", "suspect"} => answer' \in {Wrong, PayloadAt(Log.key, block)'}
  PROVE  AuditInv'
  <1>1. ChainTypeOK /\ ChainOK
    BY DEF AuditInv, AuditTypeOK
  <1>2. ChainOK' /\ Target' = Target /\ \A k, b : PayloadAt(k, b)' = PayloadAt(k, b)
    BY <1>1, SameChain
  <1>3. RowsAgree'
    <2>1. IsFiniteSet(emitted')
      BY FS_Subset DEF AuditInv, RowsAgree
    <2>2. ASSUME NEW r \in emitted'
          PROVE  r.block \in 1..Target' /\ r.payload \in {Wrong, PayloadAt(r.key, r.block)'}
      BY <1>2 DEF AuditInv, RowsAgree
    <2> QED BY <2>1, <2>2 DEF RowsAgree
  <1>4. NoFalseAlarm'
    BY DEF NoFalseAlarm
  <1> QED BY <1>2, <1>3, <1>4 DEF AuditInv

\* An iteration ends, a process dies or starts: its memory is reset.
LEMMA Resting ==
  ASSUME AuditInv, UNCHANGED <<chainVars, cursor, emitted>>, ResetMemory,
         pc' \in {"head", "halted", "stopped"},
         last_audit_block' \in Nat, last_audit_block' = 0 \/ last_audit_block' < cursor,
         mismatches' \in Nat,
         pc' \in Running /\ mismatches' > 0 => mismatches' < MismatchHaltThreshold,
         counted' \subseteq Row, \A r \in counted' : r.payload = Wrong,
         excused' \subseteq Row
  PROVE  AuditInv'
  <1>1. ChainTypeOK /\ ChainOK /\ Target \in Nat
    BY TargetIs DEF AuditInv, AuditTypeOK
  <1>2. ChainTypeOK' /\ Target' = Target
    BY <1>1, SameChain
  <1>3. AuditTypeOK'
    BY <1>2 DEF AuditInv, AuditTypeOK, ResetMemory, Running, Empty, Payload
  <1>4. WorkIsConfirmed' /\ AuditIsBehind'
    BY <1>1, <1>2 DEF WorkIsConfirmed, AuditIsBehind, AtBlock, ResetMemory
  <1> QED BY <1>3, <1>4, NothingRecorded

\* It holds at the start.
LEMMA AuditInit == Init => AuditInv
  <1> SUFFICES ASSUME Init PROVE AuditInv
    OBVIOUS
  <1>1. ChainTypeOK /\ ChainOK
    BY ChainStart DEF Init, ChainInit, ChainTypeOK
  <1>2. Target \in Nat
    BY <1>1, TargetIs
  <1>3. AuditTypeOK
    BY <1>1 DEF Init, AuditTypeOK, Running, Empty, Payload
  <1>4. WorkIsConfirmed /\ AuditIsBehind /\ NoFalseAlarm
    BY <1>2 DEF Init, WorkIsConfirmed, AuditIsBehind, NoFalseAlarm, AtBlock
  <1>5. RowsAgree
    BY FS_EmptySet DEF Init, RowsAgree
  <1> QED BY <1>1, <1>3, <1>4, <1>5 DEF AuditInv

\* Between the logs: a range is begun, a block is entered, passed over, left.
LEMMA CrawlAudit ==
  ASSUME AuditInv, BeginIteration \/ NextBlock \/ DeleteLog \/ CommitBlock PROVE AuditInv'
  <1>1. ChainTypeOK /\ ChainOK /\ Target \in Nat /\ cursor \in Nat /\ pos \in Nat /\ end_block \in Nat
    BY TargetIs DEF AuditInv, AuditTypeOK
  <1>2. UNCHANGED chainVars /\ emitted' = emitted /\ counted' = counted
    BY DEF BeginIteration, NextBlock, DeleteLog, CommitBlock
  <1>3. ChainTypeOK' /\ Target' = Target /\ chain' = chain
    BY <1>1, <1>2, SameChain
  <1>4. CASE BeginIteration
    <2>1. end_block' \in Nat /\ end_block' <= Target
      BY <1>1, <1>4, AuditAssumption DEF BeginIteration
    <2>2. AuditTypeOK'
      BY <1>3, <1>4, <2>1 DEF BeginIteration, AuditInv, AuditTypeOK, Running
    <2>3. cursor <= end_block' + 1
      BY <1>1, <1>4, AuditAssumption DEF BeginIteration
    <2>4. WorkIsConfirmed' /\ AuditIsBehind'
      BY <1>3, <1>4, <2>1, <2>3 DEF BeginIteration, AuditInv, WorkIsConfirmed, AuditIsBehind, AtBlock
    <2> QED BY <1>2, <1>4, <2>2, <2>4, NothingRecorded DEF BeginIteration, AuditInv, NoFalseAlarm
  <1>5. CASE NextBlock
    <2>1. block' \in cursor..end_block /\ block' > 0 /\ end_block <= Target
      BY <1>5 DEF NextBlock, Unprocessed, AuditInv, WorkIsConfirmed
    <2>2. block' \in Nat /\ block' \in 1..Target /\ cursor <= block' /\ block' <= end_block
      BY <1>1, <2>1
    <2>3. AuditTypeOK'
      BY <1>3, <1>5, <2>2 DEF NextBlock, AuditInv, AuditTypeOK, Running
    <2>4. WorkIsConfirmed' /\ AuditIsBehind'
      BY <1>3, <1>5, <2>2 DEF NextBlock, AuditInv, WorkIsConfirmed, AuditIsBehind, AtBlock
    <2> QED BY <1>2, <1>5, <2>3, <2>4, NothingRecorded DEF NextBlock, AuditInv, NoFalseAlarm
  <1>6. CASE DeleteLog
    <2>1. pos' \in Nat /\ pos' >= 1
      BY <1>1, <1>6 DEF DeleteLog
    <2>2. AuditTypeOK'
      BY <1>3, <1>6, <2>1 DEF DeleteLog, AuditInv, AuditTypeOK, Running
    <2>3. WorkIsConfirmed' /\ AuditIsBehind'
      BY <1>3, <1>6, <2>1 DEF DeleteLog, AtLog, AuditInv, WorkIsConfirmed, AuditIsBehind, AtBlock
    <2> QED BY <1>2, <1>6, <2>2, <2>3, NothingRecorded DEF DeleteLog, AtLog, AuditInv, NoFalseAlarm
  <1>7. CASE CommitBlock
    <2>1. block \in 1..Target /\ cursor <= block /\ block <= end_block /\ block \in Nat
      BY <1>1, <1>7 DEF CommitBlock, AuditInv, AuditTypeOK, WorkIsConfirmed, AtBlock
    <2>2. AuditTypeOK'
      BY <1>3, <1>7, <2>1 DEF CommitBlock, AuditInv, AuditTypeOK, Running
    <2>3. last_audit_block \in Nat /\ (last_audit_block = 0 \/ last_audit_block < cursor)
      BY DEF AuditInv, AuditTypeOK, AuditIsBehind
    <2>4. WorkIsConfirmed' /\ AuditIsBehind'
      BY <1>1, <1>3, <1>7, <2>1, <2>3
         DEF CommitBlock, AuditInv, WorkIsConfirmed, AuditIsBehind, AtBlock
    <2> QED BY <1>2, <1>7, <2>2, <2>4, NothingRecorded DEF CommitBlock, AuditInv, NoFalseAlarm
  <1> QED BY <1>4, <1>5, <1>6, <1>7

\* A hydrated entity becomes a row: an honest one of a confirmed block.
LEMMA EmitAudit ==
  ASSUME AuditInv, pc \in {"log", "backup"}, pos <= Len(chain[block].ops),
         NEW payload \in {Wrong, PayloadAt(Log.key, block)}, Emit(payload), answer' \in Payload,
         UNCHANGED <<chainVars, cursor, end_block, block, sample,
                     last_audit_block, mismatches, counted, excused>>
  PROVE  AuditInv'
  <1> DEFINE row == [key |-> Log.key, block |-> block, log |-> pos, payload |-> payload]
  <1>1. ChainTypeOK /\ ChainOK /\ AtBlock
    BY DEF AuditInv, AuditTypeOK, AtBlock
  <1>2. /\ block \in 1..Target /\ block \in 0..Len(chain) /\ block \in Nat /\ cursor <= block
        /\ pos \in Nat /\ pos >= 1 /\ Target \in Nat /\ Log.key \in Key
    BY <1>1, AtWork, TargetIs DEF AuditInv, WorkIsConfirmed
  <1>3. payload \in Payload
    BY <1>1, <1>2, PayloadIs DEF Payload, Wrong
  <1>4. row \in Row
    BY <1>2, <1>3 DEF Row
  <1>5. emitted' = emitted \/ emitted' = emitted \cup {row}
    BY DEF Emit, record_emitted_doc
  <1>6. row.block = block /\ row.key = Log.key /\ row.payload = payload
    OBVIOUS
  <1> HIDE DEF row
  <1>7. chain' = chain /\ ChainTypeOK' /\ ChainOK' /\ Target' = Target
        /\ \A k, b : PayloadAt(k, b)' = PayloadAt(k, b)
    BY <1>1, SameChain
  <1>8. pos' \in Nat /\ pos' >= 1 /\ pc' = "log"
    BY <1>2 DEF Emit
  <1>9. AuditTypeOK'
    BY <1>4, <1>5, <1>7, <1>8 DEF AuditInv, AuditTypeOK, Running
  <1>10. WorkIsConfirmed' /\ AuditIsBehind'
    BY <1>2, <1>7, <1>8 DEF AuditInv, WorkIsConfirmed, AuditIsBehind, AtBlock
  <1>11. RowsAgree'
    <2>1. IsFiniteSet(emitted')
      BY <1>5, FS_AddElement DEF AuditInv, RowsAgree
    <2>2. ASSUME NEW r \in emitted'
          PROVE  r.block \in 1..Target' /\ r.payload \in {Wrong, PayloadAt(r.key, r.block)'}
      BY <1>2, <1>5, <1>6, <1>7 DEF AuditInv, RowsAgree
    <2> QED BY <2>1, <2>2 DEF RowsAgree
  <1>12. NoFalseAlarm'
    BY <1>8 DEF AuditInv, NoFalseAlarm
  <1> QED BY <1>7, <1>9, <1>10, <1>11, <1>12 DEF AuditInv

\* A log is passed over, or left to the other node: nothing is recorded.
LEMMA KeptInBlock ==
  ASSUME AuditInv, AtBlock, pc' \in {"log", "backup", "suspect"},
         UNCHANGED <<chainVars, cursor, emitted, end_block, block, sample,
                     last_audit_block, mismatches, counted, excused>>,
         pos' \in Nat, pos' >= 1, answer' \in Payload,
         pc' \in {"backup", "suspect"} =>
           /\ pos' = pos /\ pos <= Len(chain[block].ops)
           /\ answer' \in {Wrong, PayloadAt(Log.key, block)}
  PROVE  AuditInv'
  <1>1. ChainTypeOK /\ ChainOK
    BY DEF AuditInv, AuditTypeOK
  <1>2. chain' = chain /\ ChainTypeOK' /\ Target' = Target
        /\ \A k, b : PayloadAt(k, b)' = PayloadAt(k, b)
    BY <1>1, SameChain
  <1>3. AuditTypeOK'
    BY <1>2 DEF AuditInv, AuditTypeOK, Running, AtBlock
  <1>4. WorkIsConfirmed' /\ AuditIsBehind'
    BY <1>2 DEF AuditInv, WorkIsConfirmed, AuditIsBehind, AtBlock
  <1>5. pc' \in {"backup", "suspect"} => answer' \in {Wrong, PayloadAt(Log.key, block)'}
    <2>1. pc' \in {"backup", "suspect"} => PayloadAt(Log.key, block)' = PayloadAt(Log.key, block)
      BY <1>2 DEF Log
    <2> QED BY <2>1
  <1>6. \A r \in counted' : r.payload = Wrong
    BY DEF AuditInv, NoFalseAlarm
  <1> QED BY <1>3, <1>4, <1>5, <1>6, NothingRecorded

\* The answers are what the chain says, or wrong.
LEMMA AnswerIs ==
  ASSUME AuditInv, AtBlock, NEW node, NEW payload \in Answers(node)
  PROVE  payload \in {Wrong, PayloadAt(Log.key, block)} /\ payload \in Payload
  <1>1. ChainTypeOK /\ ChainOK /\ block \in 0..Len(chain)
    BY AtWork DEF AuditInv, AuditTypeOK
  <1>2. payload \in {Wrong, PayloadAt(Log.key, block)}
    BY DEF Answers
  <1> QED BY <1>1, <1>2, PayloadIs DEF Payload, Wrong

\* hydrate, from either node and with either of them failing.
LEMMA HydrateAudit ==
  ASSUME AuditInv, Hydrate \/ HydrateBackup \/ HydrationFails \/ MismatchHalts \/ MismatchSkipped
  PROVE  AuditInv'
  <1>0. /\ ChainTypeOK /\ ChainOK /\ AtBlock /\ pos \in Nat /\ pos >= 1 /\ answer \in Payload
        /\ pos + 1 \in Nat /\ pos + 1 >= 1 /\ Empty \in Payload
    <2>1. AtBlock
      BY DEF AtBlock, AtLog, Hydrate, HydrateBackup, HydrationFails, MismatchHalts, MismatchSkipped
    <2>2. pos \in Nat /\ pos >= 1
      BY <2>1, AtWork
    <2> QED BY <2>1, <2>2 DEF AuditInv, AuditTypeOK, Empty, Payload
  <1>1. ASSUME ResetMemory, pc' \in {"head", "halted"},
               UNCHANGED <<chainVars, cursor, emitted, last_audit_block, mismatches, counted, excused>>,
               pc \in Running
        PROVE  AuditInv'
    BY <1>1, Resting DEF AuditInv, AuditTypeOK, AuditIsBehind, NoFalseAlarm
  <1>2. CASE Hydrate
    <2>1. PICK payload \in Answers("primary") :
            IF Paranoid
            THEN pc' = "backup" /\ answer' = payload /\ UNCHANGED <<emitted, pos>>
            ELSE Emit(payload) /\ UNCHANGED answer
      BY <1>2 DEF Hydrate
    <2>2. payload \in {Wrong, PayloadAt(Log.key, block)} /\ payload \in Payload
      BY <1>0, AnswerIs
    <2>3. /\ pc = "log" /\ pos <= Len(chain[block].ops)
          /\ UNCHANGED <<chainVars, cursor, end_block, block, sample,
                         last_audit_block, mismatches, counted, excused>>
      BY <1>2 DEF Hydrate, AtLog
    <2>4. CASE Paranoid
      BY <1>0, <2>1, <2>2, <2>3, <2>4, KeptInBlock
    <2>5. CASE ~Paranoid
      BY <1>0, <2>1, <2>2, <2>3, <2>5, EmitAudit
    <2> QED BY <2>4, <2>5
  <1>3. CASE HydrateBackup
    <2>1. PICK payload \in Answers("backup") :
            IF payload = answer
            THEN Emit(answer) /\ answer' = Empty
            ELSE pc' = "suspect" /\ UNCHANGED <<emitted, pos, answer>>
      BY <1>3 DEF HydrateBackup
    <2>2. /\ pc = "backup"
          /\ UNCHANGED <<chainVars, cursor, end_block, block, sample,
                         last_audit_block, mismatches, counted, excused>>
      BY <1>3 DEF HydrateBackup
    <2>3. pos <= Len(chain[block].ops) /\ answer \in {Wrong, PayloadAt(Log.key, block)}
      BY <2>2 DEF AuditInv, WorkIsConfirmed, NoFalseAlarm
    <2>4. CASE payload = answer
      BY <1>0, <2>1, <2>2, <2>3, <2>4, EmitAudit
    <2>5. CASE payload # answer
      BY <1>0, <2>1, <2>2, <2>3, <2>5, KeptInBlock
    <2> QED BY <2>4, <2>5
  <1>4. CASE HydrationFails
    <2>1. CASE LiveAtHead(Log.key)
      BY <1>1, <1>4, <2>1 DEF HydrationFails, AtLog, Running
    <2>2. CASE ~LiveAtHead(Log.key)
      BY <1>0, <1>4, <2>2, KeptInBlock DEF HydrationFails
    <2> QED BY <2>1, <2>2
  <1>5. CASE MismatchHalts
    BY <1>1, <1>5 DEF MismatchHalts, Running
  <1>6. CASE MismatchSkipped
    BY <1>0, <1>6, KeptInBlock DEF MismatchSkipped
  <1> QED BY <1>2, <1>3, <1>4, <1>5, <1>6

\* The range is passed, the window pruned, and rows are chosen to be audited.
LEMMA FinishAudit == ASSUME AuditInv, FinishRange PROVE AuditInv'
  <1>1. ChainTypeOK /\ ChainOK /\ end_block \in Nat /\ end_block <= Target /\ cursor \in Nat
        /\ cursor <= end_block + 1
    BY DEF AuditInv, AuditTypeOK, WorkIsConfirmed, FinishRange
  <1>2. /\ UNCHANGED chainVars /\ cursor' = end_block + 1 /\ emitted' \subseteq emitted
        /\ pc' \in {"audit", "head"} /\ sample' \subseteq emitted'
        /\ UNCHANGED <<last_audit_block, mismatches, counted, excused>>
    BY DEF FinishRange, ResetMemory
  <1>3. ChainTypeOK' /\ Target' = Target /\ Target \in Nat
    BY <1>1, <1>2, SameChain, TargetIs
  <1>4. last_audit_block \in Nat /\ (last_audit_block = 0 \/ last_audit_block < cursor')
    BY <1>1, <1>2 DEF AuditInv, AuditTypeOK, AuditIsBehind
  <1>5. /\ end_block' \in Nat /\ end_block' <= Target /\ {block', pos'} \subseteq Nat
        /\ answer' \in Payload /\ (pc' = "audit" => end_block' = end_block)
    BY <1>1, <1>3 DEF FinishRange, ResetMemory, AuditInv, AuditTypeOK, Empty, Payload
  <1>6. AuditTypeOK'
    <2>1. emitted' \subseteq Row /\ cursor' \in Nat
      BY <1>1, <1>2 DEF AuditInv, AuditTypeOK
    <2>2. pc = "block"
      BY DEF FinishRange
    <2> QED BY <1>2, <1>3, <1>5, <2>1, <2>2 DEF AuditInv, AuditTypeOK, Running
  <1>7. WorkIsConfirmed' /\ AuditIsBehind'
    BY <1>2, <1>3, <1>4, <1>5 DEF WorkIsConfirmed, AuditIsBehind, AtBlock
  <1>8. (\A r \in counted' : r.payload = Wrong) /\ pc' \notin {"backup", "suspect"}
    BY <1>2 DEF AuditInv, NoFalseAlarm
  <1> QED BY <1>2, <1>6, <1>7, <1>8, NothingRecorded

\* The pass reads on.
LEMMA PassGoesOn ==
  ASSUME AuditInv, pc = "audit", sample' \subseteq sample,
         UNCHANGED <<chainVars, cursor, emitted, pc, end_block, block, pos, answer, last_audit_block>>,
         mismatches' \in Nat, mismatches' > 0 => mismatches' < MismatchHaltThreshold,
         counted' \subseteq Row, \A r \in counted' : r.payload = Wrong,
         excused' \subseteq Row
  PROVE  AuditInv'
  <1>1. ChainTypeOK /\ ChainOK
    BY DEF AuditInv, AuditTypeOK
  <1>2. ChainTypeOK' /\ Target' = Target
    BY <1>1, SameChain
  <1>3. AuditTypeOK'
    BY <1>2 DEF AuditInv, AuditTypeOK
  <1>4. WorkIsConfirmed' /\ AuditIsBehind'
    BY <1>2 DEF AuditInv, WorkIsConfirmed, AuditIsBehind, AtBlock
  <1> QED BY <1>3, <1>4, NothingRecorded

\* A row whose code disagrees recorded a wrong answer: its block is confirmed, so
\* an honest one would still agree.
LEMMA MismatchIsWrong ==
  ASSUME AuditInv, NEW r \in emitted, ~CodeAgrees(r) PROVE r.payload = Wrong
  BY RowFacts DEF CodeAgrees

\* run_audit_pass, row by row, and its end.
LEMMA PassAudit == ASSUME AuditInv, AuditPass PROVE AuditInv'
  <1>0. /\ pc = "audit" /\ sample \subseteq emitted /\ emitted \subseteq Row
        /\ mismatches \in Nat /\ (mismatches > 0 => mismatches < MismatchHaltThreshold)
        /\ counted \subseteq Row /\ excused \subseteq Row /\ (\A r \in counted : r.payload = Wrong)
        /\ last_audit_block \in Nat /\ (last_audit_block = 0 \/ last_audit_block < cursor)
        /\ cursor = end_block + 1 /\ end_block \in Nat /\ MismatchHaltThreshold \in Nat
    <2>1. pc = "audit"
      BY DEF AuditPass, Verify, CountMismatch, CodeFails, PassDone
    <2> QED BY <2>1, AuditAssumption DEF AuditInv, AuditTypeOK, AuditIsBehind, NoFalseAlarm, Running
  <1>1. CASE Verify
    BY <1>0, <1>1, PassGoesOn DEF Verify
  <1>2. CASE CountMismatch
    <2>1. PICK r \in sample :
            /\ ~CodeAgrees(r)
            /\ mismatches' = mismatches + 1
            /\ counted' = counted \cup {r}
            /\ IF ThresholdReached(mismatches')
               THEN pc' = "halted" /\ ResetMemory
               ELSE sample' = sample \ {r} /\ UNCHANGED <<pc, end_block, block, pos, answer>>
      BY <1>2 DEF CountMismatch
    <2>2. r \in Row /\ r.payload = Wrong
      BY <1>0, <2>1, MismatchIsWrong
    <2>3. mismatches' \in Nat /\ counted' \subseteq Row /\ \A x \in counted' : x.payload = Wrong
      BY <1>0, <2>1, <2>2
    <2>4. UNCHANGED <<chainVars, cursor, emitted, last_audit_block, excused>>
      BY <1>2 DEF CountMismatch
    <2>5. CASE ThresholdReached(mismatches')
      BY <1>0, <2>1, <2>3, <2>4, <2>5, Resting DEF Running
    <2>6. CASE ~ThresholdReached(mismatches')
      <3>1. mismatches' < MismatchHaltThreshold
        BY <1>0, <2>3, <2>6 DEF ThresholdReached
      <3> QED BY <1>0, <2>1, <2>3, <2>4, <2>6, <3>1, PassGoesOn
    <2> QED BY <2>5, <2>6
  <1>3. CASE CodeFails
    <2>1. PICK r \in sample :
            IF LiveAtHead(r.key)
            THEN pc' = "head" /\ ResetMemory /\ UNCHANGED excused
            ELSE /\ sample' = sample \ {r}
                 /\ excused' = excused \cup {r}
                 /\ UNCHANGED <<pc, end_block, block, pos, answer>>
      BY <1>3 DEF CodeFails
    <2>2. UNCHANGED <<chainVars, cursor, emitted, last_audit_block, mismatches, counted>>
      BY <1>3 DEF CodeFails
    <2>3. r \in Row
      BY <1>0
    <2>4. CASE LiveAtHead(r.key)
      BY <1>0, <2>1, <2>2, <2>4, Resting
    <2>5. CASE ~LiveAtHead(r.key)
      BY <1>0, <2>1, <2>2, <2>3, <2>5, PassGoesOn
    <2> QED BY <2>4, <2>5
  <1>4. CASE PassDone
    <2>1. last_audit_block' \in Nat /\ last_audit_block' < cursor
      BY <1>0, <1>4 DEF PassDone
    <2> QED BY <1>0, <1>4, <2>1, Resting DEF PassDone
  <1> QED BY <1>1, <1>2, <1>3, <1>4 DEF AuditPass

\* Whatever fails or dies, SQLite keeps what it holds.
LEMMA OutageAudit == ASSUME AuditInv, IterationFails \/ Crash \/ Restart PROVE AuditInv'
  <1>0. /\ last_audit_block \in Nat /\ (last_audit_block = 0 \/ last_audit_block < cursor)
        /\ mismatches \in Nat /\ counted \subseteq Row /\ excused \subseteq Row
        /\ \A r \in counted : r.payload = Wrong
    BY DEF AuditInv, AuditTypeOK, AuditIsBehind, NoFalseAlarm
  <1>1. CASE IterationFails
    <2>1. mismatches > 0 => mismatches < MismatchHaltThreshold
      BY <1>1 DEF IterationFails, AuditInv, AuditTypeOK, Running
    <2> QED BY <1>0, <1>1, <2>1, Resting DEF IterationFails
  <1>2. CASE Crash
    BY <1>0, <1>2, Resting DEF Crash, Running
  <1>3. CASE Restart
    <2>1. ChainTypeOK /\ ChainOK
      BY DEF AuditInv, AuditTypeOK
    <2>2. ChainTypeOK' /\ Target' = Target /\ UNCHANGED chainVars
      BY <1>3, <2>1, SameChain DEF Restart
    <2>3. AuditTypeOK'
      BY <1>3, <2>2 DEF Restart, memory, AuditInv, AuditTypeOK, Running
    <2>4. WorkIsConfirmed' /\ AuditIsBehind'
      BY <1>3, <2>2 DEF Restart, memory, AuditInv, WorkIsConfirmed, AuditIsBehind, AtBlock
    <2> QED BY <1>3, <2>2, <2>3, <2>4, NothingRecorded DEF Restart
  <1> QED BY <1>1, <1>2, <1>3

\* Reorgs stay above the confirmed blocks: the answers of the node about them stay.
LEMMA ChainAudit == ASSUME AuditInv, Environment PROVE AuditInv'
  <1>1. ChainTypeOK /\ ChainOK /\ ChainNext
    BY DEF AuditInv, AuditTypeOK, Environment
  <1>2. /\ ChainTypeOK' /\ ChainOK' /\ Target \in Nat /\ Target' \in Nat /\ Target <= Target'
        /\ \A b \in 1..Target : chain'[b] = chain[b]
        /\ \A k : \A b \in 1..Target : PayloadAt(k, b)' = PayloadAt(k, b)
    BY <1>1, ChainMoves
  <1>3. UNCHANGED <<cursor, emitted, pc, memory, last_audit_block, mismatches, counted, excused>>
    BY DEF Environment
  <1>4. AuditTypeOK'
    BY <1>2, <1>3 DEF AuditInv, AuditTypeOK, memory
  <1>5. WorkIsConfirmed' /\ AuditIsBehind'
    <2>1. end_block \in Nat /\ end_block <= Target'
      BY <1>2 DEF AuditInv, AuditTypeOK, WorkIsConfirmed
    <2>2. AtBlock => block \in 1..Target' /\ chain'[block] = chain[block]
      BY <1>2 DEF AuditInv, WorkIsConfirmed
    <2> QED BY <1>3, <2>1, <2>2 DEF AuditInv, WorkIsConfirmed, AuditIsBehind, AtBlock, memory
  <1>6. RowsAgree'
    <2>1. ASSUME NEW r \in emitted
          PROVE  r.block \in 1..Target' /\ r.payload \in {Wrong, PayloadAt(r.key, r.block)'}
      <3>1. r.block \in 1..Target /\ r.payload \in {Wrong, PayloadAt(r.key, r.block)}
        BY DEF AuditInv, RowsAgree
      <3> QED BY <1>2, <3>1
    <2> QED BY <1>3, <2>1 DEF AuditInv, RowsAgree
  <1>7. NoFalseAlarm'
    <2>1. pc \in {"backup", "suspect"} => PayloadAt(Log.key, block)' = PayloadAt(Log.key, block)
      <3>1. pc \in {"backup", "suspect"} => block \in 1..Target
        BY DEF AuditInv, WorkIsConfirmed, AtBlock
      <3>2. pc \in {"backup", "suspect"} => Log' = Log
        BY <1>2, <1>3, <3>1 DEF Log, memory
      <3> QED BY <1>2, <1>3, <3>1, <3>2 DEF memory
    <2> QED BY <1>3, <2>1 DEF AuditInv, NoFalseAlarm, memory
  <1> QED BY <1>2, <1>4, <1>5, <1>6, <1>7 DEF AuditInv

\* Every step preserves it.
LEMMA AuditStep == AuditInv /\ [Next]_auditVars => AuditInv'
  <1> SUFFICES ASSUME AuditInv, [Next]_auditVars PROVE AuditInv'
    OBVIOUS
  <1>1. CASE BeginIteration \/ ProcessBlock
    BY <1>1, CrawlAudit, HydrateAudit DEF ProcessBlock
  <1>2. CASE FinishRange \/ AuditPass
    BY <1>2, FinishAudit, PassAudit
  <1>3. CASE IterationFails \/ Crash \/ Restart
    BY <1>3, OutageAudit
  <1>4. CASE Environment
    BY <1>4, ChainAudit
  <1>5. CASE UNCHANGED auditVars
    <2>1. ChainTypeOK /\ ChainOK
      BY DEF AuditInv, AuditTypeOK
    <2>2. ChainTypeOK' /\ Target' = Target /\ chain' = chain /\ UNCHANGED chainVars
          /\ \A k, b : PayloadAt(k, b)' = PayloadAt(k, b)
      BY <1>5, <2>1, SameChain DEF auditVars
    <2>3. AuditTypeOK'
      BY <1>5, <2>2 DEF auditVars, memory, AuditInv, AuditTypeOK
    <2>4. WorkIsConfirmed' /\ AuditIsBehind'
      BY <1>5, <2>2 DEF auditVars, memory, AuditInv, WorkIsConfirmed, AuditIsBehind, AtBlock
    <2>5. pc' \in {"backup", "suspect"} => answer' \in {Wrong, PayloadAt(Log.key, block)'}
      BY <1>5, <2>2 DEF auditVars, memory, AuditInv, NoFalseAlarm, Log
    <2>6. \A r \in counted' : r.payload = Wrong
      BY <1>5 DEF auditVars, AuditInv, NoFalseAlarm
    <2>7. emitted' \subseteq emitted
      BY <1>5 DEF auditVars
    <2> QED BY <2>2, <2>3, <2>4, <2>5, <2>6, <2>7, NothingRecorded
  <1> QED BY <1>1, <1>2, <1>3, <1>4, <1>5 DEF Next

-----------------------------------------------------------------------------
(* PassInv, step by step.                                                    *)

\* A row that a pass may leave behind.
Told(r) == r \in counted \cup excused \/ PayloadAt(r.key, r.block) = Empty

\* PassInv, in these terms.
LEMMA PassIs ==
  PassInv <=>
    /\ \A r \in emitted : r.payload = Wrong /\ r.block <= last_audit_block => Told(r)
    /\ pc = "audit" => \A r \in emitted : r.payload = Wrong => r \in sample \/ Told(r)
  BY DEF PassInv, PassesAreComplete, Told

\* What is told of a row stays told, until a restart.
LEMMA ToldStays ==
  ASSUME AuditInv, Environment \/ UNCHANGED chainVars, counted \subseteq counted', excused \subseteq excused',
         NEW r \in emitted, Told(r)
  PROVE  Told(r)'
  <1>1. ChainTypeOK /\ ChainOK
    BY DEF AuditInv, AuditTypeOK
  <1>2. PayloadAt(r.key, r.block)' = PayloadAt(r.key, r.block)
    <2>1. CASE Environment
      BY <1>1, <2>1, ChainMoves, RowFacts DEF Environment
    <2>2. CASE UNCHANGED chainVars
      BY <1>1, <2>2, SameChain
    <2> QED BY <2>1, <2>2
  <1> QED BY <1>2 DEF Told

\* The passes so far stay complete when what is new was not in reach of them.
LEMMA PassesStay ==
  ASSUME AuditInv, PassInv, Environment \/ UNCHANGED chainVars,
         counted \subseteq counted', excused \subseteq excused',
         UNCHANGED last_audit_block,
         \A r \in emitted' : r \in emitted \/ ~(r.block <= last_audit_block)
  PROVE  \A r \in emitted' : r.payload = Wrong /\ r.block <= last_audit_block' => Told(r)'
  <1> SUFFICES ASSUME NEW r \in emitted', r.payload = Wrong, r.block <= last_audit_block'
               PROVE  Told(r)'
    OBVIOUS
  <1>1. r \in emitted /\ r.block <= last_audit_block
    OBVIOUS
  <1>2. Told(r)
    BY <1>1, PassIs
  <1> QED BY <1>1, <1>2, ToldStays

\* Outside a pass, that is all.
LEMMA NoPass ==
  ASSUME AuditInv, PassInv, UNCHANGED chainVars, counted \subseteq counted', excused \subseteq excused',
         UNCHANGED last_audit_block, pc' # "audit",
         \A r \in emitted' : r \in emitted \/ ~(r.block <= last_audit_block)
  PROVE  PassInv'
  <1>1. \A r \in emitted' : r.payload = Wrong /\ r.block <= last_audit_block' => Told(r)'
    BY PassesStay
  <1>2. /\ \A r \in emitted' : r.payload = Wrong /\ r.block <= last_audit_block' => Told(r)'
        /\ pc' = "audit" => \A r \in emitted' : r.payload = Wrong => r \in sample' \/ Told(r)'
    BY <1>1
  <1> QED BY <1>2 DEF PassInv, PassesAreComplete, Told

\* Inside one, a row leaves the sample once it is told.
LEMMA PassTells ==
  ASSUME AuditInv, PassInv, UNCHANGED <<chainVars, emitted, pc, last_audit_block>>, pc = "audit",
         counted \subseteq counted', excused \subseteq excused',
         NEW r \in emitted, sample' = sample \ {r}, r.payload = Wrong => Told(r)'
  PROVE  PassInv'
  <1>1. \A x \in emitted' : x.payload = Wrong /\ x.block <= last_audit_block' => Told(x)'
    BY PassesStay
  <1>2. ASSUME NEW x \in emitted', x.payload = Wrong PROVE x \in sample' \/ Told(x)'
    <2>1. x \in sample \/ Told(x)
      BY <1>2, PassIs
    <2> QED BY <1>2, <2>1, ToldStays
  <1> QED BY <1>1, <1>2 DEF PassInv, PassesAreComplete, Told

\* A row that is recorded now is of a block that no pass has reached.
LEMMA NewRows ==
  ASSUME AuditInv, Hydrate \/ HydrateBackup
  PROVE  \A r \in emitted' : r \in emitted \/ ~(r.block <= last_audit_block)
  <1>1. AtBlock
    BY DEF AtBlock, AtLog, Hydrate, HydrateBackup
  <1>2. block \in Nat /\ block >= 1 /\ cursor <= block /\ cursor \in Nat /\ Target \in Nat
    BY <1>1, AtWork DEF AuditInv, AuditTypeOK
  <1>3. last_audit_block \in Nat /\ (last_audit_block = 0 \/ last_audit_block < cursor)
    BY DEF AuditInv, AuditTypeOK, AuditIsBehind
  <1>4. ~(block <= last_audit_block)
    BY <1>2, <1>3
  <1>5. \/ emitted' = emitted
        \/ \E payload : emitted' = emitted \cup
             {[key |-> Log.key, block |-> block, log |-> pos, payload |-> payload]}
    BY DEF Hydrate, HydrateBackup, Emit, record_emitted_doc
  <1> QED BY <1>4, <1>5

\* A pass begins: the sample takes every row.
LEMMA PassBegins ==
  ASSUME AuditInv, PassInv, FinishRange, Cardinality(emitted') <= SampleSize PROVE PassInv'
  <1>1. /\ UNCHANGED <<chainVars, counted, excused, last_audit_block>> /\ emitted' \subseteq emitted
    BY DEF FinishRange
  <1>2. CASE pc' # "audit"
    BY <1>1, <1>2, NoPass
  <1>3. CASE pc' = "audit"
    <2>1. PICK rows \in SUBSET emitted' :
            /\ Cardinality(rows) = SampleSize \/ rows = emitted'
            /\ sample' = rows
      BY <1>3 DEF FinishRange
    <2>2. IsFiniteSet(emitted')
      BY <1>1, FS_Subset DEF AuditInv, RowsAgree
    <2>3. rows = emitted'
      <3>1. Cardinality(rows) \in Nat /\ Cardinality(emitted') \in Nat /\ SampleSize \in Nat
        BY <2>2, FS_Subset, FS_CardinalityType, AuditAssumption
      <3>2. /\ Cardinality(rows) <= Cardinality(emitted')
            /\ Cardinality(emitted') = Cardinality(rows) => emitted' = rows
        BY <2>2, FS_Subset
      <3> QED BY <2>1, <3>1, <3>2
    <2>4. \A r \in emitted' : r.payload = Wrong /\ r.block <= last_audit_block' => Told(r)'
      BY <1>1, PassesStay
    <2>5. \A r \in emitted' : r.payload = Wrong => r \in sample' \/ Told(r)'
      BY <2>1, <2>3
    <2> QED BY <2>4, <2>5 DEF PassInv, PassesAreComplete, Told
  <1> QED BY <1>2, <1>3

\* It reads row by row, and is done when no row is left.
LEMMA PassReads == ASSUME AuditInv, PassInv, AuditPass PROVE PassInv'
  <1>0. sample \subseteq emitted
    BY DEF AuditInv, AuditTypeOK
  <1>1. CASE Verify
    <2>1. PICK r \in sample : CodeAgrees(r) /\ sample' = sample \ {r}
      BY <1>1 DEF Verify
    <2>2. UNCHANGED <<chainVars, emitted, pc, last_audit_block, counted, excused>> /\ pc = "audit"
      BY <1>1 DEF Verify
    <2>3. r \in emitted /\ (r.payload = Wrong => Told(r))
      BY <1>0, <2>1, RowFacts DEF CodeAgrees, Told
    <2>4. r.payload = Wrong => Told(r)'
      BY <2>2, <2>3, ToldStays
    <2> QED BY <2>1, <2>2, <2>3, <2>4, PassTells
  <1>2. CASE CountMismatch
    <2>1. PICK r \in sample :
            /\ counted' = counted \cup {r}
            /\ IF ThresholdReached(mismatches')
               THEN pc' = "halted" /\ ResetMemory
               ELSE sample' = sample \ {r} /\ UNCHANGED <<pc, end_block, block, pos, answer>>
      BY <1>2 DEF CountMismatch
    <2>2. UNCHANGED <<chainVars, emitted, last_audit_block, excused>> /\ pc = "audit"
      BY <1>2 DEF CountMismatch
    <2>3. Told(r)' /\ r \in emitted
      BY <1>0, <2>1 DEF Told
    <2>4. CASE ThresholdReached(mismatches')
      BY <2>1, <2>2, <2>4, NoPass
    <2>5. CASE ~ThresholdReached(mismatches')
      BY <2>1, <2>2, <2>3, <2>5, PassTells
    <2> QED BY <2>4, <2>5
  <1>3. CASE CodeFails
    <2>1. PICK r \in sample :
            IF LiveAtHead(r.key)
            THEN pc' = "head" /\ ResetMemory /\ UNCHANGED excused
            ELSE /\ sample' = sample \ {r}
                 /\ excused' = excused \cup {r}
                 /\ UNCHANGED <<pc, end_block, block, pos, answer>>
      BY <1>3 DEF CodeFails
    <2>2. UNCHANGED <<chainVars, emitted, last_audit_block, counted>> /\ pc = "audit"
      BY <1>3 DEF CodeFails
    <2>3. CASE LiveAtHead(r.key)
      BY <2>1, <2>2, <2>3, NoPass
    <2>4. CASE ~LiveAtHead(r.key)
      <3>1. Told(r)' /\ r \in emitted
        BY <1>0, <2>1, <2>4 DEF Told
      <3> QED BY <2>1, <2>2, <2>4, <3>1, PassTells
    <2> QED BY <2>3, <2>4
  <1>4. CASE PassDone
    <2>1. /\ UNCHANGED <<chainVars, emitted, counted, excused>>
          /\ pc = "audit" /\ pc' = "head" /\ sample = {}
      BY <1>4 DEF PassDone
    <2>2. ASSUME NEW r \in emitted, r.payload = Wrong PROVE Told(r)'
      <3>1. Told(r)
        BY <2>1, <2>2, PassIs
      <3> QED BY <2>1, <3>1, ToldStays
    <2> QED BY <2>1, <2>2 DEF PassInv, PassesAreComplete, Told
  <1> QED BY <1>1, <1>2, <1>3, <1>4 DEF AuditPass

\* A restart forgets what was counted, and that anything was audited.
LEMMA PassForgotten == ASSUME AuditInv, Restart PROVE PassInv'
  <1>1. last_audit_block' = 0 /\ emitted' = emitted /\ pc' = "head"
    BY DEF Restart
  <1>2. \A r \in emitted : ~(r.block <= 0)
    <2>1. Target \in Nat
      BY TargetIs DEF AuditInv, AuditTypeOK
    <2> QED BY <2>1, RowFacts
  <1> QED BY <1>1, <1>2 DEF PassInv, PassesAreComplete

\* Every step preserves it while samples take every row.
LEMMA PassStep ==
  AuditInv /\ PassInv /\ (Cardinality(emitted) <= SampleSize)' /\ [Next]_auditVars => PassInv'
  <1> SUFFICES ASSUME AuditInv, PassInv, Cardinality(emitted') <= SampleSize, [Next]_auditVars
               PROVE  PassInv'
    OBVIOUS
  <1>1. CASE BeginIteration \/ ProcessBlock \/ IterationFails \/ Crash
    <2>1. UNCHANGED <<chainVars, counted, excused, last_audit_block>> /\ pc' # "audit"
      BY <1>1 DEF BeginIteration, ProcessBlock, NextBlock, DeleteLog, AtLog, Hydrate, HydrateBackup,
                  HydrationFails, MismatchHalts, MismatchSkipped, CommitBlock, Emit,
                  IterationFails, Crash
    <2>2. \A r \in emitted' : r \in emitted \/ ~(r.block <= last_audit_block)
      <3>1. CASE Hydrate \/ HydrateBackup
        BY <3>1, NewRows
      <3>2. CASE ~(Hydrate \/ HydrateBackup)
        BY <1>1, <3>2 DEF BeginIteration, ProcessBlock, NextBlock, DeleteLog, HydrationFails,
                          MismatchHalts, MismatchSkipped, CommitBlock, IterationFails, Crash
      <3> QED BY <3>1, <3>2
    <2> QED BY <2>1, <2>2, NoPass
  <1>2. CASE FinishRange
    BY <1>2, PassBegins
  <1>3. CASE AuditPass
    BY <1>3, PassReads
  <1>4. CASE Restart
    BY <1>4, PassForgotten
  <1>5. CASE Environment \/ UNCHANGED auditVars
    <2>1. /\ Environment \/ UNCHANGED chainVars
          /\ UNCHANGED <<emitted, pc, sample, last_audit_block, counted, excused>>
      BY <1>5 DEF Environment, auditVars, memory
    <2>2. \A r \in emitted' : r.payload = Wrong /\ r.block <= last_audit_block' => Told(r)'
      BY <2>1, PassesStay
    <2>3. ASSUME pc' = "audit", NEW r \in emitted', r.payload = Wrong PROVE r \in sample' \/ Told(r)'
      <3>1. r \in sample \/ Told(r)
        BY <2>1, <2>3, PassIs
      <3> QED BY <2>1, <2>3, <3>1, ToldStays
    <2> QED BY <2>2, <2>3 DEF PassInv, PassesAreComplete, Told
  <1> QED BY <1>1, <1>2, <1>3, <1>4, <1>5 DEF Next

-----------------------------------------------------------------------------
(***************************************************************************)
(* The audit keeps its invariant: types, the work in hand inside the       *)
(* confirmed chain, the rows of emitted_dedup wrong or still what the      *)
(* chain says, and last_audit_block behind the cursor.                     *)
(***************************************************************************)
THEOREM AuditCorrect == Spec => []AuditInv
  BY AuditInit, AuditStep, PTL DEF Spec

(***************************************************************************)
(* Type correctness; a process that runs is below the threshold of         *)
(* run_audit_pass.                                                         *)
(***************************************************************************)
THEOREM AuditTypeCorrect == Spec => []AuditTypeOK
  <1>1. AuditInv => AuditTypeOK
    BY DEF AuditInv
  <1> QED BY <1>1, AuditCorrect, PTL

(***************************************************************************)
(* No alarm over an honest answer: what run_audit_pass counts was recorded *)
(* from a wrong one, and an honest answer stays right while hydrate        *)
(* compares it, whatever is retried, restarted or reorganised in between.  *)
(***************************************************************************)
THEOREM AlarmsAreReal == Spec => []NoFalseAlarm
  <1>1. AuditInv => NoFalseAlarm
    BY DEF AuditInv
  <1> QED BY <1>1, AuditCorrect, PTL

(***************************************************************************)
(* When the samples of run_audit_pass take every row of emitted_dedup, an  *)
(* unfinished pass still holds every wrong row that it has neither counted *)
(* nor found dead, also after earlier passes failed halfway.               *)
(***************************************************************************)
THEOREM PassesGoOn ==
  Spec /\ [](Cardinality(emitted) <= SampleSize) => []PassInv
  <1>1. Init => PassInv
    BY DEF Init, PassInv, PassesAreComplete
  <1> QED BY <1>1, AuditCorrect, PassStep, PTL DEF Spec

(***************************************************************************)
(* With such samples, a completed pass has counted every wrong row it      *)
(* could read.                                                             *)
(***************************************************************************)
THEOREM PassesComplete ==
  Spec /\ [](Cardinality(emitted) <= SampleSize) => []PassesAreComplete
  <1>1. PassInv => PassesAreComplete
    BY DEF PassInv
  <1> QED BY <1>1, PassesGoOn, PTL
=============================================================================
