----------------------------- MODULE CrawlProofs -----------------------------
(***************************************************************************)
(* The crawl passes no gap, leaves nothing stale and implements            *)
(* AtLeastOnce, for every value of the constants, when reorgs stay above   *)
(* the confirmed blocks.                                                   *)
(***************************************************************************)
EXTENDS CrawlInvariant, ControlProofs

\* The document that log i of block b may owe.
DocOf(b, i) == [key |-> OpOf(b, i).key, block |-> b, log |-> i, hash |-> chain[b].hash]

\* Log i of block b owes its document.
Owes(b, i) ==
  /\ i \in DOMAIN chain[b].ops
  /\ OpOf(b, i).op # "delete"
  /\ EntityAt(OpOf(b, i).key, b).live /\ EntityAt(OpOf(b, i).key, b).match

\* What a step of the chain or of the loop keeps of the chain.
ChainKept ==
  /\ ChainTypeOK' /\ ChainOK'
  /\ Target \in Nat /\ Target' \in Nat /\ Target <= Target' /\ Target <= Len(chain)
  /\ \A b \in 1..Target : chain'[b] = chain[b]
  /\ \A b \in 1..Target : Crawl!Due(b)' = Crawl!Due(b)
  /\ \A b \in 1..Target : \A k : Crawl!Touches(b, k)' = Crawl!Touches(b, k)
  /\ Len(chain) \in Nat /\ Len(chain') \in Nat /\ Len(chain) <= Len(chain')
  /\ HydrationErrors => \A b \in 1..Len(chain) : chain'[b] = chain[b]

\* What the block at work adds to the invariant.
BlockInv == BlockSpare /\ BlockBuilt /\ BlockRetired

-----------------------------------------------------------------------------
(* What is due.                                                              *)

\* AtLeastOnce and Bridge ask the same node.
LEMMA SameEntity == \A k, h : Crawl!EntityAt(k, h) = EntityAt(k, h)
  BY DEF Crawl!EntityAt, EntityAt, Crawl!Positions, Positions, Crawl!Before, Before,
         Crawl!OpAt, OpAt

\* Due, log by log.
LEMMA DueIs ==
  ASSUME NEW b PROVE Crawl!Due(b) = {DocOf(b, i) : i \in {j \in DOMAIN chain[b].ops : Owes(b, j)}}
  BY SameEntity DEF Crawl!Due, DocOf, OpOf, Owes

\* A due document has its block, and its entity lives there and is selected.
LEMMA DueFacts ==
  ASSUME NEW b, NEW d \in Crawl!Due(b)
  PROVE  /\ d.block = b /\ d.hash = chain[b].hash
         /\ d.log \in DOMAIN chain[b].ops /\ OpOf(b, d.log).key = d.key
         /\ Owes(b, d.log) /\ d = DocOf(b, d.log)
         /\ EntityAt(d.key, b).live /\ EntityAt(d.key, b).match
         /\ Crawl!Touches(b, d.key)
  <1>1. PICK i \in DOMAIN chain[b].ops : Owes(b, i) /\ d = DocOf(b, i)
    BY DueIs
  <1>2. d.block = b /\ d.hash = chain[b].hash /\ d.log = i /\ d.key = OpOf(b, i).key
    BY <1>1 DEF DocOf
  <1> QED BY <1>1, <1>2 DEF Owes, Crawl!Touches, OpOf

\* Nothing is due of an empty block, and it touches nothing.
LEMMA EmptyBlock ==
  ASSUME NEW b, chain[b].ops = <<>>
  PROVE  Crawl!Due(b) = {} /\ \A k : ~Crawl!Touches(b, k)
  <1>1. DOMAIN chain[b].ops = {}
    OBVIOUS
  <1> QED BY <1>1, DueIs DEF Crawl!Touches

\* Of an entity that no block touches the node knows nothing.
LEMMA NeverTouched ==
  ASSUME ChainTypeOK, ChainOK, NEW k, NEW h \in 0..Len(chain),
         \A b \in 1..h : ~Crawl!Touches(b, k)
  PROVE  ~EntityAt(k, h).live /\ ~EntityAt(k, h).match
  <1>1. \A b \in 1..h : \A i \in DOMAIN chain[b].ops : OpOf(b, i).key # k
    BY DEF Crawl!Touches, OpOf
  <1>2. EntityAt(k, h) = [live |-> FALSE, match |-> FALSE, block |-> 0]
    BY <1>1, NoOperations
  <1> QED BY <1>2

\* A live entity's last operation: the one that made it what it is.
LEMMA LiveAt ==
  ASSUME ChainTypeOK, ChainOK, NEW k, NEW h \in 0..Len(chain), EntityAt(k, h).live
  PROVE  \E b \in 1..h : \E i \in DOMAIN chain[b].ops :
           /\ IsLast(k, h, b, i) /\ EntityAt(k, h).block = b
           /\ EntityAt(k, h).match => DocOf(b, i) \in Crawl!Due(b)
  <1>1. PICK c \in 1..h : Crawl!Touches(c, k)
    BY NeverTouched
  <1>2. PICK j \in DOMAIN chain[c].ops : OpOf(c, j).key = k
    BY <1>1 DEF Crawl!Touches, OpOf
  <1>3. PICK b \in 1..h : \E i \in DOMAIN chain[b].ops : IsLast(k, h, b, i)
    BY <1>2, LastExists
  <1>4. PICK i \in DOMAIN chain[b].ops : IsLast(k, h, b, i)
    BY <1>3
  <1>5. EntityAt(k, h).block = b /\ OpOf(b, i).op # "delete"
    BY <1>4, EntityIs
  <1>6. b \in 0..Len(chain) /\ IsLast(k, b, b, i)
    BY <1>4 DEF IsLast, ChainTypeOK
  <1>7. EntityAt(k, b) = EntityAt(k, h)
    BY <1>4, <1>6, EntityIs
  <1>8. EntityAt(k, h).match => Owes(b, i)
    BY <1>4, <1>5, <1>7 DEF Owes, IsLast
  <1> QED BY <1>4, <1>5, <1>8, DueIs

\* Up to the last block that touches an entity, and no further, nothing changes.
LEMMA Untouched ==
  ASSUME ChainTypeOK, ChainOK, NEW k, NEW b, NEW h \in 0..Len(chain), b \in 1..h,
         Crawl!Touches(b, k), \A c \in 1..h : b < c => ~Crawl!Touches(c, k)
  PROVE  EntityAt(k, h) = EntityAt(k, b) /\ EntityAt(k, h).block = b
  <1>1. PICK j \in DOMAIN chain[b].ops : OpOf(b, j).key = k
    BY DEF Crawl!Touches, OpOf
  <1>2. b \in 0..Len(chain) /\ b \in 1..b /\ h \in Nat
    BY DEF ChainTypeOK
  <1>3. PICK c \in 1..h : \E i \in DOMAIN chain[c].ops :
          IsLast(k, h, c, i) /\ (b < c \/ (b = c /\ j <= i))
    BY <1>1, LastExists
  <1>4. PICK i \in DOMAIN chain[c].ops : IsLast(k, h, c, i)
    BY <1>3
  <1>5. Crawl!Touches(c, k)
    BY <1>4 DEF IsLast, Crawl!Touches, OpOf
  <1>6. c = b
    BY <1>3, <1>5
  <1>7. IsLast(k, b, b, i)
    BY <1>2, <1>4, <1>6 DEF IsLast
  <1> QED BY <1>2, <1>4, <1>6, <1>7, EntityIs

\* What a block owes and touches depends on the blocks up to it.
LEMMA AnswersStay ==
  ASSUME ChainTypeOK, ChainOK, NEW b \in 0..Len(chain), \A c \in 1..b : chain'[c] = chain[c]
  PROVE  /\ \A k : (EntityAt(k, b))' = EntityAt(k, b)
         /\ b >= 1 => /\ Crawl!Due(b)' = Crawl!Due(b)
                      /\ \A k : Crawl!Touches(b, k)' = Crawl!Touches(b, k)
  <1>1. ASSUME NEW k PROVE (EntityAt(k, b))' = EntityAt(k, b)
    BY EntityStays
  <1>2. CASE b >= 1
    <2>1. chain'[b] = chain[b]
      BY <1>2 DEF ChainTypeOK
    <2>2. \A k : Crawl!Touches(b, k)' = Crawl!Touches(b, k)
      BY <2>1 DEF Crawl!Touches
    <2>3. \A k : Crawl!EntityAt(k, b) = EntityAt(k, b) /\ Crawl!EntityAt(k, b)' = (EntityAt(k, b))'
      BY DEF Crawl!EntityAt, EntityAt, Crawl!Positions, Positions, Crawl!Before, Before,
             Crawl!OpAt, OpAt
    <2>4. Crawl!Due(b)' = Crawl!Due(b)
      BY <1>1, <2>1, <2>3 DEF Crawl!Due
    <2> QED BY <1>1, <2>2, <2>4
  <1>3. b \in Nat
    BY DEF ChainTypeOK
  <1> QED BY <1>1, <1>2, <1>3

-----------------------------------------------------------------------------
(* The chain, from one state to the next.                                    *)

\* The target is a block of the chain.
LEMMA TargetIs ==
  ASSUME ChainTypeOK PROVE Target \in Nat /\ Target <= Len(chain) /\ Len(chain) \in Nat
  <1>1. Len(chain) \in Nat /\ ConfirmationDepth \in Nat
    BY BridgeAssumption DEF ChainTypeOK
  <1> QED BY <1>1 DEF Target, HeadBlock, SatSub

\* The steps of the bridge leave it alone ...
LEMMA SameChain ==
  ASSUME ChainTypeOK, ChainOK, UNCHANGED chainVars PROVE ChainKept
  <1>1. chain' = chain /\ epoch' = epoch
    BY DEF chainVars
  <1>2. ChainTypeOK' /\ ChainOK' /\ Target' = Target
    BY <1>1 DEF ChainTypeOK, ChainOK, WellFormed, Positions, OpAt, Before, HeadBlock, Target
  <1>3. \A b \in 1..Target : Crawl!Due(b)' = Crawl!Due(b) /\ \A k : Crawl!Touches(b, k)' = Crawl!Touches(b, k)
    <2> SUFFICES ASSUME NEW b \in 1..Target
                 PROVE Crawl!Due(b)' = Crawl!Due(b) /\ \A k : Crawl!Touches(b, k)' = Crawl!Touches(b, k)
      OBVIOUS
    <2>1. b \in 0..Len(chain) /\ b >= 1
      BY TargetIs
    <2> QED BY <1>1, <2>1, AnswersStay
  <1> QED BY <1>1, <1>2, <1>3, TargetIs DEF ChainKept

\* A reorg does not reach the confirmed blocks.
LEMMA ConfirmedStay ==
  ASSUME ConfirmedCase, ChainTypeOK, ChainNext
  PROVE  /\ Target \in Nat /\ Target' \in Nat /\ Target <= Target' /\ Target <= Len(chain)
         /\ \A b \in 1..Target : chain'[b] = chain[b]
         /\ HydrationErrors => \A b \in 1..Len(chain) : chain'[b] = chain[b]
  <1>1. /\ Len(chain) \in Nat /\ Len(chain') \in Nat /\ Len(chain') >= Len(chain)
        /\ ConfirmationDepth \in Nat
    BY ChainStep, BridgeAssumption DEF ChainTypeOK
  <1>2. Target = SatSub(Len(chain), ConfirmationDepth) /\ Target' = SatSub(Len(chain'), ConfirmationDepth)
    BY DEF Target, HeadBlock
  <1>3. Target \in Nat /\ Target' \in Nat /\ Target <= Target' /\ Target <= Len(chain)
    BY <1>1, <1>2 DEF SatSub
  <1>4. MaxReorgDepth <= ConfirmationDepth /\ (HydrationErrors => MaxReorgs = 0)
    BY DEF ConfirmedCase
  <1>5. \A b \in 1..Target : b \in 1..Len(chain) /\ b + ConfirmationDepth <= Len(chain)
    BY <1>1, <1>2 DEF SatSub
  <1> QED BY <1>1, <1>3, <1>4, <1>5, TipMoves

\* ... and its own steps leave the confirmed blocks alone.
LEMMA ChainMoves ==
  ASSUME ConfirmedCase, ChainTypeOK, ChainOK, ChainNext PROVE ChainKept
  <1>1. ChainTypeOK' /\ ChainOK' /\ Len(chain') >= Len(chain)
    BY ChainStep, ChainStays
  <1>2. \A b \in 1..Target : Crawl!Due(b)' = Crawl!Due(b) /\ \A k : Crawl!Touches(b, k)' = Crawl!Touches(b, k)
    <2> SUFFICES ASSUME NEW b \in 1..Target
                 PROVE Crawl!Due(b)' = Crawl!Due(b) /\ \A k : Crawl!Touches(b, k)' = Crawl!Touches(b, k)
      OBVIOUS
    <2>1. b \in 0..Len(chain) /\ b >= 1 /\ \A c \in 1..b : c \in 1..Target
      BY TargetIs
    <2> QED BY <2>1, AnswersStay, ConfirmedStay
  <1>3. Len(chain) \in Nat /\ Len(chain') \in Nat
    BY <1>1 DEF ChainTypeOK
  <1> QED BY <1>1, <1>2, <1>3, ConfirmedStay DEF ChainKept

\* Such a step keeps what is said of a confirmed block.
LEMMA SaidOfBlocks ==
  ASSUME ChainKept
  PROVE  /\ \A k, b : DeletedFrom(k, b) => DeletedFrom(k, b)'
         /\ \A q : \A b \in 1..Target : QueryOf(q, b)' = QueryOf(q, b)
         /\ cursor' = cursor => \A b : IsNext(b) => IsNext(b)'
  <1>1. \A k, b : DeletedFrom(k, b) => DeletedFrom(k, b)'
    BY DEF ChainKept, DeletedFrom, HeadBlock
  <1>2. \A q : \A b \in 1..Target : QueryOf(q, b)' = QueryOf(q, b)
    BY DEF ChainKept, QueryOf, QueryMatches
  <1>3. cursor' = cursor => \A b : IsNext(b) => IsNext(b)'
    BY DEF ChainKept, IsNext
  <1> QED BY <1>1, <1>2, <1>3

-----------------------------------------------------------------------------
(* What the invariant says.                                                  *)

\* The block at work is the first one with operations that is not passed.
LEMMA AtWork ==
  ASSUME CrawlInv, InBlock
  PROVE  /\ IsNext(entry.block) /\ entry.block \in Nat /\ entry.block \in 1..Len(chain)
         /\ entry.block <= end_block
         /\ cursor \in Nat /\ start <= cursor
         /\ entry.ops = chain[entry.block].ops /\ entry.hash = chain[entry.block].hash
         /\ DOMAIN entry.ops = 1..Len(entry.ops) /\ Len(entry.ops) \in Nat
  <1>1. TypeOK /\ RangeConfirmed /\ LogsAreFresh /\ CursorConfirmed /\ Undisturbed
    BY DEF CrawlInv, ControlInv, Durable, Volatile
  <1>2. cursor # NoCursor
    BY <1>1 DEF RangeConfirmed, InBlock, Down
  <1>3. cursor \in Nat /\ start <= cursor
    BY <1>1, <1>2 DEF TypeOK, StoreTypeOK, CursorConfirmed
  <1>4. end_block <= Target /\ end_block \in Nat
    BY <1>1 DEF TypeOK, CrawlTypeOK, RangeConfirmed, WithLogs
  <1>5. Target \in Nat /\ Target <= Len(chain) /\ Len(chain) \in Nat /\ ChainTypeOK
    BY <1>1, TargetIs DEF TypeOK
  <1>6. logs = RangeLogs /\ entry \in logs /\ \A m \in logs : entry.block <= m.block
    BY <1>1 DEF LogsAreFresh, WithLogs
  <1>7. PICK b \in cursor..end_block :
          /\ b > 0 /\ chain[b].ops # <<>>
          /\ entry = [block |-> b, hash |-> chain[b].hash, ops |-> chain[b].ops]
    BY <1>6 DEF RangeLogs
  <1>8. entry.block = b /\ b \in 1..Target /\ b \in 1..Len(chain)
    BY <1>3, <1>4, <1>5, <1>7
  <1>9. ASSUME NEW c \in 1..Target, cursor <= c, c < b PROVE chain[c].ops = <<>>
    <2>1. SUFFICES ASSUME chain[c].ops # <<>> PROVE FALSE
      OBVIOUS
    <2>2. c \in cursor..end_block /\ c > 0
      BY <1>3, <1>4, <1>5, <1>7, <1>9
    <2>3. [block |-> c, hash |-> chain[c].hash, ops |-> chain[c].ops] \in logs
      BY <1>6, <2>1, <2>2 DEF RangeLogs
    <2>4. b <= c
      BY <1>6, <1>8, <2>3
    <2> QED BY <1>8, <1>9, <2>4, <1>5
  <1>10. IsNext(entry.block)
    BY <1>3, <1>7, <1>8, <1>9 DEF IsNext
  <1>11. DOMAIN entry.ops = 1..Len(entry.ops) /\ Len(entry.ops) \in Nat
    BY <1>1, <1>6 DEF TypeOK, CrawlTypeOK, Entry
  <1> QED BY <1>3, <1>4, <1>7, <1>8, <1>10, <1>11

\* There is one such block.
LEMMA OneNext == ASSUME ChainTypeOK, cursor \in Nat, NEW b, NEW c, IsNext(b), IsNext(c) PROVE b = c
  <1>1. b \in Nat /\ c \in Nat
    BY TargetIs DEF IsNext
  <1> QED BY <1>1 DEF IsNext

\* A delete on record is about it.
LEMMA PendingIs ==
  ASSUME CrawlInv, pending_deletes # <<>>
  PROVE  /\ cursor \in Nat /\ Head(pending_deletes) \in Query
         /\ \E b \in 1..Target : IsNext(b) /\ QueryOf(Head(pending_deletes), b)
  <1>1. pending_deletes \in Seq(Query) /\ cursor \in Nat \cup {NoCursor}
    BY DEF CrawlInv, ControlInv, TypeOK, StoreTypeOK
  <1>2. cursor \in Nat
    BY <1>1 DEF CrawlInv, Durable, CursorConfirmed
  <1>3. /\ Head(pending_deletes) = pending_deletes[1] /\ 1 \in 1..Len(pending_deletes)
        /\ Head(pending_deletes) \in Query
    BY <1>1
  <1> QED BY <1>2, <1>3 DEF CrawlInv, Durable, PendingSpare

\* It takes from the index nothing that this block owes.
LEMMA PendingSpares ==
  ASSUME CrawlInv, pending_deletes # <<>>, InBlock
  PROVE  \A d \in Crawl!Due(entry.block) : ~QueryMatches(Head(pending_deletes), d)
  <1>1. PICK b \in 1..Target : IsNext(b) /\ QueryOf(Head(pending_deletes), b)
    BY PendingIs
  <1>2. b = entry.block
    BY <1>1, AtWork, OneNext DEF CrawlInv, ControlInv, TypeOK
  <1> QED BY <1>1, <1>2 DEF QueryOf

\* What is in the index is due of a block of the chain.
LEMMA IndexFacts ==
  ASSUME CrawlInv, NEW d \in index
  PROVE  /\ d \in Doc /\ d.block \in 1..Target /\ d.block \in Nat /\ start <= d.block
         /\ d \in Crawl!Due(d.block)
         /\ cursor \in Nat
  <1>1. Target \in Nat
    BY TargetIs DEF CrawlInv, ControlInv, TypeOK
  <1>2. cursor \in Nat
    BY DEF CrawlInv, ControlInv, TypeOK, StoreTypeOK, Durable, CursorConfirmed
  <1>3. d \in Doc /\ start \in Nat
    BY DEF CrawlInv, ControlInv, TypeOK
  <1>4. d.block \in 1..Target /\ d.block >= start /\ d \in Crawl!Due(d.block)
    BY DEF CrawlInv, Durable, IndexIsDue
  <1> QED BY <1>1, <1>2, <1>3, <1>4 DEF Doc

-----------------------------------------------------------------------------
(* The durable half.                                                         *)

\* What leaves the store and the index alone.
LEMMA DurableFrame ==
  ASSUME CrawlInv, ChainKept, UNCHANGED <<cursor, index, pending_deletes, start>>, BufferAgrees'
  PROVE  Durable'
  <1>1. Target \in Nat /\ Target' \in Nat /\ Target <= Target'
    BY DEF ChainKept
  <1>2. \A b \in 1..Target : /\ chain'[b] = chain[b] /\ Crawl!Due(b)' = Crawl!Due(b)
                             /\ \A k : Crawl!Touches(b, k)' = Crawl!Touches(b, k)
    BY DEF ChainKept
  <1>3. CursorConfirmed /\ IndexIsDue /\ Kept /\ Retired /\ PendingSpare
    BY DEF CrawlInv, Durable
  <1>4. start \in Nat /\ cursor \in Nat \cup {NoCursor}
    BY DEF CrawlInv, ControlInv, TypeOK, StoreTypeOK
  <1>5. cursor' = cursor /\ index' = index /\ pending_deletes' = pending_deletes /\ start' = start
    OBVIOUS
  <1>6. ASSUME NEW b \in 1..Target', b < cursor, start <= b PROVE b \in 1..Target
    BY <1>1, <1>3, <1>4, <1>6 DEF CursorConfirmed, NoCursor
  <1>7. \A k : DeletedFrom(k, cursor) => DeletedFrom(k, cursor)'
    BY <1>5 DEF ChainKept, DeletedFrom, HeadBlock
  <1>8. CursorConfirmed'
    <2>1. CASE cursor = NoCursor
      BY <1>3, <1>5, <2>1 DEF CursorConfirmed, NoCursor
    <2>2. CASE cursor # NoCursor
      <3>1. start <= cursor /\ (start < cursor => cursor <= Target + 1) /\ cursor \in Nat
        BY <1>3, <1>4, <2>2 DEF CursorConfirmed
      <3>2. start < cursor => cursor <= Target' + 1
        <4>1. ASSUME NEW a \in Nat, NEW b \in Nat, a <= b PROVE cursor <= a + 1 => cursor <= b + 1
          BY <3>1, <4>1
        <4> QED BY <1>1, <3>1, <4>1
      <3> QED BY <1>5, <2>2, <3>1, <3>2 DEF CursorConfirmed, NoCursor
    <2> QED BY <2>1, <2>2
  <1>9. IndexIsDue'
    <2> SUFFICES ASSUME NEW d \in index
                 PROVE  /\ d.block \in 1..Target' /\ d.block >= start
                        /\ d \in Crawl!Due(d.block)'
                        /\ \A c \in 1..Target' : cursor <= c /\ c < d.block => chain'[c].ops = <<>>
      BY <1>5 DEF IndexIsDue
    <2>1. /\ d.block \in 1..Target /\ d.block >= start /\ d \in Crawl!Due(d.block)
          /\ \A c \in 1..Target : cursor <= c /\ c < d.block => chain[c].ops = <<>>
      BY <1>3 DEF IndexIsDue
    <2>2. d \in Crawl!Due(d.block)'
      BY <1>2, <2>1
    <2> QED BY <1>1, <1>2, <2>1, <2>2
  <1>10. Kept'
    <2> SUFFICES ASSUME NEW b \in 1..Target', start <= b, b < cursor, NEW d \in Crawl!Due(b)'
                 PROVE  \/ d \in index
                        \/ \E c \in 1..Target' : b < c /\ Crawl!Touches(c, d.key)'
                        \/ DeletedFrom(d.key, cursor)'
      BY <1>5 DEF Kept
    <2>1. b \in 1..Target /\ d \in Crawl!Due(b)
      BY <1>2, <1>6
    <2>2. CASE d \in index
      BY <2>2
    <2>3. CASE \E c \in 1..Target : b < c /\ Crawl!Touches(c, d.key)
      <3>1. PICK c \in 1..Target : b < c /\ Crawl!Touches(c, d.key)
        BY <2>3
      <3> QED BY <1>1, <1>2, <3>1
    <2>4. CASE DeletedFrom(d.key, cursor)
      BY <1>7, <2>4
    <2> QED BY <1>3, <2>1, <2>2, <2>3, <2>4 DEF Kept
  <1>11. Retired'
    <2> SUFFICES ASSUME NEW d \in index, NEW b \in 1..Target',
                        d.block < b, b < cursor, Crawl!Touches(b, d.key)'
                 PROVE  Covered(d)' \/ DeletedFrom(d.key, cursor)'
      BY <1>5 DEF Retired
    <2>1. b \in 1..Target
      BY <1>1, <1>4, <1>6, IndexFacts
    <2>2. Covered(d) \/ DeletedFrom(d.key, cursor)
      BY <1>2, <1>3, <2>1 DEF Retired
    <2> QED BY <1>5, <1>7, <2>2 DEF Covered, QueryMatches
  <1>12. PendingSpare'
    <2> SUFFICES ASSUME NEW i \in 1..Len(pending_deletes)
                 PROVE  \E b \in 1..Target' : IsNext(b)' /\ QueryOf(pending_deletes[i], b)'
      BY <1>5 DEF PendingSpare
    <2>1. PICK b \in 1..Target : IsNext(b) /\ QueryOf(pending_deletes[i], b)
      BY <1>3 DEF PendingSpare
    <2>2. b \in 1..Target' /\ IsNext(b)'
      BY <1>1, <1>5, <2>1, SaidOfBlocks
    <2>3. QueryOf(pending_deletes[i], b)'
      BY <1>2, <1>5, <2>1 DEF QueryOf, QueryMatches
    <2> QED BY <2>2, <2>3
  <1>13. ChainOK'
    BY DEF ChainKept
  <1> QED BY <1>8, <1>9, <1>10, <1>11, <1>12, <1>13 DEF Durable

-----------------------------------------------------------------------------
\* The steps of the bridge: the chain is what it was.
LEMMA SameAnswers ==
  ASSUME CrawlInv, UNCHANGED chainVars
  PROVE  /\ chain' = chain /\ Target' = Target /\ Target \in Nat
         /\ \A b \in 1..Target : /\ Crawl!Due(b)' = Crawl!Due(b)
                                 /\ \A k : Crawl!Touches(b, k)' = Crawl!Touches(b, k)
         /\ \A k, b : DeletedFrom(k, b)' = DeletedFrom(k, b)
         /\ ChainOK'
  <1>1. ChainKept /\ chain' = chain
    BY SameChain DEF CrawlInv, ControlInv, TypeOK, Durable, chainVars
  <1>2. Target' = Target
    BY <1>1 DEF Target, HeadBlock
  <1>3. \A k, b : DeletedFrom(k, b)' = DeletedFrom(k, b)
    BY <1>1 DEF DeletedFrom, HeadBlock
  <1> QED BY <1>1, <1>2, <1>3 DEF ChainKept

\* What each part of the durable half asks of such a step.
LEMMA DurableParts ==
  ASSUME CrawlInv, UNCHANGED <<chainVars, start>>
  PROVE  /\ reorg_buffer' \subseteq reorg_buffer => BufferAgrees'
         /\ cursor' = cursor /\ cursor # NoCursor => CursorConfirmed'
         /\ cursor' = cursor /\ index' \subseteq index => IndexIsDue'
         /\ cursor' = cursor /\ index \subseteq index' => Kept'
         /\ cursor' = cursor /\ index' \subseteq index /\ (\A d \in index : Covered(d) => Covered(d)')
              => Retired'
         /\ cursor' = cursor /\ pending_deletes' = pending_deletes => PendingSpare'
  <1>1. chain' = chain /\ Target' = Target /\ start' = start
    BY SameAnswers
  <1>2. \A b \in 1..Target : /\ Crawl!Due(b)' = Crawl!Due(b)
                             /\ \A k : Crawl!Touches(b, k)' = Crawl!Touches(b, k)
    BY SameAnswers
  <1>3. \A k, b : DeletedFrom(k, b)' = DeletedFrom(k, b)
    BY SameAnswers
  <1>4. BufferAgrees /\ CursorConfirmed /\ IndexIsDue /\ Kept /\ Retired /\ PendingSpare
    BY DEF CrawlInv, Durable
  <1>5. ASSUME cursor' = cursor PROVE \A k : DeletedFrom(k, cursor)' = DeletedFrom(k, cursor)
    BY <1>1, <1>5 DEF DeletedFrom, HeadBlock
  <1>6. reorg_buffer' \subseteq reorg_buffer => BufferAgrees'
    BY <1>1, <1>4 DEF BufferAgrees, Matches, BlockHash
  <1>7. cursor' = cursor /\ cursor # NoCursor => CursorConfirmed'
    BY <1>1, <1>4 DEF CursorConfirmed, NoCursor
  <1>8. ASSUME cursor' = cursor, index' \subseteq index PROVE IndexIsDue'
    <2> SUFFICES ASSUME NEW d \in index
                 PROVE  /\ d.block \in 1..Target /\ d.block >= start /\ d \in Crawl!Due(d.block)'
                        /\ \A c \in 1..Target : cursor <= c /\ c < d.block => chain[c].ops = <<>>
      BY <1>1, <1>8 DEF IndexIsDue
    <2>1. d.block \in 1..Target
      BY <1>4 DEF IndexIsDue
    <2> QED BY <1>2, <1>4, <2>1 DEF IndexIsDue
  <1>9. ASSUME cursor' = cursor, index \subseteq index' PROVE Kept'
    <2> SUFFICES ASSUME NEW b \in 1..Target, start <= b, b < cursor, NEW d \in Crawl!Due(b)'
                 PROVE  \/ d \in index'
                        \/ \E c \in 1..Target : b < c /\ Crawl!Touches(c, d.key)'
                        \/ DeletedFrom(d.key, cursor)'
      BY <1>1, <1>9 DEF Kept
    <2>1. d \in Crawl!Due(b)
      BY <1>2
    <2>2. \/ d \in index
          \/ \E c \in 1..Target : b < c /\ Crawl!Touches(c, d.key)
          \/ DeletedFrom(d.key, cursor)
      BY <1>4, <2>1 DEF Kept
    <2> QED BY <1>2, <1>5, <1>9, <2>2
  <1>10. ASSUME cursor' = cursor, index' \subseteq index, \A d \in index : Covered(d) => Covered(d)'
         PROVE  Retired'
    <2> SUFFICES ASSUME NEW d \in index', NEW b \in 1..Target,
                        d.block < b, b < cursor, Crawl!Touches(b, d.key)'
                 PROVE  Covered(d)' \/ DeletedFrom(d.key, cursor)'
      BY <1>1, <1>10 DEF Retired
    <2>1. Covered(d) \/ DeletedFrom(d.key, cursor)
      BY <1>2, <1>4, <1>10 DEF Retired
    <2> QED BY <1>5, <1>10, <2>1
  <1>11. ASSUME cursor' = cursor, pending_deletes' = pending_deletes PROVE PendingSpare'
    <2> SUFFICES ASSUME NEW i \in 1..Len(pending_deletes)
                 PROVE  \E b \in 1..Target : IsNext(b)' /\ QueryOf(pending_deletes[i], b)'
      BY <1>1, <1>11 DEF PendingSpare
    <2>1. PICK b \in 1..Target : IsNext(b) /\ QueryOf(pending_deletes[i], b)
      BY <1>4 DEF PendingSpare
    <2>2. IsNext(b)'
      BY <1>1, <1>11, <2>1 DEF IsNext
    <2>3. QueryOf(pending_deletes[i], b)'
      BY <1>2, <1>11, <2>1 DEF QueryOf, QueryMatches
    <2> QED BY <2>2, <2>3
  <1> QED BY <1>6, <1>7, <1>8, <1>9, <1>10, <1>11

\* The oldest delete on record is carried out: of what a passed block owes it
\* only takes what the next block replaces.
LEMMA DurableHonours ==
  ASSUME CrawlInv, pending_deletes # <<>>, DeleteTask(Head(pending_deletes)),
         UNCHANGED <<chainVars, cursor, reorg_buffer, pending_deletes, start>>
  PROVE  Durable'
  <1>1. index' = {d \in index : ~QueryMatches(Head(pending_deletes), d)}
    BY DEF DeleteTask
  <1>2. PICK next \in 1..Target : IsNext(next) /\ QueryOf(Head(pending_deletes), next)
    BY PendingIs
  <1>3. cursor \in Nat /\ cursor # NoCursor /\ cursor <= next
    BY <1>2, PendingIs DEF IsNext, NoCursor
  <1>4. \A d \in index : Covered(d) => Covered(d)'
    BY DEF Covered, QueryMatches
  <1>5. BufferAgrees' /\ CursorConfirmed' /\ IndexIsDue' /\ Retired' /\ PendingSpare'
    BY <1>1, <1>3, <1>4, DurableParts
  <1>6. Kept'
    <2> SUFFICES ASSUME NEW b \in 1..Target, start <= b, b < cursor, NEW d \in Crawl!Due(b)
                 PROVE  \/ d \in index'
                        \/ \E c \in 1..Target : b < c /\ Crawl!Touches(c, d.key)'
                        \/ DeletedFrom(d.key, cursor)'
      <3>1. Target' = Target /\ \A b \in 1..Target : Crawl!Due(b)' = Crawl!Due(b)
        BY SameAnswers
      <3> QED BY <3>1 DEF Kept
    <2>1. \/ d \in index
          \/ \E c \in 1..Target : b < c /\ Crawl!Touches(c, d.key)
          \/ DeletedFrom(d.key, cursor)
      BY DEF CrawlInv, Durable, Kept
    <2>2. CASE d \in index /\ QueryMatches(Head(pending_deletes), d)
      <3>1. d.key \in Head(pending_deletes).keys
        BY <2>2 DEF QueryMatches
      <3>2. Crawl!Touches(next, d.key) /\ b < next
        BY <1>2, <1>3, <3>1, SameAnswers DEF QueryOf
      <3> QED BY <3>2, SameAnswers
    <2>3. CASE d \in index /\ ~QueryMatches(Head(pending_deletes), d)
      BY <1>1, <2>3
    <2>4. CASE \E c \in 1..Target : b < c /\ Crawl!Touches(c, d.key)
      BY <2>4, SameAnswers
    <2>5. CASE DeletedFrom(d.key, cursor)
      <3>1. \A k : DeletedFrom(k, cursor)' = DeletedFrom(k, cursor)
        BY SameAnswers DEF DeletedFrom, HeadBlock
      <3> QED BY <2>5, <3>1
    <2> QED BY <2>1, <2>2, <2>3, <2>4, <2>5
  <1> QED BY <1>5, <1>6, SameAnswers DEF Durable

\* Documents of the block at work are ingested.
LEMMA DurableGrows ==
  ASSUME CrawlInv, InBlock, NEW D \in SUBSET Crawl!Due(entry.block), index' = index \cup D,
         UNCHANGED <<chainVars, cursor, reorg_buffer, pending_deletes, start>>
  PROVE  Durable'
  <1>1. /\ cursor \in Nat /\ cursor # NoCursor /\ start <= cursor /\ IsNext(entry.block)
        /\ entry.block \in Nat /\ start \in Nat
    BY AtWork DEF NoCursor, CrawlInv, ControlInv, TypeOK
  <1>2. BufferAgrees' /\ CursorConfirmed' /\ Kept' /\ PendingSpare'
    BY <1>1, DurableParts
  <1>3. \A d \in D : d.block = entry.block
    BY DueFacts
  <1>4. IndexIsDue'
    <2> SUFFICES ASSUME NEW d \in index'
                 PROVE  /\ d.block \in 1..Target /\ d.block >= start /\ d \in Crawl!Due(d.block)'
                        /\ \A c \in 1..Target : cursor <= c /\ c < d.block => chain[c].ops = <<>>
      BY SameAnswers DEF IndexIsDue
    <2>1. CASE d \in index
      <3>1. /\ d.block \in 1..Target /\ d.block >= start /\ d \in Crawl!Due(d.block)
            /\ \A c \in 1..Target : cursor <= c /\ c < d.block => chain[c].ops = <<>>
        BY <2>1 DEF CrawlInv, Durable, IndexIsDue
      <3> QED BY <3>1, SameAnswers
    <2>2. CASE d \in D
      <3>1. d.block = entry.block /\ d.block \in 1..Target /\ d \in Crawl!Due(d.block)
        BY <1>1, <1>3, <2>2 DEF IsNext
      <3>2. d \in Crawl!Due(d.block)'
        BY <3>1, SameAnswers
      <3>3. d.block >= start
        BY <1>1, <3>1 DEF IsNext
      <3> QED BY <1>1, <3>1, <3>2, <3>3 DEF IsNext
    <2> QED BY <2>1, <2>2
  <1>5. Retired'
    <2> SUFFICES ASSUME NEW d \in index', NEW b \in 1..Target,
                        d.block < b, b < cursor, Crawl!Touches(b, d.key)
                 PROVE  Covered(d)' \/ DeletedFrom(d.key, cursor)'
      BY SameAnswers DEF Retired
    <2>1. d \in index
      <3>1. SUFFICES ASSUME d \in D PROVE FALSE
        OBVIOUS
      <3>2. d.block = entry.block /\ cursor <= entry.block /\ b \in Nat
        BY <1>1, <1>3, <3>1 DEF IsNext
      <3> QED BY <1>1, <3>2
    <2>2. Covered(d) \/ DeletedFrom(d.key, cursor)
      BY <2>1 DEF CrawlInv, Durable, Retired
    <2>3. \A k : DeletedFrom(k, cursor)' = DeletedFrom(k, cursor)
      BY SameAnswers DEF DeletedFrom, HeadBlock
    <2> QED BY <2>2, <2>3 DEF Covered, QueryMatches
  <1> QED BY <1>2, <1>4, <1>5, SameAnswers DEF Durable

\* A delete of the block at work is put on record.
LEMMA DurablePromises ==
  ASSUME CrawlInv, InBlock, NEW q \in Query, QueryOf(q, entry.block),
         pending_deletes' = Append(pending_deletes, q),
         UNCHANGED <<chainVars, cursor, reorg_buffer, index, start>>
  PROVE  Durable'
  <1>1. cursor \in Nat /\ cursor # NoCursor /\ IsNext(entry.block) /\ entry.block \in 1..Target
    BY AtWork DEF NoCursor, IsNext
  <1>2. pending_deletes \in Seq(Query)
    BY DEF CrawlInv, ControlInv, TypeOK, StoreTypeOK
  <1>3. /\ Len(pending_deletes') = Len(pending_deletes) + 1 /\ Len(pending_deletes) \in Nat
        /\ pending_deletes'[Len(pending_deletes')] = q
        /\ \A i \in 1..Len(pending_deletes) : pending_deletes'[i] = pending_deletes[i]
    BY <1>2
  <1>4. ASSUME NEW d \in index, Covered(d) PROVE Covered(d)'
    <2>1. PICK i \in 1..Len(pending_deletes) : QueryMatches(pending_deletes[i], d)
      BY <1>4 DEF Covered
    <2>2. i \in 1..Len(pending_deletes') /\ pending_deletes'[i] = pending_deletes[i]
      BY <1>3
    <2> QED BY <2>1, <2>2 DEF Covered, QueryMatches
  <1>5. BufferAgrees' /\ CursorConfirmed' /\ IndexIsDue' /\ Kept' /\ Retired'
    BY <1>1, <1>4, DurableParts
  <1>6. PendingSpare'
    <2>1. /\ \A b : IsNext(b) => IsNext(b)'
          /\ \A r : \A b \in 1..Target : QueryOf(r, b)' = QueryOf(r, b)
      BY SameChain, SaidOfBlocks DEF CrawlInv, ControlInv, TypeOK, Durable
    <2>2. ASSUME NEW i \in 1..Len(pending_deletes')
          PROVE  \E b \in 1..Target : IsNext(b) /\ QueryOf(pending_deletes'[i], b)
      <3>1. CASE i \in 1..Len(pending_deletes)
        BY <1>3, <3>1 DEF CrawlInv, Durable, PendingSpare
      <3>2. CASE i \notin 1..Len(pending_deletes)
        <4>1. pending_deletes'[i] = q
          BY <1>3, <3>2
        <4> QED BY <1>1, <4>1
      <3> QED BY <3>1, <3>2
    <2> DEFINE Pending == pending_deletes'
    <2>3. ASSUME NEW i \in 1..Len(Pending)
          PROVE  \E b \in 1..Target : IsNext(b)' /\ QueryOf(pending_deletes[i], b)'
      <3>1. PICK b \in 1..Target : IsNext(b) /\ QueryOf(pending_deletes'[i], b)
        BY <2>2
      <3>2. \A r : QueryOf(r, b)' = QueryOf(r, b)
        BY <2>1
      <3>3. QueryOf(pending_deletes[i], b)'
        BY <3>1, <3>2 DEF QueryOf
      <3> QED BY <2>1, <3>1, <3>3
    <2> QED BY <2>3, SameAnswers DEF PendingSpare
  <1> QED BY <1>5, <1>6, SameAnswers DEF Durable

\* A delete that took effect is marked.
LEMMA DurableForgets ==
  ASSUME CrawlInv, pc = "mark", pending_deletes' = Tail(pending_deletes),
         UNCHANGED <<chainVars, cursor, reorg_buffer, index, start>>
  PROVE  Durable' /\ \A d \in index : Covered(d) => Covered(d)'
  <1>1. pending_deletes # <<>> /\ pending_deletes \in Seq(Query)
    BY DEF CrawlInv, ControlInv, TypeOK, StoreTypeOK, InRange
  <1>2. cursor # NoCursor
    BY <1>1, PendingIs DEF NoCursor
  <1>3. /\ Len(pending_deletes') = Len(pending_deletes) - 1 /\ Len(pending_deletes) \in Nat
        /\ \A i \in 1..Len(pending_deletes') :
             i + 1 \in 1..Len(pending_deletes) /\ pending_deletes'[i] = pending_deletes[i + 1]
    BY <1>1
  <1>4. ASSUME NEW d \in index, Covered(d) PROVE Covered(d)'
    <2>1. PICK i \in 1..Len(pending_deletes) : QueryMatches(pending_deletes[i], d)
      BY <1>4 DEF Covered
    <2>2. ~QueryMatches(Head(pending_deletes), d) /\ Head(pending_deletes) = pending_deletes[1]
      BY <1>1 DEF CrawlInv, Volatile, MarkedIsDone
    <2>3. i # 1
      BY <2>1, <2>2
    <2>4. i - 1 \in 1..Len(pending_deletes')
      BY <1>3, <2>3
    <2>5. pending_deletes'[i - 1] = pending_deletes[i]
      BY <1>3, <2>4
    <2> QED BY <2>1, <2>4, <2>5 DEF Covered, QueryMatches
  <1>5. BufferAgrees' /\ CursorConfirmed' /\ IndexIsDue' /\ Kept' /\ Retired'
    BY <1>2, <1>4, DurableParts
  <1>6. PendingSpare'
    <2>1. /\ \A b : IsNext(b) => IsNext(b)'
          /\ \A r : \A b \in 1..Target : QueryOf(r, b)' = QueryOf(r, b)
      BY SameChain, SaidOfBlocks DEF CrawlInv, ControlInv, TypeOK, Durable
    <2>2. ASSUME NEW i \in 1..Len(pending_deletes')
          PROVE  \E b \in 1..Target : IsNext(b) /\ QueryOf(pending_deletes'[i], b)
      <3>1. i + 1 \in 1..Len(pending_deletes) /\ pending_deletes'[i] = pending_deletes[i + 1]
        BY <1>3
      <3>2. \E b \in 1..Target : IsNext(b) /\ QueryOf(pending_deletes[i + 1], b)
        BY <3>1 DEF CrawlInv, Durable, PendingSpare
      <3> QED BY <3>1, <3>2
    <2> DEFINE Pending == pending_deletes'
    <2>3. ASSUME NEW i \in 1..Len(Pending)
          PROVE  \E b \in 1..Target : IsNext(b)' /\ QueryOf(pending_deletes[i], b)'
      <3>1. PICK b \in 1..Target : IsNext(b) /\ QueryOf(pending_deletes'[i], b)
        BY <2>2
      <3>2. \A r : QueryOf(r, b)' = QueryOf(r, b)
        BY <2>1
      <3>3. QueryOf(pending_deletes[i], b)'
        BY <3>1, <3>2 DEF QueryOf
      <3> QED BY <2>1, <3>1, <3>3
    <2> QED BY <2>3, SameAnswers DEF PendingSpare
  <1> QED BY <1>4, <1>5, <1>6, SameAnswers DEF Durable

\* The cursor passes blocks that are done.
LEMMA DurablePasses ==
  ASSUME CrawlInv, cursor \in Nat, pending_deletes = <<>>,
         UNCHANGED <<chainVars, reorg_buffer, index, pending_deletes, start>>,
         cursor' \in Nat, cursor <= cursor', cursor' <= Target + 1,
         \A b \in 1..Target : cursor <= b /\ b < cursor' =>
           /\ \A d \in Crawl!Due(b) : d \in index \/ DeletedFrom(d.key, cursor')
           /\ \A d \in index : d.block < b /\ Crawl!Touches(b, d.key) => DeletedFrom(d.key, cursor')
  PROVE  Durable'
  <1>1. /\ chain' = chain /\ Target' = Target /\ Target \in Nat /\ Target <= Len(chain)
        /\ Len(chain) \in Nat /\ start \in Nat /\ start' = start
    BY SameAnswers, TargetIs DEF CrawlInv, ControlInv, TypeOK
  <1>2. \A k, b : DeletedFrom(k, b)' = DeletedFrom(k, b)
    BY SameAnswers
  <1>3. ASSUME NEW k, DeletedFrom(k, cursor)
        PROVE  \/ DeletedFrom(k, cursor')
               \/ \E c \in 1..Target : cursor <= c /\ c < cursor' /\ Crawl!Touches(c, k)
    <2>1. PICK c \in 1..HeadBlock :
            c >= cursor /\ \E i \in DOMAIN chain[c].ops :
                             chain[c].ops[i].key = k /\ chain[c].ops[i].op = "delete"
      BY <1>3 DEF DeletedFrom
    <2>2. CASE c >= cursor'
      BY <1>3, <2>1, <2>2 DEF DeletedFrom
    <2>3. CASE ~(c >= cursor')
      <3>1. c \in 1..Target /\ cursor <= c /\ c < cursor'
        BY <1>1, <2>1, <2>3 DEF HeadBlock
      <3> QED BY <2>1, <3>1 DEF Crawl!Touches
    <2> QED BY <2>2, <2>3
  <1>4. \A k : DeletedFrom(k, cursor)' <=> DeletedFrom(k, cursor')
    BY <1>1 DEF DeletedFrom, HeadBlock
  <1>5. BufferAgrees'
    BY DurableParts
  <1>6. CursorConfirmed'
    <2>1. start <= cursor
      BY DEF CrawlInv, Durable, CursorConfirmed, NoCursor
    <2> QED BY <1>1, <2>1 DEF CursorConfirmed, NoCursor
  <1>7. IndexIsDue'
    <2> SUFFICES ASSUME NEW d \in index
                 PROVE  /\ d.block \in 1..Target /\ d.block >= start /\ d \in Crawl!Due(d.block)'
                        /\ \A c \in 1..Target : cursor' <= c /\ c < d.block => chain[c].ops = <<>>
      BY <1>1 DEF IndexIsDue
    <2>1. /\ d.block \in 1..Target /\ d.block >= start /\ d \in Crawl!Due(d.block)
          /\ \A c \in 1..Target : cursor <= c /\ c < d.block => chain[c].ops = <<>>
      BY DEF CrawlInv, Durable, IndexIsDue
    <2>2. d \in Crawl!Due(d.block)'
      BY <2>1, SameAnswers
    <2> QED BY <1>1, <2>1, <2>2
  <1>8. Kept'
    <2> SUFFICES ASSUME NEW b \in 1..Target, start <= b, b < cursor', NEW d \in Crawl!Due(b)'
                 PROVE  \/ d \in index
                        \/ \E c \in 1..Target : b < c /\ Crawl!Touches(c, d.key)'
                        \/ DeletedFrom(d.key, cursor)'
      BY <1>1 DEF Kept
    <2>1. d \in Crawl!Due(b)
      BY SameAnswers
    <2>2. CASE cursor <= b
      BY <1>4, <2>1, <2>2
    <2>3. CASE ~(cursor <= b)
      <3>1. b < cursor
        BY <1>1, <2>3
      <3>2. \/ d \in index
            \/ \E c \in 1..Target : b < c /\ Crawl!Touches(c, d.key)
            \/ DeletedFrom(d.key, cursor)
        BY <2>1, <3>1 DEF CrawlInv, Durable, Kept
      <3>3. CASE DeletedFrom(d.key, cursor)
        <4>1. \A c \in 1..Target : cursor <= c => b < c
          BY <1>1, <3>1
        <4> QED BY <1>3, <1>4, <3>3, <4>1, SameAnswers
      <3> QED BY <3>2, <3>3, SameAnswers
    <2> QED BY <2>2, <2>3
  <1>9. Retired'
    <2> SUFFICES ASSUME NEW d \in index, NEW b \in 1..Target,
                        d.block < b, b < cursor', Crawl!Touches(b, d.key)
                 PROVE  DeletedFrom(d.key, cursor)'
      BY <1>1, SameAnswers DEF Retired
    <2>1. CASE cursor <= b
      BY <1>4, <2>1
    <2>2. CASE ~(cursor <= b)
      <3>1. b < cursor
        BY <1>1, <2>2
      <3>2. DeletedFrom(d.key, cursor)
        BY <3>1 DEF CrawlInv, Durable, Retired, Covered
      <3>3. \A c \in 1..Target : cursor <= c => d.block < c
        BY <1>1, <3>1, IndexFacts
      <3> QED BY <1>3, <1>4, <3>2, <3>3
    <2> QED BY <2>1, <2>2
  <1>10. PendingSpare'
    BY DEF PendingSpare
  <1> QED BY <1>5, <1>6, <1>7, <1>8, <1>9, <1>10, SameAnswers DEF Durable

\* The first launch sets the cursor; there is nothing in the index.
LEMMA DurableBegins ==
  ASSUME CrawlInv, ReadHead,
         UNCHANGED <<chainVars, reorg_buffer, index, pending_deletes>>
  PROVE  Durable' /\ cursor' \in Nat
  <1>1. CASE cursor = NoCursor
    <2>1. cursor' = FirstBlock /\ start' = FirstBlock /\ FirstBlock \in Nat
      BY <1>1, AnswerTypes DEF ReadHead, set_cursor, CrawlInv, ControlInv, TypeOK
    <2>2. index' = {} /\ pending_deletes' = <<>>
      BY <1>1 DEF CrawlInv, Durable, CursorConfirmed
    <2>3. chain' = chain /\ reorg_buffer' = reorg_buffer /\ ChainOK' /\ Target' = Target /\ Target \in Nat
      BY SameAnswers
    <2>4. BufferAgrees'
      BY <2>3 DEF CrawlInv, Durable, BufferAgrees, Matches, BlockHash
    <2>5. CursorConfirmed' /\ IndexIsDue' /\ Retired' /\ PendingSpare'
      BY <2>1, <2>2 DEF CursorConfirmed, IndexIsDue, Retired, PendingSpare
    <2>6. Kept'
      <3>1. \A b \in 1..Target : ~(FirstBlock <= b /\ b < FirstBlock)
        BY <2>1, <2>3
      <3> QED BY <2>1, <2>3, <3>1 DEF Kept
    <2> QED BY <2>1, <2>3, <2>4, <2>5, <2>6 DEF Durable
  <1>2. CASE cursor # NoCursor
    <2>1. cursor' = cursor /\ start' = start /\ cursor \in Nat
      BY <1>2 DEF ReadHead, CrawlInv, ControlInv, TypeOK, StoreTypeOK
    <2>2. \A d \in index : Covered(d) => Covered(d)'
      BY DEF Covered, QueryMatches
    <2> QED BY <1>2, <2>1, <2>2, DurableParts, SameAnswers DEF Durable
  <1> QED BY <1>1, <1>2

-----------------------------------------------------------------------------
(* The volatile half.                                                        *)

\* Nothing is said at the top of the loop, or after the end of run().
LEMMA RestingVolatile ==
  ASSUME LoopTop \/ \E how \in Down : Exit(how)
  PROVE  Volatile'
  <1>1. /\ pc' \in {"drain"} \cup Down /\ ret' = "head"
        /\ logs' = {} /\ unseen' = {} /\ delete_queries' = <<>>
    BY DEF LoopTop, Exit, ResetCrawl
  <1>2. ~InBlock' /\ ~WithLogs'
    BY <1>1 DEF InBlock, WithLogs, Down
  <1>3. Undisturbed' /\ RangeConfirmed' /\ Drained' /\ MarkedIsDone' /\ Probing'
    BY <1>1, <1>2 DEF Undisturbed, RangeConfirmed, Drained, MarkedIsDone, Probing, Down
  <1>4. LogsAreFresh'
    BY <1>1, <1>2 DEF LogsAreFresh
  <1>5. BlockSpare' /\ BlockBuilt' /\ BlockRetired'
    BY <1>2 DEF BlockSpare, BlockBuilt, BlockRetired
  <1> QED BY <1>3, <1>4, <1>5 DEF Volatile

\* Outside process_block nothing is said of a block at work.
LEMMA OutOfBlock == ASSUME ~InBlock' PROVE BlockInv'
  BY DEF BlockInv, BlockSpare, BlockBuilt, BlockRetired

\* The logs of the range stay what they are.
LEMMA SameRange ==
  ASSUME CrawlInv, ChainKept, UNCHANGED <<cursor, end_block>>, end_block <= Target, cursor # NoCursor
  PROVE  RangeLogs' = RangeLogs
  <1>1. cursor \in Nat /\ end_block \in Nat
    BY DEF CrawlInv, ControlInv, TypeOK, StoreTypeOK, CrawlTypeOK
  <1>2. Target \in Nat /\ \A b \in 1..Target : chain'[b] = chain[b]
    BY DEF ChainKept
  <1>3. \A c \in cursor..end_block : c > 0 => chain'[c] = chain[c]
    BY <1>1, <1>2
  <1>4. cursor' = cursor /\ end_block' = end_block
    OBVIOUS
  <1> QED BY <1>3, <1>4 DEF RangeLogs

\* With the logs at hand, the cursor is set and the range is confirmed.
LEMMA RangeFacts ==
  ASSUME CrawlInv, pc \in {"check", "logs"} \/ WithLogs
  PROVE  /\ cursor \in Nat /\ cursor # NoCursor /\ start <= cursor
         /\ end_block \in Nat /\ end_block <= Target /\ cursor <= end_block + 1
         /\ Target \in Nat /\ Target <= Len(chain) /\ Len(chain) \in Nat
  <1>1. RangeConfirmed /\ Undisturbed /\ TypeOK /\ CursorConfirmed
    BY DEF CrawlInv, ControlInv, Durable, Volatile
  <1>2. cursor # NoCursor
    BY <1>1 DEF RangeConfirmed, WithLogs, InBlock, Down
  <1>3. cursor \in Nat /\ start <= cursor /\ end_block \in Nat
    BY <1>1, <1>2 DEF TypeOK, StoreTypeOK, CrawlTypeOK, CursorConfirmed
  <1>4. end_block <= Target /\ cursor <= end_block + 1
    BY <1>1 DEF RangeConfirmed
  <1>5. Target \in Nat /\ Target <= Len(chain) /\ Len(chain) \in Nat
    BY <1>1, TargetIs DEF TypeOK
  <1> QED BY <1>2, <1>3, <1>4, <1>5

\* What leaves the block at work, the store and the index alone.
LEMMA BlockFrame ==
  ASSUME CrawlInv, ChainKept, InBlock,
         UNCHANGED <<cursor, index, pending_deletes, entry, pos, docs, delete_queries>>
  PROVE  BlockInv'
  <1>1. /\ BlockSpare /\ BlockBuilt /\ BlockRetired
        /\ entry.block \in 1..Target
    BY AtWork DEF CrawlInv, Volatile, IsNext
  <1>2. Crawl!Due(entry.block)' = Crawl!Due(entry.block)
    <2>1. \A b : b = entry.block => Crawl!Due(b)' = Crawl!Due(b)
      BY <1>1 DEF ChainKept
    <2>2. entry' = entry
      OBVIOUS
    <2> QED BY <2>1, <2>2 DEF Crawl!Due
  <1>3. \A q : QueryOf(q, entry.block) => QueryOf(q, entry.block)'
    <2>1. \A q, b : b = entry.block /\ QueryOf(q, b) => QueryOf(q, b)'
      BY <1>1, SaidOfBlocks
    <2>2. entry' = entry
      OBVIOUS
    <2> QED BY <2>1, <2>2 DEF QueryOf
  <1>4. \A k : DeletedFrom(k, entry.block + 1) => DeletedFrom(k, entry.block + 1)'
    <2>1. entry' = entry
      OBVIOUS
    <2> QED BY <2>1 DEF ChainKept, DeletedFrom, HeadBlock
  <1>5. BlockSpare'
    <2>1. ASSUME NEW i \in 1..Len(delete_queries) PROVE QueryOf(delete_queries[i], entry.block)'
      <3>1. QueryOf(delete_queries[i], entry.block)
        BY <1>1 DEF BlockSpare
      <3>2. \A q : q = delete_queries[i] => QueryOf(q, entry.block)'
        BY <1>3, <3>1
      <3> QED BY <3>2 DEF QueryOf, QueryMatches
    <2> QED BY <2>1 DEF BlockSpare
  <1>6. BlockBuilt'
    <2>1. \A d : Built(d) => Built(d)'
      BY DEF Built
    <2> QED BY <1>1, <1>2, <1>4, <2>1 DEF BlockBuilt
  <1>7. BlockRetired'
    <2>1. \A d : /\ Queued(d) => Queued(d)'
                 /\ Covered(d) => Covered(d)'
                 /\ DeleteAhead(d.key) => DeleteAhead(d.key)'
      BY DEF Queued, Covered, DeleteAhead, QueryMatches
    <2> QED BY <1>1, <1>4, <2>1 DEF BlockRetired
  <1> QED BY <1>5, <1>6, <1>7 DEF BlockInv

-----------------------------------------------------------------------------
(* The steps.                                                                *)

\* Nothing of the store or the index changes, and the locals are gone.
LEMMA RestingCrawl ==
  ASSUME CrawlInv, LoopTop \/ \E how \in Down : Exit(how),
         UNCHANGED <<chainVars, cursor, reorg_buffer, pending_deletes, index, start>>
  PROVE  Durable' /\ Volatile'
  <1>1. ChainKept /\ BufferAgrees'
    <2>1. ChainKept /\ chain' = chain /\ Target' = Target
      BY SameChain, SameAnswers DEF CrawlInv, ControlInv, TypeOK, Durable
    <2> QED BY <2>1 DEF CrawlInv, Durable, BufferAgrees, Matches, BlockHash
  <1> QED BY <1>1, DurableFrame, RestingVolatile

\* The drain of the delete queue.
LEMMA DrainCrawl == ASSUME CrawlInv, Drain \/ DrainFails PROVE Durable' /\ Volatile'
  <1> USE DEF CrawlInv
  <1>1. /\ Undisturbed /\ RangeConfirmed /\ LogsAreFresh /\ Drained /\ BlockInv
        /\ TypeOK /\ Probing
    BY DEF Volatile, ControlInv, BlockInv
  <1>2. ASSUME UNCHANGED <<chainVars>> PROVE ChainKept
    BY <1>2, SameChain DEF ControlInv, TypeOK, Durable
  <1>3. CASE DrainDone
    <2>1. /\ pc = "drain" /\ pending_deletes = <<>> /\ pc' = ret /\ ret' = "head"
          /\ ret \in {"head", "commit"}
          /\ UNCHANGED <<chainVars, storeVars, index, crawlVars, start>>
      BY <1>1, <1>3 DEF DrainDone, Undisturbed, TypeOK
    <2>2. UNCHANGED <<cursor, reorg_buffer, pending_deletes, index, start, chainVars,
                      end_block, logs, unseen, entry, pos, docs, delete_queries>>
      BY <2>1 DEF storeVars, crawlVars
    <2>3. ChainKept /\ chain' = chain /\ Target' = Target
      BY <1>2, <2>2, SameAnswers
    <2>4. Durable'
      <3>1. BufferAgrees'
        BY <2>2, <2>3 DEF Durable, BufferAgrees, Matches, BlockHash
      <3> QED BY <2>2, <2>3, <3>1, DurableFrame
    <2>5. (InBlock' <=> ret = "commit") /\ (InBlock <=> ret = "commit")
      BY <2>1 DEF InBlock
    <2>6. WithLogs' <=> ret = "commit"
      BY <2>1, <2>5 DEF WithLogs
    <2>7. WithLogs <=> ret = "commit"
      BY <2>1, <2>5 DEF WithLogs
    <2>8. Undisturbed' /\ RangeConfirmed' /\ Drained' /\ MarkedIsDone' /\ Probing'
      BY <1>1, <2>1, <2>2, <2>3, <2>6, <2>7
         DEF Undisturbed, RangeConfirmed, Drained, MarkedIsDone, Probing
    <2>9. LogsAreFresh'
      <3>1. ret = "commit" => RangeLogs' = RangeLogs
        BY <2>2, <2>3, <2>7, SameRange, RangeFacts
      <3> QED BY <1>1, <2>1, <2>2, <2>5, <2>6, <2>7, <3>1 DEF LogsAreFresh
    <2>10. BlockInv'
      BY <2>2, <2>3, <2>5, BlockFrame, OutOfBlock
    <2> QED BY <2>4, <2>8, <2>9, <2>10 DEF Volatile, BlockInv
  <1>4. CASE DrainPost
    <2>1. /\ pc = "drain" /\ pending_deletes # <<>> /\ pc' = "mark" /\ ret' = ret
          /\ DeleteTask(Head(pending_deletes))
          /\ UNCHANGED <<cursor, reorg_buffer, pending_deletes, start, chainVars,
                         end_block, logs, unseen, entry, pos, docs, delete_queries>>
      BY <1>4 DEF DrainPost, storeVars, crawlVars
    <2>2. Durable'
      BY <2>1, DurableHonours
    <2>3. ChainKept /\ chain' = chain /\ Target' = Target
      BY <1>2, <2>1, SameAnswers
    <2>4. (InBlock' <=> InBlock) /\ (WithLogs' <=> WithLogs)
      BY <2>1 DEF InBlock, WithLogs
    <2>5. Undisturbed' /\ RangeConfirmed' /\ Drained' /\ Probing'
      <3>1. cursor # NoCursor
        BY <2>1, PendingIs DEF NoCursor
      <3> QED BY <1>1, <2>1, <2>3, <2>4, <3>1
              DEF Undisturbed, RangeConfirmed, Drained, Probing
    <2>6. MarkedIsDone'
      BY <2>1 DEF MarkedIsDone, DeleteTask, QueryMatches
    <2>7. LogsAreFresh'
      <3>1. WithLogs => RangeLogs' = RangeLogs
        BY <2>1, <2>3, SameRange, RangeFacts
      <3> QED BY <1>1, <2>1, <2>4, <3>1 DEF LogsAreFresh, InBlock
    <2>8. BlockInv'
      <3>1. CASE ~InBlock
        BY <2>4, <3>1, OutOfBlock
      <3>2. CASE InBlock
        <4>1. \A d \in Crawl!Due(entry.block) : ~QueryMatches(Head(pending_deletes), d)
          BY <2>1, <3>2, PendingSpares
        <4>2. index' = {d \in index : ~QueryMatches(Head(pending_deletes), d)}
          BY <2>1 DEF DeleteTask
        <4>3. Crawl!Due(entry.block)' = Crawl!Due(entry.block)
          BY <2>1, <2>3 DEF Crawl!Due, Crawl!EntityAt, Crawl!Positions, Crawl!OpAt, Crawl!Before
        <4>4. \A d \in Crawl!Due(entry.block) : Built(d) => Built(d)'
          BY <2>1, <4>1, <4>2 DEF Built
        <4>5. \A d : DeletedFrom(d.key, entry.block + 1)' <=> DeletedFrom(d.key, entry.block + 1)
          BY <2>1, <2>3 DEF DeletedFrom, HeadBlock
        <4>6. BlockBuilt'
          BY <1>1, <2>1, <2>4, <3>2, <4>3, <4>4, <4>5 DEF BlockInv, BlockBuilt
        <4>7. BlockSpare'
          <5>1. \A q : QueryOf(q, entry.block) => QueryOf(q, entry.block)'
            BY <2>1, <2>3, <4>3 DEF QueryOf, QueryMatches, Crawl!Touches
          <5>2. ASSUME NEW i \in 1..Len(delete_queries) PROVE QueryOf(delete_queries[i], entry.block)'
            <6>1. \A q : q = delete_queries[i] => QueryOf(q, entry.block)'
              BY <1>1, <3>2, <5>1 DEF BlockInv, BlockSpare
            <6> QED BY <2>1, <6>1 DEF QueryOf, QueryMatches
          <5> QED BY <2>1, <5>2 DEF BlockSpare
        <4>8. BlockRetired'
          <5>1. \A d : /\ Queued(d) => Queued(d)'
                       /\ Covered(d) => Covered(d)'
                       /\ DeleteAhead(d.key) => DeleteAhead(d.key)'
            BY <2>1 DEF Queued, Covered, DeleteAhead, QueryMatches
          <5> QED BY <1>1, <2>1, <3>2, <4>2, <4>5, <5>1 DEF BlockInv, BlockRetired
        <4> QED BY <4>6, <4>7, <4>8 DEF BlockInv
      <3> QED BY <3>1, <3>2
    <2> QED BY <2>2, <2>5, <2>6, <2>7, <2>8 DEF Volatile, BlockInv
  <1>5. CASE MarkSubmitted
    <2>1. /\ pc = "mark" /\ pending_deletes' = Tail(pending_deletes) /\ pc' = "drain" /\ ret' = ret
          /\ UNCHANGED <<cursor, reorg_buffer, index, start, chainVars,
                         end_block, logs, unseen, entry, pos, docs, delete_queries>>
      BY <1>5 DEF MarkSubmitted, mark_delete_submitted, crawlVars
    <2>2. Durable' /\ \A d \in index : Covered(d) => Covered(d)'
      BY <2>1, DurableForgets
    <2>3. ChainKept /\ chain' = chain /\ Target' = Target
      BY <1>2, <2>1, SameAnswers
    <2>4. (InBlock' <=> InBlock) /\ (WithLogs' <=> WithLogs)
      BY <2>1 DEF InBlock, WithLogs
    <2>5. Undisturbed' /\ RangeConfirmed' /\ Drained' /\ Probing' /\ MarkedIsDone'
      BY <1>1, <2>1, <2>3, <2>4
         DEF Undisturbed, RangeConfirmed, Drained, Probing, MarkedIsDone
    <2>6. LogsAreFresh'
      <3>1. WithLogs => RangeLogs' = RangeLogs
        BY <2>1, <2>3, SameRange, RangeFacts
      <3> QED BY <1>1, <2>1, <2>4, <3>1 DEF LogsAreFresh, InBlock
    <2>7. BlockInv'
      <3>1. CASE ~InBlock
        BY <2>4, <3>1, OutOfBlock
      <3>2. CASE InBlock
        <4>1. Crawl!Due(entry.block)' = Crawl!Due(entry.block)
          BY <2>1, <2>3 DEF Crawl!Due, Crawl!EntityAt, Crawl!Positions, Crawl!OpAt, Crawl!Before
        <4>2. \A d : DeletedFrom(d.key, entry.block + 1)' <=> DeletedFrom(d.key, entry.block + 1)
          BY <2>1, <2>3 DEF DeletedFrom, HeadBlock
        <4>3. \A d : Built(d) => Built(d)'
          BY <2>1 DEF Built
        <4>4. BlockBuilt'
          BY <1>1, <2>1, <2>4, <3>2, <4>1, <4>2, <4>3 DEF BlockInv, BlockBuilt
        <4>5. BlockSpare'
          <5>1. \A q : QueryOf(q, entry.block) => QueryOf(q, entry.block)'
            BY <2>1, <2>3, <4>1 DEF QueryOf, QueryMatches, Crawl!Touches
          <5>2. ASSUME NEW i \in 1..Len(delete_queries) PROVE QueryOf(delete_queries[i], entry.block)'
            <6>1. \A q : q = delete_queries[i] => QueryOf(q, entry.block)'
              BY <1>1, <3>2, <5>1 DEF BlockInv, BlockSpare
            <6> QED BY <2>1, <6>1 DEF QueryOf, QueryMatches
          <5> QED BY <2>1, <5>2 DEF BlockSpare
        <4>6. BlockRetired'
          <5>1. \A d : /\ Queued(d) => Queued(d)'
                       /\ DeleteAhead(d.key) => DeleteAhead(d.key)'
            BY <2>1 DEF Queued, DeleteAhead, QueryMatches
          <5> QED BY <1>1, <2>1, <2>2, <3>2, <4>2, <5>1 DEF BlockInv, BlockRetired
        <4> QED BY <4>4, <4>5, <4>6 DEF BlockInv
      <3> QED BY <3>1, <3>2
    <2> QED BY <2>2, <2>5, <2>6, <2>7 DEF Volatile, BlockInv
  <1>6. CASE DrainFails
    <2>1. /\ pending_deletes # <<>> /\ LoopTop
          /\ (DeleteTask(Head(pending_deletes)) \/ UNCHANGED index)
          /\ UNCHANGED <<cursor, reorg_buffer, pending_deletes, start, chainVars>>
      BY <1>1, <1>6 DEF DrainFails, storeVars, Undisturbed
    <2>2. CASE DeleteTask(Head(pending_deletes))
      BY <2>1, <2>2, DurableHonours, RestingVolatile
    <2>3. CASE UNCHANGED index
      BY <2>1, <2>3, RestingCrawl
    <2> QED BY <2>1, <2>2, <2>3
  <1> QED BY <1>3, <1>4, <1>5, <1>6 DEF Drain

\* What is said of the block at work, by a step of the bridge.
LEMMA BlockSame ==
  ASSUME CrawlInv, InBlock, UNCHANGED <<chainVars, entry>>
  PROVE  /\ Crawl!Due(entry.block)' = Crawl!Due(entry.block)
         /\ \A q : QueryOf(q, entry.block) => QueryOf(q, entry.block)'
         /\ \A k : DeletedFrom(k, entry.block + 1)' <=> DeletedFrom(k, entry.block + 1)
  <1>1. chain' = chain /\ entry' = entry
    BY DEF chainVars
  <1>2. Crawl!Due(entry.block)' = Crawl!Due(entry.block)
    BY <1>1 DEF Crawl!Due, Crawl!EntityAt, Crawl!Positions, Crawl!OpAt, Crawl!Before
  <1>3. \A q : QueryOf(q, entry.block) => QueryOf(q, entry.block)'
    BY <1>1, <1>2 DEF QueryOf, QueryMatches, Crawl!Touches
  <1> QED BY <1>1, <1>2, <1>3 DEF DeletedFrom, HeadBlock

\* The loop leaves a log of the block behind.
LEMMA LogDone ==
  ASSUME CrawlInv, pc \in {"hydrate", "probe"}, pos <= Len(entry.ops),
         pos' = pos + 1, pc' = "hydrate",
         UNCHANGED <<chainVars, cursor, reorg_buffer, index, pending_deletes, start,
                     ret, end_block, logs, unseen, entry>>,
         \A i \in 1..Len(delete_queries') : QueryOf(delete_queries'[i], entry.block),
         \A i \in 1..Len(docs') : docs'[i] \in Crawl!Due(entry.block),
         \A d : (Queued(d) => Queued(d)') /\ (Built(d) => Built(d)'),
         \A d \in Crawl!Due(entry.block) :
           d.log = pos => Built(d)' \/ DeletedFrom(d.key, entry.block + 1),
         \A d \in index : d.block < entry.block /\ d.key = Log.key =>
           \/ Queued(d)'
           \/ Log.op # "delete" /\ \E j \in DOMAIN entry.ops : j > pos /\ entry.ops[j].key = d.key
                                                                /\ entry.ops[j].op = "delete"
           \/ Log.op # "delete" /\ DeletedFrom(d.key, entry.block + 1)
  PROVE  Durable' /\ Volatile'
  <1>1. /\ Undisturbed /\ RangeConfirmed /\ LogsAreFresh /\ Drained /\ Probing
        /\ BlockSpare /\ BlockBuilt /\ BlockRetired /\ TypeOK /\ pos >= 1
    BY DEF CrawlInv, Volatile, ControlInv, InRange
  <1>2. InBlock /\ WithLogs /\ InBlock' /\ WithLogs'
    BY DEF InBlock, WithLogs
  <1>3. pos \in Nat /\ pos' \in Nat
    BY <1>1 DEF TypeOK, CrawlTypeOK
  <1>4. ChainKept /\ chain' = chain /\ Target' = Target
    BY SameChain, SameAnswers DEF CrawlInv, ControlInv, TypeOK, Durable
  <1>5. DOMAIN entry.ops = 1..Len(entry.ops) /\ entry' = entry
    BY <1>2, AtWork
  <1>6. Durable'
    <2>1. BufferAgrees'
      BY <1>4 DEF CrawlInv, Durable, BufferAgrees, Matches, BlockHash
    <2> QED BY <1>4, <2>1, DurableFrame
  <1>7. Undisturbed' /\ RangeConfirmed' /\ Drained' /\ MarkedIsDone' /\ Probing'
    <2>1. cursor' = cursor /\ end_block' = end_block /\ pending_deletes' = pending_deletes /\ ret' = ret
      OBVIOUS
    <2>2. Undisturbed' /\ MarkedIsDone' /\ Probing'
      BY <1>1, <2>1 DEF Undisturbed, MarkedIsDone, Probing
    <2>3. RangeConfirmed'
      BY <1>1, <1>2, <1>4, <2>1, RangeFacts DEF RangeConfirmed
    <2>4. Drained'
      BY <1>1, <2>1 DEF Drained, Down
    <2> QED BY <2>2, <2>3, <2>4
  <1>8. LogsAreFresh'
    <2>1. RangeLogs' = RangeLogs
      BY <1>2, <1>4, SameRange, RangeFacts
    <2> QED BY <1>1, <1>2, <2>1 DEF LogsAreFresh
  <1>9. BlockSpare'
    <2>1. ASSUME NEW q, QueryOf(q, entry.block) PROVE QueryOf(q, entry.block)'
      BY <1>2, <2>1, BlockSame
    <2>2. ASSUME NEW i, i \in 1..Len(delete_queries') PROVE QueryOf(delete_queries[i], entry.block)'
      <3>1. \A q : q = delete_queries'[i] => QueryOf(q, entry.block)'
        BY <2>1, <2>2
      <3> QED BY <3>1 DEF QueryOf, QueryMatches
    <2> QED BY <2>2 DEF BlockSpare
  <1>10. BlockBuilt'
    <2>1. ASSUME NEW d \in Crawl!Due(entry.block), d.log < pos + 1
          PROVE  Built(d)' \/ DeletedFrom(d.key, entry.block + 1)
      <3>1. CASE d.log = pos
        BY <3>1
      <3>2. CASE d.log # pos
        <4>1. d.log < pos
          <5>1. d.log \in Nat
            BY <1>2, <2>1, AtWork, DueFacts, BlockTypes DEF TypeOK, CrawlInv, ControlInv
          <5> QED BY <1>3, <2>1, <3>2, <5>1
        <4> QED BY <1>1, <1>2, <4>1 DEF BlockBuilt
      <3> QED BY <3>1, <3>2
    <2>2. \A k : DeletedFrom(k, entry.block + 1)' <=> DeletedFrom(k, entry.block + 1)
      BY <1>2, BlockSame
    <2>3. Crawl!Due(entry.block)' = Crawl!Due(entry.block)
      BY <1>2, BlockSame
    <2> QED BY <1>5, <2>1, <2>2, <2>3 DEF BlockBuilt
  <1>11. BlockRetired'
    <2>1. \A k : DeletedFrom(k, entry.block + 1)' <=> DeletedFrom(k, entry.block + 1)
      BY <1>2, BlockSame
    <2>2. \A d : Covered(d) => Covered(d)'
      BY DEF Covered, QueryMatches
    <2>3. ASSUME NEW d \in index, NEW i \in DOMAIN entry.ops,
                 d.block < entry.block, i < pos + 1, entry.ops[i].key = d.key
          PROVE  Queued(d)' \/ Covered(d)' \/ DeleteAhead(d.key)' \/ DeletedFrom(d.key, entry.block + 1)
      <3>1. CASE i = pos
        <4>1. d.key = Log.key
          BY <2>3, <3>1 DEF Log
        <4>2. \A j \in DOMAIN entry.ops : j > pos => j >= pos + 1
          BY <1>3, <1>5
        <4> QED BY <1>5, <2>3, <4>1, <4>2 DEF DeleteAhead
      <3>2. CASE i # pos
        <4>1. i < pos
          BY <1>3, <1>5, <2>3, <3>2
        <4>2. Queued(d) \/ Covered(d) \/ DeleteAhead(d.key) \/ DeletedFrom(d.key, entry.block + 1)
          BY <1>1, <1>2, <2>3, <4>1 DEF BlockRetired
        <4>3. CASE DeleteAhead(d.key)
          <5>1. PICK j \in DOMAIN entry.ops :
                  j >= pos /\ entry.ops[j].key = d.key /\ entry.ops[j].op = "delete"
            BY <4>3 DEF DeleteAhead
          <5>2. CASE j = pos
            BY <2>3, <5>1, <5>2 DEF Log
          <5>3. CASE j # pos
            <6>1. j >= pos + 1
              BY <1>3, <1>5, <5>1, <5>3
            <6> QED BY <1>5, <5>1, <6>1 DEF DeleteAhead
          <5> QED BY <5>2, <5>3
        <4> QED BY <2>2, <4>2, <4>3
      <3> QED BY <3>1, <3>2
    <2> QED BY <1>5, <2>1, <2>3 DEF BlockRetired
  <1> QED BY <1>6, <1>7, <1>8, <1>9, <1>10, <1>11 DEF Volatile

\* The log the loop is at, as the chain has it.
LEMMA AtThisLog ==
  ASSUME CrawlInv, pc \in {"hydrate", "probe"}, pos <= Len(entry.ops)
  PROVE  /\ InBlock /\ pos \in DOMAIN entry.ops /\ pos \in Nat
         /\ entry.block \in 1..Len(chain) /\ entry.block \in Nat /\ entry.block >= 1
         /\ pos \in DOMAIN chain[entry.block].ops
         /\ Log = OpOf(entry.block, pos) /\ Log \in Op
         /\ Crawl!Touches(entry.block, Log.key)
         /\ ChainTypeOK /\ ChainOK /\ entry.block \in 0..Len(chain) /\ entry.block \in 1..entry.block
  <1>1. InBlock
    BY DEF InBlock
  <1>2. /\ entry.block \in 1..Len(chain) /\ entry.ops = chain[entry.block].ops
        /\ DOMAIN entry.ops = 1..Len(entry.ops) /\ ChainTypeOK /\ ChainOK /\ Len(chain) \in Nat
    BY <1>1, AtWork DEF CrawlInv, ControlInv, TypeOK, Durable, ChainTypeOK
  <1>3. pos \in Nat /\ pos >= 1 /\ Len(entry.ops) \in Nat
    BY <1>1, AtWork DEF CrawlInv, ControlInv, TypeOK, CrawlTypeOK, InRange
  <1>4. pos \in DOMAIN chain[entry.block].ops
    BY <1>2, <1>3
  <1>5. Log = OpOf(entry.block, pos)
    BY <1>2 DEF Log, OpOf
  <1>6. Log \in Op
    BY <1>2, <1>4, <1>5, BlockTypes
  <1>7. Crawl!Touches(entry.block, Log.key)
    BY <1>4, <1>5 DEF Crawl!Touches, OpOf
  <1>8. entry.block >= 1 /\ entry.block \in Nat /\ entry.block \in 0..Len(chain)
        /\ entry.block \in 1..entry.block
    BY <1>2
  <1> QED BY <1>1, <1>2, <1>3, <1>4, <1>5, <1>6, <1>7, <1>8

\* What the index holds of its entity from an earlier block is no creation's
\* predecessor.
LEMMA OlderIsNotCreated ==
  ASSUME CrawlInv, pc \in {"hydrate", "probe"}, pos <= Len(entry.ops),
         NEW d \in index, d.block < entry.block, d.key = Log.key
  PROVE  Log.op # "create"
  <1>1. /\ d.block \in 1..Len(chain) /\ d.log \in DOMAIN chain[d.block].ops
        /\ OpOf(d.block, d.log).key = d.key
    BY IndexFacts, DueFacts, TargetIs DEF CrawlInv, ControlInv, TypeOK
  <1> QED BY <1>1, AtThisLog, OrderOfOps

\* When the entity is dead, a later log or a later block deletes it.
LEMMA DeadHere ==
  ASSUME CrawlInv, pc \in {"hydrate", "probe"}, pos <= Len(entry.ops), Log.op # "delete",
         NEW h \in 0..Len(chain), entry.block \in 1..h, ~EntityAt(Log.key, h).live
  PROVE  \E c \in 1..h : \E j \in DOMAIN chain[c].ops :
           /\ OpOf(c, j).key = Log.key /\ OpOf(c, j).op = "delete"
           /\ entry.block < c \/ (entry.block = c /\ pos < j)
  <1>1. /\ pos \in DOMAIN chain[entry.block].ops /\ Log = OpOf(entry.block, pos)
        /\ ChainTypeOK /\ ChainOK
    BY AtThisLog
  <1>2. OpOf(entry.block, pos).op # "delete" /\ ~EntityAt(OpOf(entry.block, pos).key, h).live
    BY <1>1
  <1>3. \E c \in 1..h : \E j \in DOMAIN chain[c].ops :
           /\ OpOf(c, j).key = OpOf(entry.block, pos).key /\ OpOf(c, j).op = "delete"
           /\ entry.block < c \/ (entry.block = c /\ pos < j)
    BY <1>1, <1>2, DeadWasDeleted
  <1> QED BY <1>1, <1>3

\* A document of the block is of the log that its index says.
LEMMA DueHere ==
  ASSUME CrawlInv, pc \in {"hydrate", "probe"}, pos <= Len(entry.ops),
         NEW d \in Crawl!Due(entry.block)
  PROVE  /\ d.block = entry.block
         /\ EntityAt(d.key, entry.block).live /\ EntityAt(d.key, entry.block).match
         /\ d.log = pos => d.key = Log.key /\ Log.op # "delete" /\ d = DocOf(entry.block, pos)
  BY AtThisLog, DueFacts DEF Owes

\* A query that is appended is there, behind the others.
LEMMA QueuedBehind ==
  ASSUME delete_queries \in Seq(Query), NEW q \in Query, delete_queries' = Append(delete_queries, q)
  PROVE  /\ \A d : (Queued(d) => Queued(d)') /\ (QueryMatches(q, d) => Queued(d)')
         /\ \A i \in 1..Len(delete_queries') :
              delete_queries'[i] = q
              \/ (i \in 1..Len(delete_queries) /\ delete_queries'[i] = delete_queries[i])
  <1>1. /\ Len(delete_queries') = Len(delete_queries) + 1 /\ Len(delete_queries) \in Nat
        /\ delete_queries'[Len(delete_queries) + 1] = q
        /\ \A i \in 1..Len(delete_queries) : delete_queries'[i] = delete_queries[i]
    OBVIOUS
  <1>2. \A i \in 1..Len(delete_queries') : i \in 1..Len(delete_queries) \/ i = Len(delete_queries) + 1
    BY <1>1
  <1>3. 1..Len(delete_queries) \subseteq 1..Len(delete_queries')
        /\ Len(delete_queries) + 1 \in 1..Len(delete_queries')
    BY <1>1
  <1> QED BY <1>1, <1>2, <1>3 DEF Queued, QueryMatches

\* A delete retires every version of its entity.
LEMMA DeleteLogCrawl == ASSUME CrawlInv, DeleteLog PROVE Durable' /\ Volatile'
  <1>1. /\ pc = "hydrate" /\ pos <= Len(entry.ops) /\ Log.op = "delete"
        /\ pos' = pos + 1 /\ pc' = "hydrate" /\ docs' = docs
        /\ delete_queries' = Append(delete_queries, tombstone_query(Log.key))
        /\ UNCHANGED <<chainVars, cursor, reorg_buffer, index, pending_deletes, start,
                       ret, end_block, logs, unseen, entry>>
    BY DEF DeleteLog, AtLog, storeVars
  <1>2. /\ BlockSpare /\ BlockBuilt /\ InBlock /\ delete_queries \in Seq(Query)
        /\ tombstone_query(Log.key) \in Query
    <2>1. Log.key \in Key
      BY <1>1, AtThisLog DEF Op
    <2> QED BY <1>1, <2>1, AtThisLog, QueryTypes
            DEF CrawlInv, Volatile, ControlInv, TypeOK, CrawlTypeOK, tombstone_query, Query
  <1>3. ~EntityAt(Log.key, entry.block).live
    BY <1>1, AtThisLog, DeleteIsLast
  <1>4. QueryOf(tombstone_query(Log.key), entry.block)
    <2>1. \A d \in Crawl!Due(entry.block) : d.key # Log.key
      BY <1>1, <1>3, DueHere
    <2> QED BY <1>1, <2>1, AtThisLog DEF QueryOf, tombstone_query, QueryMatches
  <1>5. \A d : d.key = Log.key => QueryMatches(tombstone_query(Log.key), d)
    BY DEF tombstone_query, QueryMatches
  <1>6. \A i \in 1..Len(delete_queries') : QueryOf(delete_queries'[i], entry.block)
    BY <1>1, <1>2, <1>4, QueuedBehind DEF BlockSpare
  <1>7. \A d : (Queued(d) => Queued(d)') /\ (d.key = Log.key => Queued(d)')
    BY <1>1, <1>2, <1>5, QueuedBehind
  <1>8. \A i \in 1..Len(docs') : docs'[i] \in Crawl!Due(entry.block)
    BY <1>1, <1>2 DEF BlockBuilt
  <1>9. \A d : Built(d) => Built(d)'
    BY <1>1 DEF Built
  <1>10. \A d \in Crawl!Due(entry.block) : d.log # pos
    BY <1>1, DueHere
  <1> QED BY <1>1, <1>6, <1>7, <1>8, <1>9, <1>10, LogDone

\* The node answers: the document is due, and replaces the older ones.
LEMMA EmitDocCrawl == ASSUME CrawlInv, ConfirmedCase, EmitDoc PROVE Durable' /\ Volatile'
  <1>1. /\ pc = "hydrate" /\ pos <= Len(entry.ops) /\ Log.op # "delete" /\ Selected
        /\ pos' = pos + 1 /\ pc' = "hydrate" /\ docs' = Append(docs, NewDoc)
        /\ delete_queries' = IF Log.op = "create" THEN delete_queries
                             ELSE Append(delete_queries, supersede_query(Log.key, entry.block))
        /\ UNCHANGED <<chainVars, cursor, reorg_buffer, index, pending_deletes, start,
                       ret, end_block, logs, unseen, entry>>
    BY DEF EmitDoc, AtLog
  <1>2. /\ BlockSpare /\ BlockBuilt /\ InBlock /\ delete_queries \in Seq(Query) /\ docs \in Seq(Doc)
        /\ supersede_query(Log.key, entry.block) \in Query
    <2>1. Log.key \in Key
      BY <1>1, AtThisLog DEF Op
    <2> QED BY <1>1, <2>1, AtThisLog, QueryTypes
            DEF CrawlInv, Volatile, ControlInv, TypeOK, CrawlTypeOK
  <1>3. NewDoc = DocOf(entry.block, pos) /\ NewDoc \in Crawl!Due(entry.block) /\ NewDoc \in Doc
    <2>1. entry.hash = chain[entry.block].hash
      BY <1>2, AtWork
    <2>2. NewDoc = DocOf(entry.block, pos)
      BY <1>1, <2>1, AtThisLog DEF NewDoc, DocOf
    <2>3. Owes(entry.block, pos)
      BY <1>1, AtThisLog DEF Owes, Selected, Hydrated, ConfirmedCase
    <2>4. NewDoc \in Doc
      BY <1>1, NewDocType DEF CrawlInv, ControlInv, TypeOK, InRange, AtLog
    <2> QED BY <1>1, <2>2, <2>3, <2>4, AtThisLog, DueIs
  <1>4. QueryOf(supersede_query(Log.key, entry.block), entry.block)
    <2>1. \A d \in Crawl!Due(entry.block) : d.block = entry.block
      BY <1>1, DueHere
    <2> QED BY <1>1, <2>1, AtThisLog DEF QueryOf, supersede_query, QueryMatches
  <1>5. ASSUME NEW d \in index, d.key = Log.key, d.block < entry.block
        PROVE  Log.op # "create" /\ QueryMatches(supersede_query(Log.key, entry.block), d)
    <2>1. Log.op # "create"
      BY <1>1, <1>5, OlderIsNotCreated
    <2>2. d.block <= entry.block - 1
      BY <1>1, <1>5, AtThisLog, IndexFacts
    <2> QED BY <1>1, <1>5, <2>1, <2>2, AtThisLog DEF supersede_query, QueryMatches
  <1>6. \A i \in 1..Len(delete_queries') : QueryOf(delete_queries'[i], entry.block)
    <2>1. CASE Log.op = "create"
      BY <1>1, <1>2, <2>1 DEF BlockSpare
    <2>2. CASE Log.op # "create"
      BY <1>1, <1>2, <1>4, <2>2, QueuedBehind DEF BlockSpare
    <2> QED BY <2>1, <2>2
  <1>7. \A d : Queued(d) => Queued(d)'
    <2>1. CASE Log.op = "create"
      BY <1>1, <2>1 DEF Queued, QueryMatches
    <2>2. CASE Log.op # "create"
      BY <1>1, <1>2, <2>2, QueuedBehind
    <2> QED BY <2>1, <2>2
  <1>8. \A d \in index : d.block < entry.block /\ d.key = Log.key => Queued(d)'
    BY <1>1, <1>2, <1>5, QueuedBehind
  <1>9. /\ \A i \in 1..Len(docs') : docs'[i] \in Crawl!Due(entry.block)
        /\ \A d : Built(d) => Built(d)'
        /\ \A d : d = NewDoc => Built(d)'
    <2>1. /\ Len(docs') = Len(docs) + 1 /\ Len(docs) \in Nat /\ docs'[Len(docs) + 1] = NewDoc
          /\ \A i \in 1..Len(docs) : docs'[i] = docs[i] /\ i \in 1..Len(docs')
          /\ Len(docs) + 1 \in 1..Len(docs')
          /\ \A i \in 1..Len(docs') : i \in 1..Len(docs) \/ i = Len(docs) + 1
      BY <1>1, <1>2, <1>3
    <2>2. \A i \in 1..Len(docs) : docs[i] \in Crawl!Due(entry.block)
      BY <1>2 DEF BlockBuilt
    <2>3. \A i \in 1..Len(docs') : docs'[i] \in Crawl!Due(entry.block)
      BY <1>3, <2>1, <2>2
    <2>4. \A d : Built(d) => Built(d)'
      BY <1>1, <2>1 DEF Built
    <2>5. \A d : d = NewDoc => Built(d)'
      BY <2>1 DEF Built
    <2> QED BY <2>3, <2>4, <2>5
  <1>10. \A d \in Crawl!Due(entry.block) : d.log = pos => Built(d)'
    BY <1>1, <1>3, <1>9, DueHere
  <1> QED BY <1>1, <1>6, <1>7, <1>8, <1>9, <1>10, LogDone

\* The filters drop the entity, or it does not exist at that block: a version
\* in the index goes by this update or by the delete ahead.
LEMMA SkipLogCrawl == ASSUME CrawlInv, ConfirmedCase, SkipLog PROVE Durable' /\ Volatile'
  <1> DEFINE q == tombstone_query(Log.key)
             retires == Hydrated.live /\ Log.op # "create"
  <1>1. /\ pc = "hydrate" /\ pos <= Len(entry.ops) /\ Log.op # "delete" /\ ~Selected
        /\ pos' = pos + 1 /\ pc' = "hydrate" /\ docs' = docs
        /\ delete_queries' = delete_queries \o SkipQueries
        /\ UNCHANGED <<chainVars, cursor, reorg_buffer, index, pending_deletes, start,
                       ret, end_block, logs, unseen, entry>>
    BY DEF SkipLog, AtLog, storeVars
  <1>2. BlockSpare /\ BlockBuilt /\ InBlock /\ delete_queries \in Seq(Query) /\ q \in Query
    <2>1. Log.key \in Key
      BY <1>1, AtThisLog DEF Op
    <2> QED BY <1>1, <2>1, AtThisLog DEF CrawlInv, Volatile, ControlInv, TypeOK, CrawlTypeOK,
                                         tombstone_query, Query
  <1>3. delete_queries' = IF retires THEN Append(delete_queries, q) ELSE delete_queries
    BY <1>1, <1>2 DEF SkipQueries
  <1>4. Hydrated = EntityAt(Log.key, entry.block)
    BY DEF Hydrated, ConfirmedCase
  <1>5. \A d \in Crawl!Due(entry.block) : d.key # Log.key
    BY <1>1, <1>4, DueHere DEF Selected
  <1>6. QueryOf(q, entry.block)
    BY <1>1, <1>5, AtThisLog DEF QueryOf, tombstone_query, QueryMatches
  <1>7. \A d : d.key = Log.key => QueryMatches(q, d)
    BY DEF tombstone_query, QueryMatches
  <1>8. /\ \A i \in 1..Len(delete_queries') : QueryOf(delete_queries'[i], entry.block)
        /\ \A d : Queued(d) => Queued(d)'
        /\ retires => \A d : d.key = Log.key => Queued(d)'
    <2> HIDE DEF q, retires
    <2>1. CASE retires
      BY <1>2, <1>3, <1>6, <1>7, <2>1, QueuedBehind DEF BlockSpare
    <2>2. CASE ~retires
      BY <1>2, <1>3, <2>2 DEF BlockSpare, Queued, QueryMatches
    <2> QED BY <2>1, <2>2
  <1>9. ASSUME NEW d \in index, d.block < entry.block, d.key = Log.key
        PROVE  \/ Queued(d)'
               \/ \E j \in DOMAIN entry.ops : j > pos /\ entry.ops[j].key = d.key
                                               /\ entry.ops[j].op = "delete"
    <2>1. Log.op # "create"
      BY <1>1, <1>9, OlderIsNotCreated
    <2>2. CASE Hydrated.live
      BY <1>8, <1>9, <2>1, <2>2
    <2>3. CASE ~Hydrated.live
      <3>1. PICK c \in 1..entry.block : \E j \in DOMAIN chain[c].ops :
              /\ OpOf(c, j).key = Log.key /\ OpOf(c, j).op = "delete"
              /\ entry.block < c \/ (entry.block = c /\ pos < j)
        BY <1>1, <1>4, <2>3, AtThisLog, DeadHere
      <3>2. c = entry.block
        BY <1>1, <3>1, AtThisLog
      <3>3. entry.ops = chain[entry.block].ops /\ DOMAIN entry.ops = 1..Len(entry.ops)
        BY <1>2, AtWork
      <3>4. PICK j \in DOMAIN entry.ops :
              entry.ops[j].key = Log.key /\ entry.ops[j].op = "delete" /\ pos < j
        BY <3>1, <3>2, <3>3, AtThisLog, <1>1 DEF OpOf
      <3>5. j > pos
        BY <3>3, <3>4, <1>1, AtThisLog
      <3> QED BY <1>9, <3>4, <3>5
    <2> QED BY <2>2, <2>3
  <1>10. \A i \in 1..Len(docs') : docs'[i] \in Crawl!Due(entry.block)
    BY <1>1, <1>2 DEF BlockBuilt
  <1>11. \A d : Built(d) => Built(d)'
    BY <1>1 DEF Built
  <1>12. \A d \in Crawl!Due(entry.block) : d.log # pos
    BY <1>1, <1>5, DueHere
  <1> HIDE DEF q, retires
  <1> QED BY <1>1, <1>8, <1>9, <1>10, <1>11, <1>12, LogDone

\* The node fails, and the entity is dead at head: a block above, or a log
\* ahead, deletes it.
LEMMA ProbeDeadCrawl == ASSUME CrawlInv, ProbeDead PROVE Durable' /\ Volatile'
  <1>1. /\ pc = "probe" /\ pos' = pos + 1 /\ pc' = "hydrate" /\ ~LiveAtHead(Log.key)
        /\ docs' = docs /\ delete_queries' = delete_queries
        /\ UNCHANGED <<chainVars, cursor, reorg_buffer, index, pending_deletes, start,
                       ret, end_block, logs, unseen, entry>>
    BY DEF ProbeDead, storeVars
  <1>2. /\ BlockSpare /\ BlockBuilt /\ InBlock
        /\ HydrationErrors /\ pos <= Len(entry.ops) /\ Log.op # "delete"
    BY <1>1 DEF CrawlInv, Volatile, Probing, InBlock
  <1>3. PICK c \in 1..Len(chain) : \E j \in DOMAIN chain[c].ops :
          /\ OpOf(c, j).key = Log.key /\ OpOf(c, j).op = "delete"
          /\ entry.block < c \/ (entry.block = c /\ pos < j)
    <2>1. Len(chain) \in 0..Len(chain) /\ entry.block \in 1..Len(chain)
      BY <1>1, <1>2, AtThisLog DEF ChainTypeOK
    <2>2. ~EntityAt(Log.key, Len(chain)).live
      BY <1>1 DEF LiveAtHead, HeadBlock
    <2> QED BY <1>1, <1>2, <2>1, <2>2, DeadHere
  <1>4. PICK j \in DOMAIN chain[c].ops :
          /\ OpOf(c, j).key = Log.key /\ OpOf(c, j).op = "delete"
          /\ entry.block < c \/ (entry.block = c /\ pos < j)
    BY <1>3
  <1>5. CASE entry.block < c
    <2>1. DeletedFrom(Log.key, entry.block + 1)
      <3>1. c >= entry.block + 1
        BY <1>1, <1>2, <1>5, AtThisLog
      <3> QED BY <1>2, <1>4, <3>1 DEF DeletedFrom, HeadBlock, OpOf
    <2>2. \A d \in Crawl!Due(entry.block) : d.log = pos => DeletedFrom(d.key, entry.block + 1)
      BY <1>1, <1>2, <2>1, DueHere
    <2>3. \A d : (Queued(d) => Queued(d)') /\ (Built(d) => Built(d)')
      BY <1>1 DEF Queued, Built, QueryMatches
    <2> QED BY <1>1, <1>2, <2>1, <2>2, <2>3, LogDone DEF BlockSpare, BlockBuilt
  <1>6. CASE entry.block = c
    <2>1. entry.ops = chain[entry.block].ops /\ DOMAIN entry.ops = 1..Len(entry.ops)
      BY <1>2, AtWork
    <2>2. j \in DOMAIN entry.ops /\ j > pos /\ entry.ops[j].key = Log.key /\ entry.ops[j].op = "delete"
      BY <1>1, <1>2, <1>4, <1>6, <2>1, AtThisLog DEF OpOf
    <2>3. ~EntityAt(Log.key, entry.block).live
      BY <1>1, <1>2, <1>4, <1>6, AtThisLog, DeleteIsLast
    <2>4. \A d \in Crawl!Due(entry.block) : d.log # pos
      BY <1>1, <1>2, <2>3, DueHere
    <2>5. \A d : (Queued(d) => Queued(d)') /\ (Built(d) => Built(d)')
      BY <1>1 DEF Queued, Built, QueryMatches
    <2> QED BY <1>1, <1>2, <2>2, <2>4, <2>5, LogDone DEF BlockSpare, BlockBuilt
  <1> QED BY <1>1, <1>2, <1>4, <1>5, <1>6, AtThisLog

\* The loop turns to the next part of process_block.
LEMMA PhaseDone ==
  ASSUME CrawlInv, InBlock, InBlock', Undisturbed', Drained', Probing', pc' # "mark",
         UNCHANGED <<chainVars, cursor, reorg_buffer, index, pending_deletes, start,
                     end_block, logs, unseen, entry, pos, docs, delete_queries>>,
         pc' \notin {"hydrate", "probe"} => pos > Len(entry.ops),
         pc' \notin {"hydrate", "probe", "ingest", "enqueue"} => delete_queries = <<>>
  PROVE  Durable' /\ Volatile'
  <1>1. RangeConfirmed /\ LogsAreFresh
    BY DEF CrawlInv, Volatile
  <1>2. WithLogs /\ WithLogs'
    BY DEF WithLogs
  <1>3. ChainKept /\ chain' = chain /\ Target' = Target
    BY SameChain, SameAnswers DEF CrawlInv, ControlInv, TypeOK, Durable
  <1>4. Durable'
    <2>1. BufferAgrees'
      BY <1>3 DEF CrawlInv, Durable, BufferAgrees, Matches, BlockHash
    <2> QED BY <1>3, <2>1, DurableFrame
  <1>5. RangeConfirmed'
    <2>1. /\ cursor' = cursor /\ end_block' = end_block /\ cursor # NoCursor
          /\ end_block <= Target /\ cursor <= end_block + 1
      BY <1>2, RangeFacts
    <2>2. pc' \notin {"check", "logs"}
      BY DEF InBlock, Undisturbed
    <2> QED BY <1>3, <2>1, <2>2 DEF RangeConfirmed
  <1>6. LogsAreFresh'
    <2>1. RangeLogs' = RangeLogs
      BY <1>2, <1>3, SameRange, RangeFacts
    <2> QED BY <1>1, <1>2, <2>1 DEF LogsAreFresh
  <1>7. BlockInv'
    BY <1>3, BlockFrame
  <1>8. MarkedIsDone'
    BY DEF MarkedIsDone
  <1> QED BY <1>4, <1>5, <1>6, <1>7, <1>8 DEF Volatile, BlockInv

\* The phases of process_block that only move on.
LEMMA HydrationDoneCrawl ==
  ASSUME CrawlInv, HydrationFails \/ AllHydrated \/ AllIngested \/ AllEnqueued
  PROVE  Durable' /\ Volatile'
  <1> DEFINE rest == <<chainVars, cursor, reorg_buffer, index, pending_deletes, start,
                       end_block, logs, unseen, entry, pos, docs, delete_queries>>
  <1>1. Undisturbed /\ Drained /\ LogsAreFresh
    BY DEF CrawlInv, Volatile
  <1>2. CASE HydrationFails
    <2>1. /\ pc = "hydrate" /\ pc' = "probe" /\ HydrationErrors /\ ret' = ret
          /\ pos <= Len(entry.ops) /\ Log.op # "delete" /\ UNCHANGED rest
      BY <1>2 DEF HydrationFails, AtLog, storeVars, crawlVars
    <2>2. InBlock /\ InBlock' /\ Undisturbed' /\ Drained' /\ Probing'
      BY <1>1, <2>1 DEF InBlock, Undisturbed, Drained, Probing, Log, Down
    <2> QED BY <2>1, <2>2, PhaseDone
  <1>3. CASE AllHydrated
    <2>1. pc = "hydrate" /\ pc' = "ingest" /\ ret' = ret /\ pos > Len(entry.ops) /\ UNCHANGED rest
      BY <1>3 DEF AllHydrated, storeVars, crawlVars
    <2>2. InBlock /\ InBlock' /\ Undisturbed' /\ Drained' /\ Probing'
      BY <1>1, <2>1 DEF InBlock, Undisturbed, Drained, Probing, Down
    <2> QED BY <2>1, <2>2, PhaseDone
  <1>4. CASE AllIngested
    <2>1. pc = "ingest" /\ pc' = "enqueue" /\ ret' = ret /\ UNCHANGED rest
      BY <1>4 DEF AllIngested, storeVars, crawlVars
    <2>2. InBlock /\ InBlock' /\ Undisturbed' /\ Drained' /\ Probing' /\ pos > Len(entry.ops)
      BY <1>1, <2>1 DEF InBlock, Undisturbed, Drained, Probing, Down, LogsAreFresh
    <2> QED BY <2>1, <2>2, PhaseDone
  <1>5. CASE AllEnqueued
    <2>1. /\ pc = "enqueue" /\ pc' = "drain" /\ ret' = "commit" /\ delete_queries = <<>>
          /\ UNCHANGED rest
      BY <1>5 DEF AllEnqueued, storeVars, crawlVars
    <2>2. InBlock /\ InBlock' /\ Undisturbed' /\ Drained' /\ Probing' /\ pos > Len(entry.ops)
      BY <1>1, <2>1 DEF InBlock, Undisturbed, Drained, Probing, Down, LogsAreFresh
    <2> QED BY <2>1, <2>2, PhaseDone
  <1> QED BY <1>2, <1>3, <1>4, <1>5

\* The documents of a batch are due of the block at work.
LEMMA BatchIsDue ==
  ASSUME CrawlInv, InBlock, NEW n \in BatchSizes
  PROVE  Batch(n) \in SUBSET Crawl!Due(entry.block)
  <1>1. \A i \in 1..Len(docs) : docs[i] \in Crawl!Due(entry.block)
    BY DEF CrawlInv, Volatile, BlockBuilt
  <1>2. docs \in Seq(Doc) /\ Len(docs) \in Nat /\ n \in 1..Len(docs)
    BY DEF CrawlInv, ControlInv, TypeOK, CrawlTypeOK, BatchSizes
  <1> QED BY <1>1, <1>2 DEF Batch

\* A batch is ingested, or nobody knows: what the block owes is built still.
LEMMA IngestCrawl == ASSUME CrawlInv, IngestBatch \/ IngestFails PROVE Durable' /\ Volatile'
  <1>1. CASE IngestBatch
    <2>1. /\ pc = "ingest" /\ pc' = "ingest" /\ ret' = ret
          /\ UNCHANGED <<chainVars, cursor, reorg_buffer, pending_deletes, start,
                         end_block, logs, unseen, entry, pos, delete_queries>>
      BY <1>1 DEF IngestBatch, storeVars
    <2>2. PICK n \in BatchSizes : Ingest(Batch(n)) /\ docs' = SubSeq(docs, n + 1, Len(docs))
      BY <1>1 DEF IngestBatch
    <2>3. InBlock /\ WithLogs /\ InBlock' /\ WithLogs'
      BY <2>1 DEF InBlock, WithLogs
    <2>4. index' = index \cup Batch(n) /\ Batch(n) \in SUBSET Crawl!Due(entry.block)
      BY <2>2, <2>3, BatchIsDue DEF Ingest
    <2>5. Durable'
      BY <2>1, <2>3, <2>4, DurableGrows
    <2>6. /\ Undisturbed /\ RangeConfirmed /\ LogsAreFresh /\ Drained
          /\ BlockSpare /\ BlockBuilt /\ BlockRetired
      BY DEF CrawlInv, Volatile
    <2>7. ChainKept /\ chain' = chain /\ Target' = Target
      BY <2>1, SameChain, SameAnswers DEF CrawlInv, ControlInv, TypeOK, Durable
    <2>8. Undisturbed' /\ RangeConfirmed' /\ Drained' /\ MarkedIsDone' /\ Probing'
      <3>1. RangeConfirmed'
        BY <2>1, <2>3, <2>6, <2>7, RangeFacts DEF RangeConfirmed
      <3>2. Undisturbed' /\ Drained' /\ MarkedIsDone' /\ Probing'
        BY <2>1, <2>6 DEF Undisturbed, Drained, MarkedIsDone, Probing
      <3> QED BY <3>1, <3>2
    <2>9. LogsAreFresh'
      <3>1. RangeLogs' = RangeLogs
        BY <2>1, <2>3, <2>7, SameRange, RangeFacts
      <3> QED BY <2>1, <2>3, <2>6, <3>1 DEF LogsAreFresh
    <2>10. /\ Crawl!Due(entry.block)' = Crawl!Due(entry.block) /\ entry' = entry
           /\ \A q : QueryOf(q, entry.block) => QueryOf(q, entry.block)'
           /\ \A k : DeletedFrom(k, entry.block + 1)' <=> DeletedFrom(k, entry.block + 1)
      BY <2>1, <2>3, BlockSame
    <2>11. BlockSpare'
      <3>1. ASSUME NEW i \in 1..Len(delete_queries) PROVE QueryOf(delete_queries[i], entry.block)'
        <4>1. \A q : q = delete_queries[i] => QueryOf(q, entry.block)'
          BY <2>3, <2>6, <2>10 DEF BlockSpare
        <4> QED BY <2>1, <4>1 DEF QueryOf, QueryMatches
      <3> QED BY <2>1, <3>1 DEF BlockSpare
    <2>12. docs \in Seq(Doc) /\ n \in 1..Len(docs) /\ Len(docs) \in Nat
      BY DEF CrawlInv, ControlInv, TypeOK, CrawlTypeOK, BatchSizes
    <2>13. /\ Len(docs') = Len(docs) - n
           /\ \A i \in 1..Len(docs') : i + n \in 1..Len(docs) /\ docs'[i] = docs[i + n]
           /\ \A i \in 1..Len(docs) : i \notin 1..n => i - n \in 1..Len(docs')
      BY <2>2, <2>12
    <2>14. BlockBuilt'
      <3>1. \A i \in 1..Len(docs') : docs'[i] \in Crawl!Due(entry.block)
        BY <2>3, <2>6, <2>13 DEF BlockBuilt
      <3>2. ASSUME NEW d, Built(d) PROVE Built(d)'
        <4>1. CASE d \in index
          BY <2>4, <4>1 DEF Built
        <4>2. CASE \E i \in 1..Len(docs) : docs[i] = d
          <5>1. PICK i \in 1..Len(docs) : docs[i] = d
            BY <4>2
          <5>2. CASE i \in 1..n
            BY <2>4, <5>1, <5>2 DEF Batch, Built
          <5>3. CASE i \notin 1..n
            <6>1. i - n \in 1..Len(docs') /\ (i - n) + n = i
              BY <2>12, <2>13, <5>3
            <6>2. docs'[i - n] = d
              BY <2>13, <5>1, <6>1
            <6> QED BY <6>1, <6>2 DEF Built
          <5> QED BY <5>2, <5>3
        <4> QED BY <3>2, <4>1, <4>2 DEF Built
      <3> QED BY <2>1, <2>3, <2>6, <2>10, <3>1, <3>2 DEF BlockBuilt
    <2>15. BlockRetired'
      <3>1. \A d : /\ Queued(d) => Queued(d)'
                   /\ Covered(d) => Covered(d)'
                   /\ DeleteAhead(d.key) => DeleteAhead(d.key)'
        BY <2>1 DEF Queued, Covered, DeleteAhead, QueryMatches
      <3>2. entry.block \in Nat
        BY <2>3, AtWork
      <3>3. \A d \in Batch(n) : ~(d.block < entry.block)
        BY <2>4, <3>2, DueFacts
      <3> QED BY <2>1, <2>3, <2>4, <2>6, <2>10, <3>1, <3>3 DEF BlockRetired
    <2> QED BY <2>5, <2>8, <2>9, <2>11, <2>14, <2>15 DEF Volatile
  <1>2. CASE IngestFails
    <2>1. /\ pc = "ingest" /\ LoopTop
          /\ UNCHANGED <<chainVars, cursor, reorg_buffer, pending_deletes, start>>
          /\ (UNCHANGED index \/ \E n \in BatchSizes : Ingest(Batch(n)))
      BY <1>2 DEF IngestFails, storeVars
    <2>2. CASE UNCHANGED index
      BY <2>1, <2>2, RestingCrawl
    <2>3. CASE \E n \in BatchSizes : Ingest(Batch(n))
      <3>1. InBlock
        BY <2>1 DEF InBlock
      <3>2. PICK n \in BatchSizes : index' = index \cup Batch(n)
        BY <2>3 DEF Ingest
      <3>3. Batch(n) \in SUBSET Crawl!Due(entry.block)
        BY <3>1, BatchIsDue
      <3> QED BY <2>1, <3>1, <3>2, <3>3, DurableGrows, RestingVolatile
    <2> QED BY <2>1, <2>2, <2>3
  <1> QED BY <1>1, <1>2

\* A delete moves from the block at work to the store.
LEMMA EnqueueCrawl == ASSUME CrawlInv, EnqueueDelete PROVE Durable' /\ Volatile'
  <1>1. /\ pc = "enqueue" /\ pc' = "enqueue" /\ ret' = ret /\ delete_queries # <<>>
        /\ pending_deletes' = Append(pending_deletes, Head(delete_queries))
        /\ delete_queries' = Tail(delete_queries)
        /\ UNCHANGED <<chainVars, cursor, reorg_buffer, index, start,
                       end_block, logs, unseen, entry, pos, docs>>
    BY DEF EnqueueDelete, enqueue_delete
  <1>2. InBlock /\ WithLogs /\ InBlock' /\ WithLogs'
    BY <1>1 DEF InBlock, WithLogs
  <1>3. /\ Undisturbed /\ RangeConfirmed /\ LogsAreFresh /\ Drained
        /\ BlockSpare /\ BlockBuilt /\ BlockRetired
        /\ delete_queries \in Seq(Query) /\ pending_deletes \in Seq(Query)
    BY DEF CrawlInv, Volatile, ControlInv, TypeOK, CrawlTypeOK, StoreTypeOK
  <1>4. /\ Head(delete_queries) = delete_queries[1] /\ 1 \in 1..Len(delete_queries)
        /\ Head(delete_queries) \in Query
        /\ Len(delete_queries') = Len(delete_queries) - 1 /\ Len(delete_queries) \in Nat
        /\ \A i \in 1..Len(delete_queries') :
             i + 1 \in 1..Len(delete_queries) /\ delete_queries'[i] = delete_queries[i + 1]
        /\ \A i \in 1..Len(delete_queries) : i # 1 => i - 1 \in 1..Len(delete_queries')
    BY <1>1, <1>3
  <1>5. QueryOf(Head(delete_queries), entry.block)
    BY <1>2, <1>3, <1>4 DEF BlockSpare
  <1>6. Durable'
    BY <1>1, <1>2, <1>4, <1>5, DurablePromises
  <1>7. ChainKept /\ chain' = chain /\ Target' = Target
    BY <1>1, SameChain, SameAnswers DEF CrawlInv, ControlInv, TypeOK, Durable
  <1>8. Undisturbed' /\ RangeConfirmed' /\ Drained' /\ MarkedIsDone' /\ Probing'
    <2>1. RangeConfirmed'
      BY <1>1, <1>2, <1>3, <1>7, RangeFacts DEF RangeConfirmed
    <2>2. Undisturbed' /\ Drained' /\ MarkedIsDone' /\ Probing'
      BY <1>1, <1>3 DEF Undisturbed, Drained, MarkedIsDone, Probing
    <2> QED BY <2>1, <2>2
  <1>9. LogsAreFresh'
    <2>1. RangeLogs' = RangeLogs
      BY <1>1, <1>2, <1>7, SameRange, RangeFacts
    <2> QED BY <1>1, <1>2, <1>3, <2>1 DEF LogsAreFresh
  <1>10. /\ Crawl!Due(entry.block)' = Crawl!Due(entry.block) /\ entry' = entry
         /\ \A q : QueryOf(q, entry.block) => QueryOf(q, entry.block)'
         /\ \A k : DeletedFrom(k, entry.block + 1)' <=> DeletedFrom(k, entry.block + 1)
    BY <1>1, <1>2, BlockSame
  <1>11. BlockSpare'
    <2> DEFINE left == delete_queries'
    <2>1. ASSUME NEW i \in 1..Len(left) PROVE QueryOf(delete_queries[i], entry.block)'
      <3>1. QueryOf(delete_queries[i + 1], entry.block)
        BY <1>2, <1>3, <1>4 DEF BlockSpare
      <3>2. \A q : q = delete_queries'[i] => QueryOf(q, entry.block)'
        BY <1>4, <1>10, <3>1
      <3> QED BY <3>2 DEF QueryOf, QueryMatches
    <2> QED BY <2>1 DEF BlockSpare
  <1>12. BlockBuilt'
    <2>1. \A d : Built(d) => Built(d)'
      BY <1>1 DEF Built
    <2> QED BY <1>1, <1>2, <1>3, <1>10, <2>1 DEF BlockBuilt
  <1>13. BlockRetired'
    <2>1. \A d : DeleteAhead(d.key) => DeleteAhead(d.key)'
      BY <1>1 DEF DeleteAhead
    <2>2. /\ Len(pending_deletes') = Len(pending_deletes) + 1 /\ Len(pending_deletes) \in Nat
          /\ pending_deletes'[Len(pending_deletes) + 1] = Head(delete_queries)
          /\ Len(pending_deletes) + 1 \in 1..Len(pending_deletes')
          /\ \A i \in 1..Len(pending_deletes) :
               i \in 1..Len(pending_deletes') /\ pending_deletes'[i] = pending_deletes[i]
      BY <1>1, <1>3, <1>4
    <2>3. \A d : Covered(d) => Covered(d)'
      BY <2>2 DEF Covered, QueryMatches
    <2>4. ASSUME NEW d, Queued(d) PROVE Queued(d)' \/ Covered(d)'
      <3>1. PICK i \in 1..Len(delete_queries) : QueryMatches(delete_queries[i], d)
        BY <2>4 DEF Queued
      <3>2. CASE i = 1
        BY <1>4, <2>2, <3>1, <3>2 DEF Covered, QueryMatches
      <3>3. CASE i # 1
        <4>1. i - 1 \in 1..Len(delete_queries') /\ (i - 1) + 1 = i
          BY <1>4, <3>3
        <4>2. delete_queries'[i - 1] = delete_queries[i]
          BY <1>4, <4>1
        <4> QED BY <3>1, <4>1, <4>2 DEF Queued, QueryMatches
      <3> QED BY <3>2, <3>3
    <2> QED BY <1>1, <1>2, <1>3, <1>10, <2>1, <2>3, <2>4 DEF BlockRetired
  <1> QED BY <1>6, <1>8, <1>9, <1>11, <1>12, <1>13 DEF Volatile

\* The first of the logs is taken.
LEMMA NextBlockCrawl == ASSUME CrawlInv, NextBlock PROVE Durable' /\ Volatile'
  <1>1. /\ pc = "block" /\ pc' = "hydrate" /\ pos' = 1 /\ ret' = ret
        /\ entry' \in logs /\ \A m \in logs : entry'.block <= m.block
        /\ UNCHANGED <<chainVars, cursor, reorg_buffer, pending_deletes, index, start,
                       end_block, logs, unseen, docs, delete_queries>>
    BY DEF NextBlock, storeVars
  <1>2. InBlock' /\ WithLogs /\ WithLogs'
    BY <1>1 DEF InBlock, WithLogs
  <1>3. /\ Undisturbed /\ RangeConfirmed /\ LogsAreFresh /\ Drained /\ docs = <<>>
        /\ delete_queries = <<>> /\ CrawlTypeOK /\ ChainTypeOK /\ pending_deletes = <<>>
    BY <1>1 DEF CrawlInv, Volatile, LogsAreFresh, ControlInv, Phases, TypeOK, Drained, Down
  <1>4. ChainKept /\ chain' = chain /\ Target' = Target
    BY <1>1, SameChain, SameAnswers DEF CrawlInv, ControlInv, TypeOK, Durable
  <1>5. Durable'
    <2>1. BufferAgrees'
      BY <1>1, <1>4 DEF CrawlInv, Durable, BufferAgrees, Matches, BlockHash
    <2> QED BY <1>1, <1>4, <2>1, DurableFrame
  <1>6. RangeConfirmed'
    BY <1>1, <1>2, <1>3, <1>4, RangeFacts DEF RangeConfirmed
  <1>7. Undisturbed' /\ Drained' /\ MarkedIsDone' /\ Probing'
    BY <1>1, <1>3 DEF Undisturbed, Drained, MarkedIsDone, Probing
  <1>8. LogsAreFresh'
    <2>1. RangeLogs' = RangeLogs
      BY <1>1, <1>2, <1>4, SameRange, RangeFacts
    <2> QED BY <1>1, <1>2, <1>3, <2>1 DEF LogsAreFresh
  <1>9. BlockSpare'
    BY <1>1, <1>3 DEF BlockSpare
  <1>10. PICK b \in cursor..end_block :
           b > 0 /\ entry' = [block |-> b, hash |-> chain[b].hash, ops |-> chain[b].ops]
    <2>1. logs = RangeLogs
      BY <1>2, <1>3 DEF LogsAreFresh
    <2> QED BY <1>1, <2>1 DEF RangeLogs
  <1>11. b \in 1..Len(chain) /\ entry'.block = b /\ entry'.ops = chain[b].ops
    BY <1>2, <1>10, RangeFacts
  <1>12. BlockBuilt'
    <2>1. ASSUME NEW d \in Crawl!Due(b) PROVE ~(d.log < 1)
      BY <1>3, <1>11, DueFacts, BlockTypes
    <2>2. Crawl!Due(entry.block)' = Crawl!Due(b)
      BY <1>4, <1>11 DEF Crawl!Due, Crawl!EntityAt, Crawl!Positions, Crawl!OpAt, Crawl!Before
    <2> QED BY <1>1, <1>3, <2>1, <2>2 DEF BlockBuilt
  <1>13. BlockRetired'
    <2>1. \A i \in DOMAIN entry'.ops : ~(i < 1)
      BY <1>3, <1>11, BlockTypes
    <2> QED BY <1>1, <2>1 DEF BlockRetired
  <1> QED BY <1>5, <1>6, <1>7, <1>8, <1>9, <1>12, <1>13 DEF Volatile

\* At the commit of a block it owes nothing more, nor do the empty ones below it.
LEMMA DoneAtCommit ==
  ASSUME CrawlInv, pc = "commit"
  PROVE  \A b \in 1..Target : cursor <= b /\ b < entry.block + 1 =>
           /\ \A d \in Crawl!Due(b) : d \in index \/ DeletedFrom(d.key, entry.block + 1)
           /\ \A d \in index : d.block < b /\ Crawl!Touches(b, d.key) =>
                                 DeletedFrom(d.key, entry.block + 1)
  <1>1. InBlock /\ WithLogs
    BY DEF InBlock, WithLogs
  <1>2. /\ Drained /\ BlockBuilt /\ BlockRetired
        /\ docs = <<>> /\ delete_queries = <<>> /\ pending_deletes = <<>>
        /\ pos > Len(entry.ops) /\ pos \in Nat
    BY <1>1 DEF CrawlInv, Volatile, LogsAreFresh, ControlInv, Phases, TypeOK, CrawlTypeOK,
                Drained, Down
  <1>3. /\ IsNext(entry.block) /\ entry.block \in Nat /\ cursor \in Nat
        /\ entry.ops = chain[entry.block].ops
        /\ DOMAIN entry.ops = 1..Len(entry.ops) /\ Len(entry.ops) \in Nat
        /\ Target \in Nat
    BY <1>1, AtWork, RangeFacts
  <1>4. ASSUME NEW d \in Crawl!Due(entry.block)
        PROVE  d \in index \/ DeletedFrom(d.key, entry.block + 1)
    <2>1. d.log < pos
      BY <1>2, <1>3, DueFacts
    <2>2. Built(d) \/ DeletedFrom(d.key, entry.block + 1)
      BY <1>1, <1>2, <2>1 DEF BlockBuilt
    <2> QED BY <1>2, <2>2 DEF Built
  <1>5. ASSUME NEW d \in index, d.block < entry.block, Crawl!Touches(entry.block, d.key)
        PROVE  DeletedFrom(d.key, entry.block + 1)
    <2>1. PICK i \in DOMAIN entry.ops : entry.ops[i].key = d.key
      BY <1>3, <1>5 DEF Crawl!Touches
    <2>2. i < pos
      BY <1>2, <1>3
    <2>3. ~Queued(d) /\ ~Covered(d)
      BY <1>2 DEF Queued, Covered
    <2>4. ~DeleteAhead(d.key)
      BY <1>2, <1>3 DEF DeleteAhead
    <2> QED BY <1>1, <1>2, <1>5, <2>1, <2>2, <2>3, <2>4 DEF BlockRetired
  <1>6. ASSUME NEW b \in 1..Target, cursor <= b, b < entry.block
        PROVE  Crawl!Due(b) = {} /\ \A k : ~Crawl!Touches(b, k)
    <2>1. chain[b].ops = <<>>
      BY <1>3, <1>6 DEF IsNext
    <2> QED BY <2>1, EmptyBlock
  <1>7. ASSUME NEW b \in 1..Target, b < entry.block + 1 PROVE b = entry.block \/ b < entry.block
    BY <1>3, <1>7
  <1> QED BY <1>4, <1>5, <1>6, <1>7

\* At the end of the range, no block of it is left over.
LEMMA DoneAtEnd ==
  ASSUME CrawlInv, pc = "block", logs = {}
  PROVE  \A b \in 1..Target : cursor <= b /\ b < end_block + 1 =>
           Crawl!Due(b) = {} /\ \A k : ~Crawl!Touches(b, k)
  <1>1. WithLogs
    BY DEF WithLogs
  <1>2. RangeLogs = {} /\ cursor \in Nat /\ end_block \in Nat /\ Target \in Nat
    BY <1>1, RangeFacts DEF CrawlInv, Volatile, LogsAreFresh
  <1>3. ASSUME NEW b \in 1..Target, cursor <= b, b < end_block + 1 PROVE chain[b].ops = <<>>
    <2>1. b \in cursor..end_block /\ b > 0
      BY <1>2, <1>3
    <2> QED BY <1>2, <2>1 DEF RangeLogs
  <1> QED BY <1>3, EmptyBlock

\* The block is done: the cursor passes it.
LEMMA CommitCrawl == ASSUME CrawlInv, CommitBlock PROVE Durable' /\ Volatile'
  <1>1. /\ pc = "commit" /\ pc' = "block" /\ ret' = ret /\ cursor' = entry.block + 1
        /\ logs' = logs \ {entry}
        /\ UNCHANGED <<chainVars, reorg_buffer, pending_deletes, index, start,
                       end_block, unseen, docs, delete_queries>>
    BY DEF CommitBlock, set_cursor
  <1>2. InBlock /\ WithLogs /\ WithLogs'
    BY <1>1 DEF InBlock, WithLogs
  <1>3. /\ Undisturbed /\ RangeConfirmed /\ LogsAreFresh /\ Drained /\ BlockBuilt /\ BlockRetired
        /\ docs = <<>> /\ unseen = {} /\ delete_queries = <<>> /\ pending_deletes = <<>>
        /\ pos > Len(entry.ops) /\ pos \in Nat /\ ChainTypeOK
    BY <1>1, <1>2 DEF CrawlInv, Volatile, LogsAreFresh, ControlInv, Phases, TypeOK, CrawlTypeOK,
                      Drained, Down
  <1>4. /\ IsNext(entry.block) /\ entry.block \in 1..Len(chain) /\ entry.block \in Nat
        /\ cursor \in Nat /\ start <= cursor /\ cursor # NoCursor
        /\ entry.ops = chain[entry.block].ops
        /\ DOMAIN entry.ops = 1..Len(entry.ops) /\ Len(entry.ops) \in Nat
        /\ end_block \in Nat /\ end_block <= Target /\ Target \in Nat /\ Len(chain) \in Nat
        /\ entry.block <= end_block
    BY <1>2, AtWork, RangeFacts
  <1>5. chain' = chain /\ Target' = Target
    BY <1>1, SameAnswers
  <1>6. cursor' \in Nat /\ cursor <= cursor' /\ cursor' <= Target + 1
    BY <1>1, <1>4 DEF IsNext
  <1>7. Durable'
    <2>1. \A b \in 1..Target : cursor <= b /\ b < cursor' =>
            /\ \A d \in Crawl!Due(b) : d \in index \/ DeletedFrom(d.key, cursor')
            /\ \A d \in index : d.block < b /\ Crawl!Touches(b, d.key) => DeletedFrom(d.key, cursor')
      BY <1>1, DoneAtCommit
    <2> QED BY <1>1, <1>3, <1>4, <1>6, <2>1, DurablePasses
  <1>8. ~InBlock'
    BY <1>1, <1>3 DEF InBlock, Undisturbed
  <1>9. RangeConfirmed'
    <2>1. cursor' # NoCursor /\ cursor' <= end_block + 1
      BY <1>1, <1>4 DEF NoCursor
    <2> QED BY <1>1, <1>4, <1>5, <2>1 DEF RangeConfirmed
  <1>10. Undisturbed' /\ Drained' /\ MarkedIsDone' /\ Probing'
    BY <1>1, <1>3 DEF Undisturbed, Drained, MarkedIsDone, Probing
  <1>11. logs' = RangeLogs'
    <2> DEFINE LogOf(b) == [block |-> b, hash |-> chain[b].hash, ops |-> chain[b].ops]
               From(a) == {c \in a..end_block : c > 0 /\ chain[c].ops # <<>>}
    <2>1. logs = {LogOf(b) : b \in From(cursor)} /\ entry \in logs
          /\ \A m \in logs : entry.block <= m.block
      BY <1>2, <1>3 DEF LogsAreFresh, RangeLogs
    <2>2. RangeLogs' = {LogOf(b) : b \in From(entry.block + 1)}
      BY <1>1, <1>5 DEF RangeLogs
    <2>3. \A b : LogOf(b).block = b
      OBVIOUS
    <2>4. entry = LogOf(entry.block)
      BY <2>1
    <2>5. From(cursor) \subseteq Nat /\ \A b \in From(cursor) : entry.block <= b
      <3>1. From(cursor) \subseteq Nat
        BY <1>4
      <3>2. ASSUME NEW b \in From(cursor) PROVE entry.block <= b
        <4>1. LogOf(b) \in logs
          BY <2>1
        <4>2. entry.block <= LogOf(b).block
          BY <2>1, <4>1
        <4> QED BY <2>3, <4>2
      <3> QED BY <3>1, <3>2
    <2>6. \A b : b \in From(entry.block + 1) <=> b \in From(cursor) /\ b # entry.block
      <3>1. ASSUME NEW b \in From(entry.block + 1) PROVE b \in From(cursor) /\ b # entry.block
        <4>1. b \in (entry.block + 1)..end_block /\ b > 0 /\ chain[b].ops # <<>>
          OBVIOUS
        <4>2. cursor <= entry.block
          BY <1>4 DEF IsNext
        <4>3. b \in cursor..end_block /\ b # entry.block
          BY <1>4, <4>1, <4>2
        <4> QED BY <4>1, <4>3
      <3>2. ASSUME NEW b \in From(cursor), b # entry.block PROVE b \in From(entry.block + 1)
        <4>1. b \in cursor..end_block /\ b > 0 /\ chain[b].ops # <<>> /\ entry.block <= b
          BY <2>5
        <4>2. b \in Nat /\ b >= entry.block + 1
          BY <1>4, <3>2, <4>1
        <4>3. b \in (entry.block + 1)..end_block
          BY <1>4, <4>1, <4>2
        <4> QED BY <4>1, <4>3
      <3> QED BY <3>1, <3>2
    <2> HIDE DEF LogOf, From
    <2> QED BY <1>1, <2>1, <2>2, <2>3, <2>4, <2>6
  <1>12. LogsAreFresh'
    BY <1>1, <1>3, <1>8, <1>11 DEF LogsAreFresh
  <1>13. BlockInv'
    BY <1>8, OutOfBlock
  <1> QED BY <1>7, <1>9, <1>10, <1>12, <1>13 DEF Volatile, BlockInv

\* A step that leaves the cursor, the deletes and the index alone, outside the
\* block at work: its effects on the buffer and the range remain to be shown.
LEMMA QuietStep ==
  ASSUME CrawlInv, ~InBlock', BufferAgrees', RangeConfirmed', LogsAreFresh',
         pc' \notin {"find", "retract", "retract_enqueue", "forget", "rollback", "mark", "probe"},
         ret' = "head", pending_deletes = <<>>,
         UNCHANGED <<chainVars, cursor, pending_deletes, index, start>>
  PROVE  Durable' /\ Volatile'
  <1>1. ChainKept
    BY SameChain DEF CrawlInv, ControlInv, TypeOK, Durable
  <1>2. Durable'
    BY <1>1, DurableFrame
  <1>3. Undisturbed' /\ Drained' /\ MarkedIsDone' /\ Probing'
    BY DEF Undisturbed, Drained, MarkedIsDone, Probing
  <1> QED BY <1>2, <1>3, OutOfBlock DEF Volatile, BlockInv

\* The range begins at the cursor and ends at a confirmed block.
LEMMA IterationCrawl == ASSUME CrawlInv, Idle \/ BeginIteration PROVE Durable' /\ Volatile'
  <1>1. CASE Idle
    <2>1. ReadHead /\ LoopTop /\ UNCHANGED <<chainVars, reorg_buffer, pending_deletes, index>>
      BY <1>1 DEF Idle
    <2> QED BY <2>1, DurableBegins, RestingVolatile
  <1>2. CASE BeginIteration
    <2>1. /\ ReadHead /\ pc = "head" /\ pc' \in {"check", "logs"} /\ ret' = ret /\ cursor' <= Target
          /\ end_block' = IF cursor' + FetchBatchSize - 1 < Target
                          THEN cursor' + FetchBatchSize - 1 ELSE Target
          /\ UNCHANGED <<chainVars, reorg_buffer, pending_deletes, index>>
          /\ UNCHANGED <<logs, unseen, entry, pos, docs, delete_queries>>
      BY <1>2 DEF BeginIteration, ReadHead
    <2>2. Durable' /\ cursor' \in Nat
      BY <2>1, DurableBegins
    <2>3. /\ Undisturbed /\ LogsAreFresh /\ Drained
          /\ ChainTypeOK /\ Target \in Nat /\ Target' = Target
      BY <2>1, TargetIs, SameAnswers DEF CrawlInv, Volatile, ControlInv, TypeOK
    <2>4. end_block' <= Target' /\ cursor' <= end_block' /\ cursor' <= end_block' + 1
      <3>1. FetchBatchSize \in Nat /\ FetchBatchSize >= 1 /\ Target \in Nat
        BY <2>3, BridgeAssumption
      <3>2. ASSUME NEW c \in Nat, NEW t \in Nat, c <= t
            PROVE  LET e == IF c + FetchBatchSize - 1 < t THEN c + FetchBatchSize - 1 ELSE t
                   IN  e \in Nat /\ e <= t /\ c <= e /\ c <= e + 1
        BY <3>1, <3>2
      <3>3. cursor' <= Target
        BY <2>1
      <3>4. end_block' \in Nat /\ end_block' <= Target /\ cursor' <= end_block' /\ cursor' <= end_block' + 1
        BY <2>1, <2>2, <3>1, <3>2, <3>3
      <3> QED BY <2>3, <3>4
    <2>5. ~InBlock' /\ ~WithLogs' /\ ret # "commit"
      BY <2>1, <2>3 DEF InBlock, WithLogs, Undisturbed
    <2>6. RangeConfirmed'
      <3>1. cursor' # NoCursor
        BY <2>2 DEF NoCursor
      <3> QED BY <2>4, <2>5, <3>1 DEF RangeConfirmed
    <2>7. LogsAreFresh'
      BY <2>1, <2>3, <2>5 DEF LogsAreFresh
    <2>8. Undisturbed' /\ Drained' /\ MarkedIsDone' /\ Probing'
      BY <2>1, <2>3, <2>5 DEF Undisturbed, Drained, MarkedIsDone, Probing, Down
    <2> QED BY <2>2, <2>5, <2>6, <2>7, <2>8, OutOfBlock DEF Volatile, BlockInv
  <1> QED BY <1>1, <1>2

\* Every buffered hash agrees with the chain: no check fails.
LEMMA CheckCrawl == ASSUME CrawlInv, CheckBuffer PROVE Durable' /\ Volatile'
  <1>1. Undisturbed /\ RangeConfirmed /\ LogsAreFresh /\ Drained /\ BufferAgrees
    BY DEF CrawlInv, Volatile, Durable
  <1>2. CASE CheckMatch
    <2>1. /\ pc = "check" /\ pc' \in {"check", "logs"} /\ ret' = ret
          /\ UNCHANGED <<chainVars, cursor, reorg_buffer, pending_deletes, index, start,
                         end_block, logs, unseen, entry, pos, docs, delete_queries>>
      BY <1>2 DEF CheckMatch, storeVars, crawlVars
    <2>2. pending_deletes = <<>> /\ ret # "commit" /\ ret # "loop"
      BY <1>1, <2>1 DEF Drained, Undisturbed, Down
    <2>3. ret' = "head"
      BY <2>1, <2>2 DEF CrawlInv, ControlInv, TypeOK
    <2>4. chain' = chain /\ Target' = Target
      BY <2>1, SameAnswers
    <2>5. ~InBlock' /\ ~WithLogs'
      BY <2>1, <2>3 DEF InBlock, WithLogs
    <2>6. BufferAgrees'
      BY <1>1, <2>1, <2>4 DEF BufferAgrees, Matches, BlockHash
    <2>7. RangeConfirmed'
      BY <1>1, <2>1, <2>4, <2>5, RangeFacts DEF RangeConfirmed
    <2>8. LogsAreFresh'
      BY <1>1, <2>1, <2>5 DEF LogsAreFresh
    <2> QED BY <2>1, <2>2, <2>3, <2>5, <2>6, <2>7, <2>8, QuietStep
  <1>3. ~CheckMismatch
    BY <1>1 DEF CheckMismatch, BufferAgrees
  <1>4. ~Probe /\ ~ForkFound
    BY <1>1 DEF Probe, ForkFound, Undisturbed
  <1> QED BY <1>2, <1>3, <1>4 DEF CheckBuffer

\* Nor does an observation: the logs are those of the chain.
LEMMA ObserveCrawl == ASSUME CrawlInv, Observe PROVE Durable' /\ Volatile'
  <1>1. Undisturbed /\ RangeConfirmed /\ LogsAreFresh /\ Drained /\ BufferAgrees /\ TypeOK
    BY DEF CrawlInv, Volatile, Durable, ControlInv
  <1>2. ASSUME pc \in {"logs", "observe"}, ret' = ret
        PROVE  pending_deletes = <<>> /\ ret' = "head" /\ ret = "head"
    BY <1>1, <1>2 DEF Drained, Undisturbed, Down, TypeOK
  <1>3. CASE FetchLogs
    <2>1. /\ pc = "logs" /\ pc' = "observe" /\ ret' = ret /\ logs' = RangeLogs /\ unseen' = logs'
          /\ UNCHANGED <<chainVars, cursor, reorg_buffer, pending_deletes, index, start,
                         end_block, entry, pos, docs, delete_queries>>
      BY <1>3 DEF FetchLogs, storeVars, RangeLogs
    <2>2. chain' = chain /\ Target' = Target
      BY <2>1, SameAnswers
    <2>3. ~InBlock' /\ WithLogs'
      BY <1>2, <2>1 DEF InBlock, WithLogs
    <2>4. BufferAgrees'
      BY <1>1, <2>1, <2>2 DEF BufferAgrees, Matches, BlockHash
    <2>5. RangeConfirmed'
      BY <1>1, <2>1, <2>2, <2>3, RangeFacts DEF RangeConfirmed
    <2>6. LogsAreFresh'
      <3>1. RangeLogs' = RangeLogs
        BY <2>1, <2>2 DEF RangeLogs
      <3> QED BY <1>1, <2>1, <2>3, <3>1 DEF LogsAreFresh
    <2> QED BY <1>2, <2>1, <2>3, <2>4, <2>5, <2>6, QuietStep
  <1>4. ASSUME pc = "observe",
               UNCHANGED <<chainVars, cursor, pending_deletes, index, start, ret,
                           end_block, logs, entry, pos, docs, delete_queries>>,
               unseen' \subseteq unseen, pc' \in {"observe", "block"},
               \/ reorg_buffer' = reorg_buffer
               \/ \E b \in 0..Target :
                    observe_block(b, BlockHash(b))
        PROVE  Durable' /\ Volatile'
    <2>1. chain' = chain /\ Target' = Target /\ Target \in Nat
      BY <1>4, SameAnswers
    <2>2. ~InBlock' /\ WithLogs' /\ WithLogs
      BY <1>2, <1>4 DEF InBlock, WithLogs
    <2>3. BufferAgrees'
      <3>1. \A e \in reorg_buffer' : e.block <= Target /\ BlockHash(e.block) = e.hash
        <4>1. CASE reorg_buffer' = reorg_buffer
          BY <1>1, <4>1 DEF BufferAgrees, Matches
        <4>2. CASE \E b \in 0..Target : observe_block(b, BlockHash(b))
          <5>1. PICK b \in 0..Target : observe_block(b, BlockHash(b))
            BY <4>2
          <5> QED BY <1>1, <2>1, <5>1 DEF BufferAgrees, Matches, observe_block
        <4> QED BY <1>4, <4>1, <4>2
      <3> QED BY <2>1, <3>1 DEF BufferAgrees, Matches, BlockHash
    <2>4. RangeConfirmed'
      BY <1>1, <1>4, <2>1, <2>2, RangeFacts DEF RangeConfirmed
    <2>5. LogsAreFresh'
      <3>1. RangeLogs' = RangeLogs
        BY <1>4, <2>1 DEF RangeLogs
      <3> QED BY <1>1, <1>4, <2>2, <3>1 DEF LogsAreFresh
    <2> QED BY <1>2, <1>4, <2>2, <2>3, <2>4, <2>5, QuietStep
  <1>5. ASSUME pc = "observe", NEW l \in unseen
        PROVE  l.block \in 0..Target /\ l.hash = BlockHash(l.block)
    <2>1. WithLogs /\ l \in RangeLogs
      BY <1>1, <1>5 DEF WithLogs, LogsAreFresh
    <2>2. PICK b \in cursor..end_block :
            b > 0 /\ l = [block |-> b, hash |-> chain[b].hash, ops |-> chain[b].ops]
      BY <2>1 DEF RangeLogs
    <2>3. b \in 0..Target
      BY <2>1, <2>2, RangeFacts
    <2> QED BY <2>2, <2>3 DEF BlockHash
  <1>6. CASE ObserveLog
    <2>1. PICK l \in unseen : observe_block(l.block, l.hash) /\ unseen' = unseen \ {l}
      BY <1>6 DEF ObserveLog
    <2>2. \E b \in 0..Target : observe_block(b, BlockHash(b))
      BY <1>5, <1>6, <2>1 DEF ObserveLog
    <2> QED BY <1>4, <1>6, <2>1, <2>2 DEF ObserveLog
  <1>7. ~ObserveMismatch
    <2>1. SUFFICES ASSUME pc = "observe", NEW l \in unseen, Contradicts(l.block, l.hash) PROVE FALSE
      BY DEF ObserveMismatch
    <2> QED BY <1>1, <1>5, <2>1 DEF Contradicts, BufferAgrees, Matches
  <1>8. CASE ObserveEnd
    <2>1. /\ pc = "observe" /\ pc' = "block"
          /\ UNCHANGED <<chainVars, cursor, pending_deletes, index, start, ret,
                         end_block, logs, unseen, entry, pos, docs, delete_queries>>
          /\ (reorg_buffer' = reorg_buffer \/ observe_block(end_block, BlockHash(end_block)))
      BY <1>8 DEF ObserveEnd, crawlVars
    <2>2. end_block \in 0..Target
      <3>1. WithLogs
        BY <2>1 DEF WithLogs
      <3> QED BY <3>1, RangeFacts
    <2> QED BY <1>4, <2>1, <2>2
  <1> QED BY <1>3, <1>6, <1>7, <1>8 DEF Observe

\* The range is done: there was nothing above its last block with operations.
LEMMA FinishCrawl == ASSUME CrawlInv, Finish PROVE Durable' /\ Volatile'
  <1>1. Undisturbed /\ RangeConfirmed /\ LogsAreFresh /\ Drained /\ BufferAgrees /\ TypeOK
    BY DEF CrawlInv, Volatile, Durable, ControlInv
  <1>2. CASE FinishRange
    <2>1. /\ pc = "block" /\ logs = {} /\ cursor' = end_block + 1 /\ pc' = "prune_buffer" /\ ret' = ret
          /\ UNCHANGED <<chainVars, reorg_buffer, pending_deletes, index, start,
                         end_block, logs, unseen, entry, pos, docs, delete_queries>>
      BY <1>2 DEF FinishRange, set_cursor, crawlVars
    <2>2. WithLogs /\ pending_deletes = <<>> /\ ret' = "head" /\ ret = "head"
      BY <1>1, <2>1 DEF WithLogs, Drained, Undisturbed, Down, TypeOK
    <2>3. /\ cursor \in Nat /\ end_block \in Nat /\ end_block <= Target /\ cursor <= end_block + 1
          /\ Target \in Nat
      BY <2>2, RangeFacts
    <2>5. cursor' \in Nat /\ cursor <= cursor' /\ cursor' <= Target + 1
      BY <2>1, <2>3
    <2>6. \A b \in 1..Target : cursor <= b /\ b < cursor' =>
            /\ \A d \in Crawl!Due(b) : d \in index \/ DeletedFrom(d.key, cursor')
            /\ \A d \in index : d.block < b /\ Crawl!Touches(b, d.key) => DeletedFrom(d.key, cursor')
      BY <2>1, DoneAtEnd
    <2>7. Durable'
      BY <2>1, <2>2, <2>3, <2>5, <2>6, DurablePasses
    <2>8. ~InBlock' /\ ~WithLogs'
      BY <2>1, <2>2 DEF InBlock, WithLogs
    <2>9. RangeConfirmed' /\ LogsAreFresh'
      <3>1. cursor' # NoCursor
        BY <2>5 DEF NoCursor
      <3> QED BY <1>1, <2>1, <2>8, <3>1 DEF RangeConfirmed, LogsAreFresh
    <2>10. Undisturbed' /\ Drained' /\ MarkedIsDone' /\ Probing'
      BY <2>1, <2>2 DEF Undisturbed, Drained, MarkedIsDone, Probing
    <2> QED BY <2>7, <2>8, <2>9, <2>10, OutOfBlock DEF Volatile, BlockInv
  <1>3. CASE PruneBuffer
    <2>1. /\ pc = "prune_buffer" /\ pc' = "prune_emitted" /\ ret' = ret
          /\ UNCHANGED <<chainVars, cursor, pending_deletes, index, start,
                         end_block, logs, unseen, entry, pos, docs, delete_queries>>
          /\ reorg_buffer' \subseteq reorg_buffer
      BY <1>3 DEF PruneBuffer, prune_reorg_buffer, KeptBy, crawlVars
    <2>2. pending_deletes = <<>> /\ ret' = "head" /\ ret = "head"
      BY <1>1, <2>1 DEF Drained, Undisturbed, Down, TypeOK
    <2>3. BufferAgrees'
      BY <2>1, DurableParts
    <2>4. ~InBlock' /\ ~WithLogs'
      BY <2>1, <2>2 DEF InBlock, WithLogs
    <2>5. RangeConfirmed' /\ LogsAreFresh'
      <3>1. cursor # NoCursor
        BY <1>1, <2>1 DEF RangeConfirmed, Down
      <3> QED BY <1>1, <2>1, <2>4, <3>1 DEF RangeConfirmed, LogsAreFresh
    <2> QED BY <2>1, <2>2, <2>3, <2>4, <2>5, QuietStep
  <1>4. CASE PruneEmitted
    <2>1. LoopTop /\ UNCHANGED <<chainVars, cursor, reorg_buffer, pending_deletes, index, start>>
      BY <1>4 DEF PruneEmitted
    <2> QED BY <2>1, RestingCrawl
  <1> QED BY <1>2, <1>3, <1>4 DEF Finish


\* No reorg reaches the buffer: nothing is retracted.
LEMMA RetractCrawl == ASSUME CrawlInv PROVE ~Retract
  <1>1. pc \notin {"retract", "retract_enqueue", "forget", "rollback"}
    BY DEF CrawlInv, Volatile, Undisturbed
  <1> QED BY <1>1 DEF Retract, TooDeep, BeginRetract, EnqueueRetraction, TruncateBuffer,
                      ForgetEmitted, RollBack

\* A call fails, the process dies, or it is started again.
LEMMA OutageCrawl ==
  ASSUME CrawlInv, ProbeLive \/ RpcError \/ Crash \/ Restart PROVE Durable' /\ Volatile'
  <1>1. /\ LoopTop \/ \E how \in Down : Exit(how)
        /\ UNCHANGED <<chainVars, cursor, reorg_buffer, pending_deletes, index, start>>
    BY DEF ProbeLive, RpcError, Crash, Restart, storeVars, Down
  <1> QED BY <1>1, RestingCrawl

\* Only the chain moves, or nothing does.
LEMMA ChainCrawl ==
  ASSUME CrawlInv, ChainKept, UNCHANGED <<storeVars, index, pc, ret, crawlVars, start>>
  PROVE  Durable' /\ Volatile'
  <1>1. UNCHANGED <<cursor, reorg_buffer, pending_deletes, index, pc, ret, start,
                    end_block, logs, unseen, entry, pos, docs, delete_queries>>
    BY DEF storeVars, crawlVars
  <1>2. /\ Undisturbed /\ RangeConfirmed /\ LogsAreFresh /\ Drained /\ MarkedIsDone /\ Probing
        /\ BufferAgrees
    BY DEF CrawlInv, Volatile, Durable
  <1>3. /\ Target \in Nat /\ Target' \in Nat /\ Target <= Target'
        /\ \A b \in 1..Target : chain'[b] = chain[b]
    BY DEF ChainKept
  <1>4. BufferAgrees'
    <2> SUFFICES ASSUME NEW e \in reorg_buffer
                 PROVE  e.block <= Target' /\ (e.block # 0 => chain'[e.block].hash = e.hash)
                                           /\ (e.block = 0 => e.hash = 0)
      BY <1>1 DEF BufferAgrees, Matches, BlockHash
    <2>1. /\ e.block <= Target /\ e.block \in Nat
          /\ (e.block # 0 => chain[e.block].hash = e.hash) /\ (e.block = 0 => e.hash = 0)
      BY <1>2 DEF BufferAgrees, Matches, BlockHash, CrawlInv, ControlInv, TypeOK, StoreTypeOK, BlockId
    <2> QED BY <1>3, <2>1
  <1>5. Durable'
    BY <1>1, <1>4, DurableFrame
  <1>6. InBlock' = InBlock /\ WithLogs' = WithLogs
    BY <1>1 DEF WithLogs, InBlock
  <1>7. RangeConfirmed'
    <2>1. ASSUME pc \in {"check", "logs"} \/ WithLogs
          PROVE  end_block <= Target' /\ cursor <= end_block + 1
      BY <1>3, <2>1, RangeFacts
    <2> QED BY <1>1, <1>2, <1>6, <2>1 DEF RangeConfirmed
  <1>8. LogsAreFresh'
    <2>1. WithLogs => RangeLogs' = RangeLogs
      BY <1>1, RangeFacts, SameRange
    <2> QED BY <1>1, <1>2, <1>6, <2>1 DEF LogsAreFresh
  <1>9. Undisturbed' /\ Drained' /\ MarkedIsDone' /\ Probing'
    BY <1>1, <1>2 DEF Undisturbed, Drained, MarkedIsDone, Probing, Log, QueryMatches
  <1>10. BlockInv'
    <2>1. CASE InBlock
      BY <1>1, <2>1, BlockFrame
    <2>2. CASE ~InBlock
      BY <1>6, <2>2, OutOfBlock
    <2> QED BY <2>1, <2>2
  <1> QED BY <1>5, <1>7, <1>8, <1>9, <1>10 DEF Volatile, BlockInv

-----------------------------------------------------------------------------
(* The invariant.                                                            *)

\* It holds before the first step ...
LEMMA CrawlInit == Init => CrawlInv
  <1> SUFFICES ASSUME Init PROVE CrawlInv
    OBVIOUS
  <1>1. /\ chain = <<>> /\ cursor = NoCursor /\ index = {} /\ pending_deletes = <<>>
        /\ reorg_buffer = {} /\ pc = "drain" /\ ret = "head" /\ logs = {} /\ unseen = {}
        /\ delete_queries = <<>> /\ start = 0
    BY DEF Init, ChainInit, StoreInit, QuickwitInit
  <1>2. ControlInv /\ ChainOK
    BY ControlInit, ChainStart DEF Init
  <1>3. Target \in Nat /\ Target <= 0
    BY <1>1, <1>2, TargetIs DEF ControlInv, TypeOK
  <1>4. Durable
    BY <1>1, <1>2, <1>3 DEF Durable, BufferAgrees, CursorConfirmed, IndexIsDue, Kept, Retired,
       PendingSpare
  <1>5. ~InBlock /\ ~WithLogs
    BY <1>1 DEF InBlock, WithLogs
  <1>6. Volatile
    BY <1>1, <1>5 DEF Volatile, Undisturbed, RangeConfirmed, LogsAreFresh, Probing, Drained,
       MarkedIsDone, BlockSpare, BlockBuilt, BlockRetired, Down
  <1> QED BY <1>2, <1>4, <1>6 DEF CrawlInv

\* ... and every step preserves it.
LEMMA CrawlStep == ConfirmedCase /\ CrawlInv /\ [Next]_vars => CrawlInv'
  <1> SUFFICES ASSUME ConfirmedCase, CrawlInv, [Next]_vars PROVE Durable' /\ Volatile'
    BY ControlStep DEF CrawlInv
  <1>1. CASE Work
    <2>1. CASE ProcessBlock
      BY <2>1, NextBlockCrawl, DeleteLogCrawl, EmitDocCrawl, SkipLogCrawl, HydrationDoneCrawl,
         IngestCrawl, EnqueueCrawl, CommitCrawl DEF ProcessBlock
    <2> QED BY <1>1, <2>1, DrainCrawl, IterationCrawl, CheckCrawl, ObserveCrawl, FinishCrawl,
               RetractCrawl DEF Work
  <1>2. CASE Hydration \/ Failure \/ Restart
    BY <1>2, HydrationDoneCrawl, ProbeDeadCrawl, DrainCrawl, IngestCrawl, OutageCrawl
       DEF Hydration, Failure
  <1>3. CASE Environment
    BY <1>3, ChainMoves, ChainCrawl DEF Environment, CrawlInv, ControlInv, TypeOK, Durable
  <1>4. CASE UNCHANGED vars
    <2>1. UNCHANGED <<chainVars, storeVars, index, pc, ret, crawlVars, start>>
      BY <1>4 DEF vars
    <2> QED BY <2>1, SameChain, ChainCrawl DEF CrawlInv, ControlInv, TypeOK, Durable
  <1> QED BY <1>1, <1>2, <1>3, <1>4 DEF Next

(***************************************************************************)
(* Whatever call fails and wherever the process dies, the crawl keeps what *)
(* a crash leaves behind (chain, store, index) and what the block at work  *)
(* has collected in order: what a passed block owes is in the index unless *)
(* a later block replaces it, what it replaces is on record to go, and no  *)
(* delete on record takes what the block that wrote it owes.               *)
(***************************************************************************)
THEOREM CrawlCorrect == ConfirmedCase => (Spec => []CrawlInv)
  <1> SUFFICES ASSUME ConfirmedCase PROVE Spec => []CrawlInv
    OBVIOUS
  <1>1. CrawlInv /\ [Next]_vars => CrawlInv'
    BY CrawlStep
  <1> QED BY <1>1, CrawlInit, PTL DEF Spec


-----------------------------------------------------------------------------
(* What it means for the index.                                              *)

\* What is owed was done since the crawl began: the cursor has moved.
LEMMA OwedHasMoved ==
  ASSUME ChainTypeOK, ChainOK, cursor \in Nat \cup {NoCursor}, start \in Nat, NEW k, Owed(k)
  PROVE  cursor \in Nat /\ start < cursor /\ SatSub(cursor, 1) = cursor - 1
  <1>1. cursor # NoCursor
    <2>1. SUFFICES ASSUME cursor = NoCursor PROVE FALSE
      OBVIOUS
    <2>2. SatSub(cursor, 1) = 0
      BY <2>1 DEF SatSub, NoCursor
    <2>3. 0 \in 0..Len(chain)
      BY DEF ChainTypeOK
    <2> QED BY <2>2, <2>3, NeverTouched DEF Owed, AtCursor
  <1>2. start < cursor
    <2>1. SUFFICES ASSUME cursor <= start PROVE FALSE
      BY <1>1
    <2> DEFINE h == SatSub(cursor, 1)
               P == Positions(chain, k, h)
               last == CHOOSE p \in P : \A q \in P : q = p \/ Before(q, p)
    <2>2. h \in Nat /\ (h < cursor \/ h = 0)
      BY <1>1 DEF SatSub
    <2>3. P # {}
      BY DEF Owed, AtCursor, EntityAt
    <2>4. AtCursor(k).block = last[1]
      BY <2>3 DEF AtCursor, EntityAt
    <2>5. last \in P
      <3>1. P \in SUBSET ((1..h) \X (1..MaxOpsPerBlock)) /\ h \in Nat
        BY <2>2 DEF Positions
      <3> HIDE DEF P, h
      <3> QED BY <2>3, <3>1, LastIsOne
    <2>6. last[1] \in 1..h
      <3> HIDE DEF last
      <3> QED BY <2>5 DEF Positions
    <2>7. AtCursor(k).block >= start
      BY DEF Owed
    <2> HIDE DEF h, P, last
    <2> QED BY <1>1, <2>1, <2>2, <2>4, <2>6, <2>7
  <1> QED BY <1>1, <1>2 DEF SatSub

LEMMA OwedSince ==
  ASSUME CrawlInv, NEW k, Owed(k)
  PROVE  /\ cursor \in Nat /\ start < cursor /\ cursor <= Target + 1
         /\ SatSub(cursor, 1) = cursor - 1 /\ cursor - 1 \in 0..Len(chain)
  <1>1. /\ ChainTypeOK /\ cursor \in Nat \cup {NoCursor} /\ start \in Nat /\ ChainOK
        /\ CursorConfirmed
    BY DEF CrawlInv, ControlInv, TypeOK, StoreTypeOK, Durable
  <1>2. cursor \in Nat /\ start < cursor /\ SatSub(cursor, 1) = cursor - 1
    BY <1>1, OwedHasMoved
  <1>3. cursor <= Target + 1
    BY <1>1, <1>2 DEF CursorConfirmed, NoCursor
  <1>4. Target \in Nat /\ Target <= Len(chain) /\ Len(chain) \in Nat
    BY <1>1, TargetIs
  <1> QED BY <1>1, <1>2, <1>3, <1>4

\* An operation of a block that is not passed is one still to be crawled.
LEMMA StillToCome ==
  ASSUME ChainTypeOK, NEW k, NEW h \in 0..Len(chain), NEW b \in 1..h, b >= cursor,
         Crawl!Touches(b, k)
  PROVE  TouchedUpTo(k, h)
  <1>1. b \in 1..Len(chain)
    BY DEF ChainTypeOK
  <1> QED BY <1>1, BlockTypes DEF Crawl!Touches, TouchedUpTo

\* So is a delete that is_live_at_head may have heard of.
LEMMA DeleteToCome ==
  ASSUME ChainTypeOK, NEW k, DeletedFrom(k, cursor)
  PROVE  TouchedUpTo(k, HeadBlock)
  <1>1. PICK c \in 1..HeadBlock :
          c >= cursor /\ \E i \in DOMAIN chain[c].ops :
                           chain[c].ops[i].key = k /\ chain[c].ops[i].op = "delete"
    BY DEF DeletedFrom
  <1>2. HeadBlock \in 0..Len(chain)
    BY DEF HeadBlock, ChainTypeOK
  <1>3. Crawl!Touches(c, k)
    BY <1>1 DEF Crawl!Touches
  <1> QED BY <1>1, <1>2, <1>3, StillToCome

\* An owed document is there, or a later operation is still to be crawled.
LEMMA OwedIsThere ==
  ASSUME CrawlInv, NEW k, Owed(k)
  PROVE  HasDoc(k) \/ TouchedUpTo(k, Target) \/ DeletedFrom(k, cursor)
  <1>1. /\ ChainTypeOK /\ ChainOK /\ Kept /\ start \in Nat
        /\ Target \in Nat /\ Target <= Len(chain) /\ Len(chain) \in Nat
    BY TargetIs DEF CrawlInv, ControlInv, TypeOK, Durable
  <1> DEFINE h == cursor - 1
  <1>2. /\ cursor \in Nat /\ start < cursor /\ cursor <= Target + 1
        /\ AtCursor(k) = EntityAt(k, h) /\ h \in 0..Len(chain)
    BY OwedSince DEF AtCursor
  <1>3. PICK b \in 1..h : \E i \in DOMAIN chain[b].ops :
          /\ IsLast(k, h, b, i) /\ EntityAt(k, h).block = b
          /\ EntityAt(k, h).match => DocOf(b, i) \in Crawl!Due(b)
    BY <1>1, <1>2, LiveAt DEF Owed
  <1>4. PICK i \in DOMAIN chain[b].ops :
          /\ IsLast(k, h, b, i) /\ EntityAt(k, h).block = b
          /\ EntityAt(k, h).match => DocOf(b, i) \in Crawl!Due(b)
    BY <1>3
  <1>5. DocOf(b, i) \in Crawl!Due(b) /\ AtCursor(k).block = b /\ b >= start
    BY <1>2, <1>4 DEF Owed
  <1>6. b \in 1..Target /\ b < cursor /\ b \in Nat /\ b # 0
    BY <1>1, <1>2
  <1>7. DocOf(b, i).key = k /\ DocOf(b, i).block = b /\ DocOf(b, i).hash = chain[b].hash
    BY <1>4 DEF DocOf, IsLast
  <1>8. \/ DocOf(b, i) \in index
        \/ \E c \in 1..Target : b < c /\ Crawl!Touches(c, k)
        \/ DeletedFrom(k, cursor)
    BY <1>1, <1>5, <1>6, <1>7 DEF Kept
  <1>9. CASE DocOf(b, i) \in index
    BY <1>5, <1>6, <1>7, <1>9 DEF HasDoc, BlockHash
  <1>10. CASE \E c \in 1..Target : b < c /\ Crawl!Touches(c, k)
    <2>1. PICK c \in 1..Target : b < c /\ Crawl!Touches(c, k)
      BY <1>10
    <2>2. PICK j \in DOMAIN chain[c].ops : OpOf(c, j).key = k
      BY <2>1 DEF Crawl!Touches, OpOf
    <2>3. ~(c \in 1..h)
      BY <1>4, <1>6, <2>1, <2>2 DEF IsLast
    <2>4. c >= cursor /\ Target \in 0..Len(chain)
      BY <1>1, <1>2, <2>3
    <2> QED BY <1>1, <2>1, <2>4, StillToCome
  <1> QED BY <1>8, <1>9, <1>10

\* A document is current, on record to go, or still to be replaced.
LEMMA IndexIsCurrent ==
  ASSUME CrawlInv, NEW d \in index, d.block < cursor
  PROVE  StaleOnlyIf(d.key, d, Target) \/ DeletedFrom(d.key, cursor)
  <1>1. /\ ChainTypeOK /\ ChainOK /\ Retired /\ CursorConfirmed /\ start \in Nat
        /\ Target \in Nat /\ Target <= Len(chain) /\ Len(chain) \in Nat
    BY TargetIs DEF CrawlInv, ControlInv, TypeOK, Durable
  <1>2. /\ d.block \in 1..Target /\ d.block \in Nat /\ start <= d.block
        /\ d \in Crawl!Due(d.block) /\ cursor \in Nat
    BY IndexFacts
  <1> DEFINE h == cursor - 1
  <1>3. cursor <= Target + 1
    BY <1>1, <1>2 DEF CursorConfirmed, NoCursor
  <1>4. AtCursor(d.key) = EntityAt(d.key, h) /\ h \in 0..Len(chain) /\ d.block \in 1..h
    <2>1. SatSub(cursor, 1) = h
      BY <1>2 DEF SatSub
    <2> QED BY <1>1, <1>2, <1>3, <2>1 DEF AtCursor
  <1>5. CASE \E b \in 1..h : d.block < b /\ Crawl!Touches(b, d.key)
    <2>1. PICK b \in 1..h : d.block < b /\ Crawl!Touches(b, d.key)
      BY <1>5
    <2>2. b \in 1..Target /\ b < cursor
      BY <1>1, <1>2, <1>3
    <2> QED BY <1>1, <2>1, <2>2 DEF Retired, StaleOnlyIf
  <1>6. CASE \A b \in 1..h : d.block < b => ~Crawl!Touches(b, d.key)
    <2>1. /\ EntityAt(d.key, d.block).live /\ EntityAt(d.key, d.block).match
          /\ Crawl!Touches(d.block, d.key)
      BY <1>2, DueFacts
    <2>2. EntityAt(d.key, h) = EntityAt(d.key, d.block) /\ EntityAt(d.key, h).block = d.block
      BY <1>1, <1>4, <1>6, <2>1, Untouched
    <2> QED BY <1>4, <2>1, <2>2 DEF StaleOnlyIf
  <1> QED BY <1>5, <1>6

\* What is still to come up to the target is still to come up to the head.
LEMMA ToComeGrows ==
  ASSUME ChainTypeOK, NEW k, TouchedUpTo(k, Target) PROVE TouchedUpTo(k, HeadBlock)
  BY TargetIs DEF TouchedUpTo, HeadBlock

(***************************************************************************)
(* No gaps: the cursor only passes a block when Quickwit has its documents *)
(* (control_loop.rs, the order of process_block and set_cursor).  Without  *)
(* failing hydrations, nothing that the chain below the cursor owes is     *)
(* ever missing.                                                           *)
(***************************************************************************)
THEOREM GapFree == ConfirmedCase /\ ~HydrationErrors => (Spec => []NoGaps)
  <1> SUFFICES ASSUME ConfirmedCase, ~HydrationErrors PROVE Spec => []NoGaps
    OBVIOUS
  <1>1. CrawlInv => NoGaps
    BY OwedIsThere DEF NoGaps, DeletedFrom
  <1>2. Spec => []CrawlInv
    BY CrawlCorrect
  <1> QED BY <1>1, <1>2, PTL

(***************************************************************************)
(* No stale document: supersede and tombstone queries are on record before *)
(* the cursor passes the block that made a document stale (control_loop.rs,*)
(* the order of enqueue_delete and set_cursor).                            *)
(***************************************************************************)
THEOREM StaleFree == ConfirmedCase /\ ~HydrationErrors => (Spec => []NoStale)
  <1> SUFFICES ASSUME ConfirmedCase, ~HydrationErrors PROVE Spec => []NoStale
    OBVIOUS
  <1>1. CrawlInv => NoStale
    BY IndexIsCurrent DEF NoStale, DeletedFrom
  <1>2. Spec => []CrawlInv
    BY CrawlCorrect
  <1> QED BY <1>1, <1>2, PTL

(***************************************************************************)
(* With hydrations that fail at will, what is_live_at_head lets the crawl  *)
(* skip is only what a delete not yet crawled will remove anyway.          *)
(***************************************************************************)
THEOREM GapFreeButDead == ConfirmedCase => (Spec => []NoGapsButDead)
  <1> SUFFICES ASSUME ConfirmedCase PROVE Spec => []NoGapsButDead
    OBVIOUS
  <1>1. CrawlInv => NoGapsButDead
    BY OwedIsThere, ToComeGrows, DeleteToCome DEF NoGapsButDead, CrawlInv, ControlInv, TypeOK
  <1>2. Spec => []CrawlInv
    BY CrawlCorrect
  <1> QED BY <1>1, <1>2, PTL

(***************************************************************************)
(* Nor does such a skip leave a stale document that no later delete of its *)
(* entity takes with it.                                                   *)
(***************************************************************************)
THEOREM StaleFreeButDead == ConfirmedCase => (Spec => []NoStaleButDead)
  <1> SUFFICES ASSUME ConfirmedCase PROVE Spec => []NoStaleButDead
    OBVIOUS
  <1>1. CrawlInv => NoStaleButDead
    BY IndexIsCurrent, ToComeGrows, DeleteToCome
       DEF NoStaleButDead, StaleOnlyIf, CrawlInv, ControlInv, TypeOK
  <1>2. Spec => []CrawlInv
    BY CrawlCorrect
  <1> QED BY <1>1, <1>2, PTL

-----------------------------------------------------------------------------
(* The control loop implements AtLeastOnce: each step of the bridge is a     *)
(* step of the abstract crawl, or changes nothing that it knows of.          *)

\* The rows of pending_deletes, as promises.
Promises == {pending_deletes[i] : i \in 1..Len(pending_deletes)}

-----------------------------------------------------------------------------
(* The two specifications talk of the same chain, queries and index.         *)

\* A delete query matches what it matches.
LEMMA SameMatches == \A q, d : Crawl!QueryMatches(q, d) <=> QueryMatches(q, d)
  BY DEF Crawl!QueryMatches, QueryMatches

\* The node is the same.
LEMMA SameChainNext == ChainNext => Crawl!ChainNext
  BY DEF ChainNext, Crawl!ChainNext, Mine, Crawl!Mine, Reorg, Crawl!Reorg,
         BlockOps, Crawl!BlockOps, WellFormed, Crawl!WellFormed, Positions, Crawl!Positions,
         OpAt, Crawl!OpAt, Before, Crawl!Before

\* A block up to the target that is not passed.
LEMMA UnpassedIs ==
  ASSUME ChainTypeOK
  PROVE  /\ \A b \in 1..Target : Crawl!Confirmed(b) /\ (b >= cursor => b \in Crawl!Unpassed)
         /\ Crawl!HeadBlock = HeadBlock
  <1>1. Crawl!HeadBlock = Len(chain) /\ HeadBlock = Len(chain)
    BY DEF Crawl!HeadBlock, HeadBlock
  <1>2. Len(chain) \in Nat /\ ConfirmationDepth \in Nat
    BY BridgeAssumption DEF ChainTypeOK
  <1>3. ASSUME NEW b \in 1..Target PROVE b \in 1..Len(chain) /\ b + ConfirmationDepth <= Len(chain)
    BY <1>1, <1>2 DEF Target, SatSub
  <1>4. \A b \in 1..Target : Crawl!Confirmed(b)
    BY <1>1, <1>3 DEF Crawl!Confirmed
  <1> QED BY <1>1, <1>3, <1>4 DEF Crawl!Unpassed

-----------------------------------------------------------------------------
(* The steps.                                                                *)

\* What the abstract crawl does not see.
LEMMA Unseen ==
  ASSUME UNCHANGED <<chainVars, cursor, index, pending_deletes>>
  PROVE  UNCHANGED Crawl!crawlVars
  BY DEF Crawl!crawlVars, Crawl!chainVars, chainVars

\* A delete on record is carried out.
LEMMA PostHonours ==
  ASSUME pending_deletes \in Seq(Query), pending_deletes # <<>>, DeleteTask(Head(pending_deletes)),
         UNCHANGED <<chainVars, cursor, pending_deletes>>
  PROVE  Crawl!Honour
  <1>1. Head(pending_deletes) \in Promises
    BY DEF Promises
  <1>2. Crawl!DeleteTask(Head(pending_deletes))
    BY SameMatches DEF DeleteTask, Crawl!DeleteTask
  <1>3. UNCHANGED <<Crawl!chainVars, cursor, Promises>>
    BY DEF Crawl!chainVars, chainVars, Promises
  <1> QED BY <1>1, <1>2, <1>3 DEF Crawl!Honour, Promises

\* Its row is marked: it has been kept, unless the same delete is on record again.
LEMMA MarkForgets ==
  ASSUME CrawlInv, MarkSubmitted PROVE Crawl!Forget \/ UNCHANGED Crawl!crawlVars
  <1>1. /\ pending_deletes \in Seq(Query) /\ pending_deletes # <<>>
        /\ pending_deletes' = Tail(pending_deletes)
        /\ UNCHANGED <<chainVars, cursor, index>>
        /\ \A d \in index : ~QueryMatches(Head(pending_deletes), d)
    BY DEF CrawlInv, ControlInv, TypeOK, StoreTypeOK, InRange, Volatile, MarkedIsDone,
           MarkSubmitted, mark_delete_submitted
  <1> DEFINE q == Head(pending_deletes)
  <1>2. /\ Len(pending_deletes') = Len(pending_deletes) - 1 /\ Len(pending_deletes) \in Nat
        /\ \A i \in 1..Len(pending_deletes') :
             i + 1 \in 1..Len(pending_deletes) /\ pending_deletes'[i] = pending_deletes[i + 1]
        /\ \A i \in 1..Len(pending_deletes) : i # 1 => i - 1 \in 1..Len(pending_deletes')
        /\ q = pending_deletes[1] /\ 1 \in 1..Len(pending_deletes)
    BY <1>1
  <1> HIDE DEF q
  <1>3. Promises' \subseteq Promises /\ q \in Promises
    BY <1>2 DEF Promises
  <1>4. Promises \subseteq Promises' \cup {q}
    <2> SUFFICES ASSUME NEW i \in 1..Len(pending_deletes)
                 PROVE  pending_deletes[i] \in Promises' \cup {q}
      BY DEF Promises
    <2>1. CASE i = 1
      BY <1>2, <2>1
    <2>2. CASE i # 1
      <3>1. i - 1 \in 1..Len(pending_deletes')
        BY <1>2, <2>2
      <3>2. pending_deletes'[i - 1] = pending_deletes[i]
        <4>1. pending_deletes'[i - 1] = pending_deletes[(i - 1) + 1]
          BY <1>2, <3>1
        <4>2. (i - 1) + 1 = i
          OBVIOUS
        <4> QED BY <4>1, <4>2
      <3> QED BY <3>1, <3>2 DEF Promises
    <2> QED BY <2>1, <2>2
  <1>5. CASE q \in Promises'
    <2>1. Promises' = Promises
      BY <1>3, <1>4, <1>5
    <2> QED BY <1>1, <2>1 DEF Crawl!crawlVars, Crawl!chainVars, chainVars, Promises
  <1>6. CASE q \notin Promises'
    <2>1. Promises' = Promises \ {q}
      BY <1>3, <1>4, <1>6
    <2>2. \A d \in index : ~Crawl!QueryMatches(q, d)
      BY <1>1, SameMatches DEF q
    <2>3. UNCHANGED <<Crawl!chainVars, index, cursor>>
      BY <1>1 DEF Crawl!chainVars, chainVars
    <2> QED BY <1>3, <2>1, <2>2, <2>3 DEF Crawl!Forget, Promises
  <1> QED BY <1>5, <1>6

\* Documents of the block at work are ingested.
LEMMA IngestEmits ==
  ASSUME CrawlInv, InBlock, NEW n \in BatchSizes, Ingest(Batch(n)),
         UNCHANGED <<chainVars, cursor, pending_deletes>>
  PROVE  Crawl!Emit
  <1>1. IsNext(entry.block) /\ cursor \in Nat
    BY AtWork
  <1>2. entry.block \in Crawl!Unpassed
    BY <1>1, UnpassedIs DEF IsNext, CrawlInv, ControlInv, TypeOK
  <1>3. Batch(n) \in SUBSET UNION {Crawl!Due(b) : b \in Crawl!Unpassed}
    BY <1>2, BatchIsDue
  <1>4. Crawl!Ingest(Batch(n))
    BY DEF Ingest, Crawl!Ingest
  <1>5. UNCHANGED <<Crawl!chainVars, cursor, Promises>>
    BY DEF Crawl!chainVars, chainVars, Promises
  <1> QED BY <1>1, <1>3, <1>4, <1>5 DEF Crawl!Emit, Promises

\* A delete of the block at work is put on record: it spares what is current.
LEMMA EnqueuePromises == ASSUME CrawlInv, EnqueueDelete PROVE Crawl!Promise
  <1>1. /\ InBlock /\ delete_queries # <<>>
        /\ pending_deletes' = Append(pending_deletes, Head(delete_queries))
        /\ UNCHANGED <<chainVars, cursor, index>>
    BY DEF EnqueueDelete, enqueue_delete, InBlock
  <1>2. /\ delete_queries \in Seq(Query) /\ pending_deletes \in Seq(Query)
        /\ Head(delete_queries) = delete_queries[1] /\ 1 \in 1..Len(delete_queries)
        /\ ChainTypeOK
    BY <1>1 DEF CrawlInv, ControlInv, TypeOK, CrawlTypeOK, StoreTypeOK
  <1> DEFINE q == Head(delete_queries)
  <1>3. Promises' = Promises \cup {q}
    <2>1. /\ Len(pending_deletes') = Len(pending_deletes) + 1 /\ Len(pending_deletes) \in Nat
          /\ pending_deletes'[Len(pending_deletes) + 1] = q
          /\ \A i \in 1..Len(pending_deletes) : pending_deletes'[i] = pending_deletes[i]
      BY <1>1, <1>2
    <2>2. 1..Len(pending_deletes') = (1..Len(pending_deletes)) \cup {Len(pending_deletes) + 1}
      BY <2>1
    <2> HIDE DEF q
    <2> QED BY <2>1, <2>2 DEF Promises
  <1>4. QueryOf(q, entry.block)
    BY <1>1, <1>2 DEF CrawlInv, Volatile, BlockSpare
  <1>5. /\ IsNext(entry.block) /\ entry.block \in Nat /\ cursor \in Nat
    BY <1>1, AtWork
  <1>6. entry.block \in Crawl!Unpassed
    BY <1>2, <1>5, UnpassedIs DEF IsNext
  <1>7. ASSUME NEW d \in index, QueryMatches(q, d) PROVE Crawl!Outdated(d)
    <2>1. Crawl!Touches(entry.block, d.key)
      BY <1>4, <1>7 DEF QueryOf, QueryMatches
    <2>2. /\ d.block \in Nat /\ d \in Crawl!Due(d.block)
          /\ \A c \in 1..Target : cursor <= c /\ c < d.block => chain[c].ops = <<>>
      BY IndexFacts DEF CrawlInv, Durable, IndexIsDue
    <2>3. ~(entry.block < d.block)
      BY <1>5, <2>2 DEF IsNext
    <2>4. d.block # entry.block
      BY <1>4, <1>7, <2>2 DEF QueryOf
    <2>5. d.block < entry.block
      BY <1>5, <2>2, <2>3, <2>4
    <2> QED BY <1>6, <2>1, <2>5 DEF Crawl!Outdated
  <1> HIDE DEF q
  <1>8. \A p \in Promises' \ Promises, d \in index : Crawl!QueryMatches(p, d) => Crawl!Outdated(d)
    BY <1>3, <1>7, SameMatches
  <1>9. UNCHANGED <<Crawl!chainVars, index, cursor>>
    BY <1>1 DEF Crawl!chainVars, chainVars
  <1>10. cursor >= 0 /\ Promises \subseteq Promises'
    BY <1>3, <1>5
  <1> QED BY <1>8, <1>9, <1>10, Zenon DEF Crawl!Promise, Promises

\* The cursor passes blocks that are done.
LEMMA AdvancePasses ==
  ASSUME CrawlInv, ~HydrationErrors, cursor \in Nat, cursor' \in Nat,
         cursor <= cursor', cursor' <= Target + 1,
         UNCHANGED <<chainVars, index, pending_deletes>>,
         \A b \in 1..Target : cursor <= b /\ b < cursor' =>
           /\ \A d \in Crawl!Due(b) : d \in index \/ DeletedFrom(d.key, cursor')
           /\ \A d \in index : d.block < b /\ Crawl!Touches(b, d.key) => DeletedFrom(d.key, cursor')
  PROVE  Crawl!Pass \/ UNCHANGED Crawl!crawlVars
  <1>1. CASE cursor' = cursor
    BY <1>1, Unseen
  <1>2. CASE cursor' # cursor
    <2>1. Target \in Nat /\ ChainTypeOK
      BY TargetIs DEF CrawlInv, ControlInv, TypeOK
    <2>2. ASSUME NEW b \in cursor..(cursor' - 1), b > 0 PROVE Crawl!Done(b)
      <3>1. b \in 1..Target /\ cursor <= b /\ b < cursor'
        <4>1. ASSUME NEW c \in Nat, NEW e \in Nat, NEW t \in Nat, NEW a \in c..(e - 1),
                     a > 0, e <= t + 1
              PROVE  a \in 1..t /\ c <= a /\ a < e
          BY <4>1
        <4> QED BY <2>1, <2>2, <4>1
      <3>2. Crawl!Confirmed(b)
        BY <2>1, <3>1, UnpassedIs
      <3>3. \A k : ~DeletedFrom(k, cursor')
        BY DEF DeletedFrom
      <3>4. \A d \in Crawl!Due(b) : d \in index
        BY <3>1, <3>3
      <3>5. \A d \in index : ~(d.block < b /\ Crawl!Touches(b, d.key))
        BY <3>1, <3>3
      <3> QED BY <3>2, <3>4, <3>5 DEF Crawl!Done
    <2>3. UNCHANGED <<Crawl!chainVars, index, Promises>>
      BY DEF Crawl!chainVars, chainVars, Promises
    <2>4. cursor >= 0 /\ cursor' > cursor
      BY <1>2
    <2> QED BY <2>2, <2>3, <2>4 DEF Crawl!Pass, Promises
  <1> QED BY <1>1, <1>2


\* The drain honours, and forgets what it has honoured.
LEMMA DrainImplements ==
  ASSUME CrawlInv, Drain \/ DrainFails PROVE Crawl!Next \/ UNCHANGED Crawl!crawlVars
  <1>1. pending_deletes \in Seq(Query)
    BY DEF CrawlInv, ControlInv, TypeOK, StoreTypeOK
  <1>2. CASE DrainDone
    BY <1>2, Unseen DEF DrainDone, storeVars
  <1>3. CASE DrainPost
    <2>1. Crawl!Honour
      BY <1>1, <1>3, PostHonours DEF DrainPost, storeVars
    <2> QED BY <2>1 DEF Crawl!Next
  <1>4. CASE MarkSubmitted
    BY <1>4, MarkForgets DEF Crawl!Next
  <1>5. CASE DrainFails
    <2>1. /\ pending_deletes # <<>> /\ UNCHANGED <<chainVars, cursor, pending_deletes>>
          /\ DeleteTask(Head(pending_deletes)) \/ UNCHANGED index
      BY <1>5 DEF DrainFails, storeVars
    <2>2. CASE DeleteTask(Head(pending_deletes))
      BY <1>1, <2>1, <2>2, PostHonours DEF Crawl!Next
    <2>3. CASE UNCHANGED index
      BY <2>1, <2>3, Unseen
    <2> QED BY <2>1, <2>2, <2>3
  <1> QED BY <1>2, <1>3, <1>4, <1>5 DEF Drain

\* The crawl begins when the cursor is first set.
LEMMA ReadImplements ==
  ASSUME CrawlInv, Idle \/ BeginIteration PROVE Crawl!Next \/ UNCHANGED Crawl!crawlVars
  <1>1. ReadHead /\ UNCHANGED <<chainVars, index, pending_deletes>>
    BY DEF Idle, BeginIteration
  <1>2. CASE cursor = NoCursor
    <2>1. cursor' \in Nat
      BY <1>1, <1>2, AnswerTypes DEF ReadHead, set_cursor, CrawlInv, ControlInv, TypeOK
    <2>2. UNCHANGED <<Crawl!chainVars, index, Promises>>
      BY <1>1 DEF Crawl!chainVars, chainVars, Promises
    <2>3. cursor = -1
      BY <1>2 DEF NoCursor
    <2>4. Crawl!Begin
      BY <2>1, <2>2, <2>3 DEF Crawl!Begin, Promises
    <2> QED BY <2>4 DEF Crawl!Next
  <1>3. CASE cursor # NoCursor
    BY <1>1, <1>3, Unseen DEF ReadHead
  <1> QED BY <1>2, <1>3

\* Of the block at work it sees the documents, the deletes and the commit.
LEMMA ProcessImplements ==
  ASSUME CrawlInv, ~HydrationErrors, ProcessBlock
  PROVE  Crawl!Next \/ UNCHANGED Crawl!crawlVars
  <1>1. CASE NextBlock \/ DeleteLog \/ EmitDoc \/ SkipLog \/ AllHydrated \/ AllIngested \/ AllEnqueued
    <2>1. UNCHANGED <<chainVars, cursor, index, pending_deletes>>
      BY <1>1 DEF NextBlock, DeleteLog, EmitDoc, SkipLog, AllHydrated, AllIngested, AllEnqueued,
                  storeVars
    <2> QED BY <2>1, Unseen
  <1>2. CASE IngestBatch
    <2>1. PICK n \in BatchSizes : Ingest(Batch(n))
      BY <1>2 DEF IngestBatch
    <2>2. InBlock /\ UNCHANGED <<chainVars, cursor, pending_deletes>>
      BY <1>2 DEF IngestBatch, InBlock, storeVars
    <2> QED BY <2>1, <2>2, IngestEmits DEF Crawl!Next
  <1>3. CASE EnqueueDelete
    BY <1>3, EnqueuePromises DEF Crawl!Next
  <1>4. CASE CommitBlock
    <2>1. /\ pc = "commit" /\ cursor' = entry.block + 1
          /\ UNCHANGED <<chainVars, index, pending_deletes>>
      BY <1>4 DEF CommitBlock, set_cursor
    <2>2. InBlock /\ IsNext(entry.block) /\ entry.block \in Nat /\ cursor \in Nat
      BY <2>1, AtWork DEF InBlock
    <2>3. Target \in Nat
      BY TargetIs DEF CrawlInv, ControlInv, TypeOK
    <2>4. cursor' \in Nat /\ cursor <= cursor' /\ cursor' <= Target + 1
      BY <2>1, <2>2, <2>3 DEF IsNext
    <2>5. Crawl!Pass \/ UNCHANGED Crawl!crawlVars
      BY <2>1, <2>2, <2>4, DoneAtCommit, AdvancePasses
    <2> QED BY <2>5 DEF Crawl!Next
  <1> QED BY <1>1, <1>2, <1>3, <1>4 DEF ProcessBlock

\* The empty blocks at the end of the range are passed with it.
LEMMA FinishImplements ==
  ASSUME CrawlInv, ~HydrationErrors, Finish
  PROVE  Crawl!Next \/ UNCHANGED Crawl!crawlVars
  <1>1. CASE FinishRange
    <2>1. /\ pc = "block" /\ logs = {} /\ cursor' = end_block + 1
          /\ UNCHANGED <<chainVars, index, pending_deletes>>
      BY <1>1 DEF FinishRange, set_cursor
    <2>2. /\ cursor \in Nat /\ end_block \in Nat /\ end_block <= Target /\ cursor <= end_block + 1
          /\ Target \in Nat
      BY <2>1, RangeFacts DEF WithLogs
    <2>3. cursor' \in Nat /\ cursor <= cursor' /\ cursor' <= Target + 1
      BY <2>1, <2>2
    <2>4. \A b \in 1..Target : cursor <= b /\ b < cursor' =>
            Crawl!Due(b) = {} /\ \A k : ~Crawl!Touches(b, k)
      BY <2>1, DoneAtEnd
    <2>5. \A b \in 1..Target : cursor <= b /\ b < cursor' =>
            /\ \A d \in Crawl!Due(b) : d \in index \/ DeletedFrom(d.key, cursor')
            /\ \A d \in index : d.block < b /\ Crawl!Touches(b, d.key) => DeletedFrom(d.key, cursor')
      BY <2>4
    <2>6. Crawl!Pass \/ UNCHANGED Crawl!crawlVars
      BY <2>1, <2>2, <2>3, <2>5, AdvancePasses
    <2> QED BY <2>6 DEF Crawl!Next
  <1>2. CASE PruneBuffer \/ PruneEmitted
    BY <1>2, Unseen DEF PruneBuffer, PruneEmitted
  <1> QED BY <1>1, <1>2 DEF Finish

\* Of a failure it sees at most the documents that were accepted.
LEMMA FailureImplements ==
  ASSUME CrawlInv, Hydration \/ Failure \/ Restart
  PROVE  Crawl!Next \/ UNCHANGED Crawl!crawlVars
  <1>1. CASE Hydration \/ RpcError \/ Crash \/ Restart
    <2>1. UNCHANGED <<chainVars, cursor, index, pending_deletes>>
      BY <1>1 DEF Hydration, HydrationFails, ProbeLive, ProbeDead, RpcError, Crash, Restart, storeVars
    <2> QED BY <2>1, Unseen
  <1>2. CASE IngestFails
    <2>1. PICK n \in BatchSizes : Ingest(Batch(n)) \/ UNCHANGED index
      BY <1>2 DEF IngestFails
    <2>2. InBlock /\ UNCHANGED <<chainVars, cursor, pending_deletes>>
      BY <1>2 DEF IngestFails, InBlock, storeVars
    <2>3. CASE Ingest(Batch(n))
      BY <2>2, <2>3, IngestEmits DEF Crawl!Next
    <2>4. CASE UNCHANGED index
      BY <2>2, <2>4, Unseen
    <2> QED BY <2>1, <2>3, <2>4
  <1> QED BY <1>1, <1>2, DrainImplements DEF Failure

\* The chain moves as it may; the rest is out of sight.
LEMMA ChainImplements ==
  ASSUME CrawlInv, Environment PROVE Crawl!Next
  <1>1. Crawl!ChainNext /\ UNCHANGED <<index, cursor, Promises>>
    BY SameChainNext DEF Environment, storeVars, Promises
  <1> QED BY <1>1 DEF Crawl!Next, Crawl!Environment, Promises

\* Every step of the bridge is a step of the crawl, or none.
LEMMA StepImplements ==
  ~HydrationErrors /\ CrawlInv /\ [Next]_vars => [Crawl!Next]_Crawl!crawlVars
  <1> SUFFICES ASSUME ~HydrationErrors, CrawlInv, [Next]_vars
               PROVE  Crawl!Next \/ UNCHANGED Crawl!crawlVars
    OBVIOUS
  <1>1. CASE Work
    <2>1. CASE CheckBuffer \/ Observe
      <3>1. UNCHANGED <<chainVars, cursor, index, pending_deletes>>
        BY <2>1 DEF CheckBuffer, CheckMatch, CheckMismatch, Probe, ForkFound, Observe, FetchLogs,
                    ObserveLog, ObserveMismatch, ObserveEnd, storeVars
      <3> QED BY <3>1, Unseen
    <2> QED BY <1>1, <2>1, DrainImplements, ReadImplements, ProcessImplements, FinishImplements,
               RetractCrawl DEF Work
  <1>2. CASE Hydration \/ Failure \/ Restart
    BY <1>2, FailureImplements
  <1>3. CASE Environment
    BY <1>3, ChainImplements
  <1>4. CASE UNCHANGED vars
    BY <1>4, Unseen DEF vars, storeVars
  <1> QED BY <1>1, <1>2, <1>3, <1>4 DEF Next

\* It begins where the crawl begins.
LEMMA InitImplements == Init => Crawl!Init
  <1> SUFFICES ASSUME Init PROVE Crawl!Init
    OBVIOUS
  <1>1. chain = <<>> /\ epoch = 0 /\ index = {} /\ cursor = -1 /\ pending_deletes = <<>>
    BY DEF Init, ChainInit, StoreInit, QuickwitInit, NoCursor
  <1>2. Promises = {}
    BY <1>1 DEF Promises
  <1> QED BY <1>1, <1>2 DEF Crawl!Init, Crawl!ChainInit, Crawl!QuickwitInit, Promises

(***************************************************************************)
(* The control loop, with its retries, failures, crashes and restarts,     *)
(* implements the crawl that the README promises ("Exactly-once            *)
(* semantics"): documents are emitted at least once before their block is  *)
(* passed, a delete on record spares what is current, and it is dropped    *)
(* only when it has been carried out.                                      *)
(***************************************************************************)
THEOREM CrawlImplemented ==
  ConfirmedCase /\ ~HydrationErrors => (Spec => CrawlIsAtLeastOnce)
  <1> SUFFICES ASSUME ConfirmedCase, ~HydrationErrors PROVE Spec => CrawlIsAtLeastOnce
    OBVIOUS
  <1>1. CrawlInv /\ [Next]_vars => [Crawl!Next]_Crawl!crawlVars
    BY StepImplements
  <1>2. Spec => []CrawlInv
    BY CrawlCorrect
  <1> QED BY <1>1, <1>2, InitImplements, PTL DEF Spec, CrawlIsAtLeastOnce, Crawl!Spec
=============================================================================
