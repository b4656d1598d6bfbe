----------------------------- MODULE ChainProofs -----------------------------
(***************************************************************************)
(* Facts about the chain that every proof about the bridge rests on: what  *)
(* the node says of an entity (EntityAt chooses the last operation on it), *)
(* and what a step of the chain leaves alone.                              *)
(***************************************************************************)
EXTENDS ArkivChain, SequenceTheorems, WellFoundedInduction, TLAPS

\* The operation at log i of block b.
OpOf(b, i) == chain[b].ops[i]

\* Log i of block b is the last one about k up to block h.
IsLast(k, h, b, i) ==
  /\ b \in 1..h /\ i \in DOMAIN chain[b].ops /\ OpOf(b, i).key = k
  /\ \A c \in 1..h : \A j \in DOMAIN chain[c].ops :
       OpOf(c, j).key = k => c < b \/ (c = b /\ j <= i)

-----------------------------------------------------------------------------
(* The last operation on an entity.                                          *)

\* A bounded set of numbers has a greatest one.
LEMMA Greatest ==
  ASSUME NEW n \in Nat, NEW S \in SUBSET (1..n), S # {}
  PROVE  \E m \in S : \A x \in S : x <= m
  <1> DEFINE T == {n - x : x \in S}
  <1>1. T \subseteq Nat /\ T # {}
    <2>1. \A x \in S : n - x \in Nat
      OBVIOUS
    <2>2. PICK x \in S : TRUE
      OBVIOUS
    <2>3. n - x \in T
      OBVIOUS
    <2> QED BY <2>1, <2>3
  <1>2. PICK t \in T : \A u \in T : ~ (<<u, t>> \in OpToRel(<, Nat))
    BY <1>1, NatLessThanWellFounded, WFMin
  <1>3. \A u \in T : ~ (u < t)
    BY <1>1, <1>2 DEF OpToRel
  <1>4. PICK m \in S : t = n - m
    OBVIOUS
  <1>5. ASSUME NEW x \in S PROVE x <= m
    <2>1. n - x \in T
      OBVIOUS
    <2>2. ~ (n - x < n - m)
      BY <1>3, <1>4, <2>1
    <2> QED BY <2>2
  <1> QED BY <1>5

\* The last of some positions is one of them, whatever the chain says of them.
LEMMA LastIsOne ==
  ASSUME NEW h \in Nat, NEW P \in SUBSET ((1..h) \X (1..MaxOpsPerBlock)), P # {}
  PROVE  (CHOOSE p \in P : \A q \in P : q = p \/ Before(q, p)) \in P
  <1>0. MaxOpsPerBlock \in Nat
    BY ChainAssumption
  <1>1. \A p \in P : p = <<p[1], p[2]>> /\ p[1] \in 1..h /\ p[2] \in 1..MaxOpsPerBlock
    OBVIOUS
  <1> DEFINE B == {p[1] : p \in P}
  <1>2. PICK b \in B : \A x \in B : x <= b
    <2>1. B \in SUBSET (1..h) /\ B # {}
      BY <1>1
    <2> HIDE DEF B
    <2> QED BY <2>1, Greatest
  <1> DEFINE I == {p[2] : p \in {q \in P : q[1] = b}}
  <1>3. PICK i \in I : \A x \in I : x <= i
    <2>1. I \in SUBSET (1..MaxOpsPerBlock) /\ I # {}
      BY <1>1, <1>2
    <2> HIDE DEF I
    <2> QED BY <1>0, <2>1, Greatest
  <1>4. PICK p \in P : p[1] = b /\ p[2] = i
    BY <1>3
  <1>5. ASSUME NEW q \in P PROVE q = p \/ Before(q, p)
    <2>1. q[1] <= b /\ (q[1] = b => q[2] <= i)
      BY <1>2, <1>3
    <2>2. /\ q = <<q[1], q[2]>> /\ p = <<p[1], p[2]>>
          /\ q[1] \in Nat /\ q[2] \in Nat /\ b \in Nat /\ i \in Nat
      BY <1>1, <1>4
    <2> QED BY <1>4, <2>1, <2>2 DEF Before
  <1> HIDE DEF B, I
  <1> QED BY <1>5

\* The blocks of the chain are blocks.
LEMMA BlockTypes ==
  ASSUME ChainTypeOK, NEW b \in 1..Len(chain)
  PROVE  /\ chain[b] \in Block /\ chain[b].ops \in Seq(Op) /\ chain[b].hash \in Nat
         /\ DOMAIN chain[b].ops = 1..Len(chain[b].ops) /\ Len(chain[b].ops) \in Nat
         /\ \A i \in DOMAIN chain[b].ops : OpOf(b, i) \in Op
  <1>1. chain[b] \in Block
    BY ElementOfSeq DEF ChainTypeOK
  <1>2. chain[b].ops \in Seq(Op) /\ chain[b].hash \in Nat
    BY <1>1 DEF Block
  <1>3. DOMAIN chain[b].ops = 1..Len(chain[b].ops) /\ Len(chain[b].ops) \in Nat
    BY <1>2
  <1>4. \A i \in DOMAIN chain[b].ops : OpOf(b, i) \in Op
    BY <1>2, <1>3, ElementOfSeq DEF OpOf
  <1> QED BY <1>1, <1>2, <1>3, <1>4

\* Positions, without pairs.
LEMMA PositionsOf ==
  ASSUME ChainTypeOK, ChainOK, NEW k, NEW h \in 0..Len(chain)
  PROVE  \A b, i : <<b, i>> \in Positions(chain, k, h) <=>
                     b \in 1..h /\ i \in DOMAIN chain[b].ops /\ OpOf(b, i).key = k
  <1>1. MaxOpsPerBlock \in Nat /\ Len(chain) \in Nat
    BY ChainAssumption DEF ChainTypeOK
  <1>2. \A b \in 1..h : DOMAIN chain[b].ops \subseteq 1..MaxOpsPerBlock
    BY <1>1, BlockTypes DEF ChainOK, HeadBlock
  <1> QED BY <1>2 DEF Positions, OpOf

\* EntityAt chooses the last operation ...
LEMMA LastChosen ==
  ASSUME ChainTypeOK, ChainOK, NEW k, NEW h \in 0..Len(chain), NEW b, NEW i, IsLast(k, h, b, i)
  PROVE  LET P == Positions(chain, k, h) IN
         <<b, i>> \in P /\ (CHOOSE p \in P : \A q \in P : q = p \/ Before(q, p)) = <<b, i>>
  <1> DEFINE P == Positions(chain, k, h)
             last == CHOOSE p \in P : \A q \in P : q = p \/ Before(q, p)
  <1>1. <<b, i>> \in P
    BY PositionsOf DEF IsLast
  <1>2. ASSUME NEW q \in P PROVE q = <<b, i>> \/ Before(q, <<b, i>>)
    <2>1. q = <<q[1], q[2]>> /\ q[1] \in Nat /\ q[2] \in Nat
      BY DEF Positions
    <2>2. q[1] \in 1..h /\ q[2] \in DOMAIN chain[q[1]].ops /\ OpOf(q[1], q[2]).key = k
      BY <2>1, PositionsOf
    <2>3. q[1] < b \/ (q[1] = b /\ q[2] <= i)
      BY <2>2 DEF IsLast
    <2>4. i \in Nat
      BY <1>1 DEF Positions
    <2> QED BY <2>1, <2>3, <2>4 DEF Before
  <1>3. last \in P /\ \A q \in P : q = last \/ Before(q, last)
    BY <1>1, <1>2
  <1>4. \A q \in P : q = <<q[1], q[2]>> /\ q[1] \in Nat /\ q[2] \in Nat
    BY DEF Positions
  <1> HIDE DEF P, last
  <1>5. last[1] \in Nat /\ last[2] \in Nat /\ b \in Nat /\ i \in Nat
    BY <1>1, <1>3, <1>4
  <1>6. last = <<b, i>> \/ (Before(last, <<b, i>>) /\ Before(<<b, i>>, last))
    BY <1>1, <1>2, <1>3
  <1>7. last = <<b, i>>
    BY <1>5, <1>6 DEF Before
  <1> QED BY <1>1, <1>7 DEF P, last

\* ... and says of the entity what that operation says.
LEMMA EntityIs ==
  ASSUME ChainTypeOK, ChainOK, NEW k, NEW h \in 0..Len(chain), NEW b, NEW i, IsLast(k, h, b, i)
  PROVE  /\ EntityAt(k, h) = [live  |-> OpOf(b, i).op # "delete",
                              match |-> OpOf(b, i).match,
                              block |-> b]
         /\ EntityAt(k, h).live <=> OpOf(b, i).op # "delete"
         /\ EntityAt(k, h).match = OpOf(b, i).match
         /\ EntityAt(k, h).block = b
  <1> DEFINE P == Positions(chain, k, h)
             last == CHOOSE p \in P : \A q \in P : q = p \/ Before(q, p)
             alive == OpOf(b, i).op # "delete"
  <1>1. <<b, i>> \in P /\ last = <<b, i>>
    BY LastChosen
  <1>2. EntityAt(k, h) = [live  |-> OpAt(chain, last).op # "delete",
                          match |-> OpAt(chain, last).match,
                          block |-> last[1]]
    BY <1>1 DEF EntityAt
  <1> HIDE DEF P, last
  <1>3. OpAt(chain, last) = OpOf(b, i) /\ last[1] = b
    BY <1>1 DEF OpAt, OpOf
  <1>4. EntityAt(k, h) = [live |-> alive, match |-> OpOf(b, i).match, block |-> b]
    BY <1>2, <1>3
  <1> HIDE DEF alive
  <1>5. /\ EntityAt(k, h).live <=> alive
        /\ EntityAt(k, h).match = OpOf(b, i).match /\ EntityAt(k, h).block = b
    BY <1>4
  <1> QED BY <1>4, <1>5 DEF alive

\* An entity that some block touches has a last operation.
LEMMA LastExists ==
  ASSUME ChainTypeOK, ChainOK, NEW k, NEW h \in 0..Len(chain),
         NEW c \in 1..h, NEW j \in DOMAIN chain[c].ops, OpOf(c, j).key = k
  PROVE  \E b \in 1..h : \E i \in DOMAIN chain[b].ops :
           IsLast(k, h, b, i) /\ (c < b \/ (c = b /\ j <= i))
  <1> DEFINE B == {b \in 1..h : \E i \in DOMAIN chain[b].ops : OpOf(b, i).key = k}
  <1>1. h \in Nat /\ h <= Len(chain)
    BY DEF ChainTypeOK
  <1>2. PICK b \in B : \A x \in B : x <= b
    <2>1. c \in B /\ B \in SUBSET (1..h)
      OBVIOUS
    <2>2. B # {}
      BY <2>1
    <2> HIDE DEF B
    <2> QED BY <1>1, <2>1, <2>2, Greatest
  <1> DEFINE I == {i \in DOMAIN chain[b].ops : OpOf(b, i).key = k}
  <1>3. PICK i \in I : \A x \in I : x <= i
    <2>1. b \in 1..Len(chain) /\ I # {}
      BY <1>1, <1>2
    <2>2. I \in SUBSET (1..Len(chain[b].ops)) /\ Len(chain[b].ops) \in Nat
      BY <2>1, BlockTypes
    <2> HIDE DEF I
    <2> QED BY <2>1, <2>2, Greatest
  <1>4. ASSUME NEW x \in 1..h, NEW y \in DOMAIN chain[x].ops, OpOf(x, y).key = k
        PROVE  x < b \/ (x = b /\ y <= i)
    <2>1. x \in B /\ x \in Nat /\ b \in Nat
      BY <1>4
    <2>2. x <= b
      BY <1>2, <2>1
    <2>3. CASE x = b
      BY <1>3, <1>4, <2>3
    <2> QED BY <2>1, <2>2, <2>3
  <1>5. IsLast(k, h, b, i)
    BY <1>4 DEF IsLast
  <1> QED BY <1>4, <1>5

\* Of an entity that no block touches the node knows nothing.
LEMMA NoOperations ==
  ASSUME ChainTypeOK, ChainOK, NEW k, NEW h \in 0..Len(chain),
         \A b \in 1..h : \A i \in DOMAIN chain[b].ops : OpOf(b, i).key # k
  PROVE  EntityAt(k, h) = [live |-> FALSE, match |-> FALSE, block |-> 0]
  <1>1. Positions(chain, k, h) = {}
    <2> SUFFICES ASSUME NEW p \in Positions(chain, k, h) PROVE FALSE
      OBVIOUS
    <2>1. p = <<p[1], p[2]>>
      BY DEF Positions
    <2> QED BY <2>1, PositionsOf
  <1> QED BY <1>1 DEF EntityAt

\* An entity is created once, and nothing follows its delete.
LEMMA OrderOfOps ==
  ASSUME ChainTypeOK, ChainOK,
         NEW b \in 1..Len(chain), NEW i \in DOMAIN chain[b].ops,
         NEW c \in 1..Len(chain), NEW j \in DOMAIN chain[c].ops,
         OpOf(b, i).key = OpOf(c, j).key, b < c \/ (b = c /\ i < j)
  PROVE  OpOf(b, i).op # "delete" /\ OpOf(c, j).op # "create"
  <1> DEFINE k == OpOf(b, i).key
             P == Positions(chain, k, Len(chain))
             earlier == {q \in P : Before(q, <<c, j>>)}
  <1>1. Len(chain) \in 0..Len(chain) /\ k \in Key
    BY BlockTypes DEF ChainTypeOK, Op
  <1>2. <<b, i>> \in P /\ <<c, j>> \in P
    BY <1>1, PositionsOf
  <1>3. <<b, i>> \in earlier
    BY <1>2 DEF Before
  <1>4. /\ OpAt(chain, <<c, j>>).op = "create" <=> earlier = {}
        /\ \A q \in earlier : OpAt(chain, q).op # "delete"
    BY <1>1, <1>2 DEF ChainOK, WellFormed
  <1> QED BY <1>3, <1>4 DEF OpAt, OpOf

\* So a delete is the last word about its entity ...
LEMMA DeleteIsLast ==
  ASSUME ChainTypeOK, ChainOK, NEW h \in 0..Len(chain), NEW b \in 1..h,
         NEW i \in DOMAIN chain[b].ops, OpOf(b, i).op = "delete"
  PROVE  ~EntityAt(OpOf(b, i).key, h).live
  <1>1. h <= Len(chain) /\ Len(chain) \in Nat /\ b \in 1..Len(chain)
    BY DEF ChainTypeOK
  <1>2. ASSUME NEW c \in 1..h, NEW j \in DOMAIN chain[c].ops, OpOf(c, j).key = OpOf(b, i).key
        PROVE  c < b \/ (c = b /\ j <= i)
    <2>1. c \in 1..Len(chain) /\ i \in Nat /\ j \in Nat
      BY <1>1, BlockTypes
    <2>2. ~(b < c \/ (b = c /\ i < j))
      BY <1>1, <1>2, <2>1, OrderOfOps
    <2> QED BY <2>1, <2>2
  <1>3. IsLast(OpOf(b, i).key, h, b, i)
    BY <1>2 DEF IsLast
  <1> QED BY <1>3, EntityIs

\* ... and an entity that was touched and is dead was deleted, later.
LEMMA DeadWasDeleted ==
  ASSUME ChainTypeOK, ChainOK, NEW h \in 0..Len(chain), NEW b \in 1..h,
         NEW i \in DOMAIN chain[b].ops, OpOf(b, i).op # "delete", ~EntityAt(OpOf(b, i).key, h).live
  PROVE  \E c \in 1..h : \E j \in DOMAIN chain[c].ops :
           /\ OpOf(c, j).key = OpOf(b, i).key /\ OpOf(c, j).op = "delete"
           /\ b < c \/ (b = c /\ i < j)
  <1>1. PICK c \in 1..h : \E j \in DOMAIN chain[c].ops :
          IsLast(OpOf(b, i).key, h, c, j) /\ (b < c \/ (b = c /\ i <= j))
    BY LastExists
  <1>2. PICK j \in DOMAIN chain[c].ops :
          IsLast(OpOf(b, i).key, h, c, j) /\ (b < c \/ (b = c /\ i <= j))
    BY <1>1
  <1>3. OpOf(c, j).op = "delete"
    BY <1>2, EntityIs
  <1>4. ~(b = c /\ i = j)
    BY <1>3
  <1>5. i \in Nat /\ j \in Nat
    <2>1. b \in 1..Len(chain) /\ c \in 1..Len(chain)
      BY DEF ChainTypeOK
    <2> QED BY <2>1, BlockTypes
  <1>6. OpOf(c, j).key = OpOf(b, i).key
    BY <1>2 DEF IsLast
  <1> QED BY <1>2, <1>3, <1>4, <1>5, <1>6

-----------------------------------------------------------------------------
(* What a step of the chain leaves alone.                                    *)

\* What the node says of a block depends on the blocks up to it.
LEMMA EntityStays ==
  ASSUME ChainTypeOK, ChainOK, NEW k, NEW b \in 0..Len(chain), \A c \in 1..b : chain'[c] = chain[c]
  PROVE  (EntityAt(k, b))' = EntityAt(k, b)
  <1> DEFINE P == Positions(chain, k, b)
             last == CHOOSE p \in P : \A q \in P : q = p \/ Before(q, p)
  <1>1. \A p \in (1..b) \X (1..MaxOpsPerBlock) : chain'[p[1]] = chain[p[1]]
    OBVIOUS
  <1>2. Positions(chain', k, b) = P
    BY <1>1 DEF Positions
  <1>3. CASE P = {}
    BY <1>2, <1>3 DEF EntityAt
  <1>4. CASE P # {}
    <2>0. PICK z \in P : z = <<z[1], z[2]>>
      BY <1>4 DEF Positions
    <2>1. PICK c, j : <<c, j>> \in P
      BY <2>0
    <2>2. c \in 1..b /\ j \in DOMAIN chain[c].ops /\ OpOf(c, j).key = k
      BY <2>1, PositionsOf
    <2>3. \E x \in 1..b : \E y \in DOMAIN chain[x].ops : IsLast(k, b, x, y)
      BY <2>2, LastExists
    <2>4. last \in P
      BY <2>3, LastChosen
    <2>5. OpAt(chain', last) = OpAt(chain, last)
      <3>1. \A p \in P : chain'[p[1]] = chain[p[1]]
        BY <1>1 DEF Positions
      <3> HIDE DEF P, last
      <3> QED BY <2>4, <3>1 DEF OpAt
    <2>6. EntityAt(k, b) = [live |-> OpAt(chain, last).op # "delete",
                            match |-> OpAt(chain, last).match, block |-> last[1]]
      BY <1>4 DEF EntityAt
    <2>7. (EntityAt(k, b))' = [live |-> OpAt(chain', last).op # "delete",
                               match |-> OpAt(chain', last).match, block |-> last[1]]
      BY <1>2, <1>4 DEF EntityAt
    <2> HIDE DEF P, last
    <2> QED BY <2>5, <2>6, <2>7
  <1> QED BY <1>3, <1>4

\* The chain grows, or replaces its tip: it never becomes shorter.
LEMMA ChainStep ==
  ASSUME ChainTypeOK, ChainNext PROVE ChainTypeOK' /\ Len(chain') >= Len(chain)
  <1> USE DEF ChainTypeOK
  <1>1. ASSUME NEW ops \in BlockOps PROVE ops \in Seq(Op)
    <2>1. PICK n \in MinOpsPerBlock..MaxOpsPerBlock :
            ops \in [1..n -> [key : Key, op : OpKinds, match : FilterOutcomes \cup {FALSE}]]
      BY DEF BlockOps
    <2>2. [key : Key, op : OpKinds, match : FilterOutcomes \cup {FALSE}] \subseteq Op
      BY ChainAssumption DEF Op
    <2>3. n \in Nat
      BY ChainAssumption
    <2>4. ops \in [1..n -> Op]
      BY <2>1, <2>2
    <2> QED BY <2>3, <2>4, SeqDef
  <1>2. CASE Mine
    <2>1. PICK ops \in BlockOps : chain' = Append(chain, [hash |-> epoch, ops |-> ops])
      BY <1>2 DEF Mine
    <2>2. [hash |-> epoch, ops |-> ops] \in Block
      BY <1>1 DEF Block
    <2>3. chain' \in Seq(Block) /\ Len(chain') = Len(chain) + 1
      BY <2>1, <2>2, AppendProperties
    <2> QED BY <1>2, <2>3 DEF Mine
  <1>3. CASE Reorg
    <2> DEFINE NewBlock(fork, suffix, b) ==
                 IF b <= fork THEN chain[b] ELSE [hash |-> epoch + 1, ops |-> suffix[b]]
    <2>1. PICK fork \in 0..(Len(chain) - 1) :
            \E suffix \in [(fork + 1)..Len(chain) -> BlockOps] :
              chain' = [b \in 1..Len(chain) |-> NewBlock(fork, suffix, b)]
      BY <1>3 DEF Reorg
    <2>2. PICK suffix \in [(fork + 1)..Len(chain) -> BlockOps] :
            chain' = [b \in 1..Len(chain) |-> NewBlock(fork, suffix, b)]
      BY <2>1
    <2>3. ASSUME NEW b \in 1..Len(chain) PROVE NewBlock(fork, suffix, b) \in Block
      <3>1. CASE b <= fork
        BY <3>1, ElementOfSeq
      <3>2. CASE ~(b <= fork)
        <4>1. suffix[b] \in Seq(Op)
          BY <1>1, <3>2
        <4> QED BY <3>2, <4>1 DEF Block
      <3> QED BY <3>1, <3>2
    <2>4. chain' \in [1..Len(chain) -> Block] /\ Len(chain) \in Nat
      BY <2>2, <2>3
    <2>5. chain' \in Seq(Block) /\ Len(chain') = Len(chain)
      BY <2>4
    <2> QED BY <1>3, <2>5 DEF Reorg
  <1> QED BY <1>2, <1>3 DEF ChainNext

\* The empty chain is well formed ...
LEMMA ChainStart == ChainInit => ChainOK
  <1> SUFFICES ASSUME ChainInit PROVE ChainOK
    OBVIOUS
  <1>1. chain = <<>>
    BY DEF ChainInit
  <1>2. \A k : Positions(chain, k, Len(chain)) = {}
    BY <1>1 DEF Positions
  <1> QED BY <1>1, <1>2 DEF ChainOK, WellFormed, HeadBlock

\* ... and every block that is mined keeps it so, within the bound.
LEMMA ChainStays == ASSUME ChainTypeOK, ChainOK, ChainNext PROVE ChainOK'
  <1>1. WellFormed(chain')
    BY DEF ChainNext, Mine, Reorg
  <1>2. ASSUME NEW ops \in BlockOps PROVE Len(ops) <= MaxOpsPerBlock
    <2>1. PICK n \in MinOpsPerBlock..MaxOpsPerBlock :
            ops \in [1..n -> [key : Key, op : OpKinds, match : FilterOutcomes \cup {FALSE}]]
      BY DEF BlockOps
    <2>2. n \in Nat /\ n <= MaxOpsPerBlock
      BY ChainAssumption
    <2>3. Len(ops) = n
      BY <2>1, <2>2
    <2> QED BY <2>2, <2>3
  <1>3. ASSUME NEW b \in 1..Len(chain') PROVE Len(chain'[b].ops) <= MaxOpsPerBlock
    <2>1. \A c \in 1..Len(chain) : Len(chain[c].ops) <= MaxOpsPerBlock
      BY DEF ChainOK, HeadBlock
    <2>2. CASE Mine
      <3>1. PICK ops \in BlockOps : chain' = Append(chain, [hash |-> epoch, ops |-> ops])
        BY <2>2 DEF Mine
      <3>2. /\ Len(chain') = Len(chain) + 1 /\ chain'[Len(chain) + 1].ops = ops
            /\ \A c \in 1..Len(chain) : chain'[c] = chain[c]
        BY <3>1 DEF ChainTypeOK
      <3> QED BY <1>2, <2>1, <3>2 DEF ChainTypeOK
    <2>3. CASE Reorg
      <3> DEFINE NewBlock(fork, suffix, c) ==
                   IF c <= fork THEN chain[c] ELSE [hash |-> epoch + 1, ops |-> suffix[c]]
      <3>0. PICK fork \in 0..(Len(chain) - 1) :
              \E suffix \in [(fork + 1)..Len(chain) -> BlockOps] :
                chain' = [c \in 1..Len(chain) |-> NewBlock(fork, suffix, c)]
        BY <2>3 DEF Reorg
      <3>1. PICK suffix \in [(fork + 1)..Len(chain) -> BlockOps] :
              chain' = [c \in 1..Len(chain) |-> NewBlock(fork, suffix, c)]
        BY <3>0
      <3>2. DOMAIN chain' = 1..Len(chain) /\ chain' \in Seq(Block)
        BY <3>1, ChainStep DEF ChainTypeOK
      <3>3. b \in 1..Len(chain)
        BY <3>2
      <3>4. chain'[b].ops = IF b <= fork THEN chain[b].ops ELSE suffix[b]
        BY <3>1, <3>3
      <3>5. ~(b <= fork) => suffix[b] \in BlockOps
        BY <3>3 DEF ChainTypeOK
      <3> QED BY <1>2, <2>1, <3>3, <3>4, <3>5
    <2> QED BY <2>2, <2>3 DEF ChainNext
  <1> QED BY <1>1, <1>3 DEF ChainOK, HeadBlock

\* A reorg does not reach below the depth that it may replace.
LEMMA TipMoves ==
  ASSUME ChainTypeOK, ChainNext, NEW d \in Nat, MaxReorgDepth <= d
  PROVE  /\ \A b \in 1..Len(chain) : b + d <= Len(chain) => chain'[b] = chain[b]
         /\ MaxReorgs = 0 => \A b \in 1..Len(chain) : chain'[b] = chain[b]
  <1>1. Len(chain) \in Nat
    BY DEF ChainTypeOK
  <1>2. CASE Mine
    BY <1>2 DEF Mine, ChainTypeOK
  <1>3. CASE Reorg
    <2>1. PICK fork \in 0..(Len(chain) - 1) :
            /\ Len(chain) - fork <= MaxReorgDepth
            /\ \E suffix \in [(fork + 1)..Len(chain) -> BlockOps] :
                 chain' = [b \in 1..Len(chain) |->
                             IF b <= fork THEN chain[b]
                             ELSE [hash |-> epoch + 1, ops |-> suffix[b]]]
      BY <1>3 DEF Reorg
    <2>2. \A b \in 1..fork : chain'[b] = chain[b]
      BY <1>1, <2>1
    <2>3. MaxReorgDepth \in Nat /\ MaxReorgs \in Nat
      BY ChainAssumption
    <2>4. \A b \in 1..Len(chain) : b + d <= Len(chain) => b \in 1..fork
      BY <1>1, <2>1, <2>3
    <2>5. MaxReorgs # 0
      BY <1>3, <2>3 DEF Reorg, ChainTypeOK
    <2> QED BY <2>2, <2>4, <2>5
  <1> QED BY <1>2, <1>3 DEF ChainNext
=============================================================================
