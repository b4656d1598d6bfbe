------------------------------ MODULE ArkivChain ------------------------------
(***************************************************************************)
(* The arkiv node as the bridge sees it through JSON-RPC: a chain of       *)
(* blocks that carry entity operations, grows at the tip and may replace   *)
(* its tip by another one (a reorg).                                       *)
(*                                                                         *)
(* Abstractions:                                                           *)
(*  - A block hash is the number of reorgs that had happened when the      *)
(*    block was mined.  Together with the height it names one block, and   *)
(*    every block above a fork point gets a new one, as a hash chain does. *)
(*  - The six operation types fall into the three classes that the control *)
(*    loop tells apart: "create"; "update" (UPDATE, EXTEND and TRANSFER);  *)
(*    "delete" (DELETE and EXPIRE).                                        *)
(*  - An entity is what entity_matches_filters makes of it: `match` says   *)
(*    whether its annotations satisfy the configured filters.              *)
(*  - Block 0 is the genesis block: it carries no operation.               *)
(***************************************************************************)
EXTENDS Naturals, Sequences, FiniteSets

CONSTANTS
  Key,             \* entity keys
  OpKinds,         \* the operations the run lets happen on chain
  FilterOutcomes,  \* what the filters may say of an entity
  MinOpsPerBlock,  \* 0, or 1 where a run has no empty block
  MaxOpsPerBlock,  \* bound: operations in a block
  MaxHeight,       \* bound: height of the chain
  MaxReorgs,       \* bound: reorgs in a behaviour
  MaxReorgDepth    \* blocks a reorg may replace

ASSUME ChainAssumption ==
  /\ OpKinds \subseteq {"create", "update", "delete"}
  /\ FilterOutcomes \subseteq BOOLEAN
  /\ {MinOpsPerBlock, MaxOpsPerBlock, MaxHeight, MaxReorgs, MaxReorgDepth} \subseteq Nat

VARIABLES
  chain,   \* the canonical chain, block b at chain[b]
  epoch    \* reorgs so far: the hash of the blocks mined now

chainVars == <<chain, epoch>>

Op == [key : Key, op : {"create", "update", "delete"}, match : BOOLEAN]

Block == [hash : Nat, ops : Seq(Op)]

ChainTypeOK ==
  /\ chain \in Seq(Block)
  /\ epoch \in Nat

-----------------------------------------------------------------------------
(***************************************************************************)
(* What the node answers.                                                  *)
(***************************************************************************)

\* eth_blockNumber.
HeadBlock == Len(chain)

\* The hash part of eth_getBlockByNumber.
BlockHash(b) == IF b = 0 THEN 0 ELSE chain[b].hash

\* Where the operations on key k up to block h stand in chain c.
Positions(c, k, h) ==
  {p \in (1..h) \X (1..MaxOpsPerBlock) :
     p[2] \in DOMAIN c[p[1]].ops /\ c[p[1]].ops[p[2]].key = k}

OpAt(c, p) == c[p[1]].ops[p[2]]

Before(p, q) == p[1] < q[1] \/ (p[1] = q[1] /\ p[2] < q[2])

\* The entity in the state of block h: whether it exists, whether the
\* filters select it, and the block of its last operation.
EntityAt(k, h) ==
  LET P == Positions(chain, k, h)
      last == CHOOSE p \in P : \A q \in P : q = p \/ Before(q, p)
  IN  IF P = {}
      THEN [live |-> FALSE, match |-> FALSE, block |-> 0]
      ELSE [live  |-> OpAt(chain, last).op # "delete",
            match |-> OpAt(chain, last).match,
            block |-> last[1]]

\* Faulty variant of LiveAtHead: the answer is taken the wrong way round.
DeadAtHead(k) == ~EntityAt(k, HeadBlock).live

\* arkiv_query without atBlock: is_live_at_head.
LiveAtHead(k) == EntityAt(k, HeadBlock).live

-----------------------------------------------------------------------------
(***************************************************************************)
(* What the chain does.                                                    *)
(***************************************************************************)

\* The operation lists a block may carry.  A deleted entity has no
\* annotations: its `match` is FALSE by convention.
BlockOps ==
  LET ops == {o \in [key : Key, op : OpKinds, match : FilterOutcomes \cup {FALSE}] :
                IF o.op = "delete" THEN ~o.match ELSE o.match \in FilterOutcomes}
  IN  UNION {[1..n -> ops] : n \in MinOpsPerBlock..MaxOpsPerBlock}

\* An entity is created once and touched only while it lives: entity keys
\* are derived from a nonce and never reused on one chain.
WellFormed(c) ==
  \A k \in Key :
    LET P == Positions(c, k, Len(c)) IN
    \A p \in P :
      LET earlier == {q \in P : Before(q, p)} IN
      /\ (OpAt(c, p).op = "create") <=> (earlier = {})
      /\ \A q \in earlier : OpAt(c, q).op # "delete"

\* A block is added to the tip.
Mine ==
  /\ Len(chain) < MaxHeight
  /\ \E ops \in BlockOps :
       /\ chain' = Append(chain, [hash |-> epoch, ops |-> ops])
       /\ WellFormed(chain')
  /\ UNCHANGED epoch

\* The blocks above a fork point are replaced by as many other ones.
Reorg ==
  /\ epoch < MaxReorgs
  /\ epoch' = epoch + 1
  /\ \E fork \in 0..(Len(chain) - 1) :
       /\ Len(chain) - fork <= MaxReorgDepth
       /\ \E suffix \in [(fork + 1)..Len(chain) -> BlockOps] :
            /\ chain' = [b \in 1..Len(chain) |->
                           IF b <= fork THEN chain[b]
                           ELSE [hash |-> epoch + 1, ops |-> suffix[b]]]
            /\ WellFormed(chain')

ChainInit == chain = <<>> /\ epoch = 0

ChainNext == Mine \/ Reorg

\* Entities come and go in order; no block holds more than it may.
ChainOK ==
  /\ WellFormed(chain)
  /\ \A b \in 1..HeadBlock : Len(chain[b].ops) <= MaxOpsPerBlock
=============================================================================
