----------------------------- MODULE AtLeastOnce -----------------------------
(***************************************************************************)
(* What the README promises of the crawl ("Exactly-once semantics"), as an *)
(* abstract specification: blocks are passed in order, and a block is only *)
(* passed once Quickwit has all of its documents; until then documents may *)
(* be emitted again, in any order and any number of times.  Older versions *)
(* of the entities that a passed block touches are gone, or promised to    *)
(* go: a delete is put on record before it is carried out.                 *)
(*                                                                         *)
(* There is no process here: no program counter, no locals, no failures.   *)
(* A crash, a retry or a replay of a block is a repetition of Emit,        *)
(* Promise or Honour.  Reorgs stay above the confirmed blocks.             *)
(***************************************************************************)
EXTENDS ArkivChain, Quickwit, Integers

CONSTANT ConfirmationDepth

VARIABLES
  next,     \* the first block not passed, -1 before the crawl begins
  promised  \* the delete queries on record

crawlVars == <<chainVars, index, next, promised>>

Confirmed(b) == b \in 1..HeadBlock /\ b + ConfirmationDepth <= HeadBlock

Unpassed == {b \in 1..HeadBlock : Confirmed(b) /\ b >= next}

Touches(b, k) == \E i \in DOMAIN chain[b].ops : chain[b].ops[i].key = k

\* One document for every operation of block b that leaves a selected entity.
Due(b) ==
  {[key |-> chain[b].ops[i].key, block |-> b, log |-> i, hash |-> chain[b].hash] :
     i \in {j \in DOMAIN chain[b].ops :
              LET o == chain[b].ops[j] IN
              o.op # "delete" /\ EntityAt(o.key, b).live /\ EntityAt(o.key, b).match}}

\* A block still to be passed replaces document d.
Outdated(d) == \E b \in Unpassed : d.block < b /\ Touches(b, d.key)

Promised(d) == \E q \in promised : QueryMatches(q, d)

-----------------------------------------------------------------------------
Init ==
  /\ ChainInit
  /\ QuickwitInit
  /\ next = -1
  /\ promised = {}

Begin ==
  /\ next = -1
  /\ next' \in Nat
  /\ UNCHANGED <<chainVars, index, promised>>

\* Documents are emitted for blocks that are confirmed and not yet passed.
Emit ==
  /\ next >= 0
  /\ \E D \in SUBSET UNION {Due(b) : b \in Unpassed} : Ingest(D)
  /\ UNCHANGED <<chainVars, next, promised>>

\* A delete query on record spares every document that is still current.
Promise ==
  /\ next >= 0
  /\ promised \subseteq promised'
  /\ \A q \in promised' \ promised, d \in index : QueryMatches(q, d) => Outdated(d)
  /\ UNCHANGED <<chainVars, index, next>>

Honour ==
  /\ \E q \in promised : DeleteTask(q)
  /\ UNCHANGED <<chainVars, next, promised>>

\* A promise is dropped when it is kept.
Forget ==
  /\ \E q \in promised :
       /\ \A d \in index : ~QueryMatches(q, d)
       /\ promised' = promised \ {q}
  /\ UNCHANGED <<chainVars, index, next>>

\* What must be true of a block before it is passed.
Done(b) ==
  /\ Confirmed(b)
  /\ Due(b) \subseteq index
  /\ \A d \in index : d.block < b /\ Touches(b, d.key) => Promised(d)

Pass ==
  /\ next >= 0
  /\ next' > next
  /\ \A b \in next..(next' - 1) : b > 0 => Done(b)
  /\ UNCHANGED <<chainVars, index, promised>>

Environment == ChainNext /\ UNCHANGED <<index, next, promised>>

Next == Begin \/ Emit \/ Promise \/ Honour \/ Forget \/ Pass \/ Environment

Spec == Init /\ [][Next]_crawlVars
=============================================================================
