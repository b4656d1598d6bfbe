------------------------------ MODULE Refinement ------------------------------
(***************************************************************************)
(* The control loop implements the abstract crawl.                         *)
(*                                                                         *)
(* The mapping forgets the process: the cursor is the first block not      *)
(* passed, the rows of pending_deletes are the promises.                   *)
(***************************************************************************)
EXTENDS BridgeProperties

Crawl ==
  INSTANCE AtLeastOnce WITH
    next     <- cursor,
    promised <- {pending_deletes[i] : i \in 1..Len(pending_deletes)}

(***************************************************************************)
(* The cursor advances block by block only after Quickwit has the block's  *)
(* documents (README.md, "Exactly-once semantics"), whatever call fails    *)
(* and wherever the process dies: every step of the loop emits documents   *)
(* that are due, puts a delete of outdated documents on record, carries    *)
(* one out, drops one that is carried out, passes blocks that are done, or *)
(* changes nothing of this.  It holds of reorgs above the confirmed blocks.*)
(***************************************************************************)
CrawlIsAtLeastOnce == Crawl!Spec
=============================================================================
