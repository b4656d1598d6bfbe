------------------------------- MODULE Quickwit -------------------------------
(***************************************************************************)
(* The Quickwit index, as the bridge uses it: documents are ingested,      *)
(* never updated, and a delete task removes every document that matches    *)
(* its query.                                                              *)
(*                                                                         *)
(* The delete queries are those that delete_scheduler.rs builds.           *)
(*                                                                         *)
(* Abstractions: a document is identified by its entity, block and log     *)
(* index, which is what _doc_id hashes, and by the hash of the block its   *)
(* log came from.  The document does not carry that hash: no query reads   *)
(* it, the properties do.  Copies of a document are not counted: consumers *)
(* group on _doc_id, and a delete query removes all of them.  A delete     *)
(* task takes effect when it is accepted.                                  *)
(***************************************************************************)
EXTENDS Naturals

VARIABLE index   \* the documents a search can return

QuickwitInit == index = {}

-----------------------------------------------------------------------------
(* delete_scheduler.rs                                                      *)

\* Faulty variant: the version right below the new block is spared.
supersede_short(key, new_block) ==
  [kind |-> "supersede", keys |-> {key},
   bound |-> IF new_block < 2 THEN 0 ELSE new_block - 2]

supersede_query(key, new_block) ==
  [kind |-> "supersede", keys |-> {key},
   bound |-> IF new_block = 0 THEN 0 ELSE new_block - 1]

tombstone_query(key) == [kind |-> "tombstone", keys |-> {key}, bound |-> 0]

\* Faulty variant: the block above the fork point is spared.
retraction_short(keys, fork_point) ==
  [kind |-> "retraction", keys |-> keys, bound |-> fork_point + 1]

retraction_query(keys, fork_point) ==
  [kind |-> "retraction", keys |-> keys, bound |-> fork_point]

QueryMatches(query, doc) ==
  /\ doc.key \in query.keys
  /\ query.kind = "supersede"  => doc.block <= query.bound
  /\ query.kind = "retraction" => doc.block > query.bound

-----------------------------------------------------------------------------
(* The ingest and the delete-tasks endpoints.                               *)

Ingest(batch) == index' = index \cup batch

DeleteTask(query) == index' = {d \in index : ~QueryMatches(query, d)}
=============================================================================
