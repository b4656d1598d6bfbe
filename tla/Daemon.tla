-------------------------------- MODULE Daemon --------------------------------
(***************************************************************************)
(* The life of the daemon (main.rs, ControlLoop::run, sleep_poll_interval) *)
(* around the POSTs it makes: start-up checks, iterations that end early   *)
(* when a POST fails, the sleep between them, the shutdown signal, crashes *)
(* of the process and of the machine; and what the unit shipped with it    *)
(* makes of its end: systemd restarts it after a failure, up to a limit,   *)
(* and leaves every other start to the operator.                           *)
(*                                                                         *)
(* The blocks are those of one entity, in one range: every block updates   *)
(* it, and the filters either select it ("in": its document is ingested,   *)
(* older ones are superseded) or do not ("out": they are removed).  What   *)
(* Bridge takes in one step, a POST and its outcome, is PostWithRetry      *)
(* here; what Bridge details, the reads and the reorgs, is left out: every *)
(* JSON-RPC call succeeds, or the iteration fails with IterationFails.     *)
(*                                                                         *)
(* Abstractions: a document is its block; there is no clock, so any        *)
(* failure may be the one that uses up the restarts systemd allows.        *)
(***************************************************************************)
EXTENDS PostWithRetry, Sequences

CONSTANTS
  Entity,      \* the entity
  LastBlock,   \* bound: the last block of the range
  MaxCrashes   \* bound: crashes and power losses in a behaviour

ASSUME BoundsAssumption == LastBlock \in Nat \ {0} /\ MaxCrashes \in Nat

VARIABLES
  pc,               \* where main or the control loop is
  ret,              \* what follows the drain
  filters,          \* block by block, whether the entity is selected
  cursor,           \* next block to crawl
  pending_deletes,  \* the delete queries on record
  snapshot,         \* those that the drain under way has still to post
  shutdown,         \* the cancellation token
  crashes,          \* crashes so far
  overtaken,        \* history: a straggler of a passed block changed the index
  furthest          \* history: the highest value of the cursor

daemonVars == <<pc, ret, filters, cursor, pending_deletes, snapshot, shutdown, crashes,
               overtaken, furthest>>
vars == <<index, postVars, daemonVars>>

DocAt(b) == [key |-> Entity, block |-> b]

IngestRequest(b) == [block |-> b, ingest |-> {DocAt(b)}, delete |-> {}]

DeleteRequest(p) == [block |-> p.block, ingest |-> {}, delete |-> {p.query}]

\* The query process_block enqueues for block b.
QueryOf(b) == IF filters[b] = "in" THEN supersede_query(Entity, b) ELSE tombstone_query(Entity)

\* A row of pending_deletes; the block is for the properties.
PendingOf(b) == [block |-> b, query |-> QueryOf(b)]

Requests ==
  {IngestRequest(b) : b \in 1..LastBlock} \cup
  {[block |-> b, ingest |-> {}, delete |-> {q}] :
     b \in 1..LastBlock,
     q \in {supersede_query(Entity, c) : c \in 1..LastBlock} \cup {tombstone_query(Entity)}}

\* What may be posted is what the blocks of the range call for.
ASSUME RequestAssumption == Request = Requests

Pending == [block : 1..LastBlock, query : UNION {r.delete : r \in Requests}]

\* "failed": the process has ended with an error or was killed; "stopped": it has
\* ended in another way, or systemd has given the unit up.
Down == {"failed", "stopped"}

Labels == {"start", "top", "drain", "block", "ingest", "commit", "sleep"} \cup Down

TypeOK ==
  /\ PostTypeOK
  /\ index \subseteq {DocAt(b) : b \in 1..LastBlock}
  /\ pc \in Labels
  /\ ret \in {"block", "commit"}
  /\ filters \in [1..LastBlock -> {"in", "out"}]
  /\ cursor \in 1..LastBlock + 1
  /\ pending_deletes \in Seq(Pending)
  /\ snapshot \in Seq(Pending)
  /\ shutdown \in BOOLEAN
  /\ crashes \in 0..MaxCrashes
  /\ overtaken \in BOOLEAN
  /\ furthest \in cursor..LastBlock + 1

Init ==
  /\ QuickwitInit
  /\ PostInit
  /\ pc = "start"
  /\ ret = "block"
  /\ filters \in [1..LastBlock -> {"in", "out"}]
  /\ cursor = 1
  /\ pending_deletes = <<>>
  /\ snapshot = <<>>
  /\ shutdown = FALSE
  /\ crashes = 0
  /\ overtaken = FALSE
  /\ furthest = 1

Goto(label) == pc' = label /\ UNCHANGED <<ret, filters, cursor, pending_deletes, snapshot,
                                           shutdown, crashes, overtaken, furthest>>

-----------------------------------------------------------------------------
(* main: the chain id and the index are checked, the signal is listened to, *)
(* and the loop runs.                                                       *)

StartUp ==
  /\ pc = "start"
  /\ Goto("top")
  /\ UNCHANGED <<index, postVars>>

\* The node or Quickwit cannot be reached, or is the wrong one.
StartUpFails ==
  /\ pc = "start"
  /\ Goto("failed")
  /\ UNCHANGED <<index, postVars>>

StartFrom(label) ==
  /\ pc = label
  /\ pc' = "start"
  /\ shutdown' = FALSE
  /\ UNCHANGED <<index, postVars, ret, filters, cursor, pending_deletes, snapshot, crashes,
                 overtaken, furthest>>

\* systemd, on failure; or the boot after a power loss.
Restart == StartFrom("failed")

\* systemd has restarted the unit as often as StartLimitBurst allows.
GivesUp ==
  /\ pc = "failed"
  /\ Goto("stopped")
  /\ UNCHANGED <<index, postVars>>

\* The operator, or nobody.
Start == StartFrom("stopped")

-----------------------------------------------------------------------------
(* run and run_iteration.                                                   *)

Stop ==
  /\ pc = "top"
  /\ shutdown
  /\ Goto("stopped")
  /\ UNCHANGED <<index, postVars>>

BeginIteration ==
  /\ pc = "top"
  /\ ~shutdown
  /\ pc' = "drain"
  /\ ret' = "block"
  /\ snapshot' = pending_deletes
  /\ UNCHANGED <<index, postVars, filters, cursor, pending_deletes, shutdown, crashes,
                 overtaken, furthest>>

\* A JSON-RPC call fails.
IterationFails ==
  /\ pc = "block"
  /\ Goto("sleep")
  /\ UNCHANGED <<index, postVars>>

\* No confirmed block is left.
NothingToDo ==
  /\ pc = "block"
  /\ cursor > LastBlock
  /\ Goto("sleep")
  /\ UNCHANGED <<index, postVars>>

BeginBlock ==
  /\ pc = "block"
  /\ cursor <= LastBlock
  /\ IF filters[cursor] = "in"
     THEN Goto("ingest")
     ELSE /\ pending_deletes' = Append(pending_deletes, PendingOf(cursor))
          /\ snapshot' = pending_deletes'
          /\ pc' = "drain"
          /\ ret' = "commit"
          /\ UNCHANGED <<filters, cursor, shutdown, crashes, overtaken, furthest>>
  /\ UNCHANGED <<index, postVars>>

PostDocs ==
  /\ pc = "ingest"
  /\ post_with_retry(IngestRequest(cursor))
  /\ UNCHANGED daemonVars

DocsPosted ==
  /\ pc = "ingest"
  /\ phase = "ok"
  /\ phase' = "idle"
  /\ pending_deletes' = Append(pending_deletes, PendingOf(cursor))
  /\ snapshot' = pending_deletes'
  /\ pc' = "drain"
  /\ ret' = "commit"
  /\ UNCHANGED <<index, retry, request, attempt, backoff_ms, stragglers,
                 filters, cursor, shutdown, crashes, overtaken, furthest>>

PostDelete ==
  /\ pc = "drain"
  /\ snapshot # <<>>
  /\ post_with_retry(DeleteRequest(Head(snapshot)))
  /\ UNCHANGED daemonVars

\* Faulty variant: the row is marked when the client gives up, too.
DeleteIsOverGaveUp == phase \in {"ok", "failed"}

DeleteIsOver == phase = "ok"

\* The row is marked, and the drain goes on to the next one of its snapshot.  The
\* snapshot is a part of the queue, and rows are marked in its order.
DeletePosted ==
  /\ pc = "drain"
  /\ DeleteIsOver
  /\ phase' = "idle"
  /\ pending_deletes' = Tail(pending_deletes)
  /\ snapshot' = Tail(snapshot)
  /\ UNCHANGED <<index, retry, request, attempt, backoff_ms, stragglers,
                 pc, ret, filters, cursor, shutdown, crashes, overtaken, furthest>>

Drained ==
  /\ pc = "drain"
  /\ snapshot = <<>>
  /\ Goto(ret)
  /\ UNCHANGED <<index, postVars>>

\* Faulty variant: the POST is made again in place.
AfterFailureInPlace == pc

AfterFailure == "sleep"

\* post_with_retry returned an error: the iteration is over, and its drain.
PostFailed ==
  /\ pc \in {"ingest", "drain"}
  /\ phase = "failed"
  /\ phase' = "idle"
  /\ pc' = AfterFailure
  /\ snapshot' = <<>>
  /\ UNCHANGED <<index, retry, request, attempt, backoff_ms, stragglers,
                 ret, filters, cursor, pending_deletes, shutdown, crashes, overtaken, furthest>>

\* On to the next block of the range, or the end of an iteration that made
\* progress.
Commit ==
  /\ pc = "commit"
  /\ cursor' = cursor + 1
  /\ furthest' = IF furthest > cursor THEN furthest ELSE cursor + 1
  /\ pc' = IF cursor < LastBlock THEN "block" ELSE "top"
  /\ UNCHANGED <<index, postVars, ret, filters, pending_deletes, snapshot, shutdown,
                 crashes, overtaken>>

\* The poll interval is over, or the token is cancelled.
SleepOver ==
  /\ pc = "sleep"
  /\ Goto("top")
  /\ UNCHANGED <<index, postVars>>

-----------------------------------------------------------------------------
(* The outside.                                                             *)

\* SIGTERM or ctrl-c, once the handler is installed ...
Cancelled ==
  /\ pc \notin {"start"} \cup Down
  /\ ~shutdown
  /\ shutdown' = TRUE
  /\ UNCHANGED <<index, postVars, pc, ret, filters, cursor, pending_deletes, snapshot, crashes,
                 overtaken, furthest>>

\* ... and before: the signal ends the process, and systemd takes it for a clean end.
Terminated ==
  /\ pc = "start"
  /\ Goto("stopped")
  /\ UNCHANGED <<index, postVars>>

Signal == Cancelled \/ Terminated

\* The process dies; a request on the wire goes on without it.
Dies ==
  /\ pc \notin Down
  /\ crashes < MaxCrashes
  /\ crashes' = crashes + 1
  /\ pc' = "failed"
  /\ phase' = "idle"
  /\ snapshot' = <<>>
  /\ (phase = "wait" /\ Straggling(request)) \/ UNCHANGED stragglers
  /\ UNCHANGED <<index, retry, request, attempt, backoff_ms, ret, filters, shutdown,
                 overtaken, furthest>>

Crash == Dies /\ UNCHANGED <<cursor, pending_deletes>>

\* The power goes, and with it the commits since SQLite last synced its log
\* (synchronous = NORMAL): the store is as it was some time ago.  It has had, for
\* every block, no row and then the row of the block.
PowerLoss ==
  /\ Dies
  /\ cursor' \in 1..cursor
  /\ \/ pending_deletes' = <<>>
     \/ pending_deletes' = pending_deletes /\ cursor' = cursor
     \/ /\ cursor' < cursor \/ pc = "commit"
        /\ pending_deletes' = <<PendingOf(cursor')>>

StragglerLands ==
  /\ \E r \in Request :
       /\ Lands(r)
       /\ overtaken' = (overtaken \/ (r.block < cursor /\ index' # index))
  /\ UNCHANGED <<pc, ret, filters, cursor, pending_deletes, snapshot, shutdown, crashes,
                 furthest>>

StragglerLost ==
  /\ \E r \in Request : IsLost(r)
  /\ UNCHANGED daemonVars

-----------------------------------------------------------------------------
Loop ==
  \/ StartUp \/ Stop \/ BeginIteration \/ NothingToDo \/ BeginBlock
  \/ PostDocs \/ DocsPosted \/ PostDelete \/ DeletePosted \/ Drained \/ PostFailed
  \/ Commit \/ SleepOver

Posting == PostWorks /\ UNCHANGED daemonVars

Faults ==
  \/ PostFaults /\ UNCHANGED daemonVars
  \/ StartUpFails \/ IterationFails \/ Crash \/ PowerLoss

Outside == Signal \/ StragglerLands \/ StragglerLost

Unit == Restart \/ GivesUp

Next == Loop \/ Posting \/ Faults \/ Outside \/ Unit \/ Start

Spec == Init /\ [][Next]_vars

\* The task of the loop is never abandoned, a wait ends with an answer or with
\* the time-out of the HTTP client, and systemd restarts a unit that failed or
\* gives it up.  Nobody need start a daemon that is stopped.
Fairness == WF_vars(Loop \/ Posting) /\ WF_vars(Unit)

FairSpec == Spec /\ Fairness

-----------------------------------------------------------------------------
(***************************************************************************)
(* When the cursor is about to pass a block it has not passed before, the  *)
(* index is what the block leaves of the entity, unless a request that had *)
(* timed out landed after its block was passed.  So the one-step outcomes  *)
(* that Bridge gives a POST are what post_with_retry delivers, but for     *)
(* such a request: a repeated delete is a no-op (quickwit_client.rs:49-50) *)
(* only until later documents match it.  And a power loss does no harm     *)
(* that lasts: the blocks it takes back are done again.                    *)
(***************************************************************************)
BlockIsDone ==
  pc = "commit" /\ cursor = furthest =>
    overtaken \/ index = IF filters[cursor] = "in" THEN {DocAt(cursor)} ELSE {}

(***************************************************************************)
(* The inductive invariant behind BlockIsDone.                             *)
(***************************************************************************)
\* A POST is under way where the loop waits for one, and it is the one that the
\* loop waits for; an attempt under way is one of those configured.
PostInHand ==
  /\ phase \in {"wait", "accepted", "sleep"} => attempt <= retry.max_attempts
  /\ phase # "idle" =>
       \/ pc = "ingest" /\ request = IngestRequest(cursor)
       \/ /\ pc = "drain" /\ snapshot # <<>>
          /\ request = DeleteRequest(Head(snapshot))

\* The delete on record, if there is one, is of the block at the cursor; a drain has
\* still to post all that is on record, for nothing is put there while it runs.
OneOnRecord ==
  /\ snapshot = IF pc = "drain" THEN pending_deletes ELSE <<>>
  /\ pending_deletes # <<>> => cursor <= LastBlock /\ pending_deletes = <<PendingOf(cursor)>>
  /\ pc \in {"block", "ingest", "commit"} => pending_deletes = <<>>
  /\ pc \in {"ingest", "commit"} \/ (pc = "drain" /\ ret = "commit") => cursor <= LastBlock
  /\ pc = "ingest" => filters[cursor] = "in"

\* Block b calls for request r.
CalledFor(r, b) ==
  \/ filters[b] = "in" /\ r = IngestRequest(b)
  \/ r = DeleteRequest(PendingOf(b))

\* What is on the wire and in the index comes from blocks that the cursor reached.
OnlyReached ==
  /\ \A r \in Request : stragglers[r] > 0 => \E b \in 1..LastBlock : b <= furthest /\ CalledFor(r, b)
  /\ \A b \in 1..LastBlock : DocAt(b) \in index => b <= furthest /\ filters[b] = "in"

\* The block at the cursor has its document from the answer of the ingest on ...
Ingested ==
  \/ pc = "ingest" /\ phase \in {"accepted", "ok"}
  \/ pc = "drain" /\ ret = "commit"
  \/ pc = "commit"

\* ... and no older one from the answer of the delete on.
Deleted ==
  \/ pc = "drain" /\ ret = "commit" /\ (phase \in {"accepted", "ok"} \/ pending_deletes = <<>>)
  \/ pc = "commit"

BlockSoFar ==
  cursor = furthest /\ ~overtaken =>
    /\ Ingested /\ filters[cursor] = "in" => DocAt(cursor) \in index
    /\ Deleted => index \subseteq (IF filters[cursor] = "in" THEN {DocAt(cursor)} ELSE {})

\* Why a block that is passed is done, although requests are carried out late,
\* twice or without an answer.
DaemonInv == TypeOK /\ PostInHand /\ OneOnRecord /\ OnlyReached /\ BlockSoFar

(***************************************************************************)
(* A shutdown request ends the process, however often POSTs fail: it is    *)
(* only looked at between two iterations (control_loop.rs, run), and no    *)
(* iteration goes on for ever.                                             *)
(***************************************************************************)
ShutdownStops == shutdown ~> pc \in Down

(***************************************************************************)
(* Once nothing fails and nobody asks to stop any more, the range is       *)
(* crawled to its end for good, whatever the failures before have left on  *)
(* record, on the wire or undone; provided that the daemon does not stay   *)
(* down, for after a clean stop, and after the restarts that systemd       *)
(* allows, only an operator starts it; and that http_retry allows one      *)
(* attempt, which validate() does not ask for.                             *)
(***************************************************************************)
Recovers ==
  /\ []<>(pc # "stopped")
  /\ <>[][~(Faults \/ Signal)]_vars
  /\ retry.max_attempts > 0
  => <>[](cursor > LastBlock)
=============================================================================
