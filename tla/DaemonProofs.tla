----------------------------- MODULE DaemonProofs -----------------------------
(***************************************************************************)
(* A block that the daemon passes is done, for every range, every retry    *)
(* section, any number of crashes, power losses and late requests.         *)
(***************************************************************************)
EXTENDS Daemon, WellFoundedInduction, TLAPS

-----------------------------------------------------------------------------
(* Requests and documents.                                                   *)

\* The query of a block reaches the documents that the block replaces, and no other.
LEMMA QueryReaches ==
  ASSUME NEW b \in 1..LastBlock, NEW c \in 1..LastBlock
  PROVE  QueryMatches(QueryOf(b), DocAt(c)) <=> filters[b] # "in" \/ c < b
  <1>0. LastBlock \in Nat
    BY BoundsAssumption
  <1>1. CASE filters[b] = "in"
    <2>1. /\ QueryOf(b).kind = "supersede" /\ QueryOf(b).keys = {Entity} /\ QueryOf(b).bound = b - 1
      BY <1>0, <1>1 DEF QueryOf, supersede_query
    <2> QED BY <1>0, <1>1, <2>1 DEF QueryMatches, DocAt
  <1>2. CASE filters[b] # "in"
    <2>1. QueryOf(b).kind = "tombstone" /\ QueryOf(b).keys = {Entity}
      BY <1>2 DEF QueryOf, tombstone_query
    <2> QED BY <1>2, <2>1 DEF QueryMatches, DocAt
  <1> QED BY <1>1, <1>2

\* What a block calls for may be posted, and what it puts on record is a row.
LEMMA CallTypes ==
  ASSUME NEW b \in 1..LastBlock
  PROVE  /\ IngestRequest(b) \in Request /\ DeleteRequest(PendingOf(b)) \in Request
         /\ PendingOf(b) \in Pending
         /\ \A r : CalledFor(r, b) => r.block = b /\ r \in Request
  <1> DEFINE Q == {supersede_query(Entity, c) : c \in 1..LastBlock} \cup {tombstone_query(Entity)}
  <1>1. QueryOf(b) \in Q
    BY DEF QueryOf
  <1> DEFINE D(q) == [block |-> b, ingest |-> {}, delete |-> {q}]
  <1>2. DeleteRequest(PendingOf(b)) = D(QueryOf(b))
    BY DEF DeleteRequest, PendingOf
  <1>3. D(QueryOf(b)) \in Requests
    <2> DEFINE deletes == {[block |-> c, ingest |-> {}, delete |-> {q}] : c \in 1..LastBlock, q \in Q}
    <2>1. deletes \subseteq Requests
      BY DEF Requests
    <2> HIDE DEF Q
    <2>2. D(QueryOf(b)) \in deletes
      BY <1>1
    <2> HIDE DEF D, deletes
    <2> QED BY <2>1, <2>2
  <1>4. IngestRequest(b) \in Requests
    BY DEF Requests
  <1>5. PendingOf(b) \in Pending
    <2>1. QueryOf(b) \in D(QueryOf(b)).delete
      OBVIOUS
    <2> HIDE DEF D
    <2>2. QueryOf(b) \in UNION {r.delete : r \in Requests}
      BY <1>3, <2>1
    <2> QED BY <2>2 DEF Pending, PendingOf
  <1>6. IngestRequest(b).block = b /\ DeleteRequest(PendingOf(b)).block = b
    BY DEF IngestRequest, DeleteRequest, PendingOf
  <1> QED BY <1>2, <1>3, <1>4, <1>5, <1>6, RequestAssumption DEF CalledFor

\* What the server makes of the index when it carries such a request out.
LEMMA CarriedOut ==
  ASSUME TypeOK, OnlyReached, NEW b \in 1..LastBlock, b <= furthest, NEW r, CalledFor(r, b), Takes(r)
  PROVE  /\ index' \subseteq {DocAt(c) : c \in 1..LastBlock}
         /\ \A c \in 1..LastBlock : DocAt(c) \in index' => c <= furthest /\ filters[c] = "in"
         /\ DocAt(b) \in index /\ filters[b] = "in" => DocAt(b) \in index'
         /\ r = IngestRequest(b) => DocAt(b) \in index' /\ index' = index \cup {DocAt(b)}
         /\ r = DeleteRequest(PendingOf(b)) => index' \subseteq index
         /\ r = DeleteRequest(PendingOf(b)) =>
              \A c \in 1..LastBlock : DocAt(c) \in index' => filters[b] = "in" /\ ~(c < b)
  <1>0. /\ index \subseteq {DocAt(c) : c \in 1..LastBlock} /\ LastBlock \in Nat
        /\ \A c \in 1..LastBlock : DocAt(c) \in index => c <= furthest /\ filters[c] = "in"
    BY BoundsAssumption DEF TypeOK, OnlyReached
  <1>1. \A c, d \in 1..LastBlock : DocAt(c) = DocAt(d) => c = d
    BY DEF DocAt
  <1>2. CASE filters[b] = "in" /\ r = IngestRequest(b)
    <2>1. index' = index \cup {DocAt(b)}
      BY <1>2 DEF Takes, IngestRequest
    <2>2. r # DeleteRequest(PendingOf(b))
      BY <1>2 DEF IngestRequest, DeleteRequest, PendingOf
    <2> QED BY <1>0, <1>1, <1>2, <2>1, <2>2
  <1>3. CASE r = DeleteRequest(PendingOf(b))
    <2>1. index' = {d \in index : ~QueryMatches(QueryOf(b), d)}
      BY <1>3 DEF Takes, DeleteRequest, PendingOf
    <2>2. \A c \in 1..LastBlock :
            DocAt(c) \in index' <=> DocAt(c) \in index /\ filters[b] = "in" /\ ~(c < b)
      BY <2>1, QueryReaches
    <2>3. r # IngestRequest(b)
      BY <1>3 DEF IngestRequest, DeleteRequest, PendingOf
    <2> QED BY <1>0, <1>3, <2>1, <2>2, <2>3
  <1> QED BY <1>2, <1>3 DEF CalledFor

-----------------------------------------------------------------------------
(* The invariant, step by step.                                              *)

\* The request under way, and the retry section.
LEMMA InHand ==
  ASSUME DaemonInv
  PROVE  /\ retry.max_attempts \in Nat /\ retry.initial_backoff_ms \in Nat /\ retry.max_backoff_ms \in Nat
         /\ attempt \in Nat /\ attempt >= 1 /\ backoff_ms \in Nat /\ LastBlock \in Nat
         /\ cursor \in Nat /\ cursor >= 1 /\ furthest \in Nat /\ cursor <= furthest /\ furthest <= LastBlock + 1
         /\ phase # "idle" =>
              /\ cursor \in 1..LastBlock /\ CalledFor(request, cursor)
              /\ pc \in {"ingest", "drain"}
              /\ pc = "ingest" => request = IngestRequest(cursor) /\ filters[cursor] = "in"
              /\ pc = "drain" => request = DeleteRequest(PendingOf(cursor)) /\ pending_deletes # <<>>
  <1>1. /\ retry \in RetryConfigs /\ attempt \in 1..retry.max_attempts + 1 /\ backoff_ms \in Nat
        /\ cursor \in 1..LastBlock + 1 /\ furthest \in cursor..LastBlock + 1
    BY DEF DaemonInv, TypeOK, PostTypeOK
  <1>2. /\ retry.max_attempts \in Nat /\ retry.initial_backoff_ms \in Nat /\ retry.max_backoff_ms \in Nat
        /\ LastBlock \in Nat
    BY <1>1, PostAssumption, BoundsAssumption
  <1>3. /\ attempt \in Nat /\ attempt >= 1
        /\ cursor \in Nat /\ cursor >= 1 /\ furthest \in Nat /\ cursor <= furthest /\ furthest <= LastBlock + 1
    BY <1>1, <1>2
  <1>4. ASSUME phase # "idle"
        PROVE  /\ cursor <= LastBlock /\ CalledFor(request, cursor)
               /\ pc \in {"ingest", "drain"}
               /\ pc = "ingest" => request = IngestRequest(cursor) /\ filters[cursor] = "in"
               /\ pc = "drain" => request = DeleteRequest(PendingOf(cursor)) /\ pending_deletes # <<>>
    <2>1. CASE pc = "ingest"
      BY <1>4, <2>1 DEF DaemonInv, PostInHand, OneOnRecord, CalledFor
    <2>2. CASE pc # "ingest"
      <3>1. pc = "drain" /\ pending_deletes # <<>> /\ request = DeleteRequest(Head(pending_deletes))
        BY <1>4, <2>2 DEF DaemonInv, PostInHand, OneOnRecord
      <3>2. cursor <= LastBlock /\ pending_deletes = <<PendingOf(cursor)>>
        BY <3>1 DEF DaemonInv, OneOnRecord
      <3>3. Head(pending_deletes) = PendingOf(cursor)
        BY <3>2
      <3> QED BY <3>1, <3>2, <3>3 DEF CalledFor
    <2> QED BY <2>1, <2>2
  <1> QED BY <1>1, <1>2, <1>3, <1>4

\* Steps that leave the store, the wire and the index alone.
LEMMA LeftAlone ==
  ASSUME DaemonInv,
         UNCHANGED <<index, retry, stragglers, filters, cursor, crashes, overtaken, furthest>>,
         PostTypeOK', PostInHand', OneOnRecord', pending_deletes' \in Seq(Pending),
         snapshot' \in Seq(Pending), pc' \in Labels,
         ret' \in {"block", "commit"}, shutdown' \in BOOLEAN,
         filters[cursor] = "in" /\ Ingested' => Ingested,
         Deleted' => Deleted
  PROVE  DaemonInv'
  <1>1. TypeOK'
    BY DEF DaemonInv, TypeOK
  <1>2. \A r, b : CalledFor(r, b)' = CalledFor(r, b)
    BY DEF CalledFor, IngestRequest, DeleteRequest, PendingOf, QueryOf, DocAt
  <1>3. OnlyReached'
    BY <1>2 DEF DaemonInv, OnlyReached, DocAt
  <1>4. BlockSoFar'
    BY DEF DaemonInv, BlockSoFar, DocAt
  <1> QED BY <1>1, <1>3, <1>4 DEF DaemonInv

\* The loop goes from one phase to the next, with no POST under way.
LEMMA GoesOn ==
  ASSUME DaemonInv, UNCHANGED <<index, postVars, filters, cursor, pending_deletes, crashes, overtaken, furthest>>,
         phase = "idle" \/ UNCHANGED <<pc, ret, snapshot>>,
         pc' \in Labels,
         ret' \in {"block", "commit"}, shutdown' \in BOOLEAN,
         OneOnRecord',
         filters[cursor] = "in" /\ Ingested' => Ingested,
         Deleted' => Deleted
  PROVE  DaemonInv'
  <1>1. PostTypeOK' /\ pending_deletes' \in Seq(Pending)
    BY DEF DaemonInv, TypeOK, PostTypeOK, postVars
  <1>2. snapshot' \in Seq(Pending)
    <2>1. snapshot' = pending_deletes' \/ snapshot' = <<>>
      BY DEF OneOnRecord
    <2>2. <<>> \in Seq(Pending)
      OBVIOUS
    <2> QED BY <1>1, <2>1, <2>2
  <1>3. PostInHand'
    BY DEF DaemonInv, PostInHand, postVars, IngestRequest, DeleteRequest, DocAt
  <1> QED BY <1>1, <1>2, <1>3, LeftAlone DEF postVars

\* It holds at the start.
LEMMA DaemonInit == Init => DaemonInv
  <1> SUFFICES ASSUME Init PROVE DaemonInv
    OBVIOUS
  <1>0. LastBlock \in Nat /\ LastBlock # 0 /\ MaxCrashes \in Nat /\ MaxStragglers \in Nat
    BY BoundsAssumption, PostAssumption
  <1>1. request \in Request
    <2>1. 1 \in 1..LastBlock
      BY <1>0
    <2>2. \E r : r \in Request
      BY <2>1, CallTypes
    <2> QED BY <2>2 DEF Init, PostInit
  <1>2. retry \in RetryConfigs /\ retry.max_attempts \in Nat /\ retry.initial_backoff_ms \in Nat
    BY PostAssumption DEF Init, PostInit
  <1>3. PostTypeOK
    BY <1>0, <1>1, <1>2 DEF Init, PostInit, PostTypeOK
  <1>4. TypeOK
    <2>1. cursor \in 1..LastBlock + 1 /\ furthest \in cursor..LastBlock + 1 /\ crashes \in 0..MaxCrashes
      BY <1>0 DEF Init
    <2>2. pending_deletes \in Seq(Pending) /\ snapshot \in Seq(Pending)
      BY DEF Init
    <2>3. index \subseteq {DocAt(b) : b \in 1..LastBlock}
      BY DEF Init, QuickwitInit
    <2>4. /\ pc \in Labels /\ ret = "block" /\ shutdown = FALSE /\ overtaken = FALSE
          /\ filters \in [1..LastBlock -> {"in", "out"}]
      BY DEF Init, Labels
    <2> QED BY <1>3, <2>1, <2>2, <2>3, <2>4 DEF TypeOK
  <1>5. PostInHand /\ OneOnRecord /\ BlockSoFar
    BY DEF Init, PostInit, PostInHand, OneOnRecord, BlockSoFar, Ingested, Deleted
  <1>6. OnlyReached
    BY <1>0 DEF Init, PostInit, QuickwitInit, OnlyReached
  <1> QED BY <1>4, <1>5, <1>6 DEF DaemonInv

\* The steps of the loop between the POSTs.
LEMMA LoopKeeps ==
  ASSUME DaemonInv,
         \/ StartUp \/ StartUpFails \/ Unit \/ Start \/ Stop \/ BeginIteration \/ IterationFails
         \/ NothingToDo \/ SleepOver \/ Signal \/ Drained
  PROVE  DaemonInv'
  <1>0. /\ pc \in Labels
        /\ ret \in {"block", "commit"} /\ shutdown \in BOOLEAN
        /\ phase # "idle" => pc \in {"ingest", "drain"} /\ (pc = "drain" => pending_deletes # <<>>)
    BY InHand DEF DaemonInv, TypeOK
  <1>1. UNCHANGED <<index, postVars, filters, cursor, pending_deletes, crashes, overtaken, furthest>>
    BY DEF StartUp, StartUpFails, Unit, Restart, GivesUp, Start, StartFrom, Stop, BeginIteration,
           IterationFails, NothingToDo, SleepOver, Signal, Cancelled, Terminated, Drained, Goto
  <1>2. CASE StartUp \/ StartUpFails \/ Unit \/ Start \/ Stop \/ BeginIteration \/ IterationFails
             \/ NothingToDo \/ SleepOver \/ Terminated
    <2>1. /\ phase = "idle" /\ ret' \in {"block", "commit"} /\ shutdown' \in BOOLEAN
          /\ \/ pc' \in {"start", "top", "failed", "stopped", "sleep"} /\ snapshot' = <<>>
             \/ pc' = "drain" /\ ret' = "block" /\ snapshot' = pending_deletes
      BY <1>0, <1>2 DEF StartUp, StartUpFails, Unit, Restart, GivesUp, Start, StartFrom, Stop,
                        BeginIteration, IterationFails, NothingToDo, SleepOver, Terminated, Goto,
                        DaemonInv, OneOnRecord
    <2>2. OneOnRecord'
      BY <1>1, <2>1 DEF DaemonInv, OneOnRecord, PendingOf, QueryOf
    <2>3. ~Ingested' /\ ~Deleted' /\ pc' \in Labels
      BY <2>1 DEF Ingested, Deleted, Labels, Down
    <2> QED BY <1>1, <2>1, <2>2, <2>3, GoesOn
  <1>3. CASE Cancelled
    <2>1. UNCHANGED <<pc, ret, snapshot>> /\ shutdown' = TRUE
      BY <1>3 DEF Cancelled
    <2>2. OneOnRecord' /\ (Ingested' => Ingested) /\ (Deleted' => Deleted)
      BY <1>1, <2>1 DEF DaemonInv, OneOnRecord, PendingOf, QueryOf, Ingested, Deleted, postVars
    <2> QED BY <1>0, <1>1, <2>1, <2>2, GoesOn
  <1>4. CASE Drained
    <2>1. pc = "drain" /\ pending_deletes = <<>> /\ pc' = ret /\ ret' = ret /\ shutdown' = shutdown
          /\ phase = "idle" /\ snapshot' = <<>> /\ pc' \in Labels
      BY <1>0, <1>4 DEF Drained, Goto, DaemonInv, OneOnRecord, Labels
    <2>2. OneOnRecord' /\ (Ingested' => Ingested) /\ (Deleted' => Deleted)
      BY <1>0, <1>1, <2>1 DEF DaemonInv, OneOnRecord, PendingOf, QueryOf, Ingested, Deleted, postVars
    <2> QED BY <1>0, <1>1, <2>1, <2>2, GoesOn
  <1> QED BY <1>2, <1>3, <1>4 DEF Signal

\* Steps of post_with_retry that the server does not see.
LEMMA PostKeeps ==
  ASSUME DaemonInv, UNCHANGED daemonVars,
         Send \/ Wake \/ Success \/ AnswerLost \/ Refused \/ NotDelivered
  PROVE  DaemonInv'
  <1>0. /\ retry.max_attempts \in Nat /\ retry.max_backoff_ms \in Nat /\ attempt \in Nat /\ attempt >= 1
        /\ backoff_ms \in Nat
    BY InHand
  <1>1. /\ UNCHANGED <<index, retry, request, stragglers>> /\ phase # "idle" /\ phase' # "idle"
        /\ phase' \in {"send", "wait", "ok", "failed", "sleep"}
        /\ phase' = "wait" => attempt <= retry.max_attempts /\ attempt' = attempt
        /\ phase' = "sleep" => phase \in {"wait", "accepted"} /\ attempt' = attempt
        /\ phase' = "ok" => phase = "accepted"
        /\ \/ attempt' = attempt /\ backoff_ms' = backoff_ms
           \/ phase = "sleep" /\ attempt' = attempt + 1 /\ backoff_ms' = NextBackoff
    BY DEF Send, Wake, Success, AnswerLost, Refused, NotDelivered, AttemptsLeft
  <1>2. UNCHANGED <<pc, ret, filters, cursor, pending_deletes, snapshot, shutdown, crashes, overtaken, furthest>>
    BY DEF daemonVars
  <1>3. NextBackoff \in Nat
    BY <1>0 DEF NextBackoff
  <1>4. attempt' \in 1..retry.max_attempts + 1
    <2>1. attempt \in 1..retry.max_attempts + 1 /\ (phase = "sleep" => attempt <= retry.max_attempts)
      BY DEF DaemonInv, TypeOK, PostTypeOK, PostInHand
    <2> QED BY <1>0, <1>1, <2>1
  <1>5. PostTypeOK'
    BY <1>0, <1>1, <1>3, <1>4 DEF DaemonInv, TypeOK, PostTypeOK
  <1>6. PostInHand'
    <2>1. phase' \in {"wait", "accepted", "sleep"} => attempt' <= retry'.max_attempts
      BY <1>1 DEF DaemonInv, PostInHand
    <2> QED BY <1>1, <1>2, <2>1 DEF DaemonInv, PostInHand, IngestRequest, DeleteRequest, DocAt
  <1>7. OneOnRecord'
    BY <1>2 DEF DaemonInv, OneOnRecord, PendingOf, QueryOf
  <1>8. (Ingested' => Ingested) /\ (Deleted' => Deleted)
    BY <1>1, <1>2 DEF Ingested, Deleted
  <1>9. /\ pending_deletes' \in Seq(Pending) /\ snapshot' \in Seq(Pending) /\ ret' \in {"block", "commit"} /\ shutdown' \in BOOLEAN
        /\ pc' \in Labels
    BY <1>2 DEF DaemonInv, TypeOK
  <1> QED BY <1>1, <1>2, <1>5, <1>6, <1>7, <1>8, <1>9, LeftAlone

\* A POST begins, is reported as done, or is given up; a block begins.
LEMMA CallKeeps ==
  ASSUME DaemonInv,
         PostDocs \/ PostDelete \/ DocsPosted \/ DeletePosted \/ PostFailed \/ BeginBlock
  PROVE  DaemonInv'
  <1>0. /\ retry.initial_backoff_ms \in Nat /\ retry.max_attempts \in Nat /\ cursor \in Nat /\ cursor >= 1
        /\ LastBlock \in Nat
        /\ pc \in Labels
        /\ ret \in {"block", "commit"} /\ shutdown \in BOOLEAN
        /\ pending_deletes \in Seq(Pending) /\ snapshot \in Seq(Pending) /\ PostTypeOK
    BY InHand DEF DaemonInv, TypeOK
  <1>1. UNCHANGED <<index, retry, stragglers, filters, cursor, crashes, overtaken, furthest, shutdown>>
    BY DEF PostDocs, PostDelete, DocsPosted, DeletePosted, PostFailed, BeginBlock, post_with_retry,
           postVars, daemonVars, Goto
  <1>2. CASE PostDocs \/ PostDelete
    <2>1. /\ UNCHANGED <<pc, ret, pending_deletes, snapshot>> /\ phase = "idle" /\ phase' = "send"
          /\ attempt' = 1 /\ backoff_ms' = retry.initial_backoff_ms
          /\ \/ pc = "ingest" /\ request' = IngestRequest(cursor)
             \/ /\ pc = "drain" /\ snapshot # <<>> /\ snapshot = pending_deletes
                /\ request' = DeleteRequest(Head(snapshot))
      BY <1>2 DEF PostDocs, PostDelete, post_with_retry, daemonVars, DaemonInv, OneOnRecord
    <2>2. request' \in Request
      <3>1. cursor \in 1..LastBlock
        BY <1>0, <2>1 DEF DaemonInv, OneOnRecord
      <3>2. pending_deletes # <<>> => Head(pending_deletes) = PendingOf(cursor)
        <4>1. pending_deletes # <<>> => pending_deletes = <<PendingOf(cursor)>>
          BY DEF DaemonInv, OneOnRecord
        <4> QED BY <4>1
      <3> QED BY <2>1, <3>1, <3>2, CallTypes
    <2>3. PostTypeOK'
      BY <1>0, <1>1, <2>1, <2>2 DEF PostTypeOK
    <2>4. PostInHand'
      BY <1>1, <2>1 DEF PostInHand, IngestRequest, DeleteRequest, DocAt
    <2>5. OneOnRecord'
      BY <1>1, <2>1 DEF DaemonInv, OneOnRecord, PendingOf, QueryOf
    <2>6. (Ingested' => Ingested) /\ (Deleted' => Deleted)
      BY <2>1 DEF Ingested, Deleted
    <2> QED BY <1>0, <1>1, <2>1, <2>3, <2>4, <2>5, <2>6, LeftAlone
  <1>3. ASSUME phase' = "idle", UNCHANGED <<request, attempt, backoff_ms>> PROVE PostTypeOK' /\ PostInHand'
    BY <1>0, <1>1, <1>3 DEF PostTypeOK, PostInHand
  <1>4. CASE DocsPosted \/ BeginBlock
    <2>1. cursor \in 1..LastBlock /\ pending_deletes = <<>>
      BY <1>0, <1>4 DEF DocsPosted, BeginBlock, DaemonInv, OneOnRecord
    <2>2. /\ phase' = "idle" /\ UNCHANGED <<request, attempt, backoff_ms>>
          /\ \/ /\ pending_deletes' = Append(pending_deletes, PendingOf(cursor))
                /\ snapshot' = pending_deletes' /\ pc' = "drain" /\ ret' = "commit"
             \/ /\ pc' = "ingest" /\ ret' = ret /\ pending_deletes' = pending_deletes
                /\ snapshot' = <<>> /\ filters[cursor] = "in"
      <3>1. pc = "block" => phase = "idle" /\ snapshot = <<>>
        BY InHand DEF DaemonInv, OneOnRecord
      <3> QED BY <1>4, <3>1 DEF DocsPosted, BeginBlock, Goto, postVars
    <2>3. pending_deletes' = <<PendingOf(cursor)>> \/ (pending_deletes' = <<>> /\ pc' = "ingest")
      BY <2>1, <2>2
    <2>4. PendingOf(cursor) \in Pending
      BY <2>1, CallTypes
    <2>5. pending_deletes' \in Seq(Pending)
      <3> DEFINE row == PendingOf(cursor)
      <3>1. row \in Pending
        BY <2>4
      <3> HIDE DEF row
      <3>2. <<row>> \in Seq(Pending)
        BY <3>1
      <3>3. <<>> \in Seq(Pending)
        OBVIOUS
      <3> QED BY <2>3, <3>2, <3>3 DEF row
    <2>6. OneOnRecord'
      BY <1>0, <1>1, <2>1, <2>2, <2>3 DEF OneOnRecord, PendingOf, QueryOf
    <2>7. filters[cursor] = "in" /\ Ingested' => Ingested
      <3>1. CASE DocsPosted
        BY <3>1 DEF DocsPosted, Ingested
      <3>2. CASE BeginBlock
        <4>1. filters[cursor] = "in" => pc' = "ingest"
          BY <3>2 DEF BeginBlock, Goto
        <4> QED BY <2>2, <4>1 DEF Ingested
      <3> QED BY <1>4, <3>1, <3>2
    <2>8. ~Deleted'
      BY <2>2, <2>3 DEF Deleted
    <2>9. pc' \in Labels /\ ret' \in {"block", "commit"}
      BY <1>0, <2>2 DEF Labels
    <2>10. snapshot' \in Seq(Pending)
      <3>1. snapshot' = pending_deletes' \/ snapshot' = <<>>
        BY <2>2
      <3>2. <<>> \in Seq(Pending)
        OBVIOUS
      <3> QED BY <2>5, <3>1, <3>2
    <2> QED BY <1>0, <1>1, <1>3, <2>2, <2>5, <2>6, <2>7, <2>8, <2>9, <2>10, LeftAlone
  <1>5. CASE DeletePosted
    <2>1. /\ UNCHANGED <<request, attempt, backoff_ms, pc, ret>> /\ pc = "drain" /\ phase = "ok"
          /\ phase' = "idle" /\ pending_deletes' = Tail(pending_deletes) /\ snapshot' = Tail(snapshot)
      BY <1>5 DEF DeletePosted, DeleteIsOver
    <2>2. pending_deletes' = <<>> /\ snapshot' = <<>>
      <3>1. pending_deletes = <<PendingOf(cursor)>> /\ snapshot = pending_deletes
        BY <2>1, InHand DEF DaemonInv, OneOnRecord
      <3> QED BY <2>1, <3>1
    <2>3. OneOnRecord'
      BY <1>1, <2>1, <2>2 DEF DaemonInv, OneOnRecord
    <2>4. (Ingested' => Ingested) /\ (Deleted' => Deleted)
      BY <2>1 DEF Ingested, Deleted
    <2>5. pending_deletes' \in Seq(Pending) /\ snapshot' \in Seq(Pending)
      BY <2>2
    <2> QED BY <1>0, <1>1, <1>3, <2>1, <2>3, <2>4, <2>5, LeftAlone
  <1>6. CASE PostFailed
    <2>1. /\ UNCHANGED <<request, attempt, backoff_ms, ret, pending_deletes>> /\ pc' = "sleep"
          /\ phase' = "idle" /\ snapshot' = <<>>
      BY <1>6 DEF PostFailed, AfterFailure
    <2>2. OneOnRecord' /\ ~Ingested' /\ ~Deleted' /\ pc' \in Labels /\ snapshot' \in Seq(Pending)
      BY <1>1, <2>1 DEF DaemonInv, OneOnRecord, PendingOf, QueryOf, Ingested, Deleted, Labels
    <2> QED BY <1>0, <1>1, <1>3, <2>1, <2>2, LeftAlone
  <1> QED BY <1>2, <1>4, <1>5, <1>6


\* The cursor passes a block.
LEMMA CommitKeeps == DaemonInv /\ Commit => DaemonInv'
  <1> SUFFICES ASSUME DaemonInv, Commit PROVE DaemonInv'
    OBVIOUS
  <1>0. /\ cursor \in Nat /\ cursor >= 1 /\ furthest \in Nat /\ cursor <= furthest /\ furthest <= LastBlock + 1
        /\ LastBlock \in Nat /\ cursor <= LastBlock /\ pending_deletes = <<>> /\ snapshot = <<>>
        /\ phase = "idle"
    BY InHand DEF Commit, DaemonInv, OneOnRecord
  <1>1. /\ UNCHANGED <<index, postVars, ret, filters, pending_deletes, snapshot, shutdown, crashes, overtaken>>
        /\ cursor' = cursor + 1 /\ pc' \in {"block", "top"} /\ pc' \in Labels
    BY DEF Commit, Labels
  <1>2. furthest' \in Nat /\ furthest' >= furthest /\ furthest' >= cursor' /\ furthest' <= LastBlock + 1
    BY <1>0 DEF Commit
  <1>3. TypeOK'
    <2>1. PostTypeOK'
      BY <1>1 DEF DaemonInv, TypeOK, PostTypeOK, postVars
    <2>2. cursor' \in 1..LastBlock + 1 /\ furthest' \in cursor'..LastBlock + 1
      BY <1>0, <1>1, <1>2
    <2> QED BY <1>1, <2>1, <2>2 DEF DaemonInv, TypeOK
  <1>4. PostInHand' /\ OneOnRecord'
    BY <1>0, <1>1 DEF PostInHand, OneOnRecord, postVars
  <1>5. OnlyReached'
    <2>1. \A r, b : CalledFor(r, b)' = CalledFor(r, b)
      BY <1>1 DEF CalledFor, IngestRequest, DeleteRequest, PendingOf, QueryOf, DocAt
    <2>2. \A b \in 1..LastBlock : b <= furthest => b <= furthest'
      BY <1>0, <1>2
    <2>3. stragglers' = stragglers
      BY <1>1 DEF postVars
    <2> QED BY <1>1, <2>1, <2>2, <2>3 DEF DaemonInv, OnlyReached, DocAt
  <1>6. BlockSoFar'
    BY <1>1 DEF BlockSoFar, Ingested, Deleted
  <1> QED BY <1>3, <1>4, <1>5, <1>6 DEF DaemonInv

\* The wire holds one more copy of a request that the block at the cursor calls for, or not.
LEMMA OnTheWire ==
  ASSUME DaemonInv, phase = "wait", UNCHANGED <<index, filters, furthest>>,
         Straggling(request) \/ UNCHANGED stragglers
  PROVE  OnlyReached' /\ stragglers' \in [Request -> 0..MaxStragglers]
  <1>0. /\ cursor \in 1..LastBlock /\ cursor <= furthest /\ CalledFor(request, cursor)
        /\ request \in Request /\ stragglers \in [Request -> 0..MaxStragglers] /\ MaxStragglers \in Nat
    BY InHand, PostAssumption DEF DaemonInv, TypeOK, PostTypeOK
  <1>1. \A r, b : CalledFor(r, b)' = CalledFor(r, b)
    BY DEF CalledFor, IngestRequest, DeleteRequest, PendingOf, QueryOf, DocAt
  <1>2. \A r \in Request : stragglers'[r] > 0 => stragglers[r] > 0 \/ r = request
    BY <1>0 DEF Straggling
  <1>3. stragglers' \in [Request -> 0..MaxStragglers]
    BY <1>0 DEF Straggling
  <1>4. \A r \in Request :
          stragglers'[r] > 0 => \E b \in 1..LastBlock : b <= furthest /\ CalledFor(r, b)
    BY <1>0, <1>2 DEF DaemonInv, OnlyReached
  <1> QED BY <1>1, <1>3, <1>4 DEF DaemonInv, OnlyReached, DocAt

\* An attempt times out, and its request is on its way.
LEMMA TimedOutKeeps == DaemonInv /\ TimedOut /\ UNCHANGED daemonVars => DaemonInv'
  <1> SUFFICES ASSUME DaemonInv, TimedOut, UNCHANGED daemonVars PROVE DaemonInv'
    OBVIOUS
  <1>1. /\ UNCHANGED <<index, retry, request, attempt, backoff_ms>> /\ phase = "wait" /\ phase' = "sleep"
        /\ Straggling(request)
    BY DEF TimedOut
  <1>2. UNCHANGED <<pc, ret, filters, cursor, pending_deletes, snapshot, shutdown, crashes, overtaken, furthest>>
    BY DEF daemonVars
  <1>3. OnlyReached' /\ stragglers' \in [Request -> 0..MaxStragglers]
    BY <1>1, <1>2, OnTheWire
  <1>4. TypeOK'
    <2>1. PostTypeOK'
      BY <1>1, <1>3 DEF DaemonInv, TypeOK, PostTypeOK
    <2> QED BY <1>1, <1>2, <2>1 DEF DaemonInv, TypeOK, DocAt
  <1>5. PostInHand'
    BY <1>1, <1>2 DEF DaemonInv, PostInHand, IngestRequest, DeleteRequest, DocAt
  <1>6. OneOnRecord'
    BY <1>2 DEF DaemonInv, OneOnRecord, PendingOf, QueryOf
  <1>7. BlockSoFar'
    <2>1. (Ingested' => Ingested) /\ (Deleted' => Deleted)
      BY <1>1, <1>2 DEF Ingested, Deleted
    <2> QED BY <1>1, <1>2, <2>1 DEF DaemonInv, BlockSoFar, DocAt
  <1> QED BY <1>3, <1>4, <1>5, <1>6, <1>7 DEF DaemonInv

\* The server carries out the request that the client waits for.
LEMMA AcceptedKeeps == DaemonInv /\ Accepted /\ UNCHANGED daemonVars => DaemonInv'
  <1> SUFFICES ASSUME DaemonInv, Accepted, UNCHANGED daemonVars PROVE DaemonInv'
    OBVIOUS
  <1>1. /\ UNCHANGED <<retry, request, attempt, backoff_ms, stragglers>> /\ phase = "wait"
        /\ phase' = "accepted" /\ Takes(request)
    BY DEF Accepted
  <1>2. UNCHANGED <<pc, ret, filters, cursor, pending_deletes, snapshot, shutdown, crashes, overtaken, furthest>>
    BY DEF daemonVars
  <1>3. /\ cursor \in 1..LastBlock /\ cursor <= furthest /\ CalledFor(request, cursor)
        /\ pc \in {"ingest", "drain"} /\ (pc = "ingest" => request = IngestRequest(cursor))
        /\ (pc = "drain" => request = DeleteRequest(PendingOf(cursor)))
        /\ LastBlock \in Nat /\ cursor \in Nat
    BY <1>1, InHand
  <1>4. /\ index' \subseteq {DocAt(c) : c \in 1..LastBlock}
        /\ \A c \in 1..LastBlock : DocAt(c) \in index' => c <= furthest /\ filters[c] = "in"
        /\ (DocAt(cursor) \in index /\ filters[cursor] = "in" => DocAt(cursor) \in index')
        /\ (pc = "ingest" => DocAt(cursor) \in index')
        /\ (pc = "drain" =>
              \A c \in 1..LastBlock : DocAt(c) \in index' => filters[cursor] = "in" /\ ~(c < cursor))
    BY <1>1, <1>3, CarriedOut DEF DaemonInv
  <1>5. TypeOK'
    <2>1. PostTypeOK'
      BY <1>1 DEF DaemonInv, TypeOK, PostTypeOK
    <2> QED BY <1>2, <1>4, <2>1 DEF DaemonInv, TypeOK, DocAt
  <1>6. PostInHand'
    BY <1>1, <1>2 DEF DaemonInv, PostInHand, IngestRequest, DeleteRequest, DocAt
  <1>7. OneOnRecord'
    BY <1>2 DEF DaemonInv, OneOnRecord, PendingOf, QueryOf
  <1>8. OnlyReached'
    <2>1. \A r, b : CalledFor(r, b)' = CalledFor(r, b)
      BY <1>2 DEF CalledFor, IngestRequest, DeleteRequest, PendingOf, QueryOf, DocAt
    <2> QED BY <1>1, <1>2, <1>4, <2>1 DEF DaemonInv, OnlyReached, DocAt
  <1>9. BlockSoFar'
    <2> SUFFICES ASSUME cursor = furthest, ~overtaken
                 PROVE  /\ Ingested' /\ filters[cursor] = "in" => DocAt(cursor) \in index'
                        /\ Deleted' => index' \subseteq (IF filters[cursor] = "in" THEN {DocAt(cursor)} ELSE {})
      BY <1>2 DEF BlockSoFar, DocAt
    <2>1. ASSUME Ingested', filters[cursor] = "in" PROVE DocAt(cursor) \in index'
      <3>1. CASE pc = "drain"
        <4>1. Ingested
          BY <1>1, <1>2, <2>1, <3>1 DEF Ingested
        <4> QED BY <1>4, <2>1, <4>1 DEF DaemonInv, BlockSoFar
      <3> QED BY <1>3, <1>4, <3>1
    <2>2. ASSUME Deleted', NEW d \in index' PROVE filters[cursor] = "in" /\ d = DocAt(cursor)
      <3>1. pc = "drain"
        BY <1>2, <1>3, <2>2 DEF Deleted
      <3>2. PICK c \in 1..LastBlock : d = DocAt(c)
        BY <1>4, <2>2
      <3>3. c <= cursor /\ filters[cursor] = "in" /\ ~(c < cursor)
        BY <1>4, <2>2, <3>1, <3>2
      <3>4. c = cursor
        BY <1>3, <3>3
      <3> QED BY <3>2, <3>3, <3>4
    <2> QED BY <2>1, <2>2
  <1> QED BY <1>5, <1>6, <1>7, <1>8, <1>9 DEF DaemonInv


\* The process dies, or the machine: the store is as it is, or as it was.
LEMMA DiesKeeps == DaemonInv /\ (Crash \/ PowerLoss) => DaemonInv'
  <1> SUFFICES ASSUME DaemonInv, Crash \/ PowerLoss PROVE DaemonInv'
    OBVIOUS
  <1>0. /\ cursor \in Nat /\ cursor >= 1 /\ furthest \in Nat /\ cursor <= furthest /\ furthest <= LastBlock + 1
        /\ LastBlock \in Nat /\ MaxCrashes \in Nat /\ crashes \in 0..MaxCrashes
        /\ pending_deletes \in Seq(Pending) /\ (pc = "commit" => cursor <= LastBlock)
        /\ (pending_deletes # <<>> => cursor <= LastBlock /\ pending_deletes = <<PendingOf(cursor)>>)
    BY InHand, BoundsAssumption DEF DaemonInv, TypeOK, OneOnRecord
  <1>1. /\ UNCHANGED <<index, retry, request, attempt, backoff_ms, ret, filters, shutdown, overtaken, furthest>>
        /\ crashes < MaxCrashes /\ crashes' = crashes + 1 /\ pc' = "failed" /\ phase' = "idle"
        /\ pc' \in Labels /\ snapshot' = <<>>
        /\ (phase = "wait" /\ Straggling(request)) \/ UNCHANGED stragglers
    BY DEF Crash, PowerLoss, Dies, Labels, Down
  <1>2. cursor' \in Nat /\ cursor' >= 1 /\ cursor' <= cursor
    BY <1>0 DEF Crash, PowerLoss
  <1>3. \/ pending_deletes' = <<>>
        \/ pending_deletes' = pending_deletes /\ cursor' = cursor
        \/ cursor' <= LastBlock /\ pending_deletes' = <<PendingOf(cursor')>>
    BY <1>0, <1>2 DEF Crash, PowerLoss
  <1>4. /\ pending_deletes' \in Seq(Pending)
        /\ pending_deletes' # <<>> => cursor' <= LastBlock /\ pending_deletes' = <<PendingOf(cursor')>>
    <2>1. CASE pending_deletes' = <<>>
      BY <2>1
    <2>2. CASE pending_deletes' = pending_deletes /\ cursor' = cursor
      BY <1>0, <2>2
    <2>3. CASE cursor' <= LastBlock /\ pending_deletes' = <<PendingOf(cursor')>>
      <3> DEFINE row == PendingOf(cursor')
      <3>1. cursor' \in 1..LastBlock
        BY <1>0, <1>2, <2>3
      <3>2. row \in Pending
        BY <3>1, CallTypes
      <3> HIDE DEF row
      <3>3. <<row>> \in Seq(Pending)
        BY <3>2
      <3> QED BY <2>3, <3>3 DEF row
    <2> QED BY <1>3, <2>1, <2>2, <2>3
  <1>5. OnlyReached' /\ stragglers' \in [Request -> 0..MaxStragglers]
    <2>1. CASE phase = "wait"
      BY <1>1, <2>1, OnTheWire
    <2>2. CASE phase # "wait"
      <3>1. stragglers' = stragglers
        BY <1>1, <2>2
      <3>2. \A r, b : CalledFor(r, b)' = CalledFor(r, b)
        BY <1>1 DEF CalledFor, IngestRequest, DeleteRequest, PendingOf, QueryOf, DocAt
      <3> QED BY <1>1, <3>1, <3>2 DEF DaemonInv, TypeOK, PostTypeOK, OnlyReached, DocAt
    <2> QED BY <2>1, <2>2
  <1>6. TypeOK'
    <2>1. PostTypeOK'
      BY <1>1, <1>5 DEF DaemonInv, TypeOK, PostTypeOK
    <2>2. cursor' \in 1..LastBlock + 1 /\ furthest' \in cursor'..LastBlock + 1 /\ crashes' \in 0..MaxCrashes
      BY <1>0, <1>1, <1>2
    <2> QED BY <1>1, <1>4, <2>1, <2>2 DEF DaemonInv, TypeOK, DocAt
  <1>7. PostInHand' /\ BlockSoFar'
    BY <1>1 DEF PostInHand, BlockSoFar, Ingested, Deleted
  <1>8. OneOnRecord'
    <2>1. PendingOf(cursor)' = PendingOf(cursor')
      BY <1>1 DEF PendingOf, QueryOf
    <2> QED BY <1>1, <1>4, <2>1 DEF OneOnRecord
  <1> QED BY <1>5, <1>6, <1>7, <1>8 DEF DaemonInv

\* A request that had timed out is carried out after all, or never is.
LEMMA StragglerKeeps == DaemonInv /\ (StragglerLands \/ StragglerLost) => DaemonInv'
  <1> SUFFICES ASSUME DaemonInv, StragglerLands \/ StragglerLost PROVE DaemonInv'
    OBVIOUS
  <1>0. /\ stragglers \in [Request -> 0..MaxStragglers] /\ MaxStragglers \in Nat
        /\ cursor \in Nat /\ furthest \in Nat /\ cursor <= furthest /\ LastBlock \in Nat
        /\ index \subseteq {DocAt(c) : c \in 1..LastBlock} /\ overtaken \in BOOLEAN
    BY InHand, PostAssumption DEF DaemonInv, TypeOK, PostTypeOK
  <1>1. PICK r \in Request :
          /\ stragglers[r] > 0 /\ stragglers' = [stragglers EXCEPT ![r] = @ - 1]
          /\ UNCHANGED <<retry, request, phase, attempt, backoff_ms>>
          /\ \/ Takes(r) /\ overtaken' = (overtaken \/ (r.block < cursor /\ index' # index))
             \/ UNCHANGED <<index, overtaken>>
    BY DEF StragglerLands, StragglerLost, Lands, IsLost, daemonVars
  <1>2. UNCHANGED <<pc, ret, filters, cursor, pending_deletes, snapshot, shutdown, crashes, furthest>>
    BY DEF StragglerLands, StragglerLost, daemonVars
  <1>3. PICK b \in 1..LastBlock : b <= furthest /\ CalledFor(r, b)
    BY <1>1 DEF DaemonInv, OnlyReached
  <1>4. r.block = b
    BY <1>3, CallTypes
  <1>5. \A s, c : CalledFor(s, c)' = CalledFor(s, c)
    BY <1>2 DEF CalledFor, IngestRequest, DeleteRequest, PendingOf, QueryOf, DocAt
  <1>6. /\ index' \subseteq {DocAt(c) : c \in 1..LastBlock}
        /\ \A c \in 1..LastBlock : DocAt(c) \in index' => c <= furthest /\ filters[c] = "in"
        /\ (DocAt(b) \in index /\ filters[b] = "in" => DocAt(b) \in index')
        /\ index' \subseteq index \/ (filters[b] = "in" /\ index' \subseteq index \cup {DocAt(b)})
    <2>1. CASE Takes(r)
      BY <1>3, <2>1, CarriedOut DEF DaemonInv, CalledFor
    <2>2. CASE index' = index
      BY <1>0, <2>2 DEF DaemonInv, OnlyReached
    <2> QED BY <1>1, <2>1, <2>2
  <1>7. stragglers' \in [Request -> 0..MaxStragglers] /\ \A s \in Request : stragglers'[s] > 0 => stragglers[s] > 0
    BY <1>0, <1>1
  <1>8. TypeOK'
    <2>1. PostTypeOK'
      BY <1>1, <1>7 DEF DaemonInv, TypeOK, PostTypeOK
    <2>2. overtaken' \in BOOLEAN
      BY <1>0, <1>1
    <2> QED BY <1>2, <1>6, <2>1, <2>2 DEF DaemonInv, TypeOK, DocAt
  <1>9. PostInHand' /\ OneOnRecord'
    BY <1>1, <1>2 DEF DaemonInv, PostInHand, OneOnRecord, IngestRequest, DeleteRequest, PendingOf, QueryOf, DocAt
  <1>10. OnlyReached'
    BY <1>2, <1>5, <1>6, <1>7 DEF DaemonInv, OnlyReached, DocAt
  <1>11. BlockSoFar'
    <2> SUFFICES ASSUME cursor = furthest, ~overtaken'
                 PROVE  /\ Ingested /\ filters[cursor] = "in" => DocAt(cursor) \in index'
                        /\ Deleted => index' \subseteq (IF filters[cursor] = "in" THEN {DocAt(cursor)} ELSE {})
      BY <1>1, <1>2 DEF BlockSoFar, Ingested, Deleted, DocAt
    <2>1. ~overtaken /\ (index' = index \/ ~(b < cursor))
      <3>1. CASE Takes(r) /\ overtaken' = (overtaken \/ (r.block < cursor /\ index' # index))
        <4>1. ~(overtaken \/ (r.block < cursor /\ index' # index))
          BY <3>1
        <4> QED BY <1>4, <4>1
      <3>2. CASE UNCHANGED <<index, overtaken>>
        BY <3>2
      <3> QED BY <1>1, <3>1, <3>2
    <2>2. index' = index \/ b = cursor
      BY <1>0, <1>3, <2>1
    <2>3. /\ Ingested /\ filters[cursor] = "in" => DocAt(cursor) \in index
          /\ Deleted => index \subseteq (IF filters[cursor] = "in" THEN {DocAt(cursor)} ELSE {})
      BY <2>1 DEF DaemonInv, BlockSoFar
    <2> QED BY <1>6, <2>2, <2>3
  <1> QED BY <1>8, <1>9, <1>10, <1>11 DEF DaemonInv

-----------------------------------------------------------------------------
(* The theorems.                                                             *)

\* Every step keeps it.
LEMMA DaemonStep == DaemonInv /\ [Next]_vars => DaemonInv'
  <1> SUFFICES ASSUME DaemonInv, [Next]_vars PROVE DaemonInv'
    OBVIOUS
  <1>1. CASE Loop
    BY <1>1, LoopKeeps, CallKeeps, CommitKeeps DEF Loop
  <1>2. CASE Posting
    BY <1>2, PostKeeps, AcceptedKeeps DEF Posting, PostWorks
  <1>3. CASE Faults
    BY <1>3, LoopKeeps, PostKeeps, TimedOutKeeps, DiesKeeps DEF Faults, PostFaults
  <1>4. CASE Outside
    BY <1>4, LoopKeeps, StragglerKeeps DEF Outside
  <1>5. CASE Unit \/ Start
    BY <1>5, LoopKeeps
  <1>6. CASE UNCHANGED vars
    <2>1. OneOnRecord' /\ (Ingested' => Ingested) /\ (Deleted' => Deleted)
      BY <1>6 DEF vars, postVars, daemonVars, DaemonInv, OneOnRecord, PendingOf, QueryOf, Ingested, Deleted
    <2>2. /\ pc \in Labels
          /\ ret \in {"block", "commit"} /\ shutdown \in BOOLEAN
      BY DEF DaemonInv, TypeOK
    <2>3. /\ UNCHANGED <<index, postVars, filters, cursor, pending_deletes, crashes, overtaken, furthest>>
          /\ UNCHANGED <<pc, ret, snapshot>> /\ shutdown' = shutdown
      BY <1>6 DEF vars, daemonVars
    <2> QED BY <2>1, <2>2, <2>3, GoesOn
  <1> QED BY <1>1, <1>2, <1>3, <1>4, <1>5, <1>6 DEF Next

\* At most one delete is on record, for the block at the cursor; what is on the wire and
\* in the index comes from blocks the cursor reached; and what the block at the cursor has
\* of its POSTs is in the index (process_block, flush_pending_deletes, post_with_retry).
THEOREM DaemonCorrect == Spec => []DaemonInv
  <1> QED BY DaemonInit, DaemonStep, PTL DEF Spec

\* The variables keep their types: the queue of deletes, the attempts of a POST within the
\* retry section, the cursor within the range and never above the highest it had.
THEOREM DaemonTypeCorrect == Spec => []TypeOK
  <1>1. DaemonInv => TypeOK
    BY DEF DaemonInv
  <1> QED BY <1>1, DaemonCorrect, PTL

\* A block that process_block passes is done, whatever was retried, carried out twice, late
\* or never, and whatever a power loss took back of the store: the index holds its document
\* and no older one, or nothing, unless a late request of a passed block changed the index.
THEOREM PassedIsDone == Spec => []BlockIsDone
  <1>1. ASSUME DaemonInv PROVE BlockIsDone
    <2> SUFFICES ASSUME pc = "commit", cursor = furthest, ~overtaken
                 PROVE  index = IF filters[cursor] = "in" THEN {DocAt(cursor)} ELSE {}
      BY DEF BlockIsDone
    <2>1. Ingested /\ Deleted
      BY DEF Ingested, Deleted
    <2> QED BY <1>1, <2>1 DEF DaemonInv, BlockSoFar
  <1> QED BY <1>1, DaemonCorrect, PTL


-----------------------------------------------------------------------------
(* The backoff.                                                              *)

\* A set of numbers that is not empty has a least one.
LEMMA Least ==
  ASSUME NEW S \in SUBSET Nat, S # {}
  PROVE  \E m \in S : \A x \in S : ~(x < m)
  <1>1. PICK m \in S : \A x \in S : ~ (<<x, m>> \in OpToRel(<, Nat))
    BY NatLessThanWellFounded, WFMin
  <1> QED BY <1>1 DEF OpToRel

\* The doublings up to n, as a function.
Doubles(n, h) ==
  /\ h \in [0..n -> Nat]
  /\ h[0] = 1
  /\ \A i \in 1..n : h[i] = 2 * h[i - 1]

LEMMA DoublesExist ==
  ASSUME NEW n \in Nat
  PROVE  \E h : Doubles(n, h)
  <1> DEFINE S == {m \in Nat : ~ \E h : Doubles(m, h)}
  <1> SUFFICES ASSUME S # {} PROVE FALSE
    OBVIOUS
  <1>1. PICK m \in S : \A x \in S : ~(x < m)
    <2>1. S \in SUBSET Nat
      OBVIOUS
    <2> HIDE DEF S
    <2> QED BY <2>1, Least
  <1>2. CASE m = 0
    <2>1. Doubles(0, [i \in 0..0 |-> 1])
      BY DEF Doubles
    <2> QED BY <1>2, <2>1
  <1>3. CASE m # 0
    <2>1. m \in Nat /\ m - 1 \in Nat /\ m - 1 < m
      BY <1>3
    <2>2. PICK h : Doubles(m - 1, h)
      BY <1>1, <2>1
    <2> DEFINE g == [i \in 0..m |-> IF i = m THEN 2 * h[m - 1] ELSE h[i]]
    <2>3. h \in [0..m - 1 -> Nat] /\ h[0] = 1 /\ \A i \in 1..m - 1 : h[i] = 2 * h[i - 1]
      BY <2>2 DEF Doubles
    <2>4. g \in [0..m -> Nat] /\ g[0] = 1
      BY <1>3, <2>1, <2>3
    <2>5. ASSUME NEW i \in 1..m PROVE g[i] = 2 * g[i - 1]
      <3>1. i - 1 \in 0..m - 1 /\ g[i - 1] = h[i - 1]
        BY <2>1
      <3>2. CASE i = m
        BY <2>1, <3>1, <3>2
      <3>3. CASE i # m
        <4>1. i \in 1..m - 1 /\ g[i] = h[i]
          BY <2>1, <3>3
        <4> QED BY <2>3, <3>1, <4>1
      <3> QED BY <3>2, <3>3
    <2> HIDE DEF g
    <2>6. Doubles(m, g)
      BY <2>4, <2>5 DEF Doubles
    <2> QED BY <2>6
  <1> QED BY <1>2, <1>3

LEMMA DoublesAgree ==
  ASSUME NEW n \in Nat, NEW m \in Nat, NEW h, NEW g, Doubles(n, h), Doubles(m, g),
         NEW i \in Nat, i <= n, i <= m
  PROVE  h[i] = g[i]
  <1> DEFINE S == {j \in Nat : j <= n /\ j <= m /\ h[j] # g[j]}
  <1> SUFFICES ASSUME S # {} PROVE FALSE
    OBVIOUS
  <1>1. PICK j \in S : \A x \in S : ~(x < j)
    <2>1. S \in SUBSET Nat
      OBVIOUS
    <2> HIDE DEF S
    <2> QED BY <2>1, Least
  <1>2. CASE j = 0
    BY <1>2 DEF Doubles
  <1>3. CASE j # 0
    <2>1. j - 1 \in Nat /\ j - 1 < j /\ j - 1 <= n /\ j - 1 <= m /\ j \in 1..n /\ j \in 1..m
      BY <1>3
    <2>2. h[j - 1] = g[j - 1]
      BY <1>1, <2>1
    <2> QED BY <2>1, <2>2 DEF Doubles
  <1> QED BY <1>2, <1>3

\* PowerOfTwo is what its definition says.
LEMMA PowerUnfolds ==
  /\ PowerOfTwo[0] = 1
  /\ \A n \in Nat : PowerOfTwo[n] \in Nat /\ PowerOfTwo[n + 1] = 2 * PowerOfTwo[n]
  <1> DEFINE H(n) == CHOOSE h : Doubles(n, h)
             f == [n \in Nat |-> H(n)[n]]
             Unfold(g) == [n \in Nat |-> IF n = 0 THEN 1 ELSE 2 * g[n - 1]]
  <1>1. \A n \in Nat : Doubles(n, H(n))
    BY DoublesExist
  <1> HIDE DEF H
  <1>2. \A n \in Nat : f[n] \in Nat
    BY <1>1 DEF Doubles
  <1>3. f[0] = 1
    BY <1>1 DEF Doubles
  <1>4. ASSUME NEW n \in Nat, n # 0 PROVE f[n] = 2 * f[n - 1]
    <2>1. n - 1 \in Nat /\ n \in 1..n /\ n - 1 <= n
      BY <1>4
    <2>2. H(n)[n] = 2 * H(n)[n - 1]
      BY <1>1, <2>1 DEF Doubles
    <2>3. H(n)[n - 1] = H(n - 1)[n - 1]
      BY <1>1, <2>1, DoublesAgree
    <2> QED BY <2>1, <2>2, <2>3
  <1>5. f = Unfold(f)
    <2>1. \A n \in Nat : f[n] = IF n = 0 THEN 1 ELSE 2 * f[n - 1]
      BY <1>3, <1>4
    <2> DEFINE e(n) == IF n = 0 THEN 1 ELSE 2 * f[n - 1]
    <2>2. f = [n \in Nat |-> f[n]]
      OBVIOUS
    <2> HIDE DEF f
    <2> QED BY <2>1, <2>2
  <1> HIDE DEF f
  <1>6. PowerOfTwo = Unfold(PowerOfTwo)
    BY <1>5 DEF PowerOfTwo
  <1>7. \A n \in Nat : PowerOfTwo[n] = IF n = 0 THEN 1 ELSE 2 * PowerOfTwo[n - 1]
    <2> DEFINE p == PowerOfTwo
    <2>1. p = Unfold(p)
      BY <1>6
    <2> HIDE DEF p
    <2>2. \A n \in Nat : Unfold(p)[n] = IF n = 0 THEN 1 ELSE 2 * p[n - 1]
      OBVIOUS
    <2>3. \A n \in Nat : p[n] = IF n = 0 THEN 1 ELSE 2 * p[n - 1]
      BY <2>1, <2>2
    <2> QED BY <2>3 DEF p
  <1>8. \A n \in Nat : PowerOfTwo[n + 1] = 2 * PowerOfTwo[n]
    BY <1>7
  <1>9. ASSUME NEW n \in Nat PROVE PowerOfTwo[n] \in Nat
    <2> DEFINE p == PowerOfTwo
               S == {j \in Nat : p[j] \notin Nat}
    <2>1. \A j \in Nat : p[j] = IF j = 0 THEN 1 ELSE 2 * p[j - 1]
      BY <1>7
    <2> HIDE DEF p
    <2> SUFFICES ASSUME S # {} PROVE FALSE
      BY DEF p
    <2>2. PICK j \in S : \A x \in S : ~(x < j)
      <3>1. S \in SUBSET Nat
        OBVIOUS
      <3> HIDE DEF S
      <3> QED BY <3>1, Least
    <2>3. CASE j = 0
      BY <2>1, <2>3
    <2>4. CASE j # 0
      <3>1. j - 1 \in Nat /\ j - 1 < j
        BY <2>4
      <3>2. p[j - 1] \in Nat
        BY <2>2, <3>1
      <3> QED BY <2>1, <2>4, <3>1, <3>2
    <2> QED BY <2>3, <2>4
  <1> QED BY <1>7, <1>8, <1>9


\* A sleep doubles until it reaches the maximum.
LEMMA WakeDoubles ==
  ASSUME DaemonInv, BackoffIsCapped, Wake
  PROVE  BackoffIsCapped'
  <1> DEFINE init == retry.initial_backoff_ms  max == retry.max_backoff_ms
             p == PowerOfTwo[attempt - 1]
  <1>0. init \in Nat /\ max \in Nat /\ attempt \in Nat /\ attempt >= 1 /\ backoff_ms \in Nat
    BY InHand
  <1>1. p \in Nat /\ PowerOfTwo[attempt] = 2 * p /\ (attempt = 1 => p = 1)
    <2>1. attempt - 1 \in Nat /\ (attempt - 1) + 1 = attempt
      BY <1>0
    <2> QED BY <2>1, PowerUnfolds
  <1>2. attempt' = attempt + 1 /\ retry' = retry /\ phase # "idle"
        /\ backoff_ms' = IF 2 * backoff_ms < max THEN 2 * backoff_ms ELSE max
    BY DEF Wake, NextBackoff
  <1>3. backoff_ms = IF attempt = 1 \/ init * p < max THEN init * p ELSE max
    BY <1>2 DEF BackoffIsCapped
  <1>4. PowerOfTwo[attempt' - 1] = 2 * p /\ attempt' # 1
    BY <1>0, <1>1, <1>2
  <1> HIDE DEF init, max, p
  <1>5. init * p \in Nat /\ init * (2 * p) = 2 * (init * p)
    BY <1>0, <1>1
  <1>6. backoff_ms' = IF 2 * (init * p) < max THEN 2 * (init * p) ELSE max
    <2> DEFINE d == init * p
    <2>1. d \in Nat
      BY <1>5
    <2> HIDE DEF d
    <2>2. backoff_ms = (IF attempt = 1 \/ d < max THEN d ELSE max)
      BY <1>3 DEF d
    <2>3. backoff_ms' = (IF 2 * d < max THEN 2 * d ELSE max)
      BY <1>0, <1>2, <2>1, <2>2
    <2> QED BY <2>3 DEF d
  <1>7. backoff_ms' = IF init * (2 * p) < max THEN init * (2 * p) ELSE max
    BY <1>5, <1>6
  <1> QED BY <1>2, <1>4, <1>7 DEF BackoffIsCapped, init, max

LEMMA BackoffStep == DaemonInv /\ BackoffIsCapped /\ [Next]_vars => BackoffIsCapped'
  <1> SUFFICES ASSUME DaemonInv, BackoffIsCapped, [Next]_vars PROVE BackoffIsCapped'
    OBVIOUS
  <1>1. ASSUME UNCHANGED <<retry, attempt, backoff_ms>>, phase' = "idle" \/ phase # "idle"
        PROVE  BackoffIsCapped'
    BY <1>1 DEF BackoffIsCapped
  <1>2. CASE PostDocs \/ PostDelete
    <2>1. attempt' = 1 /\ backoff_ms' = retry.initial_backoff_ms /\ retry' = retry
      BY <1>2 DEF PostDocs, PostDelete, post_with_retry
    <2>2. PowerOfTwo[attempt' - 1] = 1 /\ retry.initial_backoff_ms \in Nat
      BY <2>1, PowerUnfolds, InHand
    <2> QED BY <2>1, <2>2 DEF BackoffIsCapped
  <1>3. CASE StartUp \/ Stop \/ BeginIteration \/ NothingToDo \/ BeginBlock \/ Drained \/ Commit \/ SleepOver
             \/ StartUpFails \/ IterationFails \/ Signal \/ Unit \/ Start \/ UNCHANGED vars
    <2>1. UNCHANGED postVars
      BY <1>3 DEF StartUp, Stop, BeginIteration, NothingToDo, BeginBlock, Drained, Commit, SleepOver,
                  StartUpFails, IterationFails, Signal, Cancelled, Terminated, Unit, Restart, GivesUp,
                  Start, StartFrom, vars
    <2> QED BY <1>1, <2>1 DEF postVars
  <1>4. CASE DocsPosted \/ DeletePosted \/ PostFailed \/ Crash \/ PowerLoss
    BY <1>1, <1>4 DEF DocsPosted, DeletePosted, PostFailed, Crash, PowerLoss, Dies
  <1>5. CASE Send \/ Accepted \/ Success \/ AnswerLost \/ Refused \/ NotDelivered \/ TimedOut
    BY <1>1, <1>5 DEF Send, Accepted, Success, AnswerLost, Refused, NotDelivered, TimedOut
  <1>6. CASE StragglerLands \/ StragglerLost
    BY <1>1, <1>6 DEF StragglerLands, StragglerLost, Lands, IsLost, BackoffIsCapped
  <1>7. CASE Wake
    BY <1>7, WakeDoubles
  <1> QED BY <1>2, <1>3, <1>4, <1>5, <1>6, <1>7
          DEF Next, Loop, Posting, Faults, Outside, PostWorks, PostFaults

\* The sleeps of post_with_retry double from the initial backoff and stay at the maximum, for
\* every retry section and every number of attempts.
THEOREM BackoffCapped == Spec => []BackoffIsCapped
  <1>1. Init => BackoffIsCapped
    BY DEF Init, PostInit, BackoffIsCapped
  <1> QED BY <1>1, BackoffStep, DaemonCorrect, PTL DEF Spec
=============================================================================
