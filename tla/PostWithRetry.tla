---------------------------- MODULE PostWithRetry ----------------------------
(***************************************************************************)
(* One POST to Quickwit (quickwit_client.rs, post_with_retry): up to       *)
(* max_attempts copies of the same request, with a sleep after every       *)
(* answer that may be retried.                                             *)
(*                                                                         *)
(* The client waits for one answer at a time, with a time-out.  A copy     *)
(* whose answer timed out may still be on its way: the server may carry it *)
(* out at any later moment, or never.                                      *)
(*                                                                         *)
(* Abstractions: a transport error and a 5xx are handled alike; a request  *)
(* is the documents it ingests and the queries it deletes by; jitter, less *)
(* than a quarter of the backoff, only lengthens a sleep, and no step      *)
(* depends on how long one is.                                             *)
(***************************************************************************)
EXTENDS Quickwit, FiniteSets

CONSTANTS
  Request,        \* what may be posted: [block, ingest, delete]
  RetryConfigs,   \* the quickwit.http_retry sections considered
  MaxStragglers   \* bound: copies of one request that are on their way

ASSUME PostAssumption ==
  /\ RetryConfigs \subseteq [max_attempts : Nat, initial_backoff_ms : Nat,
                             max_backoff_ms : Nat, respect_429 : BOOLEAN]
  /\ MaxStragglers \in Nat

VARIABLES
  retry,       \* quickwit.http_retry
  request,     \* the request of the POST under way, or of the last one
  phase,       \* where post_with_retry is
  attempt,     \* the attempt made or about to be made
  backoff_ms,  \* the sleep after it
  stragglers   \* how many copies of each request timed out and may still land

postVars == <<retry, request, phase, attempt, backoff_ms, stragglers>>

PostTypeOK ==
  /\ retry \in RetryConfigs
  /\ request \in Request
  /\ phase \in {"idle", "send", "wait", "accepted", "sleep", "ok", "failed"}
  /\ attempt \in 1..retry.max_attempts + 1
  /\ backoff_ms \in Nat
  /\ stragglers \in [Request -> 0..MaxStragglers]

PostInit ==
  /\ retry \in RetryConfigs
  /\ request = CHOOSE r \in Request : TRUE
  /\ phase = "idle"
  /\ attempt = 1
  /\ backoff_ms = retry.initial_backoff_ms
  /\ stragglers = [r \in Request |-> 0]

\* The server carries a request out.
Takes(r) ==
  index' = {d \in index \cup r.ingest : \A q \in r.delete : ~QueryMatches(q, d)}

-----------------------------------------------------------------------------
(* The client.                                                              *)

post_with_retry(r) ==
  /\ phase = "idle"
  /\ request' = r
  /\ phase' = "send"
  /\ attempt' = 1
  /\ backoff_ms' = retry.initial_backoff_ms
  /\ UNCHANGED <<index, retry, stragglers>>

\* Faulty variant: one attempt too many.
AttemptsLeftOneMore == attempt <= retry.max_attempts + 1

\* Faulty variant: the loop is over 1..max_attempts.
AttemptsLeftOneFewer == attempt < retry.max_attempts

\* The loop is over 1..=max_attempts.
AttemptsLeft == attempt <= retry.max_attempts

Send ==
  /\ phase = "send"
  /\ phase' = IF AttemptsLeft THEN "wait" ELSE "failed"
  /\ UNCHANGED <<index, retry, request, attempt, backoff_ms, stragglers>>

\* Faulty variant: the backoff grows without a limit.
NextBackoffUncapped == 2 * backoff_ms

NextBackoff ==
  IF 2 * backoff_ms < retry.max_backoff_ms THEN 2 * backoff_ms ELSE retry.max_backoff_ms

\* The sleep is not skipped after the last attempt.
Wake ==
  /\ phase = "sleep"
  /\ phase' = "send"
  /\ attempt' = attempt + 1
  /\ backoff_ms' = NextBackoff
  /\ UNCHANGED <<index, retry, request, stragglers>>

Retryable(status) == status = "5xx" \/ (status = "429" /\ retry.respect_429)

-----------------------------------------------------------------------------
(* The server and the network, while the client waits.                      *)

Accepted ==
  /\ phase = "wait"
  /\ Takes(request)
  /\ phase' = "accepted"
  /\ UNCHANGED <<retry, request, attempt, backoff_ms, stragglers>>

Success ==
  /\ phase = "accepted"
  /\ phase' = "ok"
  /\ UNCHANGED <<index, retry, request, attempt, backoff_ms, stragglers>>

\* The request was carried out, and the answer is lost.
AnswerLost ==
  /\ phase = "accepted"
  /\ phase' = "sleep"
  /\ UNCHANGED <<index, retry, request, attempt, backoff_ms, stragglers>>

Refused ==
  /\ phase = "wait"
  /\ \E status \in {"4xx", "429", "5xx"} :
       phase' = IF Retryable(status) THEN "sleep" ELSE "failed"
  /\ UNCHANGED <<index, retry, request, attempt, backoff_ms, stragglers>>

\* A transport error, the request being lost ...
NotDelivered ==
  /\ phase = "wait"
  /\ phase' = "sleep"
  /\ UNCHANGED <<index, retry, request, attempt, backoff_ms, stragglers>>

\* ... or on its way.
Straggling(r) ==
  /\ stragglers[r] < MaxStragglers
  /\ stragglers' = [stragglers EXCEPT ![r] = @ + 1]

TimedOut ==
  /\ phase = "wait"
  /\ Straggling(request)
  /\ phase' = "sleep"
  /\ UNCHANGED <<index, retry, request, attempt, backoff_ms>>

Lands(r) ==
  /\ stragglers[r] > 0
  /\ stragglers' = [stragglers EXCEPT ![r] = @ - 1]
  /\ Takes(r)
  /\ UNCHANGED <<retry, request, phase, attempt, backoff_ms>>

IsLost(r) ==
  /\ stragglers[r] > 0
  /\ stragglers' = [stragglers EXCEPT ![r] = @ - 1]
  /\ UNCHANGED <<index, retry, request, phase, attempt, backoff_ms>>

PostWorks == Send \/ Wake \/ Accepted \/ Success

PostFaults == AnswerLost \/ Refused \/ NotDelivered \/ TimedOut

-----------------------------------------------------------------------------
\* 2^n, in a form that proofs can unfold.
PowerOfTwo[n \in Nat] == IF n = 0 THEN 1 ELSE 2 * PowerOfTwo[n - 1]

(***************************************************************************)
(* The sleep after attempt n is the initial backoff doubled n - 1 times,   *)
(* cut to the maximum from the second attempt on: the retries of a POST    *)
(* neither hammer the server nor drift away.                               *)
(***************************************************************************)
BackoffIsCapped ==
  phase # "idle" =>
    LET doubled == retry.initial_backoff_ms * PowerOfTwo[attempt - 1] IN
    backoff_ms = IF attempt = 1 \/ doubled < retry.max_backoff_ms
                 THEN doubled ELSE retry.max_backoff_ms
=============================================================================
