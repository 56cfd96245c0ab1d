------------------------------ MODULE LlmClient ------------------------------
(***************************************************************************)
(* One call of the LLM client (loop/src/llm/client.rs): stream_completion, *)
(* which hands deltas to its caller as they come, or complete, which does  *)
(* not; both retry on the state of loop/src/llm/retry.rs.  A failure is    *)
(* what its classification leaves of it: whether it is retryable and       *)
(* whether its body, or else its message, has a transient-capacity keyword.*)
(***************************************************************************)
EXTENDS Integers, Sequences

CONSTANTS CallKinds,      \* which of "stream" and "complete" are called
          MaxDeltas   \* bound: deltas of one attempt that reach the caller

ASSUME ClientAssumption == CallKinds \subseteq {"stream", "complete"} /\ MaxDeltas \in Nat

Failures == [retryable : BOOLEAN, keyword : BOOLEAN]

(* RetryBudget: the default and the escalated preset. *)
MaxAttempts(escalated) == IF escalated THEN 5 ELSE 3
BaseDelay(escalated) == IF escalated THEN 2000 ELSE 500

(* delay_for: the backoff before the retry of this index. *)
DelayFor(budget, index) == BaseDelay(budget) * 2 ^ index

VARIABLES
    kind,        \* the function that was called
    pc,          \* "post", "stream", "failed", "sleep", "ok" or "err"
    escalated,   \* budget.escalated
    attempt,     \* attempt_num
    exponent,    \* exponent_idx
    emitted,     \* output of this attempt has reached the caller
    failure,     \* the failure being handled
    output,      \* history: the attempt each delta at the caller comes from
    waits        \* history: the sleeps, with the budget they were under

clientVars == <<kind, pc, escalated, attempt, exponent, emitted, failure, output, waits>>

ClientInit ==
    /\ kind \in CallKinds
    /\ pc = "post"
    /\ escalated = FALSE
    /\ attempt = 1
    /\ exponent = 0
    /\ emitted = FALSE
    /\ failure = [retryable |-> FALSE, keyword |-> FALSE]
    /\ output = <<>>
    /\ waits = <<>>

(* post_or_classify *)
PostSucceeds ==
    /\ pc = "post"
    /\ pc' = "stream"
    /\ UNCHANGED <<kind, escalated, attempt, exponent, emitted, failure, output, waits>>

PostFails(f) ==
    /\ pc = "post"
    /\ failure' = f
    /\ pc' = "failed"
    /\ UNCHANGED <<kind, escalated, attempt, exponent, emitted, output, waits>>

(* process_stream: a text or a tool-call delta.  complete() has none. *)
Delta ==
    /\ pc = "stream" /\ kind = "stream"
    /\ Len(output) < MaxDeltas * attempt
    /\ output' = Append(output, attempt)
    /\ emitted' = TRUE
    /\ UNCHANGED <<kind, pc, escalated, attempt, exponent, failure, waits>>

(* The body ends, or reading it fails. *)
ReadSucceeds ==
    /\ pc = "stream"
    /\ pc' = "ok"
    /\ UNCHANGED <<kind, escalated, attempt, exponent, emitted, failure, output, waits>>

ReadFailsBlindly(f) ==
    /\ pc = "stream"
    /\ failure' = f
    /\ pc' = "failed"
    /\ UNCHANGED <<kind, escalated, attempt, exponent, emitted, output, waits>>

(* After partial output a retryable failure is turned into a fatal one;    *)
(* its message keeps that of the cause.                                    *)
ReadFails(f) ==
    /\ pc = "stream"
    /\ failure' = [f EXCEPT !.retryable = @ /\ ~emitted]
    /\ pc' = "failed"
    /\ UNCHANGED <<kind, escalated, attempt, exponent, emitted, output, waits>>

HandleFailureKeepsExponent ==
    LET upgraded == escalated \/ failure.keyword
    IN  /\ pc = "failed"
        /\ escalated' = upgraded
        /\ \/ /\ ~failure.retryable \/ attempt >= MaxAttempts(upgraded)
              /\ pc' = "err"
              /\ UNCHANGED waits
           \/ /\ failure.retryable /\ attempt < MaxAttempts(upgraded)
              /\ waits' = Append(waits, [escalated |-> upgraded,
                                         ms |-> DelayFor(upgraded, exponent)])
              /\ pc' = "sleep"
        /\ UNCHANGED <<kind, attempt, exponent, emitted, failure, output>>

HandleFailureStaleBudget ==
    /\ pc = "failed"
    /\ escalated' = (escalated \/ failure.keyword)
    /\ exponent' = IF escalated' # escalated THEN 0 ELSE exponent
    /\ \/ /\ ~failure.retryable \/ attempt >= MaxAttempts(escalated)
          /\ pc' = "err"
          /\ UNCHANGED waits
       \/ /\ failure.retryable /\ attempt < MaxAttempts(escalated)
          /\ waits' = Append(waits, [escalated |-> escalated',
                                     ms |-> DelayFor(escalated', exponent')])
          /\ pc' = "sleep"
    /\ UNCHANGED <<kind, attempt, emitted, failure, output>>

(* handle_failure and next_delay: escalate, then give up or sleep.  The    *)
(* exponent starts again when the budget escalates.                        *)
HandleFailure ==
    LET upgraded == escalated \/ failure.keyword
        exp == IF upgraded /\ ~escalated THEN 0 ELSE exponent
    IN  /\ pc = "failed"
        /\ escalated' = upgraded
        /\ \/ /\ ~failure.retryable \/ attempt >= MaxAttempts(upgraded)
              /\ pc' = "err"
              /\ UNCHANGED <<exponent, waits>>
           \/ /\ failure.retryable /\ attempt < MaxAttempts(upgraded)
              /\ exponent' = exp
              /\ waits' = Append(waits, [escalated |-> upgraded,
                                         ms |-> DelayFor(upgraded, exp)])
              /\ pc' = "sleep"
        /\ UNCHANGED <<kind, attempt, emitted, failure, output>>

AdvanceMissing ==
    /\ pc = "sleep"
    /\ pc' = "post"
    /\ emitted' = FALSE
    /\ waits' = <<>>
    /\ UNCHANGED <<kind, escalated, attempt, exponent, failure, output>>

(* advance() after the sleep; the loop starts over with emitted = false. *)
Advance ==
    /\ pc = "sleep"
    /\ pc' = "post"
    /\ attempt' = attempt + 1
    /\ exponent' = exponent + 1
    /\ emitted' = FALSE
    /\ UNCHANGED <<kind, escalated, failure, output, waits>>

ClientNext ==
    \/ PostSucceeds \/ Delta \/ ReadSucceeds
    \/ \E f \in Failures : PostFails(f) \/ ReadFails(f)
    \/ HandleFailure
    \/ Advance

ClientSpec == ClientInit /\ [][ClientNext]_clientVars

-----------------------------------------------------------------------------
(* The caller never sees output of two attempts: what was streamed before  *)
(* a failure is not streamed again by a retry (client.rs 60-75).           *)
OutputOfOneAttempt ==
    \A i, j \in 1..Len(output) : output[i] = output[j]

(* A retryable failure is retried until the budget is used up, 3 attempts, *)
(* or 5 from the first transient-capacity keyword on, even when it comes   *)
(* with the last attempt of the default budget (retry.rs 256-263).         *)
UsesItsBudget ==
    /\ attempt <= MaxAttempts(escalated)
    /\ (pc = "err" /\ failure.retryable) => attempt = MaxAttempts(escalated)

(* The first sleep under a budget is its base delay, and each later one    *)
(* doubles the one before, also across an escalation (retry.rs 232-237).   *)
BackoffDoubles ==
    \A i \in 1..Len(waits) :
        waits[i].ms = IF i > 1 /\ waits[i - 1].escalated = waits[i].escalated
                      THEN 2 * waits[i - 1].ms
                      ELSE BaseDelay(waits[i].escalated)

(* Over every sequence of failures the caller sees one attempt's output,   *)
(* and attempts and delays follow the budget of the failure at hand        *)
(* (client.rs 41-136, retry.rs 232-263).                                   *)
RetriesAreSound == OutputOfOneAttempt /\ UsesItsBudget /\ BackoffDoubles
=============================================================================
