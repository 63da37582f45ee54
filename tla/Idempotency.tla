---------------------------- MODULE Idempotency ----------------------------
(* One POST that must happen once: the retries of the SDK, the caller that   *)
(* times out and calls again under the same Idempotency-Key, and the         *)
(* middleware that looks the key up before the handler and stores the answer *)
(* after it.  Between the two nothing marks the key as taken.                *)
EXTENDS Integers, FiniteSets

CONSTANTS MaxAttempts,  \* bound on the requests sent under the key
          MaxRetries,   \* max_retries of the transport
          MaxExpiries   \* bound on the expiries of the cached answer

ASSUME IdempotencyConstants ==
    MaxAttempts \in Nat \ {0} /\ MaxRetries \in Nat /\ MaxExpiries \in Nat

Attempts == 1..MaxAttempts

VARIABLES phase,     \* of each attempt
          tries,     \* retries the transport has made in the present call
          answer,    \* the answer under the key in the cache, 0 when there is none
          effects,   \* how often the handler has taken effect
          overlaps,  \* attempts that began while another was being served
          lost,      \* answers that took effect and were never stored
          expired    \* answers that were stored and dropped again

keyVars == <<phase, tries, answer, effects, overlaps, lost, expired>>
faults == <<overlaps, lost, expired>>

Unsent == {i \in Attempts : phase[i] = "unsent"}
Running == {i \in Attempts : phase[i] \in {"sent", "handling", "storing"}}
Latest == MaxAttempts - Cardinality(Unsent)

KeyInit ==
    /\ phase = [i \in Attempts |-> IF i = 1 THEN "sent" ELSE "unsent"]
    /\ tries = 0 /\ answer = 0 /\ effects = 0
    /\ overlaps = 0 /\ lost = 0 /\ expired = 0

Begin ==
    /\ Latest < MaxAttempts
    /\ phase' = [phase EXCEPT ![Latest + 1] = "sent"]
    /\ overlaps' = IF Running = {} THEN overlaps ELSE overlaps + 1
    /\ UNCHANGED <<answer, effects, lost, expired>>

(* AsyncTransport._request and SyncTransport._request run one loop: 429 and  *)
(* 503 are tried again, in the same call.                                    *)
Retryable == phase[Latest] = "busy" /\ tries < MaxRetries

Retry ==
    /\ Retryable
    /\ tries' = tries + 1
    /\ Begin

(* The call ended, or timed out while the server goes on, and is made anew. *)
CallAgain == tries' = 0 /\ Begin

(* Without the look-up. *)
process_without_lookup(i) ==
    /\ phase[i] = "sent"
    /\ phase' = [phase EXCEPT ![i] = "handling"]
    /\ UNCHANGED <<tries, answer, effects, faults>>

process_request(i) ==
    /\ phase[i] = "sent"
    /\ phase' = [phase EXCEPT ![i] = IF answer # 0 THEN "done" ELSE "handling"]
    /\ UNCHANGED <<tries, answer, effects, faults>>

(* The handler succeeds, refuses for good, or asks to be tried again. *)
Handle(i) ==
    /\ phase[i] = "handling"
    /\ \/ /\ effects' = effects + 1
          /\ phase' = [phase EXCEPT ![i] = "storing"]
       \/ /\ \E p \in {"busy", "done"} : phase' = [phase EXCEPT ![i] = p]
          /\ UNCHANGED effects
    /\ UNCHANGED <<tries, answer, faults>>

(* Only a 2xx answer is stored, and only when its body can be read as JSON. *)
process_response(i) ==
    /\ phase[i] = "storing"
    /\ phase' = [phase EXCEPT ![i] = "done"]
    /\ \/ answer' = effects /\ UNCHANGED lost
       \/ lost' = lost + 1 /\ UNCHANGED answer
    /\ UNCHANGED <<tries, effects, overlaps, expired>>

(* The worker dies. *)
Die(i) ==
    /\ i \in Running
    /\ phase' = [phase EXCEPT ![i] = "done"]
    /\ lost' = IF phase[i] = "storing" THEN lost + 1 ELSE lost
    /\ UNCHANGED <<tries, answer, effects, overlaps, expired>>

(* CACHE_TTL ends, or the cache drops the entry. *)
Expire ==
    /\ answer # 0 /\ expired < MaxExpiries
    /\ answer' = 0
    /\ expired' = expired + 1
    /\ UNCHANGED <<phase, tries, effects, overlaps, lost>>

KeyNext ==
    \/ Retry \/ CallAgain \/ Expire
    \/ \E i \in Attempts : process_request(i) \/ Handle(i) \/ process_response(i) \/ Die(i)

KeySpec == KeyInit /\ [][KeyNext]_keyVars
-----------------------------------------------------------------------------
(* A request repeated under one key takes effect once, and once more at most *)
(* for each attempt that overlapped another, each answer that was not stored *)
(* and each that expired: the middleware promises no more than this.         *)
OncePerFault == effects <= 1 + overlaps + lost + expired
=============================================================================
