---------------------------- MODULE PaymentNetwork ----------------------------
(***************************************************************************)
(* The way from a command to a response envelope when the reservation was  *)
(* acquired, as pure operators: what the emulator answers to a token, how  *)
(* HttpPaymentNetworkAdapter reads an HTTP response, what                  *)
(* AuthorizeTransactionService makes of the result, and the envelope and   *)
(* the complete() call of the orchestrator.                                *)
(*                                                                         *)
(* An HTTP response is its status code, the shape of its payload as far as *)
(* _handle_response tells payloads apart, and its Retry-After header.      *)
(***************************************************************************)
EXTENDS Idempotency, Integers

Payloads == {"AUTHORIZED", "DECLINED",          \* complete contract payloads
             "overlong", "overlongDecline",     \* the same, a field above 128 characters
             "incomplete",                      \* a required field is missing or blank
             "unrecognized",                    \* another outcome, or no object
             "unparseable",                     \* not JSON
             "undecodable",                     \* does not match its Content-Encoding
             "problem"}

\* A header is absent, does not parse as an integer, or is an integer.
RetryAfterHeader == [form : {"absent", "text", "integer"}, value : Int]
NoRetryAfter == [form |-> "absent", value |-> 0]
RetryAfter(n) == [form |-> "integer", value |-> n]

HttpResponse == [status_code : 100..599, payload : Payloads, retry_after : RetryAfterHeader]

Response(code, payload) ==
    [status_code |-> code, payload |-> payload, retry_after |-> NoRetryAfter]

-----------------------------------------------------------------------------
(* The emulator.                                                           *)

SupportedTokens == {"tok_test_approved", "tok_test_declined",
                    "tok_test_rate_limited", "tok_test_malformed",
                    "tok_test_timeout"}

\* execute_authorization_scenario with the handlers of emulator/errors.py
ScenarioResponse(token) ==
    CASE token \in {"tok_test_approved", "tok_test_timeout"} -> Response(200, "AUTHORIZED")
      [] token = "tok_test_declined"     -> Response(200, "DECLINED")
      [] token = "tok_test_malformed"    -> Response(200, "unparseable")
      [] token = "tok_test_rate_limited" ->
            [Response(429, "problem") EXCEPT !.retry_after = RetryAfter(1)]
      [] token \notin SupportedTokens    -> Response(422, "problem")

-----------------------------------------------------------------------------
(* The adapter.                                                            *)

Smaller(m, n) == IF m < n THEN m ELSE n
Larger(m, n) == IF m > n THEN m ELSE n

\* Mutant: the upstream value is passed on as it is.
UnclampedRetryAfter(h) == IF h.form = "integer" THEN h.value ELSE 1

ParseRetryAfter(h) ==
    IF h.form = "integer" /\ h.value >= 0
    THEN Larger(1, Smaller(h.value, 60))
    ELSE 1

\* What authorize() returns or raises.
NetworkResult(kind, retry_after) == [kind |-> kind, retry_after |-> retry_after]
Outcome(kind) == NetworkResult(kind, 1)

\* The payloads in which every field the contract requires is present.
ContractPayloads == {"AUTHORIZED", "DECLINED", "overlong", "overlongDecline"}

\* Mutant: HTTP 408 is not set apart from the other 4xx.
HandleResponseWithout408(r) ==
    CASE r.status_code = 200 /\ r.payload = "AUTHORIZED" -> Outcome("Authorized")
      [] r.status_code = 200 /\ r.payload = "DECLINED"   -> Outcome("Declined")
      [] r.status_code = 200 -> Outcome("InvalidResponse")
      [] r.status_code = 429 -> NetworkResult("RateLimit", ParseRetryAfter(r.retry_after))
      [] r.status_code \in (400..499) \ {429} -> Outcome("Rejected")
      [] OTHER -> Outcome("Unavailable")

HandleResponse(r) ==
    CASE r.status_code = 200 /\ r.payload = "AUTHORIZED" -> Outcome("Authorized")
      [] r.status_code = 200 /\ r.payload = "DECLINED"   -> Outcome("Declined")
      [] r.status_code = 200 /\ r.payload = "overlong"   -> Outcome("AuthorizedOverlong")
      [] r.status_code = 200 /\ r.payload = "overlongDecline" -> Outcome("DeclinedOverlong")
      [] r.status_code = 200 /\ r.payload \notin ContractPayloads -> Outcome("InvalidResponse")
      [] r.status_code = 429 -> NetworkResult("RateLimit", ParseRetryAfter(r.retry_after))
      [] r.status_code = 408 -> Outcome("Timeout")
      [] r.status_code \in (400..499) \ {408, 429} -> Outcome("Rejected")
      [] r.status_code \notin {200} \cup (400..499) -> Outcome("Unavailable")

-----------------------------------------------------------------------------
(* The service and the orchestrator.                                       *)

\* Nothing limits the length of the fields that the adapter accepts.
AuthorizedKinds == {"Authorized", "AuthorizedOverlong"}
DeclinedKinds == {"Declined", "DeclinedOverlong"}
OverlongKinds == {"AuthorizedOverlong", "DeclinedOverlong"}

Ambiguous == {"Timeout", "InvalidResponse", "Unavailable"}

\* The transaction that execute() returns, or attaches to the error it raises.
Execute(kind) ==
    CASE kind \in AuthorizedKinds -> TransitionTo(NewEntity, "AUTHORIZED")
      [] kind \in DeclinedKinds -> TransitionTo(NewEntity, "DECLINED")
      [] kind \in Ambiguous  -> MarkPendingReconciliation(NewEntity, "AUTHORIZATION")
      [] kind \in {"RateLimit", "Rejected"} -> TransitionTo(NewEntity, "FAILED")

\* map_result_to_envelope
ResultEnvelope(t, entity) ==
    [status_code |-> IF entity.status \in {"AUTHORIZED", "DECLINED"} THEN 201 ELSE 202,
     body |-> [document |-> IF entity.status \in {"AUTHORIZED", "DECLINED"}
                            THEN entity.status
                            ELSE "PENDING_RECONCILIATION",
               transaction_id |-> t, version |-> entity.version],
     headers |-> {}, media_type |-> "application/json", is_replay |-> FALSE]

\* The envelope of handle_authorization, its two except branches included.
OutcomeEnvelope(t, result) ==
    CASE result.kind = "RateLimit" ->
            ProblemEnvelope(503, "provider-rate-limited",
                            {<<"Retry-After", result.retry_after>>})
      [] result.kind = "Rejected" -> ProblemEnvelope(502, "downstream-rejected", {})
      [] result.kind \notin {"RateLimit", "Rejected"} ->
            ResultEnvelope(t, Execute(result.kind))

\* The arguments of coordinator.complete.  derive_network_reference is
\* injective on request IDs, so the reference is the transaction itself; the
\* authorization code is stored beside it and is left out.
CompletionOf(k, t, result) ==
    [op |-> "complete", key |-> k, transaction_id |-> t,
     entity |-> Execute(result.kind), expected_version |-> 0,
     envelope |-> OutcomeEnvelope(t, result),
     network_reference |-> IF result.kind \in AuthorizedKinds THEN t ELSE None,
     decline_code |-> IF result.kind \in DeclinedKinds THEN "INSUFFICIENT_FUNDS" ELSE None,
     fits |-> result.kind \notin OverlongKinds]
=============================================================================
