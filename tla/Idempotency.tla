----------------------------- MODULE Idempotency -----------------------------
(***************************************************************************)
(* The data that the orchestrator and the coordinator exchange: commands,  *)
(* request fingerprints, response envelopes and the two table rows.        *)
(*                                                                         *)
(* SHA-256 is taken to be collision free, so a key stands for its digest   *)
(* and a fingerprint for the fields that are digested.  merchant_id,       *)
(* amount and currency travel together and are one opaque value, "terms".  *)
(***************************************************************************)
EXTENDS Transaction

CONSTANTS Keys,      \* Idempotency-Key values
          Txns,      \* transaction_id values
          Tokens,    \* payment_token values
          Terms,     \* (merchant_id, amount, currency) triples
          None       \* Python's None / SQL's NULL

Command == [transaction_id : Txns, payment_token : Tokens, terms : Terms]

\* compute_request_fingerprint: every field of the payload, and neither the
\* correlation ID nor the idempotency key.
RequestFingerprint(c) == <<c.terms, c.payment_token, c.transaction_id>>

Fingerprint == Terms \X Tokens \X Txns

-----------------------------------------------------------------------------
(* Envelopes.  A body is its document kind with the transaction and the    *)
(* version it reports; headers are (name, value) pairs.                    *)

HeaderNames == {"Retry-After", "Server"}
Headers == SUBSET (HeaderNames \X (1..60))

Documents == {"AUTHORIZED", "DECLINED", "PENDING_RECONCILIATION",
              "idempotency-conflict", "idempotency-in-progress",
              "transaction-id-conflict", "provider-rate-limited",
              "downstream-rejected", "internal-persistence-error",
              "internal-server-error"}

Body == [document : Documents, transaction_id : Txns \cup {None}, version : 0..1]

MediaTypes == {"application/json", "application/problem+json", "text/plain"}

Envelope == [status_code : 100..599, body : Body, headers : Headers,
             media_type : MediaTypes, is_replay : BOOLEAN]

\* None is no value of another type: no identifier, request or document is NULL.
ASSUME NoneAssumption ==
    None \notin Keys /\ None \notin Txns /\ None \notin Command
    /\ None \notin Body /\ None \notin Envelope

\* _make_problem_envelope
ProblemEnvelope(code, document, headers) ==
    [status_code |-> code,
     body |-> [document |-> document, transaction_id |-> None, version |-> 0],
     headers |-> headers,
     media_type |-> "application/problem+json",
     is_replay |-> FALSE]

\* What chk_idempotency_stored_headers_allowlist admits.
StoredHeaders == SUBSET ({"Retry-After"} \X (1..60))

\* The header allowlist of complete().  Mutants: nothing or everything is
\* allowed through.
DropAllHeaders(headers) == {}
KeepAllHeaders(headers) == headers

AllowlistedHeaders(headers) == {h \in headers : h[1] = "Retry-After"}

\* The media type is not stored; a replay derives it from the status code.
ReplayMediaType(code) ==
    IF code >= 400 THEN "application/problem+json" ELSE "application/json"

-----------------------------------------------------------------------------
(* Rows.  An absent row is a row whose status is "ABSENT".                 *)

TxnRow == [status : TransactionStatus \cup {"ABSENT"},
           pending_operation : PendingOperation \cup {NoOperation},
           version : Nat,
           terms : Terms \cup {None},
           network_reference : Txns \cup {None},
           decline_code : {"INSUFFICIENT_FUNDS", None}]

NoTxnRow == [status |-> "ABSENT", pending_operation |-> NoOperation, version |-> 0,
             terms |-> None, network_reference |-> None, decline_code |-> None]

IdemRow == [processing_status : {"IN_PROGRESS", "COMPLETED", "ABSENT"},
            request_fingerprint : Fingerprint \cup {None},
            transaction_id : Txns \cup {None},
            stored_status_code : 100..599 \cup {None},
            stored_response_body : Body \cup {None},
            stored_headers : StoredHeaders]

NoIdemRow == [processing_status |-> "ABSENT", request_fingerprint |-> None,
              transaction_id |-> None, stored_status_code |-> None,
              stored_response_body |-> None, stored_headers |-> {}]

\* The CHECK constraints of the two tables on what complete() writes.  The
\* model does not enforce them: that they always hold is a property.
TransactionChecks(row) ==
    /\ row.version >= 0
    /\ row.status \in TransactionStatus
    /\ row.pending_operation \in PendingOperation \cup {NoOperation}
    /\ row.status = "PENDING_RECONCILIATION" <=> row.pending_operation # NoOperation

RecordChecks(row) ==
    /\ CASE row.processing_status = "COMPLETED" ->
                row.stored_status_code \in 100..599 /\ row.stored_response_body # None
         [] row.processing_status = "IN_PROGRESS" ->
                /\ row.stored_status_code = None /\ row.stored_response_body = None
                /\ row.stored_headers = {}
    /\ row.stored_headers \in StoredHeaders

\* The ResponseEnvelope that _classify_existing rebuilds from a COMPLETED row.
ReplayEnvelope(row) ==
    [status_code |-> row.stored_status_code,
     body |-> row.stored_response_body,
     headers |-> row.stored_headers,
     media_type |-> ReplayMediaType(row.stored_status_code),
     is_replay |-> TRUE]

\* The ReservationStatus of _classify_existing for a row that exists.
ClassifyExisting(row, fingerprint) ==
    IF row.request_fingerprint # fingerprint
    THEN "IDEMPOTENCY_CONFLICT"
    ELSE row.processing_status
=============================================================================
