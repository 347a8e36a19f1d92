------------------------- MODULE MCCoordinatorClients -------------------------
(* CoordinatorClients on small sets.                                       *)
EXTENDS CoordinatorClients, TLC

\* Each outcome is an entity with the version the caller expects to replace:
\* two that race for a fresh reservation, one that does not fit its columns, one
\* that continues a completed transaction, and one whose version does not
\* follow the expected one.
Outcome(entity, expected, fits) ==
    [entity |-> entity, expected |-> expected, fits |-> fits]

Authorized == TransitionTo(NewEntity, "AUTHORIZED")

Outcomes ==
    {Outcome(Authorized, 0, TRUE),
     Outcome(MarkPendingReconciliation(NewEntity, "AUTHORIZATION"), 0, TRUE),
     Outcome(Authorized, 0, FALSE),
     Outcome(TransitionTo(Authorized, "CAPTURED"), 1, TRUE),
     Outcome(NewEntity, 0, TRUE)}

MCCompleteCalls ==
    {[op |-> "complete", key |-> k, transaction_id |-> t,
      entity |-> o.entity, expected_version |-> o.expected,
      envelope |-> [status_code |-> 201,
                    body |-> [document |-> IF o.entity.status = "PENDING_RECONCILIATION"
                                           THEN "PENDING_RECONCILIATION" ELSE "AUTHORIZED",
                              transaction_id |-> t, version |-> 1],
                    headers |-> {<<"Retry-After", 1>>, <<"Server", 1>>}, media_type |-> "application/json",
                    is_replay |-> FALSE],
      network_reference |-> IF o.entity.status = "AUTHORIZED" THEN t ELSE None,
      decline_code |-> None, fits |-> o.fits] :
        k \in Keys, t \in Txns, o \in Outcomes}

Symmetry == Permutations(Keys) \cup Permutations(Txns) \cup Permutations(Slots)
=============================================================================
