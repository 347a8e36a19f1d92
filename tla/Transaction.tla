----------------------------- MODULE Transaction -----------------------------
(***************************************************************************)
(* The transaction domain entity of domain/transaction.py: its statuses,   *)
(* the three transition tables and the operations on an entity value.      *)
(*                                                                         *)
(* An operation is a verdict and an effect.  The verdict is the name of    *)
(* the exception the method raises, or "ok"; the methods validate before   *)
(* they mutate, so the effect applies exactly when the verdict is "ok".    *)
(* Arguments are members of the two enumerations (the TypeError branches   *)
(* reject anything else before the entity is read).                        *)
(***************************************************************************)
EXTENDS Naturals

TransactionStatus ==
    {"CREATED", "AUTHORIZED", "DECLINED", "CAPTURED", "REFUNDED",
     "PENDING_RECONCILIATION", "FAILED"}

PendingOperation == {"AUTHORIZATION", "CAPTURE", "REFUND"}

\* Python's None in the pending_operation field.
NoOperation == "NONE"

\* Mutant: a captured transaction is taken for finished.
CapturedIsTerminal == {"DECLINED", "FAILED", "REFUNDED", "CAPTURED"}

TerminalStates == {"DECLINED", "FAILED", "REFUNDED"}

OrdinaryTransitions ==
    [s \in TransactionStatus |->
        CASE s = "CREATED"    -> {"AUTHORIZED", "DECLINED", "FAILED"}
          [] s = "AUTHORIZED" -> {"CAPTURED"}
          [] s = "CAPTURED"   -> {"REFUNDED"}
          [] OTHER            -> {}]

\* Mutant: a pending refund may be entered from AUTHORIZED.
RefundFromAuthorized ==
    [s \in TransactionStatus |->
        CASE s = "CREATED"    -> "AUTHORIZATION"
          [] s = "AUTHORIZED" -> "REFUND"
          [] s = "CAPTURED"   -> "REFUND"
          [] OTHER            -> NoOperation]

\* dict.get of a status with no entry is None.
ReconciliationEntries ==
    [s \in TransactionStatus |->
        CASE s = "CREATED"    -> "AUTHORIZATION"
          [] s = "AUTHORIZED" -> "CAPTURE"
          [] s = "CAPTURED"   -> "REFUND"
          [] OTHER            -> NoOperation]

\* Mutant: a pending refund may fall back to AUTHORIZED.
RefundRevertsToAuthorized ==
    [o \in PendingOperation |->
        CASE o = "AUTHORIZATION" -> {"AUTHORIZED", "DECLINED", "FAILED"}
          [] o = "CAPTURE"       -> {"CAPTURED", "AUTHORIZED"}
          [] o = "REFUND"        -> {"REFUNDED", "AUTHORIZED"}]

ReconciliationResolutions ==
    [o \in PendingOperation |->
        CASE o = "AUTHORIZATION" -> {"AUTHORIZED", "DECLINED", "FAILED"}
          [] o = "CAPTURE"       -> {"CAPTURED", "AUTHORIZED"}
          [] o = "REFUND"        -> {"REFUNDED", "CAPTURED"}]

Entity == [status : TransactionStatus,
           version : Nat,
           pending_operation : PendingOperation \cup {NoOperation}]

\* Transaction(transaction_id=...): the constructor's defaults.
NewEntity == [status |-> "CREATED", version |-> 0, pending_operation |-> NoOperation]

\* _validate_initial_invariants, also the CHECK
\* chk_transactions_reconciliation_invariant of the transactions table.
ValidEntity(e) ==
    (e.status = "PENDING_RECONCILIATION") <=> (e.pending_operation # NoOperation)

-----------------------------------------------------------------------------
TransitionVerdict(e, target) ==
    IF e.status = "PENDING_RECONCILIATION"
    THEN "ReconciliationStateError"
    ELSE IF target \in OrdinaryTransitions[e.status] \ {"PENDING_RECONCILIATION"}
         THEN "ok"
         ELSE "InvalidStateTransitionError"

\* Mutant: the version counter runs backwards.
TransitionToVersionDown(e, target) ==
    [e EXCEPT !.status = target, !.version = @ - 1]

TransitionTo(e, target) ==
    [e EXCEPT !.status = target, !.version = @ + 1]

MarkPendingVerdict(e, operation) ==
    IF e.status = "PENDING_RECONCILIATION"
    THEN "ReconciliationStateError"
    ELSE IF ReconciliationEntries[e.status] = operation
         THEN "ok"
         ELSE "InvalidReconciliationOperationError"

\* Mutant: an ambiguous outcome does not advance the version.
MarkPendingWithoutVersion(e, operation) ==
    [e EXCEPT !.status = "PENDING_RECONCILIATION", !.pending_operation = operation]

MarkPendingReconciliation(e, operation) ==
    [e EXCEPT !.status = "PENDING_RECONCILIATION",
              !.pending_operation = operation,
              !.version = @ + 1]

ResolveVerdict(e, target) ==
    IF e.status # "PENDING_RECONCILIATION"
    THEN "ReconciliationStateError"
    ELSE IF e.pending_operation = NoOperation
         THEN "InvalidTransactionInvariantError"
         ELSE IF target \in ReconciliationResolutions[e.pending_operation]
              THEN "ok"
              ELSE "InvalidReconciliationResolutionError"

\* Mutant: the pending operation is kept.
ResolveKeepingOperation(e, target) ==
    [e EXCEPT !.status = target, !.version = @ + 1]

ResolveReconciliation(e, target) ==
    [e EXCEPT !.status = target,
              !.pending_operation = NoOperation,
              !.version = @ + 1]
=============================================================================
