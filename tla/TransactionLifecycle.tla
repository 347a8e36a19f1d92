------------------------- MODULE TransactionLifecycle -------------------------
(***************************************************************************)
(* One Transaction entity under any sequence of calls of transition_to,    *)
(* mark_pending_reconciliation and resolve_reconciliation with any         *)
(* arguments, legal or not.  Capture, refund and reconciliation have no    *)
(* endpoint yet; the entity is what later milestones will rely on.         *)
(***************************************************************************)
EXTENDS Transaction, Sequences

CONSTANT MaxVersion   \* bound on the version counter

ASSUME MaxVersionAssumption == MaxVersion \in Nat

VARIABLES txn,       \* the entity
          raised,    \* "ok" or the exception of the last call
          trail      \* the statuses so far, the current one last

vars == <<txn, raised, trail>>

Init == /\ txn = NewEntity
        /\ raised = "ok"
        /\ trail = <<NewEntity.status>>

\* A call raises, changing nothing, or yields the entity new.
Call(verdict, new) ==
    /\ raised' = verdict
    /\ IF verdict = "ok"
       THEN /\ txn.version < MaxVersion
            /\ txn' = new
            /\ trail' = Append(trail, new.status)
       ELSE UNCHANGED <<txn, trail>>

Transition(target) ==
    Call(TransitionVerdict(txn, target), TransitionTo(txn, target))

MarkPending(operation) ==
    Call(MarkPendingVerdict(txn, operation), MarkPendingReconciliation(txn, operation))

Resolve(target) ==
    Call(ResolveVerdict(txn, target), ResolveReconciliation(txn, target))

Next == \/ \E target \in TransactionStatus : Transition(target) \/ Resolve(target)
        \/ \E operation \in PendingOperation : MarkPending(operation)

Spec == Init /\ [][Next]_vars

-----------------------------------------------------------------------------
Exceptions == {"ReconciliationStateError", "InvalidStateTransitionError",
               "InvalidReconciliationOperationError",
               "InvalidReconciliationResolutionError",
               "InvalidTransactionInvariantError"}

\* The type of every variable.
TypeOK == /\ txn \in Entity
          /\ raised \in Exceptions \cup {"ok"}
          /\ trail \in Seq(TransactionStatus)

\* Whatever was called, the entity still satisfies what its constructor
\* demands, so every entity can be stored (the reconciliation CHECK of the
\* transactions table) and loaded again, and the corruption that
\* resolve_reconciliation looks for never happens.
EntityIsValid == ValidEntity(txn) /\ raised # "InvalidTransactionInvariantError"

\* is_terminal() is True exactly when every further call will raise: the set
\* of terminal states agrees with the three transition tables.
Accepts(e) ==
    \/ \E target \in TransactionStatus :
          TransitionVerdict(e, target) = "ok" \/ ResolveVerdict(e, target) = "ok"
    \/ \E operation \in PendingOperation : MarkPendingVerdict(e, operation) = "ok"

TerminalIffStuck == txn.status \in TerminalStates <=> ~Accepts(txn)

\* Reconciliation loses no progress and skips none: it ends in the status in
\* which the ambiguous operation began or in one that the operation itself
\* could have reached from there.
ReconciliationKeepsCourse ==
    \A i \in 3..Len(trail) :
        trail[i - 1] = "PENDING_RECONCILIATION" =>
            trail[i] \in {trail[i - 2]} \cup OrdinaryTransitions[trail[i - 2]]

\* Money moves in order: nothing is captured that was not authorized before,
\* nothing refunded that was not captured before, by whatever detours.
Before(i, status) == \E j \in 1..(i - 1) : trail[j] = status

MoneyMovesInOrder ==
    \A i \in 1..Len(trail) :
        /\ trail[i] = "CAPTURED" => Before(i, "AUTHORIZED")
        /\ trail[i] = "REFUNDED" => Before(i, "CAPTURED")

\* Among the statuses an entity went through, its version identifies the one
\* it has now: an optimistic lock on the version cannot confuse two of them,
\* even when reconciliation returns to an earlier status.
VersionIsPosition == txn.version + 1 = Len(trail) /\ trail[Len(trail)] = txn.status
=============================================================================
