--------------------------- MODULE LifecycleProofs ---------------------------
(***************************************************************************)
(* The transaction entity is right for every number of calls: nothing here *)
(* depends on MaxVersion.                                                  *)
(*                                                                         *)
(* MoneyMovesInOrder is not inductive: a pending capture or refund may end *)
(* in CAPTURED or REFUNDED, so the invariant also says what an entity with *)
(* a pending operation has been through (PendingCourse).                   *)
(***************************************************************************)
EXTENDS TransactionLifecycle, TLAPS

Seen(status) == \E j \in 1..Len(trail) : trail[j] = status

PendingCourse ==
    /\ txn.pending_operation = "CAPTURE" => Seen("AUTHORIZED")
    /\ txn.pending_operation = "REFUND" => Seen("AUTHORIZED") /\ Seen("CAPTURED")

IndInv == TypeOK /\ EntityIsValid /\ VersionIsPosition /\ PendingCourse /\ MoneyMovesInOrder

\* What a successful call makes of the entity old.
Effect(old, new) ==
    \/ \E target \in TransactionStatus :
          \/ /\ TransitionVerdict(old, target) = "ok"
             /\ new = TransitionTo(old, target)
          \/ /\ ResolveVerdict(old, target) = "ok"
             /\ new = ResolveReconciliation(old, target)
    \/ \E operation \in PendingOperation :
          /\ MarkPendingVerdict(old, operation) = "ok"
          /\ new = MarkPendingReconciliation(old, operation)

\* A call raises and changes nothing, or has one of the three effects.
LEMMA StepForm ==
    ASSUME Next
    PROVE  \/ txn' = txn /\ trail' = trail /\ raised' # "ok"
           \/ Effect(txn, txn') /\ trail' = Append(trail, txn'.status) /\ raised' = "ok"
  BY DEF Next, Transition, MarkPending, Resolve, Call, Effect

\* The exceptions a call can raise on a valid entity.
LEMMA RaisedType ==
    ASSUME Next, txn \in Entity, ValidEntity(txn)
    PROVE  /\ raised' \in Exceptions \cup {"ok"}
           /\ raised' # "InvalidTransactionInvariantError"
  BY DEF Next, Transition, MarkPending, Resolve, Call, TransitionVerdict, MarkPendingVerdict,
         ResolveVerdict, Exceptions, ValidEntity

\* When a record of the three fields is a valid entity.
LEMMA EntityOf ==
    ASSUME NEW old \in Entity, NEW s \in TransactionStatus,
           NEW o \in PendingOperation \cup {NoOperation},
           (s = "PENDING_RECONCILIATION") <=> (o # NoOperation),
           NEW new, new = [status |-> s, version |-> old.version + 1, pending_operation |-> o]
    PROVE  new \in Entity /\ ValidEntity(new) /\ new.version = old.version + 1
<1>1. old.version + 1 \in Nat
  BY DEF Entity
<1>2. new \in Entity
  BY <1>1 DEF Entity
<1>3. ValidEntity(new)
  BY DEF ValidEntity
<1> QED
  BY <1>2, <1>3

\* An effect yields a valid entity of the next version.
LEMMA EffectKeepsEntity ==
    ASSUME NEW old \in Entity, NEW new, ValidEntity(old), Effect(old, new)
    PROVE  new \in Entity /\ ValidEntity(new) /\ new.version = old.version + 1
<1>1. ASSUME NEW target \in TransactionStatus, TransitionVerdict(old, target) = "ok",
             new = TransitionTo(old, target)
      PROVE  new \in Entity /\ ValidEntity(new) /\ new.version = old.version + 1
  <2>1. target # "PENDING_RECONCILIATION" /\ old.status # "PENDING_RECONCILIATION"
    BY <1>1 DEF TransitionVerdict
  <2>2. new = [status |-> target, version |-> old.version + 1,
               pending_operation |-> old.pending_operation]
    BY <1>1 DEF TransitionTo, Entity
  <2>3. old.pending_operation = NoOperation
    BY <2>1 DEF ValidEntity
  <2> QED
    BY <2>1, <2>2, <2>3, EntityOf
<1>2. ASSUME NEW target \in TransactionStatus, ResolveVerdict(old, target) = "ok",
             new = ResolveReconciliation(old, target)
      PROVE  new \in Entity /\ ValidEntity(new) /\ new.version = old.version + 1
  <2>1. target # "PENDING_RECONCILIATION"
    BY <1>2 DEF ResolveVerdict, ReconciliationResolutions, Entity, PendingOperation, NoOperation
  <2>2. new = [status |-> target, version |-> old.version + 1,
               pending_operation |-> NoOperation]
    BY <1>2 DEF ResolveReconciliation, Entity
  <2> QED
    BY <2>1, <2>2, EntityOf
<1>3. ASSUME NEW operation \in PendingOperation, new = MarkPendingReconciliation(old, operation)
      PROVE  new \in Entity /\ ValidEntity(new) /\ new.version = old.version + 1
  <2>1. new = [status |-> "PENDING_RECONCILIATION", version |-> old.version + 1,
               pending_operation |-> operation]
    BY <1>3 DEF MarkPendingReconciliation, Entity
  <2>2. operation # NoOperation /\ "PENDING_RECONCILIATION" \in TransactionStatus
    BY DEF PendingOperation, NoOperation, TransactionStatus
  <2> QED
    BY <2>1, <2>2, EntityOf
<1> QED
  BY <1>1, <1>2, <1>3 DEF Effect

\* Where an entity that is now captured, refunded or pending came from.
LEMMA EffectCourse ==
    ASSUME NEW old \in Entity, NEW new, ValidEntity(old), Effect(old, new)
    PROVE  /\ new.status = "CAPTURED" =>
                 old.status = "AUTHORIZED" \/ old.pending_operation \in {"CAPTURE", "REFUND"}
           /\ new.status = "REFUNDED" =>
                 old.status = "CAPTURED" \/ old.pending_operation = "REFUND"
           /\ new.pending_operation = "CAPTURE" => old.status = "AUTHORIZED"
           /\ new.pending_operation = "REFUND" => old.status = "CAPTURED"
<1> DEFINE Course ==
       /\ new.status = "CAPTURED" =>
             old.status = "AUTHORIZED" \/ old.pending_operation \in {"CAPTURE", "REFUND"}
       /\ new.status = "REFUNDED" =>
             old.status = "CAPTURED" \/ old.pending_operation = "REFUND"
       /\ new.pending_operation = "CAPTURE" => old.status = "AUTHORIZED"
       /\ new.pending_operation = "REFUND" => old.status = "CAPTURED"
<1>1. ASSUME NEW target \in TransactionStatus, TransitionVerdict(old, target) = "ok",
             new = TransitionTo(old, target)
      PROVE  Course
  <2>1. new.status = target /\ new.pending_operation = NoOperation
    BY <1>1 DEF TransitionTo, TransitionVerdict, Entity, ValidEntity
  <2>2. target \in OrdinaryTransitions[old.status]
    BY <1>1 DEF TransitionVerdict
  <2> QED
    BY <2>1, <2>2 DEF OrdinaryTransitions, NoOperation, Entity, TransactionStatus
<1>2. ASSUME NEW target \in TransactionStatus, ResolveVerdict(old, target) = "ok",
             new = ResolveReconciliation(old, target)
      PROVE  Course
  <2>1. new.status = target /\ new.pending_operation = NoOperation
    BY <1>2 DEF ResolveReconciliation, Entity
  <2>2. /\ old.pending_operation \in PendingOperation
        /\ target \in ReconciliationResolutions[old.pending_operation]
    BY <1>2 DEF ResolveVerdict, Entity
  <2> QED
    BY <2>1, <2>2 DEF ReconciliationResolutions, NoOperation, PendingOperation
<1>3. ASSUME NEW operation \in PendingOperation, MarkPendingVerdict(old, operation) = "ok",
             new = MarkPendingReconciliation(old, operation)
      PROVE  Course
  <2>1. new.status = "PENDING_RECONCILIATION" /\ new.pending_operation = operation
    BY <1>3 DEF MarkPendingReconciliation, Entity
  <2>2. ReconciliationEntries[old.status] = operation
    BY <1>3 DEF MarkPendingVerdict
  <2> QED
    BY <2>1, <2>2 DEF ReconciliationEntries, NoOperation, Entity, TransactionStatus, PendingOperation
<1> QED
  BY <1>1, <1>2, <1>3 DEF Effect

\* The invariant holds initially.
LEMMA IndInit ==
    ASSUME Init
    PROVE  IndInv
<1>1. trail \in Seq(TransactionStatus) /\ Len(trail) = 1 /\ trail[1] = "CREATED"
  BY DEF Init, NewEntity, TransactionStatus
<1>2. txn = [status |-> "CREATED", version |-> 0, pending_operation |-> "NONE"] /\ raised = "ok"
  BY DEF Init, NewEntity, NoOperation
<1>3. TypeOK
  BY <1>1, <1>2 DEF TypeOK, Entity, TransactionStatus, NoOperation
<1>4. EntityIsValid /\ PendingCourse
  BY <1>2 DEF EntityIsValid, ValidEntity, PendingCourse, NoOperation
<1>5. VersionIsPosition /\ MoneyMovesInOrder
  BY <1>1, <1>2 DEF VersionIsPosition, MoneyMovesInOrder
<1> QED
  BY <1>3, <1>4, <1>5 DEF IndInv

\* Every call keeps it.
LEMMA IndStep ==
    ASSUME IndInv, [Next]_vars
    PROVE  IndInv'
<1>1. CASE UNCHANGED vars
  BY <1>1 DEF IndInv, TypeOK, EntityIsValid, VersionIsPosition, PendingCourse, Seen,
              MoneyMovesInOrder, Before, vars
<1>2. CASE Next
  <2>1. txn \in Entity /\ ValidEntity(txn) /\ trail \in Seq(TransactionStatus)
    BY DEF IndInv, TypeOK, EntityIsValid
  <2>2. raised' \in Exceptions \cup {"ok"} /\ raised' # "InvalidTransactionInvariantError"
    BY <1>2, <2>1, RaisedType
  <2>3. CASE txn' = txn /\ trail' = trail
    BY <2>2, <2>3 DEF IndInv, TypeOK, EntityIsValid, VersionIsPosition, PendingCourse, Seen,
                      MoneyMovesInOrder, Before
  <2>4. CASE Effect(txn, txn') /\ trail' = Append(trail, txn'.status)
    <3> DEFINE n == Len(trail)
    <3>1. txn' \in Entity /\ ValidEntity(txn') /\ txn'.version = txn.version + 1
      BY <2>1, <2>4, EffectKeepsEntity
    <3>2. txn'.status \in TransactionStatus
      BY <3>1 DEF Entity
    <3>3. /\ trail' \in Seq(TransactionStatus)
          /\ n \in Nat /\ Len(trail') = n + 1
          /\ trail'[n + 1] = txn'.status
          /\ \A i \in 1..n : trail'[i] = trail[i]
      BY <2>1, <2>4, <3>2
    <3>4. /\ txn.version \in Nat /\ txn.version + 1 = n
          /\ trail[n] = txn.status /\ n \in 1..n
      <4>1. txn.version \in Nat
        BY <2>1 DEF Entity
      <4> QED
        BY <3>3, <4>1 DEF IndInv, VersionIsPosition
    <3>5. TypeOK' /\ EntityIsValid'
      BY <2>2, <3>1, <3>3 DEF TypeOK, EntityIsValid, ValidEntity
    <3>6. VersionIsPosition'
      BY <3>1, <3>3, <3>4 DEF VersionIsPosition
    <3>7. /\ txn'.status = "CAPTURED" =>
                txn.status = "AUTHORIZED" \/ txn.pending_operation \in {"CAPTURE", "REFUND"}
          /\ txn'.status = "REFUNDED" =>
                txn.status = "CAPTURED" \/ txn.pending_operation = "REFUND"
          /\ txn'.pending_operation = "CAPTURE" => txn.status = "AUTHORIZED"
          /\ txn'.pending_operation = "REFUND" => txn.status = "CAPTURED"
      BY <2>1, <2>4, EffectCourse
    <3>8. txn.status \in {"AUTHORIZED", "CAPTURED"} => Seen("AUTHORIZED") /\ Seen(txn.status)
      <4>1. Seen(txn.status)
        BY <3>4 DEF Seen
      <4>2. trail[n] = "CAPTURED" => \E j \in 1..(n - 1) : trail[j] = "AUTHORIZED"
        BY <3>4 DEF IndInv, MoneyMovesInOrder, Before
      <4>3. 1..(n - 1) \subseteq 1..n
        BY <3>3
      <4> QED
        BY <3>4, <4>1, <4>2, <4>3 DEF Seen
    <3>9. \A status : Seen(status) => \E j \in 1..n : trail'[j] = status
      BY <3>3 DEF Seen
    <3>10. PendingCourse'
      <4>1. 1..n \subseteq 1..(n + 1)
        BY <3>3
      <4> QED
        BY <3>3, <3>7, <3>8, <3>9, <4>1 DEF PendingCourse, Seen
    <3>11. /\ txn'.status = "CAPTURED" => Seen("AUTHORIZED")
           /\ txn'.status = "REFUNDED" => Seen("CAPTURED")
      BY <3>7, <3>8 DEF IndInv, PendingCourse
    <3>12. ASSUME NEW i \in 1..(n + 1)
           PROVE  /\ trail'[i] = "CAPTURED" => Before(i, "AUTHORIZED")'
                  /\ trail'[i] = "REFUNDED" => Before(i, "CAPTURED")'
      <4>1. CASE i = n + 1
        <5>1. i - 1 = n
          BY <3>3, <4>1
        <5> QED
          BY <3>3, <3>9, <3>11, <4>1, <5>1 DEF Before
      <4>2. CASE i \in 1..n
        <5>1. /\ trail[i] = "CAPTURED" => Before(i, "AUTHORIZED")
              /\ trail[i] = "REFUNDED" => Before(i, "CAPTURED")
          BY <4>2 DEF IndInv, MoneyMovesInOrder
        <5>2. \A j \in 1..(i - 1) : trail'[j] = trail[j]
          BY <3>3, <4>2
        <5> QED
          BY <3>3, <4>2, <5>1, <5>2 DEF Before
      <4> QED
        BY <3>3, <4>1, <4>2
    <3>13. MoneyMovesInOrder'
      BY <3>3, <3>12 DEF MoneyMovesInOrder
    <3> QED
      BY <3>5, <3>6, <3>10, <3>13 DEF IndInv
  <2> QED
    BY <1>2, <2>3, <2>4, StepForm
<1> QED
  BY <1>1, <1>2

-----------------------------------------------------------------------------
\* However transition_to, mark_pending_reconciliation and
\* resolve_reconciliation are called, the entity keeps its type.
THEOREM TypeCorrect == Spec => []TypeOK
  BY IndInit, IndStep, PTL DEF Spec, IndInv

\* The entity always satisfies what its constructor demands, and
\* resolve_reconciliation never meets a corrupt entity.
THEOREM EntityStaysValid == Spec => []EntityIsValid
  BY IndInit, IndStep, PTL DEF Spec, IndInv

\* The version of an entity counts the statuses it has been through.
THEOREM VersionCountsSteps == Spec => []VersionIsPosition
  BY IndInit, IndStep, PTL DEF Spec, IndInv

\* Nothing is captured that was not authorized, nothing refunded that was not
\* captured, whatever detours reconciliation takes.
THEOREM MoneyAlwaysMovesInOrder == Spec => []MoneyMovesInOrder
  BY IndInit, IndStep, PTL DEF Spec, IndInv

-----------------------------------------------------------------------------
(* Which entities are finished.                                            *)

\* is_terminal() agrees with the three transition tables in every state an
\* entity can reach: a terminal entity raises on every call, and any other
\* entity has a call that it accepts.
THEOREM TerminalMeansStuck == Spec => []TerminalIffStuck
<1>1. ASSUME IndInv
      PROVE  TerminalIffStuck
  <2>1. txn \in Entity /\ ValidEntity(txn)
    BY <1>1 DEF IndInv, TypeOK, EntityIsValid
  <2>2. txn.status \in TransactionStatus /\ txn.pending_operation \in PendingOperation \cup {NoOperation}
    BY <2>1 DEF Entity
  <2>3. ASSUME txn.status \in TerminalStates
        PROVE  ~Accepts(txn)
    <3>1. txn.status # "PENDING_RECONCILIATION"
      BY <2>3 DEF TerminalStates
    <3>2. OrdinaryTransitions[txn.status] = {} /\ ReconciliationEntries[txn.status] = NoOperation
      BY <2>2, <2>3 DEF OrdinaryTransitions, ReconciliationEntries, TerminalStates, TransactionStatus
    <3>3. \A target \in TransactionStatus :
             TransitionVerdict(txn, target) # "ok" /\ ResolveVerdict(txn, target) # "ok"
      BY <3>1, <3>2 DEF TransitionVerdict, ResolveVerdict
    <3>4. \A operation \in PendingOperation : MarkPendingVerdict(txn, operation) # "ok"
      BY <3>1, <3>2 DEF MarkPendingVerdict, PendingOperation, NoOperation
    <3> QED
      BY <3>3, <3>4 DEF Accepts
  <2>4. ASSUME txn.status \notin TerminalStates
        PROVE  Accepts(txn)
    <3>1. CASE txn.status = "PENDING_RECONCILIATION"
      <4>1. txn.pending_operation \in PendingOperation /\ txn.pending_operation # NoOperation
        BY <2>1, <2>2, <3>1 DEF ValidEntity
      <4>2. PICK target \in TransactionStatus :
               target \in ReconciliationResolutions[txn.pending_operation]
        BY <4>1 DEF ReconciliationResolutions, PendingOperation, TransactionStatus
      <4>3. ResolveVerdict(txn, target) = "ok"
        BY <3>1, <4>1, <4>2 DEF ResolveVerdict
      <4> QED
        BY <4>3 DEF Accepts
    <3>2. CASE txn.status # "PENDING_RECONCILIATION"
      <4>1. txn.status \in {"CREATED", "AUTHORIZED", "CAPTURED"}
        BY <2>2, <2>4, <3>2 DEF TransactionStatus, TerminalStates
      <4>2. ReconciliationEntries[txn.status] \in PendingOperation
        BY <2>2, <4>1 DEF ReconciliationEntries, PendingOperation
      <4>3. MarkPendingVerdict(txn, ReconciliationEntries[txn.status]) = "ok"
        BY <3>2 DEF MarkPendingVerdict
      <4> QED
        BY <4>2, <4>3 DEF Accepts
    <3> QED
      BY <3>1, <3>2
  <2> QED
    BY <2>3, <2>4 DEF TerminalIffStuck
<1> QED
  BY <1>1, IndInit, IndStep, PTL DEF Spec

-----------------------------------------------------------------------------
(* Reconciliation keeps the course.  The invariant remembers what a        *)
(* pending entity was before: the status whose entry in the table of       *)
(* reconciliation entries is the operation that is pending now.            *)

PendingEntered ==
    txn.status = "PENDING_RECONCILIATION" =>
        /\ Len(trail) >= 2
        /\ trail[Len(trail) - 1] \in TransactionStatus
        /\ ReconciliationEntries[trail[Len(trail) - 1]] = txn.pending_operation

CourseInv == PendingEntered /\ ReconciliationKeepsCourse

\* A pending entity entered the operation from the status it had.
LEMMA EffectEnters ==
    ASSUME NEW old \in Entity, NEW new, ValidEntity(old), Effect(old, new),
           new.status = "PENDING_RECONCILIATION"
    PROVE  ReconciliationEntries[old.status] = new.pending_operation
<1>1. ASSUME NEW target \in TransactionStatus, TransitionVerdict(old, target) = "ok",
             new = TransitionTo(old, target)
      PROVE  FALSE
  BY <1>1 DEF TransitionVerdict, TransitionTo, Entity
<1>2. ASSUME NEW target \in TransactionStatus, ResolveVerdict(old, target) = "ok",
             new = ResolveReconciliation(old, target)
      PROVE  FALSE
  <2>1. new.status = target
    BY <1>2 DEF ResolveReconciliation, Entity
  <2>2. /\ old.pending_operation \in PendingOperation
        /\ target \in ReconciliationResolutions[old.pending_operation]
    BY <1>2 DEF ResolveVerdict, Entity
  <2> QED
    BY <2>1, <2>2 DEF ReconciliationResolutions, PendingOperation
<1>3. ASSUME NEW operation \in PendingOperation, MarkPendingVerdict(old, operation) = "ok",
             new = MarkPendingReconciliation(old, operation)
      PROVE  ReconciliationEntries[old.status] = new.pending_operation
  BY <1>3 DEF MarkPendingVerdict, MarkPendingReconciliation, Entity
<1> QED
  BY <1>1, <1>2, <1>3 DEF Effect

\* A resolution leads back to the status in which the pending operation was
\* entered, or to one that the operation itself reaches from there.
LEMMA ResolutionKeepsCourse ==
    ASSUME NEW old \in Entity, NEW new, Effect(old, new),
           old.status = "PENDING_RECONCILIATION",
           NEW before \in TransactionStatus,
           ReconciliationEntries[before] = old.pending_operation
    PROVE  new.status \in {before} \cup OrdinaryTransitions[before]
<1>1. PICK target \in TransactionStatus : /\ ResolveVerdict(old, target) = "ok"
                                          /\ new = ResolveReconciliation(old, target)
  BY DEF Effect, TransitionVerdict, MarkPendingVerdict
<1>2. new.status = target
  BY <1>1 DEF ResolveReconciliation, Entity
<1>3. /\ old.pending_operation \in PendingOperation
      /\ target \in ReconciliationResolutions[old.pending_operation]
  BY <1>1 DEF ResolveVerdict, Entity
<1>4. CASE before = "CREATED"
  BY <1>2, <1>3, <1>4
  DEF ReconciliationEntries, ReconciliationResolutions, OrdinaryTransitions, PendingOperation,
      TransactionStatus
<1>5. CASE before = "AUTHORIZED"
  BY <1>2, <1>3, <1>5
  DEF ReconciliationEntries, ReconciliationResolutions, OrdinaryTransitions, PendingOperation,
      TransactionStatus
<1>6. CASE before = "CAPTURED"
  BY <1>2, <1>3, <1>6
  DEF ReconciliationEntries, ReconciliationResolutions, OrdinaryTransitions, PendingOperation,
      TransactionStatus
<1>7. before \in {"CREATED", "AUTHORIZED", "CAPTURED"}
  BY <1>3 DEF ReconciliationEntries, PendingOperation, NoOperation, TransactionStatus
<1> QED
  BY <1>4, <1>5, <1>6, <1>7

\* Every call keeps the course.
LEMMA CourseStep ==
    ASSUME IndInv, CourseInv, [Next]_vars
    PROVE  CourseInv'
<1>1. CASE txn' = txn /\ trail' = trail
  BY <1>1 DEF CourseInv, PendingEntered, ReconciliationKeepsCourse
<1>2. CASE Effect(txn, txn') /\ trail' = Append(trail, txn'.status)
  <2> DEFINE n == Len(trail)
  <2>1. txn \in Entity /\ ValidEntity(txn) /\ trail \in Seq(TransactionStatus)
    BY DEF IndInv, TypeOK, EntityIsValid
  <2>2. txn'.status \in TransactionStatus
    BY <1>2, <2>1, EffectKeepsEntity DEF Entity
  <2>3. /\ n \in Nat /\ Len(trail') = n + 1 /\ trail'[n + 1] = txn'.status
        /\ \A i \in 1..n : trail'[i] = trail[i] /\ trail[i] \in TransactionStatus
    BY <1>2, <2>1, <2>2
  <2>4. n >= 1 /\ trail[n] = txn.status
    <3>1. txn.version \in Nat
      BY <2>1 DEF Entity
    <3> QED
      BY <2>3, <3>1 DEF IndInv, VersionIsPosition
  <2>5. PendingEntered'
    <3> SUFFICES ASSUME txn'.status = "PENDING_RECONCILIATION"
                 PROVE  /\ Len(trail') >= 2
                        /\ trail'[Len(trail') - 1] \in TransactionStatus
                        /\ ReconciliationEntries[trail'[Len(trail') - 1]] = txn'.pending_operation
      BY DEF PendingEntered
    <3>1. ReconciliationEntries[txn.status] = txn'.pending_operation
      BY <1>2, <2>1, EffectEnters
    <3>2. Len(trail') - 1 = n /\ n \in 1..n
      BY <2>3, <2>4
    <3> QED
      BY <2>3, <2>4, <3>1, <3>2
  <2>6. ASSUME NEW i \in 3..(n + 1), trail'[i - 1] = "PENDING_RECONCILIATION"
        PROVE  trail'[i] \in {trail'[i - 2]} \cup OrdinaryTransitions[trail'[i - 2]]
    <3>1. i - 1 \in 1..n /\ i - 2 \in 1..n
      BY <2>3
    <3>2. CASE i = n + 1
      <4>1. i - 1 = n /\ i - 2 = n - 1
        BY <2>3, <3>2
      <4>2. txn.status = "PENDING_RECONCILIATION"
        BY <2>3, <2>4, <2>6, <3>1, <4>1
      <4>3. /\ trail[i - 2] \in TransactionStatus
            /\ ReconciliationEntries[trail[i - 2]] = txn.pending_operation
        BY <4>1, <4>2 DEF CourseInv, PendingEntered
      <4>4. txn'.status \in {trail[i - 2]} \cup OrdinaryTransitions[trail[i - 2]]
        BY <1>2, <2>1, <4>2, <4>3, ResolutionKeepsCourse
      <4> QED
        BY <2>3, <3>1, <3>2, <4>4
    <3>3. CASE i \in 3..n
      <4>1. trail[i - 1] = "PENDING_RECONCILIATION" /\ i \in 1..n
        BY <2>3, <2>6, <3>1, <3>3
      <4>2. trail[i] \in {trail[i - 2]} \cup OrdinaryTransitions[trail[i - 2]]
        BY <3>3, <4>1 DEF CourseInv, ReconciliationKeepsCourse
      <4> QED
        BY <2>3, <3>1, <4>1, <4>2
    <3> QED
      BY <2>3, <3>2, <3>3
  <2>7. ReconciliationKeepsCourse'
    BY <2>3, <2>6 DEF ReconciliationKeepsCourse
  <2> QED
    BY <2>5, <2>7 DEF CourseInv
<1> QED
  BY <1>1, <1>2, StepForm DEF vars

\* Reconciliation of an ambiguous operation never loses progress that was made
\* before it nor skips a step of the lifecycle, for any sequence of calls.
THEOREM ReconciliationStaysOnCourse == Spec => []ReconciliationKeepsCourse
<1>1. ASSUME Init
      PROVE  CourseInv
  BY <1>1 DEF Init, NewEntity, CourseInv, PendingEntered, ReconciliationKeepsCourse
<1> QED
  BY <1>1, IndInit, IndStep, CourseStep, PTL DEF Spec, CourseInv
=============================================================================
