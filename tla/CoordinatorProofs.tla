--------------------------- MODULE CoordinatorProofs ---------------------------
(***************************************************************************)
(* Proofs about the coordinator under arbitrary callers, for every set of  *)
(* keys, transactions, callers and completions and any number of faults:   *)
(* its two tables agree, statements wait without a circle, a reservation   *)
(* has one winner, what callers are told is true and stays true, and what  *)
(* is committed passes the constraints of the schema.                      *)
(***************************************************************************)
EXTENDS CoordinatorClients, TLAPS

-----------------------------------------------------------------------------
(* Type correctness.                                                       *)

\* The envelope of a Return is well-typed.
LEMMA ReturnType ==
    ASSUME NEW status \in Results
    PROVE  Return(status) \in Returned
<1>1. {} \in Headers
  BY DEF Headers
<1>2. [document |-> "internal-persistence-error", transaction_id |-> None, version |-> 0] \in Body
  BY DEF Body, Documents
<1>3. NoEnvelope \in Envelope
  BY <1>1, <1>2 DEF NoEnvelope, ProblemEnvelope, Envelope, MediaTypes
<1> QED
  BY <1>3 DEF Return, Returned

\* What an existing record is classified as is a result of reserve.
LEMMA ExistingType ==
    ASSUME TablesTypeOK, NEW k \in Keys, KeyStored(k), NEW c
    PROVE  ExistingReservation(records[k], c) \in Returned
<1> DEFINE status == ClassifyExisting(records[k], RequestFingerprint(c))
<1>1. records[k] \in IdemRow
  BY DEF TablesTypeOK
<1>2. status \in {"IDEMPOTENCY_CONFLICT", "IN_PROGRESS", "COMPLETED"}
  BY <1>1 DEF ClassifyExisting, IdemRow, KeyStored
<1>3. status \in Results
  BY <1>2 DEF Results
<1>4. CASE status = "COMPLETED"
  <2>1. records[k].processing_status = "COMPLETED"
    BY <1>4 DEF ClassifyExisting
  <2>2. records[k].stored_status_code \in 100..599 /\ records[k].stored_response_body \in Body
    BY <2>1 DEF TablesTypeOK
  <2>3. records[k].stored_headers \in Headers
    BY <1>1 DEF IdemRow, StoredHeaders, Headers, HeaderNames
  <2>4. ReplayMediaType(records[k].stored_status_code) \in MediaTypes
    BY DEF ReplayMediaType, MediaTypes
  <2>5. ReplayEnvelope(records[k]) \in Envelope
    BY <2>2, <2>3, <2>4 DEF ReplayEnvelope, Envelope
  <2> QED
    BY <1>3, <1>4, <2>5 DEF ExistingReservation, Returned
<1>5. CASE status # "COMPLETED"
  BY <1>3, <1>5, ReturnType DEF ExistingReservation
<1> QED
  BY <1>4, <1>5

\* The ways in which a call advances or ends keep CallsTypeOK.
LEMMA FinishType ==
    ASSUME CallsTypeOK, NEW s \in Slots, NEW v \in Returned, Finish(s, v)
    PROVE  CallsTypeOK'
  BY DEF CallsTypeOK, Finish, Steps, ReserveSteps, CompleteSteps

\* A statement of the same operation.
LEMMA GoToType ==
    ASSUME CallsTypeOK, NEW s \in Slots, NEW step, GoTo(s, step),
           \/ step \in ReserveSteps /\ at[s] \in ReserveSteps
           \/ step \in CompleteSteps /\ at[s] \in CompleteSteps
    PROVE  CallsTypeOK'
<1>1. step \in Steps
  BY DEF Steps
<1>2. at' = [at EXCEPT ![s] = step] /\ arg' = arg /\ ret' = ret
  BY DEF GoTo
<1>3. step \in ReserveSteps => at[s] \in ReserveSteps
  BY DEF ReserveSteps, CompleteSteps
<1>4. step \in CompleteSteps => at[s] \in CompleteSteps
  BY DEF ReserveSteps, CompleteSteps
<1> QED
  BY <1>1, <1>2, <1>3, <1>4 DEF CallsTypeOK

\* A new call of reserve or of complete.
LEMMA BeginType ==
    ASSUME CallsTypeOK, NEW s \in Slots, NEW step, NEW a, Begin(s, step, a),
           \/ step = "select" /\ a \in ReserveArg
           \/ step = "updateTxn" /\ a \in CompleteArg
    PROVE  CallsTypeOK'
<1>1. Return("none") \in Returned
  BY ReturnType DEF Results
<1> QED
  BY <1>1 DEF CallsTypeOK, Begin, Steps, ReserveSteps, CompleteSteps

\* COMMIT of a reservation keeps the tables in their types.
LEMMA ReservationType ==
    ASSUME TablesTypeOK, NEW s \in Slots, arg[s] \in ReserveArg, WriteReservation(s)
    PROVE  TablesTypeOK'
<1>1. PICK k \in Keys, c \in Command : arg[s] = [op |-> "reserve", key |-> k, command |-> c]
  BY DEF ReserveArg
<1>2. ReservedTxnRow(c) \in TxnRow
  BY DEF ReservedTxnRow, NoTxnRow, TxnRow, TransactionStatus, Command
<1>3. ReservedRecord(c) \in IdemRow /\ ReservedRecord(c).processing_status = "IN_PROGRESS"
  BY DEF ReservedRecord, NoIdemRow, IdemRow, Command, RequestFingerprint, Fingerprint,
         StoredHeaders
<1>4. /\ txns' = [txns EXCEPT ![c.transaction_id] = ReservedTxnRow(c)]
      /\ records' = [records EXCEPT ![k] = ReservedRecord(c)]
  BY <1>1 DEF WriteReservation
<1> QED
  BY <1>2, <1>3, <1>4, ZenonT(60) DEF TablesTypeOK

\* COMMIT of a completion keeps the tables in their types.
LEMMA CompletionType ==
    ASSUME TablesTypeOK, NEW s \in Slots, arg[s] \in CompleteArg, WriteCompletion(s)
    PROVE  TablesTypeOK'
<1>1. PICK a \in CompleteArg : a = arg[s]
  OBVIOUS
<1>2. /\ a.key \in Keys
      /\ a.transaction_id \in Txns
      /\ a.entity \in Entity
      /\ a.envelope \in Envelope
      /\ a.network_reference \in Txns \cup {None}
      /\ a.decline_code \in {"INSUFFICIENT_FUNDS", None}
  BY DEF CompleteArg
<1>3. ASSUME NEW row \in TxnRow
      PROVE  CompletedTxnRow(row, a) \in TxnRow
  BY <1>2 DEF CompletedTxnRow, TxnRow, Entity
<1>4. /\ a.envelope.status_code \in 100..599
      /\ a.envelope.body \in Body
      /\ a.envelope.headers \in Headers
  BY <1>2 DEF Envelope
<1>5. AllowlistedHeaders(a.envelope.headers) \in StoredHeaders
  BY <1>4 DEF AllowlistedHeaders, Headers, StoredHeaders
<1>6. ASSUME NEW row \in IdemRow
      PROVE  /\ CompletedRecord(row, a) \in IdemRow
             /\ CompletedRecord(row, a).stored_status_code = a.envelope.status_code
             /\ CompletedRecord(row, a).stored_response_body = a.envelope.body
  <2> DEFINE code == a.envelope.status_code
             body == a.envelope.body
             headers == AllowlistedHeaders(a.envelope.headers)
  <2>1. CompletedRecord(row, a) =
           [row EXCEPT !.processing_status = "COMPLETED", !.stored_status_code = code,
                       !.stored_response_body = body, !.stored_headers = headers]
    BY DEF CompletedRecord
  <2>2. code \in 100..599 \cup {None} /\ body \in Body \cup {None} /\ headers \in StoredHeaders
    BY <1>4, <1>5
  <2> HIDE DEF code, body, headers
  <2>3. CompletedRecord(row, a) =
           [processing_status |-> "COMPLETED",
            request_fingerprint |-> row.request_fingerprint,
            transaction_id |-> row.transaction_id,
            stored_status_code |-> code,
            stored_response_body |-> body,
            stored_headers |-> headers]
    BY <2>1 DEF IdemRow
  <2>4. CompletedRecord(row, a) \in IdemRow
    BY <2>2, <2>3 DEF IdemRow
  <2> QED
    BY <2>3, <2>4 DEF code, body
<1>7. /\ txns' = [txns EXCEPT ![a.transaction_id] = CompletedTxnRow(txns[a.transaction_id], a)]
      /\ records' = [records EXCEPT ![a.key] = CompletedRecord(records[a.key], a)]
  BY <1>1 DEF WriteCompletion
<1>8. txns' \in [Txns -> TxnRow] /\ records' \in [Keys -> IdemRow]
  BY <1>2, <1>3, <1>6, <1>7 DEF TablesTypeOK
<1>9. ASSUME NEW k \in Keys, records'[k].processing_status = "COMPLETED"
      PROVE  records'[k].stored_status_code \in 100..599 /\ records'[k].stored_response_body \in Body
  BY <1>2, <1>4, <1>6, <1>7, <1>9 DEF TablesTypeOK
<1> QED
  BY <1>8, <1>9 DEF TablesTypeOK

\* A step that leaves the tables alone keeps their types.
LEMMA TablesTypeUnchanged ==
    ASSUME TablesTypeOK, UNCHANGED dbVars
    PROVE  TablesTypeOK'
  BY DEF TablesTypeOK, dbVars

\* Every step keeps the variables in their types.
LEMMA TypeStep ==
    ASSUME TypeOK, [Next]_coordVars
    PROVE  TypeOK'
<1>1. TablesTypeOK /\ CallsTypeOK /\ faults \in 0..MaxFaults
  BY DEF TypeOK
<1>2. faults' \in 0..MaxFaults
  <2>1. faults' = faults \/ Fault
    BY DEF Next, coordVars, CallReserve, CallComplete, SelectKey, InsertTransaction,
           InsertRecord, CommitReserve, Requery, RequeryTransaction, UpdateTransaction,
           UpdateRecord, CommitComplete, SqlFailure, ReserveAckLost, CompleteAckLost
  <2> QED
    BY <1>1, <2>1, MaxFaultsAssumption DEF Fault
<1>3. \A status \in Results : Return(status) \in Returned
  BY ReturnType
<1>4. CASE UNCHANGED coordVars
  BY <1>1, <1>2, <1>4, TablesTypeUnchanged DEF TypeOK, CallsTypeOK, coordVars, dbVars
<1>5. ASSUME NEW s \in Slots, NEW k \in Keys, NEW c \in Command, CallReserve(s, k, c)
      PROVE  TypeOK'
  <2>1. [op |-> "reserve", key |-> k, command |-> c] \in ReserveArg
    BY DEF ReserveArg
  <2>2. CallsTypeOK'
    BY <1>1, <1>5, <2>1, BeginType DEF CallReserve
  <2> QED
    BY <1>1, <1>2, <1>5, <2>2, TablesTypeUnchanged DEF TypeOK, CallReserve, dbVars
<1>6. ASSUME NEW s \in Slots, NEW a \in CompleteCalls, CallComplete(s, a)
      PROVE  TypeOK'
  <2>1. a \in CompleteArg
    BY CompleteCallsAssumption
  <2>2. CallsTypeOK'
    <3>1. CASE a.entity.version = a.expected_version + 1
      BY <1>1, <1>6, <2>1, <3>1, BeginType DEF CallComplete
    <3>2. CASE a.entity.version # a.expected_version + 1
      <4>1. Return("OptimisticConcurrencyError") \in Returned
        BY <1>3 DEF Results
      <4>2. at[s] = "free" /\ at' = at /\ arg' = [arg EXCEPT ![s] = a]
            /\ ret' = [ret EXCEPT ![s] = Return("OptimisticConcurrencyError")]
        BY <1>6, <3>2 DEF CallComplete
      <4> QED
        BY <1>1, <2>1, <4>1, <4>2 DEF CallsTypeOK, ReserveSteps, CompleteSteps
    <3> QED
      BY <3>1, <3>2
  <2> QED
    BY <1>1, <1>2, <1>6, <2>2, TablesTypeUnchanged DEF TypeOK, CallComplete, dbVars
<1>7. ASSUME NEW s \in Slots, SelectKey(s) \/ Requery(s)
      PROVE  TypeOK'
  <2>1. at[s] \in ReserveSteps /\ arg[s].key \in Keys
    BY <1>1, <1>7 DEF SelectKey, Requery, CallsTypeOK, ReserveSteps, ReserveArg
  <2>2. CallsTypeOK'
    <3>1. CASE KeyStored(arg[s].key)
      <4>1. ExistingReservation(records[arg[s].key], arg[s].command) \in Returned
        BY <1>1, <2>1, <3>1, ExistingType
      <4>2. Finish(s, ExistingReservation(records[arg[s].key], arg[s].command))
        BY <1>7, <3>1 DEF SelectKey, Requery
      <4> QED
        BY <1>1, <4>1, <4>2, FinishType
    <3>2. CASE ~KeyStored(arg[s].key)
      <4>1. GoTo(s, "insertTxn") \/ GoTo(s, "requeryTxn")
        BY <1>7, <3>2 DEF SelectKey, Requery
      <4> QED
        BY <1>1, <2>1, <4>1, GoToType DEF ReserveSteps
    <3> QED
      BY <3>1, <3>2
  <2> QED
    BY <1>1, <1>2, <1>7, <2>2, TablesTypeUnchanged DEF TypeOK, SelectKey, Requery, dbVars
<1>8. ASSUME NEW s \in Slots, InsertTransaction(s) \/ InsertRecord(s)
      PROVE  TypeOK'
  <2>1. at[s] \in ReserveSteps
    BY <1>8 DEF InsertTransaction, InsertRecord, ReserveSteps
  <2>2. \/ GoTo(s, "requery") \/ GoTo(s, "insertRecord") \/ GoTo(s, "commitReserve")
        \/ Finish(s, Return("PersistenceError"))
    BY <1>8 DEF InsertTransaction, InsertRecord
  <2>3. CASE Finish(s, Return("PersistenceError"))
    BY <1>1, <1>2, <1>3, <1>8, <2>3, FinishType, TablesTypeUnchanged
    DEF TypeOK, Results, InsertTransaction, InsertRecord, dbVars
  <2>4. CASE GoTo(s, "requery") \/ GoTo(s, "insertRecord") \/ GoTo(s, "commitReserve")
    <3>1. CallsTypeOK'
      BY <1>1, <2>1, <2>4, GoToType DEF ReserveSteps
    <3> QED
      BY <1>1, <1>2, <1>8, <3>1, TablesTypeUnchanged
      DEF TypeOK, InsertTransaction, InsertRecord, dbVars
  <2> QED
    BY <2>2, <2>3, <2>4
<1>9. ASSUME NEW s \in Slots, RequeryTransaction(s) \/ SqlFailure(s)
      PROVE  TypeOK'
  <2>1. Finish(s, Return("TRANSACTION_ID_CONFLICT")) \/ Finish(s, Return("PersistenceError"))
    BY <1>9 DEF RequeryTransaction, SqlFailure
  <2>2. CallsTypeOK'
    BY <1>1, <1>3, <2>1, FinishType DEF Results
  <2> QED
    BY <1>1, <1>2, <1>9, <2>2, TablesTypeUnchanged
    DEF TypeOK, RequeryTransaction, SqlFailure, dbVars
<1>10. ASSUME NEW s \in Slots, UpdateTransaction(s) \/ UpdateRecord(s)
       PROVE  TypeOK'
  <2>1. at[s] \in CompleteSteps
    BY <1>10 DEF UpdateTransaction, UpdateRecord, CompleteSteps
  <2>2. \/ GoTo(s, "updateRecord") \/ GoTo(s, "commitComplete")
        \/ Finish(s, Return("OptimisticConcurrencyError"))
        \/ Finish(s, Return("PersistenceError"))
    BY <1>10 DEF UpdateTransaction, UpdateRecord
  <2>3. CallsTypeOK'
    <3>1. CASE GoTo(s, "updateRecord") \/ GoTo(s, "commitComplete")
      BY <1>1, <2>1, <3>1, GoToType DEF CompleteSteps
    <3>2. CASE \/ Finish(s, Return("OptimisticConcurrencyError"))
               \/ Finish(s, Return("PersistenceError"))
      BY <1>1, <1>3, <3>2, FinishType DEF Results
    <3> QED
      BY <2>2, <3>1, <3>2
  <2> QED
    BY <1>1, <1>2, <1>10, <2>3, TablesTypeUnchanged
    DEF TypeOK, UpdateTransaction, UpdateRecord, dbVars
<1>11. ASSUME NEW s \in Slots, CommitReserve(s) \/ ReserveAckLost(s)
       PROVE  TypeOK'
  <2>1. arg[s] \in ReserveArg
    BY <1>1, <1>11 DEF CommitReserve, ReserveAckLost, CallsTypeOK, ReserveSteps
  <2>2. TablesTypeOK'
    BY <1>1, <1>11, <2>1, ReservationType DEF CommitReserve, ReserveAckLost
  <2>3. Finish(s, Return("ACQUIRED")) \/ Finish(s, Return("PersistenceError"))
    BY <1>11 DEF CommitReserve, ReserveAckLost
  <2>4. CallsTypeOK'
    BY <1>1, <1>3, <2>3, FinishType DEF Results
  <2> QED
    BY <1>2, <2>2, <2>4 DEF TypeOK
<1>12. ASSUME NEW s \in Slots, CommitComplete(s) \/ CompleteAckLost(s)
       PROVE  TypeOK'
  <2>1. arg[s] \in CompleteArg
    BY <1>1, <1>12 DEF CommitComplete, CompleteAckLost, CallsTypeOK, CompleteSteps
  <2>2. TablesTypeOK'
    BY <1>1, <1>12, <2>1, CompletionType DEF CommitComplete, CompleteAckLost
  <2>3. Finish(s, Return("DONE")) \/ Finish(s, Return("PersistenceError"))
    BY <1>12 DEF CommitComplete, CompleteAckLost
  <2>4. CallsTypeOK'
    BY <1>1, <1>3, <2>3, FinishType DEF Results
  <2> QED
    BY <1>2, <2>2, <2>4 DEF TypeOK
<1>13. ASSUME NEW s \in Slots, Abandon(s)
       PROVE  TypeOK'
  <2>1. Return("none") \in Returned
    BY <1>3 DEF Results
  <2>2. CallsTypeOK'
    BY <1>1, <1>13, <2>1 DEF CallsTypeOK, Abandon, Steps, ReserveSteps, CompleteSteps
  <2> QED
    BY <1>1, <1>2, <1>13, <2>2, TablesTypeUnchanged DEF TypeOK, Abandon, dbVars
<1> QED
  BY <1>4, <1>5, <1>6, <1>7, <1>8, <1>9, <1>10, <1>11, <1>12, <1>13 DEF Next

\* Every variable has its type initially.
LEMMA TypeInit == CoordInit => TypeOK
<1> SUFFICES ASSUME CoordInit PROVE TypeOK
  OBVIOUS
<1>1. NoTxnRow \in TxnRow
  BY DEF NoTxnRow, TxnRow
<1>2. NoIdemRow \in IdemRow
  BY DEF NoIdemRow, IdemRow, StoredHeaders
<1>3. Return("none") \in Returned
  BY ReturnType DEF Results
<1>4. TablesTypeOK
  BY <1>1, <1>2 DEF CoordInit, TablesTypeOK, NoIdemRow
<1>5. CallsTypeOK
  BY <1>3 DEF CoordInit, CallsTypeOK, Steps, ReserveSteps, CompleteSteps
<1> QED
  BY <1>4, <1>5, MaxFaultsAssumption DEF CoordInit, TypeOK

\* Every variable keeps its type; a COMPLETED record always has a response, so
\* _classify_existing can rebuild the envelope of a replay.
THEOREM TypeCorrect == Spec => []TypeOK
  BY TypeInit, TypeStep, PTL DEF Spec

-----------------------------------------------------------------------------
(* The tables agree.  The inductive invariant adds LocksHold: what a       *)
(* statement found out about a row still holds when its transaction        *)
(* commits, because nobody else writes that row in between.                *)

IndInv == TypeOK /\ LocksHold /\ TablesAgree

\* The statements after which a slot has written no row.
Unlocked == {"free", "select", "insertTxn", "requery", "requeryTxn", "updateTxn"}

\* A call that begins, ends, is rolled back or reads keeps LocksHold.
LEMMA ReleaseHolds ==
    ASSUME TypeOK, LocksHold, UNCHANGED dbVars,
           NEW s \in Slots, NEW step \in Unlocked,
           at' = [at EXCEPT ![s] = step],
           \A r \in Slots \ {s} : arg'[r] = arg[r],
           step = "updateTxn" => arg'[s].entity.version = arg'[s].expected_version + 1
    PROVE  LocksHold'
<1>1. at \in [Slots -> Steps]
  BY DEF TypeOK, CallsTypeOK
<1>2. at'[s] = step /\ \A r \in Slots \ {s} : at'[r] = at[r] /\ arg'[r] = arg[r]
  BY <1>1
<1>3. WritersExclude'
  <2>1. ASSUME NEW t \in Txns PROVE TxnRowHolders(t)' \subseteq TxnRowHolders(t)
    BY <1>2 DEF TxnRowHolders, Unlocked
  <2>2. ASSUME NEW k \in Keys PROVE KeyHolders(k)' \subseteq KeyHolders(k)
    BY <1>2 DEF KeyHolders, Unlocked
  <2> QED
    BY <2>1, <2>2 DEF WritersExclude, LocksHold
<1>4. ASSUME NEW r \in Slots PROVE RowsHeld(r)'
  <2>1. CASE r = s
    BY <1>2, <2>1 DEF RowsHeld, Unlocked, CompleteSteps
  <2>2. CASE r # s
    <3>1. RowsHeld(r)
      BY DEF LocksHold
    <3> QED
      BY <1>2, <2>2, <3>1
      DEF RowsHeld, TxnStored, KeyStored, VersionMatches, RecordMatches, dbVars
  <2> QED
    BY <2>1, <2>2
<1> QED
  BY <1>3, <1>4 DEF LocksHold

\* A statement that writes a row nobody else has written keeps LocksHold.
LEMMA AcquireHolds ==
    ASSUME TypeOK, LocksHold, UNCHANGED dbVars, UNCHANGED arg,
           NEW s \in Slots, NEW step \in {"insertRecord", "commitReserve",
                                          "updateRecord", "commitComplete"},
           at' = [at EXCEPT ![s] = step],
           \A r \in Slots \ {s} :
              /\ r \notin TxnRowHolders(TxnOf(arg[s]))
              /\ step \in {"commitReserve", "commitComplete"} => r \notin KeyHolders(arg[s].key),
           RowsHeld(s)'
    PROVE  LocksHold'
<1>1. at \in [Slots -> Steps]
  BY DEF TypeOK, CallsTypeOK
<1>2. at'[s] = step /\ arg' = arg /\ \A r \in Slots \ {s} : at'[r] = at[r]
  BY <1>1
<1>3. WritersExclude'
  <2>1. ASSUME NEW t \in Txns, NEW q \in TxnRowHolders(t)', NEW r \in TxnRowHolders(t)'
        PROVE  q = r
    <3>1. ASSUME NEW u \in TxnRowHolders(t)', u # s PROVE u \in TxnRowHolders(t)
      BY <1>2, <3>1 DEF TxnRowHolders
    <3>2. s \in TxnRowHolders(t)' => TxnOf(arg[s]) = t
      BY <1>2 DEF TxnRowHolders
    <3>3. TxnRowHolders(t)' \subseteq Slots
      BY DEF TxnRowHolders
    <3> QED
      BY <3>1, <3>2, <3>3 DEF LocksHold, WritersExclude
  <2>2. ASSUME NEW k \in Keys, NEW q \in KeyHolders(k)', NEW r \in KeyHolders(k)'
        PROVE  q = r
    <3>1. ASSUME NEW u \in KeyHolders(k)', u # s PROVE u \in KeyHolders(k)
      BY <1>2, <3>1 DEF KeyHolders
    <3>2. s \in KeyHolders(k)' =>
             arg[s].key = k /\ step \in {"commitReserve", "commitComplete"}
      BY <1>2 DEF KeyHolders
    <3>3. KeyHolders(k)' \subseteq Slots
      BY DEF KeyHolders
    <3> QED
      BY <3>1, <3>2, <3>3 DEF LocksHold, WritersExclude
  <2> QED
    BY <2>1, <2>2 DEF WritersExclude
<1>4. ASSUME NEW r \in Slots, r # s PROVE RowsHeld(r)'
  <2>1. RowsHeld(r)
    BY DEF LocksHold
  <2> QED
    BY <1>2, <1>4, <2>1
    DEF RowsHeld, TxnStored, KeyStored, VersionMatches, RecordMatches, dbVars
<1> QED
  BY <1>3, <1>4 DEF LocksHold

\* A step that leaves the tables alone keeps their agreement.
LEMMA TablesAgreeUnchanged ==
    ASSUME TablesAgree, UNCHANGED dbVars
    PROVE  TablesAgree'
  BY DEF TablesAgree, RecordsAgree, RecordAgrees, SameRequest, OneKeyPerTransaction,
         TxnStored, KeyStored, dbVars

\* The COMMIT of a reservation keeps the invariant: neither row existed.
LEMMA ReservationKeeps ==
    ASSUME IndInv, NEW s \in Slots, at[s] = "commitReserve", WriteReservation(s),
           at' = [at EXCEPT ![s] = "free"], UNCHANGED arg
    PROVE  LocksHold' /\ TablesAgree'
<1>1. PICK k \in Keys, c \in Command : arg[s] = [op |-> "reserve", key |-> k, command |-> c]
  <2>1. arg[s] \in ReserveArg
    BY DEF IndInv, TypeOK, CallsTypeOK, ReserveSteps
  <2> QED
    BY <2>1 DEF ReserveArg
<1> DEFINE t == c.transaction_id
<1>2. t \in Txns /\ c.terms \in Terms /\ RequestFingerprint(c) \in Fingerprint
      /\ RequestFingerprint(c)[3] = t /\ RequestFingerprint(c)[1] = c.terms
  BY DEF Command, RequestFingerprint, Fingerprint
<1>3. TxnOf(arg[s]) = t /\ arg[s].key = k
  BY <1>1 DEF TxnOf
<1>4. RowsHeld(s) /\ ~TxnStored(t) /\ ~KeyStored(k)
  BY <1>3 DEF IndInv, LocksHold, RowsHeld
<1>5. /\ txns' = [txns EXCEPT ![t] = ReservedTxnRow(c)]
      /\ records' = [records EXCEPT ![k] = ReservedRecord(c)]
  BY <1>1 DEF WriteReservation
<1>6. txns \in [Txns -> TxnRow] /\ records \in [Keys -> IdemRow] /\ at \in [Slots -> Steps]
  BY DEF IndInv, TypeOK, TablesTypeOK, CallsTypeOK
<1>7. /\ txns'[t].status = "CREATED" /\ txns'[t].version = 0 /\ txns'[t].terms = c.terms
      /\ records'[k].processing_status = "IN_PROGRESS"
      /\ records'[k].request_fingerprint = RequestFingerprint(c)
      /\ records'[k].transaction_id = t
  BY <1>2, <1>5, <1>6 DEF ReservedTxnRow, NoTxnRow, ReservedRecord, NoIdemRow
<1>8. /\ \A u \in Txns \ {t} : txns'[u] = txns[u]
      /\ \A j \in Keys \ {k} : records'[j] = records[j]
      /\ at'[s] = "free" /\ \A r \in Slots \ {s} : at'[r] = at[r]
  BY <1>5, <1>6
<1> HIDE DEF t
<1>9. ASSUME NEW j \in Keys, KeyStored(j) PROVE records[j].transaction_id \in Txns \ {t}
  BY <1>4, <1>9 DEF IndInv, TablesAgree, RecordsAgree, RecordAgrees
<1>10. RecordsAgree'
  <2> SUFFICES ASSUME NEW j \in Keys, KeyStored(j)'
               PROVE  RecordAgrees(records[j], records[j].transaction_id)'
    BY DEF RecordsAgree
  <2>1. CASE j = k
    BY <1>2, <1>7, <2>1 DEF RecordAgrees, SameRequest, TxnStored
  <2>2. CASE j # k
    <3>1. KeyStored(j) /\ records'[j] = records[j]
      BY <1>8, <2>2 DEF KeyStored
    <3>2. records[j].transaction_id \in Txns \ {t}
      BY <1>9, <3>1
    <3>3. txns'[records[j].transaction_id] = txns[records[j].transaction_id]
      BY <1>8, <3>2
    <3>4. RecordAgrees(records[j], records[j].transaction_id)
      BY <3>1 DEF IndInv, TablesAgree, RecordsAgree
    <3> QED
      BY <3>1, <3>3, <3>4 DEF RecordAgrees, SameRequest, TxnStored
  <2> QED
    BY <2>1, <2>2
<1>11. OneKeyPerTransaction'
  <2>1. ASSUME NEW u \in Txns, TxnStored(u)'
        PROVE  \E j \in Keys : KeyStored(j)' /\ records'[j].transaction_id = u
    <3>1. CASE u = t
      BY <1>7, <3>1 DEF KeyStored
    <3>2. CASE u # t
      <4>1. TxnStored(u)
        BY <1>8, <2>1, <3>2 DEF TxnStored
      <4>2. PICK j \in Keys : KeyStored(j) /\ records[j].transaction_id = u
        BY <4>1 DEF IndInv, TablesAgree, OneKeyPerTransaction
      <4>3. j # k
        BY <1>4, <4>2
      <4> QED
        BY <1>8, <4>2, <4>3 DEF KeyStored
    <3> QED
      BY <3>1, <3>2
  <2>2. ASSUME NEW i \in Keys, NEW j \in Keys, KeyStored(i)', KeyStored(j)',
               records'[i].transaction_id = records'[j].transaction_id
        PROVE  i = j
    <3>1. \A l \in Keys \ {k} : KeyStored(l)' => KeyStored(l) /\ records'[l] = records[l]
      BY <1>8 DEF KeyStored
    <3> QED
      BY <1>7, <1>9, <2>2, <3>1 DEF IndInv, TablesAgree, OneKeyPerTransaction
  <2> QED
    BY <2>1, <2>2 DEF OneKeyPerTransaction
<1>12. WritersExclude'
  <2>1. ASSUME NEW u \in Txns PROVE TxnRowHolders(u)' \subseteq TxnRowHolders(u)
    BY <1>8 DEF TxnRowHolders
  <2>2. ASSUME NEW j \in Keys PROVE KeyHolders(j)' \subseteq KeyHolders(j)
    BY <1>8 DEF KeyHolders
  <2> QED
    BY <2>1, <2>2 DEF WritersExclude, LocksHold, IndInv
<1>13. ASSUME NEW r \in Slots PROVE RowsHeld(r)'
  <2>1. CASE r = s
    BY <1>8, <2>1 DEF RowsHeld, CompleteSteps
  <2>2. CASE r # s
    <3>1. RowsHeld(r) /\ at'[r] = at[r] /\ arg'[r] = arg[r]
      BY <1>8, <2>2 DEF IndInv, LocksHold
    <3>2. at[r] \in {"insertRecord", "commitReserve", "updateRecord", "commitComplete"} =>
             TxnOf(arg[r]) # t
      <4>1. s \in TxnRowHolders(t)
        BY <1>3 DEF TxnRowHolders
      <4> QED
        BY <1>2, <2>2, <4>1 DEF IndInv, LocksHold, WritersExclude, TxnRowHolders, t
    <3>3. at[r] = "commitReserve" => arg[r].key # k
      <4>1. s \in KeyHolders(k)
        BY <1>3 DEF KeyHolders
      <4> QED
        BY <2>2, <4>1 DEF IndInv, LocksHold, WritersExclude, KeyHolders
    <3>4. at[r] = "commitComplete" => arg[r].key # k
      BY <1>4, <3>1 DEF RowsHeld, RecordMatches, KeyStored
    <3>5. at[r] \in ReserveSteps => arg[r].key \in Keys /\ TxnOf(arg[r]) \in Txns
      BY DEF IndInv, TypeOK, CallsTypeOK, ReserveArg, TxnOf, Command
    <3>6. at[r] \in CompleteSteps =>
             arg[r].key \in Keys /\ arg[r].transaction_id \in Txns
             /\ TxnOf(arg[r]) = arg[r].transaction_id
      BY DEF IndInv, TypeOK, CallsTypeOK, CompleteArg, TxnOf
    <3>7. at[r] \in {"insertRecord", "commitReserve"} => ~TxnStored(TxnOf(arg[r]))'
      BY <1>8, <3>1, <3>2, <3>5 DEF RowsHeld, TxnStored, ReserveSteps
    <3>8. at[r] = "commitReserve" => ~KeyStored(arg[r].key)'
      BY <1>8, <3>1, <3>3, <3>5 DEF RowsHeld, KeyStored, ReserveSteps
    <3>9. at[r] \in {"updateRecord", "commitComplete"} => VersionMatches(arg[r])'
      BY <1>8, <3>1, <3>2, <3>6 DEF RowsHeld, VersionMatches, TxnStored, CompleteSteps
    <3>10. at[r] = "commitComplete" => RecordMatches(arg[r])'
      BY <1>8, <3>1, <3>4, <3>6 DEF RowsHeld, RecordMatches, CompleteSteps
    <3> QED
      BY <3>1, <3>7, <3>8, <3>9, <3>10 DEF RowsHeld
  <2> QED
    BY <2>1, <2>2
<1> QED
  BY <1>10, <1>11, <1>12, <1>13 DEF LocksHold, TablesAgree

\* The COMMIT of a completion keeps the invariant: the record it matched is
\* IN_PROGRESS, so the version it replaced was 0, and no other record and no
\* other transaction in progress refers to the row.
LEMMA CompletionKeeps ==
    ASSUME IndInv, NEW s \in Slots, at[s] = "commitComplete", WriteCompletion(s),
           at' = [at EXCEPT ![s] = "free"], UNCHANGED arg
    PROVE  LocksHold' /\ TablesAgree'
<1>1. arg[s] \in CompleteArg
  BY DEF IndInv, TypeOK, CallsTypeOK, CompleteSteps
<1>2. PICK a \in CompleteArg : a = arg[s]
  BY <1>1
<1> DEFINE k == a.key
           t == a.transaction_id
<1>3. k \in Keys /\ t \in Txns /\ a.entity \in Entity /\ TxnOf(arg[s]) = t /\ arg[s].key = k
  BY <1>2 DEF CompleteArg, TxnOf
<1>4. RowsHeld(s)
  BY DEF IndInv, LocksHold
<1>5. VersionMatches(a) /\ RecordMatches(a) /\ a.entity.version = a.expected_version + 1
  BY <1>2, <1>4 DEF RowsHeld, CompleteSteps
<1>6. txns \in [Txns -> TxnRow] /\ records \in [Keys -> IdemRow] /\ at \in [Slots -> Steps]
  BY DEF IndInv, TypeOK, TablesTypeOK, CallsTypeOK
<1>7. /\ txns' = [txns EXCEPT ![t] = CompletedTxnRow(txns[t], a)]
      /\ records' = [records EXCEPT ![k] = CompletedRecord(records[k], a)]
  BY <1>2 DEF WriteCompletion
<1>8. KeyStored(k) /\ records[k].transaction_id = t /\ records[k].processing_status = "IN_PROGRESS"
  BY <1>5 DEF RecordMatches, KeyStored
<1>9. RecordAgrees(records[k], t) /\ txns[t].version = 0
  BY <1>3, <1>8 DEF IndInv, TablesAgree, RecordsAgree, RecordAgrees
<1>10. a.entity.version = 1
  BY <1>5, <1>9 DEF VersionMatches
<1>11. /\ txns'[t].status = a.entity.status
       /\ txns'[t].version = a.entity.version
       /\ txns'[t].terms = txns[t].terms
  BY <1>3, <1>6, <1>7 DEF CompletedTxnRow, TxnRow
<1>12. /\ records'[k].processing_status = "COMPLETED"
       /\ records'[k].request_fingerprint = records[k].request_fingerprint
       /\ records'[k].transaction_id = t
  BY <1>3, <1>6, <1>7, <1>8 DEF CompletedRecord, IdemRow
<1>13. /\ \A u \in Txns \ {t} : txns'[u] = txns[u]
       /\ \A j \in Keys \ {k} : records'[j] = records[j]
       /\ at'[s] = "free" /\ \A r \in Slots \ {s} : at'[r] = at[r]
  BY <1>6, <1>7
<1>14. TxnStored(t) /\ TxnStored(t)' /\ KeyStored(k)'
  BY <1>3, <1>9, <1>11, <1>12
  DEF RecordAgrees, TxnStored, KeyStored, Entity, TransactionStatus
<1> HIDE DEF k, t
<1>15. ASSUME NEW j \in Keys \ {k}, KeyStored(j) PROVE records[j].transaction_id \in Txns \ {t}
  BY <1>3, <1>8, <1>15
  DEF IndInv, TablesAgree, RecordsAgree, RecordAgrees, OneKeyPerTransaction
<1>16. RecordsAgree'
  <2> SUFFICES ASSUME NEW j \in Keys, KeyStored(j)'
               PROVE  RecordAgrees(records[j], records[j].transaction_id)'
    BY DEF RecordsAgree
  <2>1. CASE j = k
    BY <1>3, <1>9, <1>10, <1>11, <1>12, <1>14, <2>1 DEF RecordAgrees, SameRequest, TxnStored
  <2>2. CASE j # k
    <3>1. KeyStored(j) /\ records'[j] = records[j]
      BY <1>13, <2>2 DEF KeyStored
    <3>2. records[j].transaction_id \in Txns \ {t}
      BY <1>15, <2>2, <3>1
    <3>3. txns'[records[j].transaction_id] = txns[records[j].transaction_id]
      BY <1>13, <3>2
    <3>4. RecordAgrees(records[j], records[j].transaction_id)
      BY <3>1 DEF IndInv, TablesAgree, RecordsAgree
    <3> QED
      BY <3>1, <3>3, <3>4 DEF RecordAgrees, SameRequest, TxnStored
  <2> QED
    BY <2>1, <2>2
<1>17. \A j \in Keys : /\ KeyStored(j)' <=> KeyStored(j)
                       /\ records'[j].transaction_id = records[j].transaction_id
  BY <1>8, <1>12, <1>13, <1>14 DEF KeyStored
<1>18. \A u \in Txns : TxnStored(u)' <=> TxnStored(u)
  BY <1>13, <1>14 DEF TxnStored
<1>19. OneKeyPerTransaction'
  BY <1>17, <1>18 DEF IndInv, TablesAgree, OneKeyPerTransaction
<1>20. WritersExclude'
  <2>1. ASSUME NEW u \in Txns PROVE TxnRowHolders(u)' \subseteq TxnRowHolders(u)
    BY <1>13 DEF TxnRowHolders
  <2>2. ASSUME NEW j \in Keys PROVE KeyHolders(j)' \subseteq KeyHolders(j)
    BY <1>13 DEF KeyHolders
  <2> QED
    BY <2>1, <2>2 DEF WritersExclude, LocksHold, IndInv
<1>21. ASSUME NEW r \in Slots PROVE RowsHeld(r)'
  <2>1. CASE r = s
    BY <1>13, <2>1 DEF RowsHeld, CompleteSteps
  <2>2. CASE r # s
    <3>1. RowsHeld(r) /\ at'[r] = at[r] /\ arg'[r] = arg[r]
      BY <1>13, <2>2 DEF IndInv, LocksHold
    <3>2. at[r] \in {"insertRecord", "commitReserve", "updateRecord", "commitComplete"} =>
             TxnOf(arg[r]) # t
      <4>1. s \in TxnRowHolders(t)
        BY <1>3 DEF TxnRowHolders
      <4> QED
        BY <1>3, <2>2, <4>1 DEF IndInv, LocksHold, WritersExclude, TxnRowHolders
    <3>3. at[r] = "commitComplete" => arg[r].key # k
      <4>1. s \in KeyHolders(k)
        BY <1>3 DEF KeyHolders
      <4> QED
        BY <1>3, <2>2, <4>1 DEF IndInv, LocksHold, WritersExclude, KeyHolders
    <3>4. at[r] \in ReserveSteps => arg[r].key \in Keys /\ TxnOf(arg[r]) \in Txns
      BY DEF IndInv, TypeOK, CallsTypeOK, ReserveArg, TxnOf, Command
    <3>5. at[r] \in CompleteSteps =>
             arg[r].key \in Keys /\ arg[r].transaction_id \in Txns
             /\ TxnOf(arg[r]) = arg[r].transaction_id
      BY DEF IndInv, TypeOK, CallsTypeOK, CompleteArg, TxnOf
    <3>6. at[r] \in {"insertRecord", "commitReserve"} => ~TxnStored(TxnOf(arg[r]))'
      BY <1>18, <3>1, <3>4 DEF RowsHeld, TxnStored, ReserveSteps
    <3>7. at[r] = "commitReserve" => ~KeyStored(arg[r].key)'
      BY <1>17, <3>1, <3>4 DEF RowsHeld, KeyStored, ReserveSteps
    <3>8. at[r] \in {"updateRecord", "commitComplete"} => VersionMatches(arg[r])'
      BY <1>13, <3>1, <3>2, <3>5 DEF RowsHeld, VersionMatches, TxnStored, CompleteSteps
    <3>9. at[r] = "commitComplete" => RecordMatches(arg[r])'
      BY <1>13, <3>1, <3>3, <3>5 DEF RowsHeld, RecordMatches, CompleteSteps
    <3> QED
      BY <3>1, <3>6, <3>7, <3>8, <3>9 DEF RowsHeld
  <2> QED
    BY <2>1, <2>2
<1> QED
  BY <1>16, <1>19, <1>20, <1>21 DEF LocksHold, TablesAgree

\* A call that ends keeps LocksHold.
LEMMA FinishHolds ==
    ASSUME TypeOK, LocksHold, UNCHANGED dbVars, NEW s \in Slots, NEW v, Finish(s, v)
    PROVE  LocksHold'
<1>1. at' = [at EXCEPT ![s] = "free"] /\ arg' = arg
  BY DEF Finish
<1>2. "free" \in Unlocked
  BY DEF Unlocked
<1> QED
  BY <1>1, <1>2, ReleaseHolds

\* A SELECT, or an INSERT that raised IntegrityError, keeps LocksHold.
LEMMA ReadHolds ==
    ASSUME TypeOK, LocksHold, UNCHANGED dbVars, NEW s \in Slots,
           NEW step \in {"insertTxn", "requery", "requeryTxn"}, GoTo(s, step)
    PROVE  LocksHold'
<1>1. at' = [at EXCEPT ![s] = step] /\ arg' = arg
  BY DEF GoTo
<1>2. step \in Unlocked /\ step # "updateTxn"
  BY DEF Unlocked
<1> QED
  BY <1>1, <1>2, ReleaseHolds

\* Step A of reserve keeps LocksHold: it fails on a value, or waits for other
\* writers of the row.
LEMMA InsertTransactionHolds ==
    ASSUME IndInv, NEW s \in Slots, InsertTransaction(s)
    PROVE  LocksHold'
<1> DEFINE t == TxnOf(arg[s])
<1>1. TypeOK /\ LocksHold /\ UNCHANGED dbVars /\ at[s] = "insertTxn"
  BY DEF IndInv, InsertTransaction, dbVars
<1>2. CASE Finish(s, Return("PersistenceError"))
  BY <1>1, <1>2, FinishHolds
<1>3. CASE TxnStored(t) /\ GoTo(s, "requery")
  BY <1>1, <1>3, ReadHolds
<1>4. CASE ~TxnStored(t) /\ TxnRowHolders(t) \subseteq {s} /\ GoTo(s, "insertRecord")
  <2>1. at' = [at EXCEPT ![s] = "insertRecord"] /\ UNCHANGED arg
    BY <1>4 DEF GoTo
  <2>2. at'[s] = "insertRecord"
    BY <1>1, <2>1 DEF TypeOK, CallsTypeOK
  <2>3. RowsHeld(s)'
    BY <1>1, <1>4, <2>1, <2>2 DEF RowsHeld, TxnStored, dbVars, CompleteSteps
  <2>4. \A r \in Slots \ {s} : r \notin TxnRowHolders(t)
    BY <1>4
  <2> QED
    BY <1>1, <2>1, <2>3, <2>4, AcquireHolds
<1> QED
  BY <1>2, <1>3, <1>4 DEF InsertTransaction

\* Step B of reserve keeps LocksHold: it waits for other writers of the key.
LEMMA InsertRecordHolds ==
    ASSUME IndInv, NEW s \in Slots, InsertRecord(s)
    PROVE  LocksHold'
<1> DEFINE t == TxnOf(arg[s])
<1>1. TypeOK /\ LocksHold /\ UNCHANGED dbVars /\ at[s] = "insertRecord"
      /\ KeyHolders(arg[s].key) \subseteq {s}
  BY DEF IndInv, InsertRecord, dbVars
<1>2. CASE KeyStored(arg[s].key)
  <2>1. GoTo(s, "requery")
    BY <1>2 DEF InsertRecord
  <2> QED
    BY <1>1, <2>1, ReadHolds
<1>3. CASE ~KeyStored(arg[s].key)
  <2>1. at' = [at EXCEPT ![s] = "commitReserve"] /\ UNCHANGED arg
    BY <1>3 DEF InsertRecord, GoTo
  <2>2. at'[s] = "commitReserve"
    BY <1>1, <2>1 DEF TypeOK, CallsTypeOK
  <2>3. RowsHeld(s)
    BY <1>1 DEF LocksHold
  <2>4. RowsHeld(s)'
    BY <1>1, <1>3, <2>1, <2>2, <2>3 DEF RowsHeld, TxnStored, KeyStored, dbVars, CompleteSteps
  <2>5. t \in Txns
    BY <1>1 DEF TypeOK, CallsTypeOK, ReserveSteps, ReserveArg, Command, TxnOf
  <2>6. s \in TxnRowHolders(t)
    BY <1>1 DEF TxnRowHolders
  <2>7. \A r \in Slots \ {s} : r \notin TxnRowHolders(t) /\ r \notin KeyHolders(arg[s].key)
    BY <1>1, <2>5, <2>6 DEF LocksHold, WritersExclude
  <2> QED
    BY <1>1, <2>1, <2>4, <2>7, AcquireHolds
<1> QED
  BY <1>2, <1>3

\* The first UPDATE of complete keeps LocksHold: it waits for other updates,
\* and a row that exists is being inserted by nobody.
LEMMA UpdateTransactionHolds ==
    ASSUME IndInv, NEW s \in Slots, UpdateTransaction(s)
    PROVE  LocksHold'
<1> DEFINE t == TxnOf(arg[s])
<1>1. TypeOK /\ LocksHold /\ UNCHANGED dbVars /\ at[s] = "updateTxn"
  BY DEF IndInv, UpdateTransaction, dbVars
<1>2. CASE \/ Finish(s, Return("OptimisticConcurrencyError"))
           \/ Finish(s, Return("PersistenceError"))
  BY <1>1, <1>2, FinishHolds
<1>3. CASE /\ VersionMatches(arg[s])
           /\ TxnUpdaters(t) \subseteq {s}
           /\ GoTo(s, "updateRecord")
  <2>1. at' = [at EXCEPT ![s] = "updateRecord"] /\ UNCHANGED arg
    BY <1>3 DEF GoTo
  <2>2. at'[s] = "updateRecord"
    BY <1>1, <2>1 DEF TypeOK, CallsTypeOK
  <2>3. RowsHeld(s)
    BY <1>1 DEF LocksHold
  <2>4. RowsHeld(s)'
    BY <1>1, <1>3, <2>1, <2>2, <2>3
    DEF RowsHeld, VersionMatches, TxnStored, dbVars, CompleteSteps
  <2>5. t = arg[s].transaction_id /\ TxnStored(t)
    BY <1>1, <1>3
    DEF TypeOK, CallsTypeOK, CompleteSteps, CompleteArg, TxnOf, VersionMatches
  <2>6. ASSUME NEW r \in Slots \ {s} PROVE r \notin TxnRowHolders(t)
    <3>1. RowsHeld(r)
      BY <1>1 DEF LocksHold
    <3> QED
      BY <1>3, <2>5, <3>1 DEF RowsHeld, TxnRowHolders, TxnUpdaters
  <2> QED
    BY <1>1, <2>1, <2>4, <2>6, AcquireHolds
<1> QED
  BY <1>2, <1>3 DEF UpdateTransaction

\* The second UPDATE of complete keeps LocksHold without waiting: whoever else
\* had written this record would hold the same transaction row.
LEMMA UpdateRecordHolds ==
    ASSUME IndInv, NEW s \in Slots, UpdateRecord(s)
    PROVE  LocksHold'
<1> DEFINE t == TxnOf(arg[s])
           k == arg[s].key
<1>1. TypeOK /\ LocksHold /\ UNCHANGED dbVars /\ at[s] = "updateRecord"
  BY DEF IndInv, UpdateRecord, dbVars
<1>2. CASE ~RecordMatches(arg[s])
  <2>1. Finish(s, Return("OptimisticConcurrencyError"))
    BY <1>2 DEF UpdateRecord
  <2> QED
    BY <1>1, <2>1, FinishHolds
<1>3. CASE RecordMatches(arg[s])
  <2>1. at' = [at EXCEPT ![s] = "commitComplete"] /\ UNCHANGED arg
    BY <1>3 DEF UpdateRecord, GoTo
  <2>2. at'[s] = "commitComplete"
    BY <1>1, <2>1 DEF TypeOK, CallsTypeOK
  <2>3. RowsHeld(s)
    BY <1>1 DEF LocksHold
  <2>4. RowsHeld(s)'
    BY <1>1, <1>3, <2>1, <2>2, <2>3
    DEF RowsHeld, VersionMatches, RecordMatches, TxnStored, dbVars, CompleteSteps
  <2>5. t = arg[s].transaction_id /\ t \in Txns
    BY <1>1 DEF TypeOK, CallsTypeOK, CompleteSteps, CompleteArg, TxnOf
  <2>6. ASSUME NEW r \in Slots \ {s} PROVE r \notin TxnRowHolders(t)
    <3>1. s \in TxnRowHolders(t)
      BY <1>1 DEF TxnRowHolders
    <3> QED
      BY <1>1, <2>5, <3>1 DEF LocksHold, WritersExclude
  <2>7. ASSUME NEW r \in Slots \ {s} PROVE r \notin KeyHolders(k)
    <3> SUFFICES ASSUME r \in KeyHolders(k) PROVE FALSE
      OBVIOUS
    <3>1. RowsHeld(r) /\ arg[r].key = k /\ at[r] \in {"commitReserve", "commitComplete"}
      BY <1>1 DEF LocksHold, KeyHolders
    <3>2. CASE at[r] = "commitReserve"
      BY <1>3, <3>1, <3>2 DEF RowsHeld, RecordMatches, KeyStored
    <3>3. CASE at[r] = "commitComplete"
      <4>1. arg[r].transaction_id = t
        BY <1>3, <2>5, <3>1, <3>3 DEF RowsHeld, RecordMatches
      <4>2. TxnOf(arg[r]) = t
        BY <1>1, <3>3, <4>1 DEF TypeOK, CallsTypeOK, CompleteSteps, CompleteArg, TxnOf
      <4>3. r \in TxnRowHolders(t)
        BY <3>3, <4>2 DEF TxnRowHolders
      <4> QED
        BY <2>6, <4>3
    <3> QED
      BY <3>1, <3>2, <3>3
  <2> QED
    BY <1>1, <2>1, <2>4, <2>6, <2>7, AcquireHolds
<1> QED
  BY <1>2, <1>3

\* Every step keeps the inductive invariant.
LEMMA IndStep ==
    ASSUME IndInv, [Next]_coordVars
    PROVE  IndInv'
<1>1. TypeOK /\ LocksHold /\ TablesAgree /\ TypeOK'
  BY TypeStep DEF IndInv
<1>2. CASE UNCHANGED coordVars
  <2>1. UNCHANGED dbVars
    BY <1>2 DEF coordVars, dbVars
  <2>2. LocksHold'
    BY <1>1, <1>2
    DEF LocksHold, WritersExclude, RowsHeld, TxnRowHolders, KeyHolders, TxnStored, KeyStored,
        VersionMatches, RecordMatches, coordVars
  <2> QED
    BY <1>1, <2>1, <2>2, TablesAgreeUnchanged DEF IndInv
<1>3. ASSUME NEW s \in Slots, NEW k \in Keys, NEW c \in Command, CallReserve(s, k, c)
      PROVE  IndInv'
  <2>1. /\ UNCHANGED dbVars
        /\ at' = [at EXCEPT ![s] = "select"]
        /\ \A r \in Slots \ {s} : arg'[r] = arg[r]
    BY <1>1, <1>3 DEF CallReserve, Begin, dbVars, TypeOK, CallsTypeOK
  <2>2. "select" \in Unlocked
    BY DEF Unlocked
  <2>3. LocksHold'
    BY <1>1, <2>1, <2>2, ReleaseHolds
  <2> QED
    BY <1>1, <2>1, <2>3, TablesAgreeUnchanged DEF IndInv
<1>4. ASSUME NEW s \in Slots, NEW a \in CompleteCalls, CallComplete(s, a)
      PROVE  IndInv'
  <2>1. UNCHANGED dbVars /\ at[s] = "free" /\ arg' = [arg EXCEPT ![s] = a]
    BY <1>4 DEF CallComplete, Begin, dbVars
  <2>2. arg'[s] = a /\ \A r \in Slots \ {s} : arg'[r] = arg[r]
    BY <1>1, <2>1 DEF TypeOK, CallsTypeOK
  <2>3. PICK step \in Unlocked :
           /\ at' = [at EXCEPT ![s] = step]
           /\ step = "updateTxn" => a.entity.version = a.expected_version + 1
    <3>1. CASE a.entity.version = a.expected_version + 1
      BY <1>4, <3>1 DEF CallComplete, Begin, Unlocked
    <3>2. CASE a.entity.version # a.expected_version + 1
      <4>1. at' = at
        BY <1>4, <3>2 DEF CallComplete
      <4>2. at' = [at EXCEPT ![s] = "free"]
        BY <1>1, <2>1, <4>1 DEF TypeOK, CallsTypeOK
      <4> QED
        BY <4>2 DEF Unlocked
    <3> QED
      BY <3>1, <3>2
  <2>4. LocksHold'
    BY <1>1, <2>1, <2>2, <2>3, ReleaseHolds
  <2> QED
    BY <1>1, <2>1, <2>4, TablesAgreeUnchanged DEF IndInv
<1>5. ASSUME NEW s \in Slots,
             \/ SelectKey(s) \/ Requery(s) \/ RequeryTransaction(s) \/ SqlFailure(s)
      PROVE  IndInv'
  <2>1. UNCHANGED dbVars
    BY <1>5 DEF SelectKey, Requery, RequeryTransaction, SqlFailure, dbVars
  <2>2. \/ \E v : Finish(s, v)
        \/ \E step \in {"insertTxn", "requery", "requeryTxn"} : GoTo(s, step)
    BY <1>5 DEF SelectKey, Requery, RequeryTransaction, SqlFailure
  <2>3. LocksHold'
    BY <1>1, <2>1, <2>2, FinishHolds, ReadHolds
  <2> QED
    BY <1>1, <2>1, <2>3, TablesAgreeUnchanged DEF IndInv
<1>6. ASSUME NEW s \in Slots,
             \/ InsertTransaction(s) \/ InsertRecord(s)
             \/ UpdateTransaction(s) \/ UpdateRecord(s)
      PROVE  IndInv'
  <2>1. UNCHANGED dbVars
    BY <1>6 DEF InsertTransaction, InsertRecord, UpdateTransaction, UpdateRecord, dbVars
  <2>2. LocksHold'
    BY <1>6, InsertTransactionHolds, InsertRecordHolds, UpdateTransactionHolds, UpdateRecordHolds
  <2> QED
    BY <1>1, <2>1, <2>2, TablesAgreeUnchanged DEF IndInv
<1>7. ASSUME NEW s \in Slots, CommitReserve(s) \/ ReserveAckLost(s)
      PROVE  IndInv'
  <2>1. /\ at[s] = "commitReserve" /\ WriteReservation(s)
        /\ at' = [at EXCEPT ![s] = "free"] /\ UNCHANGED arg
    BY <1>7 DEF CommitReserve, ReserveAckLost, Finish
  <2> QED
    BY <1>1, <2>1, ReservationKeeps DEF IndInv
<1>8. ASSUME NEW s \in Slots, CommitComplete(s) \/ CompleteAckLost(s)
      PROVE  IndInv'
  <2>1. /\ at[s] = "commitComplete" /\ WriteCompletion(s)
        /\ at' = [at EXCEPT ![s] = "free"] /\ UNCHANGED arg
    BY <1>8 DEF CommitComplete, CompleteAckLost, Finish
  <2> QED
    BY <1>1, <2>1, CompletionKeeps DEF IndInv
<1>9. ASSUME NEW s \in Slots, Abandon(s)
      PROVE  IndInv'
  <2>1. /\ UNCHANGED dbVars
        /\ at' = [at EXCEPT ![s] = "free"]
        /\ \A r \in Slots \ {s} : arg'[r] = arg[r]
    BY <1>1, <1>9 DEF Abandon, TypeOK, CallsTypeOK
  <2>2. "free" \in Unlocked
    BY DEF Unlocked
  <2>3. LocksHold'
    BY <1>1, <2>1, <2>2, ReleaseHolds
  <2> QED
    BY <1>1, <2>1, <2>3, TablesAgreeUnchanged DEF IndInv
<1> QED
  BY <1>2, <1>3, <1>4, <1>5, <1>6, <1>7, <1>8, <1>9 DEF Next

\* The inductive invariant holds initially: both tables are empty.
LEMMA IndInit == CoordInit => IndInv
<1> SUFFICES ASSUME CoordInit PROVE IndInv
  OBVIOUS
<1>1. TypeOK
  BY TypeInit
<1>2. /\ \A t \in Txns : ~TxnStored(t)
      /\ \A k \in Keys : ~KeyStored(k)
      /\ \A s \in Slots : at[s] = "free"
  BY DEF CoordInit, TxnStored, KeyStored, NoTxnRow, NoIdemRow
<1>3. LocksHold
  BY <1>2 DEF LocksHold, WritersExclude, RowsHeld, TxnRowHolders, KeyHolders, CompleteSteps
<1>4. TablesAgree
  BY <1>2 DEF TablesAgree, RecordsAgree, OneKeyPerTransaction
<1> QED
  BY <1>1, <1>3, <1>4 DEF IndInv

\* The inductive invariant holds in every reachable state.
LEMMA IndInvHolds == Spec => []IndInv
  BY IndInit, IndStep, PTL DEF Spec

\* The two tables agree in every reachable state, for any number of keys,
\* transactions, concurrent callers and faults: reserve and complete never
\* leave a record without its transaction, a transaction without its record
\* or two records for one transaction.
THEOREM TablesAlwaysAgree == Spec => []TablesAgree
<1>1. IndInv => TablesAgree
  BY DEF IndInv
<1> QED
  BY <1>1, IndInvHolds, PTL

\* The row-level facts behind it hold as well: no row is written by two open
\* transactions, and what an open transaction has checked is still true.
THEOREM LocksAlwaysHold == Spec => []LocksHold
<1>1. IndInv => LocksHold
  BY DEF IndInv
<1> QED
  BY <1>1, IndInvHolds, PTL

-----------------------------------------------------------------------------
(* Waits have no circle.                                                   *)

\* A session waits only for one that has written a row, and before a COMMIT for
\* none at all.
LEMMA WaitedFor ==
    ASSUME NEW s \in Slots
    PROVE  /\ WaitsFor(s) \subseteq {r \in Slots : at[r] \in {"insertRecord", "commitReserve",
                                                             "updateRecord", "commitComplete"}}
           /\ at[s] \in {"insertRecord", "updateRecord"} =>
                 WaitsFor(s) \subseteq {r \in Slots : at[r] \in {"commitReserve", "commitComplete"}}
           /\ at[s] \in {"commitReserve", "commitComplete"} => WaitsFor(s) = {}
<1>1. CASE at[s] = "insertTxn"
  BY <1>1 DEF WaitsFor, TxnRowHolders
<1>2. CASE at[s] \in {"insertRecord", "updateRecord"}
  BY <1>2 DEF WaitsFor, KeyHolders
<1>3. CASE at[s] = "updateTxn"
  BY <1>3 DEF WaitsFor, TxnUpdaters, TxnRowHolders
<1>4. CASE at[s] \notin {"insertTxn", "insertRecord", "updateTxn", "updateRecord"}
  BY <1>4 DEF WaitsFor
<1> QED
  BY <1>1, <1>2, <1>3, <1>4

\* The record that complete() matches is held by nobody else: its holder would
\* have written the same transaction row, or would be inserting a key that exists.
LEMMA SecondUpdateIsFree ==
    ASSUME IndInv, NEW s \in Slots, at[s] = "updateRecord"
    PROVE  WaitsFor(s) = {}
<1> SUFFICES ASSUME NEW r \in KeyHolders(arg[s].key) \ {s}, RecordMatches(arg[s])
             PROVE  FALSE
  BY DEF WaitsFor
<1>1. r \in Slots /\ at[r] \in {"commitReserve", "commitComplete"} /\ arg[r].key = arg[s].key
  BY DEF KeyHolders
<1>2. RowsHeld(r) /\ WritersExclude
  BY <1>1 DEF IndInv, LocksHold
<1>3. arg[s] \in CompleteArg /\ (at[r] = "commitComplete" => arg[r] \in CompleteArg)
  BY <1>1 DEF IndInv, TypeOK, CallsTypeOK, CompleteSteps
<1>4. CASE at[r] = "commitReserve"
  BY <1>1, <1>2, <1>4 DEF RowsHeld, KeyStored, RecordMatches
<1>5. CASE at[r] = "commitComplete"
  <2>1. RecordMatches(arg[r])
    BY <1>2, <1>5 DEF RowsHeld
  <2>2. arg[r].transaction_id = arg[s].transaction_id
    BY <1>1, <2>1 DEF RecordMatches
  <2>3. PICK t \in Txns : TxnOf(arg[s]) = t /\ TxnOf(arg[r]) = t
    BY <1>3, <1>5, <2>2 DEF CompleteArg, TxnOf
  <2>4. r \in TxnRowHolders(t) /\ s \in TxnRowHolders(t)
    BY <1>1, <1>5, <2>3 DEF TxnRowHolders
  <2> QED
    BY <1>2, <2>4 DEF WritersExclude
<1> QED
  BY <1>1, <1>4, <1>5

\* PostgreSQL never finds a deadlock among any number of callers, and the second
\* statement of complete() never waits: that UpdateRecord of the model has no
\* guard loses nothing.
THEOREM WaitsNeverCircle == Spec => []NoCircularWait
<1>1. ASSUME IndInv PROVE NoCircularWait
  <2> SUFFICES ASSUME NEW s \in Slots, NEW r \in WaitsFor(s), NEW q \in WaitsFor(r)
               PROVE  WaitsFor(q) = {}
    BY <1>1, SecondUpdateIsFree DEF NoCircularWait
  <2>1. r \in Slots /\ at[r] \in {"insertRecord", "commitReserve", "updateRecord", "commitComplete"}
    BY WaitedFor
  <2>2. at[r] \in {"insertRecord", "updateRecord"}
    BY <2>1, WaitedFor
  <2>3. q \in Slots /\ at[q] \in {"commitReserve", "commitComplete"}
    BY <2>1, <2>2, WaitedFor
  <2> QED
    BY <2>3, WaitedFor
<1>2. IndInv => NoCircularWait
  BY <1>1
<1> QED
  BY <1>2, IndInvHolds, PTL

-----------------------------------------------------------------------------
(* Records are written once.                                               *)

\* A step changes a stored record only by completing it.
LEMMA WriteOnceStep ==
    ASSUME IndInv, [Next]_coordVars, NEW k \in Keys
    PROVE  RecordStep(k)
<1> SUFFICES ASSUME KeyStored(k), records'[k] # records[k]
             PROVE  /\ records[k].processing_status = "IN_PROGRESS"
                    /\ records'[k].processing_status = "COMPLETED"
                    /\ records'[k].request_fingerprint = records[k].request_fingerprint
                    /\ records'[k].transaction_id = records[k].transaction_id
                    /\ txns'[records[k].transaction_id].version = 1
  BY DEF RecordStep
<1>1. PICK s \in Slots : \/ at[s] = "commitReserve" /\ WriteReservation(s)
                         \/ at[s] = "commitComplete" /\ WriteCompletion(s)
  BY DEF Next, coordVars, CallReserve, CallComplete, SelectKey, InsertTransaction,
         InsertRecord, CommitReserve, Requery, RequeryTransaction, UpdateTransaction,
         UpdateRecord, CommitComplete, SqlFailure, ReserveAckLost, CompleteAckLost,
         Abandon, dbVars
<1>2. records \in [Keys -> IdemRow] /\ RowsHeld(s)
  BY DEF IndInv, TypeOK, TablesTypeOK, LocksHold
<1>3. at[s] # "commitReserve"
  <2> SUFFICES ASSUME at[s] = "commitReserve", WriteReservation(s) PROVE FALSE
    BY <1>1
  <2>1. ~KeyStored(arg[s].key)
    BY <1>2 DEF RowsHeld
  <2>2. records'[k] = records[k]
    BY <1>2, <2>1 DEF WriteReservation
  <2> QED
    BY <2>2
<1>4. at[s] = "commitComplete" /\ WriteCompletion(s)
  BY <1>1, <1>3
<1>5. arg[s].key = k /\ records'[k] = CompletedRecord(records[k], arg[s])
  BY <1>2, <1>4 DEF WriteCompletion
<1>6. RecordMatches(arg[s])
  BY <1>2, <1>4 DEF RowsHeld
<1>7. /\ records'[k].processing_status = "COMPLETED"
      /\ records'[k].request_fingerprint = records[k].request_fingerprint
      /\ records'[k].transaction_id = records[k].transaction_id
  BY <1>2, <1>5 DEF CompletedRecord, IdemRow
<1>8. RecordAgrees(records[k], records[k].transaction_id)'
  BY <1>7, IndStep DEF IndInv, TablesAgree, RecordsAgree, KeyStored
<1> QED
  BY <1>5, <1>6, <1>7, <1>8 DEF RecordMatches, RecordAgrees

\* The optimistic lock and the IN_PROGRESS condition of complete together make
\* a record write-once: it is never overwritten, and it is completed together
\* with its transaction row.
THEOREM RecordsWrittenOnce == Spec => RecordsAreWriteOnce
<1>1. IndInv /\ [Next]_coordVars => [\A k \in Keys : RecordStep(k)]_coordVars
  BY WriteOnceStep
<1> QED
  BY <1>1, IndInvHolds, PTL DEF Spec, RecordsAreWriteOnce

-----------------------------------------------------------------------------
(* Reservations have one winner.                                           *)

WinnerInv == UniqueWinner /\ \A s \in Slots : WinnerOwns(s)

\* A stored record stays, with its transaction, in every step.
LEMMA RecordStays ==
    ASSUME IndInv, [Next]_coordVars, NEW k \in Keys, KeyStored(k)
    PROVE  KeyStored(k)' /\ records'[k].transaction_id = records[k].transaction_id
  BY WriteOnceStep DEF RecordStep, KeyStored

\* A step either makes slot s the winner of a reservation, or makes no slot a
\* winner that was none, and a winner keeps its arguments.
LEMMA WinnersBefore ==
    ASSUME IndInv, [Next]_coordVars
    PROVE  \/ \E s \in Slots : CommitReserve(s)
           \/ \A r \in Slots : ret'[r].status = "ACQUIRED" =>
                 ret'[r] = ret[r] /\ arg'[r] = arg[r]
<1> SUFFICES ASSUME \A s \in Slots : ~CommitReserve(s),
                    NEW r \in Slots, ret'[r].status = "ACQUIRED"
             PROVE  ret'[r] = ret[r] /\ arg'[r] = arg[r]
  OBVIOUS
<1>1. ret \in [Slots -> Returned] /\ DOMAIN arg = Slots
  BY DEF IndInv, TypeOK, CallsTypeOK
<1>2. \A status : Return(status).status = status
  BY DEF Return
<1>3. CASE UNCHANGED coordVars
  BY <1>3 DEF coordVars
<1>4. ASSUME NEW s \in Slots, NEW k \in Keys, NEW c \in Command, CallReserve(s, k, c)
      PROVE  ret'[r] = ret[r] /\ arg'[r] = arg[r]
  BY <1>1, <1>2, <1>4 DEF CallReserve, Begin
<1>5. ASSUME NEW s \in Slots, NEW a \in CompleteCalls, CallComplete(s, a)
      PROVE  ret'[r] = ret[r] /\ arg'[r] = arg[r]
  <2>1. PICK status \in {"none", "OptimisticConcurrencyError"} :
           ret' = [ret EXCEPT ![s] = Return(status)] /\ arg' = [arg EXCEPT ![s] = a]
    BY <1>5 DEF CallComplete, Begin
  <2> QED
    BY <1>1, <1>2, <2>1
<1>6. ASSUME NEW s \in Slots, SelectKey(s) \/ Requery(s)
      PROVE  ret'[r] = ret[r] /\ arg'[r] = arg[r]
  <2>1. CASE KeyStored(arg[s].key)
    <3>1. Finish(s, ExistingReservation(records[arg[s].key], arg[s].command))
      BY <1>6, <2>1 DEF SelectKey, Requery
    <3>2. arg[s].key \in Keys
      BY <1>6 DEF SelectKey, Requery, IndInv, TypeOK, CallsTypeOK, ReserveSteps, ReserveArg
    <3>3. records[arg[s].key] \in IdemRow
      BY <3>2 DEF IndInv, TypeOK, TablesTypeOK
    <3>4. ExistingReservation(records[arg[s].key], arg[s].command).status # "ACQUIRED"
      BY <1>2, <3>3 DEF ExistingReservation, ClassifyExisting, IdemRow
    <3> QED
      BY <1>1, <3>1, <3>4 DEF Finish
  <2>2. CASE ~KeyStored(arg[s].key)
    BY <1>6, <2>2 DEF SelectKey, Requery, GoTo
  <2> QED
    BY <2>1, <2>2
<1>7. ASSUME NEW s \in Slots, InsertTransaction(s) \/ InsertRecord(s)
      PROVE  ret'[r] = ret[r] /\ arg'[r] = arg[r]
  <2>1. /\ arg' = arg
        /\ ret' = ret \/ ret' = [ret EXCEPT ![s] = Return("PersistenceError")]
    BY <1>7 DEF InsertTransaction, InsertRecord, GoTo, Finish
  <2> QED
    BY <1>1, <1>2, <2>1
<1>8. ASSUME NEW s \in Slots, UpdateTransaction(s) \/ UpdateRecord(s)
      PROVE  ret'[r] = ret[r] /\ arg'[r] = arg[r]
  <2>1. /\ arg' = arg
        /\ \/ ret' = ret
           \/ ret' = [ret EXCEPT ![s] = Return("OptimisticConcurrencyError")]
           \/ ret' = [ret EXCEPT ![s] = Return("PersistenceError")]
    BY <1>8 DEF UpdateTransaction, UpdateRecord, GoTo, Finish
  <2> QED
    BY <1>1, <1>2, <2>1
<1>9. ASSUME NEW s \in Slots,
             \/ RequeryTransaction(s) \/ SqlFailure(s) \/ ReserveAckLost(s)
             \/ CommitComplete(s) \/ CompleteAckLost(s)
      PROVE  ret'[r] = ret[r] /\ arg'[r] = arg[r]
  <2>1. PICK status \in {"TRANSACTION_ID_CONFLICT", "PersistenceError", "DONE"} :
           ret' = [ret EXCEPT ![s] = Return(status)] /\ arg' = arg
    BY <1>9
    DEF RequeryTransaction, SqlFailure, ReserveAckLost, CommitComplete, CompleteAckLost, Finish
  <2> QED
    BY <1>1, <1>2, <2>1
<1>10. ASSUME NEW s \in Slots, Abandon(s)
       PROVE  ret'[r] = ret[r] /\ arg'[r] = arg[r]
  BY <1>1, <1>2, <1>10 DEF Abandon
<1> QED
  BY <1>3, <1>4, <1>5, <1>6, <1>7, <1>8, <1>9, <1>10 DEF Next

\* Every step keeps the winners unique.
LEMMA WinnerStep ==
    ASSUME IndInv, WinnerInv, [Next]_coordVars
    PROVE  WinnerInv'
<1>1. ASSUME NEW r \in Slots, ret[r].status = "ACQUIRED"
      PROVE  /\ arg[r].key \in Keys /\ KeyStored(arg[r].key)
             /\ records'[arg[r].key].processing_status # "ABSENT"
             /\ records'[arg[r].key].transaction_id = records[arg[r].key].transaction_id
             /\ records[arg[r].key].transaction_id = TxnOf(arg[r])
             /\ TxnStored(TxnOf(arg[r]))
             /\ arg[r] \in ReserveArg
  <2>1. /\ arg[r] \in ReserveArg /\ KeyStored(arg[r].key)
        /\ records[arg[r].key].transaction_id = TxnOf(arg[r])
    BY <1>1 DEF WinnerInv, WinnerOwns
  <2>2. arg[r].key \in Keys
    BY <2>1 DEF ReserveArg
  <2>3. TxnStored(TxnOf(arg[r]))
    BY <2>1, <2>2 DEF IndInv, TablesAgree, RecordsAgree, RecordAgrees
  <2>4. \A k \in Keys : KeyStored(k) =>
           /\ records'[k].processing_status # "ABSENT"
           /\ records'[k].transaction_id = records[k].transaction_id
    BY RecordStays DEF KeyStored
  <2> QED
    BY <2>1, <2>2, <2>3, <2>4
<1>2. CASE \A r \in Slots : ret'[r].status = "ACQUIRED" => ret'[r] = ret[r] /\ arg'[r] = arg[r]
  <2>1. ASSUME NEW r \in Slots PROVE WinnerOwns(r)'
    BY <1>1, <1>2 DEF WinnerOwns, KeyStored
  <2>2. UniqueWinner'
    BY <1>2 DEF WinnerInv, UniqueWinner
  <2> QED
    BY <2>1, <2>2 DEF WinnerInv
<1>3. ASSUME NEW s \in Slots, CommitReserve(s)
      PROVE  WinnerInv'
  <2>1. /\ at[s] = "commitReserve" /\ WriteReservation(s) /\ arg' = arg
        /\ \A r \in Slots \ {s} : ret'[r] = ret[r]
    BY <1>3 DEF CommitReserve, Finish, IndInv, TypeOK, CallsTypeOK
  <2>2. arg[s] \in ReserveArg /\ arg[s].key \in Keys /\ arg[s].command \in Command
    BY <2>1 DEF IndInv, TypeOK, CallsTypeOK, ReserveSteps, ReserveArg
  <2>3. ~TxnStored(TxnOf(arg[s])) /\ ~KeyStored(arg[s].key)
    BY <2>1 DEF IndInv, LocksHold, RowsHeld
  <2>4. records'[arg[s].key] = ReservedRecord(arg[s].command)
    BY <2>1, <2>2 DEF WriteReservation, IndInv, TypeOK, TablesTypeOK
  <2>5. KeyStored(arg[s].key)' /\ records'[arg[s].key].transaction_id = TxnOf(arg[s])
    BY <2>1, <2>2, <2>4 DEF ReservedRecord, NoIdemRow, KeyStored, TxnOf, ReserveArg
  <2>6. ASSUME NEW r \in Slots PROVE WinnerOwns(r)'
    <3>1. CASE r = s
      BY <2>1, <2>2, <2>5, <3>1 DEF WinnerOwns, KeyStored
    <3>2. CASE r # s
      BY <1>1, <2>1, <3>2 DEF WinnerOwns, KeyStored
    <3> QED
      BY <3>1, <3>2
  <2>7. ASSUME NEW r \in Slots \ {s}, ret[r].status = "ACQUIRED"
        PROVE  arg[r].key # arg[s].key /\ TxnOf(arg[r]) # TxnOf(arg[s])
    BY <1>1, <2>3, <2>7
  <2>8. UniqueWinner'
    BY <2>1, <2>7 DEF WinnerInv, UniqueWinner
  <2> QED
    BY <2>6, <2>8 DEF WinnerInv
<1> QED
  BY <1>2, <1>3, WinnersBefore

\* Of any number of callers that reserve the same key or the same transaction,
\* at most one is told ACQUIRED, the one whose INSERTs were committed.
THEOREM WinnerIsUnique == Spec => []UniqueWinner
<1>1. CoordInit => WinnerInv
  BY DEF CoordInit, WinnerInv, UniqueWinner, WinnerOwns, Return
<1>2. WinnerInv => UniqueWinner
  BY DEF WinnerInv
<1> QED
  BY <1>1, <1>2, WinnerStep, IndInvHolds, PTL DEF Spec

-----------------------------------------------------------------------------
(* What a step of one caller does to everybody else.                       *)

\* The step of slot s, as in Next.
StepOf(s) ==
    \/ \E k \in Keys, c \in Command : CallReserve(s, k, c)
    \/ \E a \in CompleteCalls : CallComplete(s, a)
    \/ SelectKey(s) \/ InsertTransaction(s) \/ InsertRecord(s) \/ CommitReserve(s)
    \/ Requery(s) \/ RequeryTransaction(s)
    \/ UpdateTransaction(s) \/ UpdateRecord(s) \/ CommitComplete(s)
    \/ SqlFailure(s) \/ ReserveAckLost(s) \/ CompleteAckLost(s)
    \/ Fault /\ Abandon(s)

\* A step of slot s leaves the calls of the others as they are.
OthersWait(s) ==
    \A r \in Slots \ {s} : at'[r] = at[r] /\ arg'[r] = arg[r] /\ ret'[r] = ret[r]

\* Whatever slot s does, the other calls wait.
LEMMA OneSlotMoves ==
    ASSUME TypeOK, NEW s \in Slots, StepOf(s)
    PROVE  OthersWait(s)
<1>1. DOMAIN at = Slots /\ DOMAIN arg = Slots /\ DOMAIN ret = Slots
  BY DEF TypeOK, CallsTypeOK
<1>2. ASSUME NEW v, Finish(s, v) PROVE OthersWait(s)
  BY <1>1, <1>2 DEF Finish, OthersWait
<1>3. ASSUME NEW step, GoTo(s, step) PROVE OthersWait(s)
  BY <1>1, <1>3 DEF GoTo, OthersWait
<1>4. ASSUME NEW step, NEW a, Begin(s, step, a) PROVE OthersWait(s)
  BY <1>1, <1>4 DEF Begin, OthersWait
<1>5. ASSUME NEW k \in Keys, NEW c \in Command, CallReserve(s, k, c) PROVE OthersWait(s)
  BY <1>4, <1>5 DEF CallReserve
<1>6. ASSUME NEW a \in CompleteCalls, CallComplete(s, a) PROVE OthersWait(s)
  <2>1. CASE a.entity.version = a.expected_version + 1
    BY <1>4, <1>6, <2>1 DEF CallComplete
  <2>2. CASE a.entity.version # a.expected_version + 1
    BY <1>1, <1>6, <2>2 DEF CallComplete, OthersWait
  <2> QED
    BY <2>1, <2>2
<1>7. CASE SelectKey(s) \/ Requery(s)
  BY <1>2, <1>3, <1>7 DEF SelectKey, Requery
<1>8. CASE InsertTransaction(s) \/ InsertRecord(s)
  BY <1>2, <1>3, <1>8 DEF InsertTransaction, InsertRecord
<1>9. CASE UpdateTransaction(s) \/ UpdateRecord(s)
  BY <1>2, <1>3, <1>9 DEF UpdateTransaction, UpdateRecord
<1>10. CASE \/ RequeryTransaction(s) \/ CommitReserve(s) \/ CommitComplete(s)
            \/ SqlFailure(s) \/ ReserveAckLost(s) \/ CompleteAckLost(s)
  BY <1>2, <1>10
  DEF RequeryTransaction, CommitReserve, CommitComplete, SqlFailure, ReserveAckLost, CompleteAckLost
<1>11. CASE Abandon(s)
  BY <1>1, <1>11 DEF Abandon, OthersWait
<1> QED
  BY <1>5, <1>6, <1>7, <1>8, <1>9, <1>10, <1>11 DEF StepOf

\* Faults are counted, never forgotten.
LEMMA FaultsGrow ==
    ASSUME TypeOK, [Next]_coordVars
    PROVE  faults \in Nat /\ faults' \in Nat /\ faults' >= faults
<1>1. faults \in Nat
  BY MaxFaultsAssumption DEF TypeOK
<1>2. faults' = faults \/ Fault
  BY DEF Next, coordVars, CallReserve, CallComplete, SelectKey, InsertTransaction,
         InsertRecord, CommitReserve, Requery, RequeryTransaction, UpdateTransaction,
         UpdateRecord, CommitComplete, SqlFailure, ReserveAckLost, CompleteAckLost
<1> QED
  BY <1>1, <1>2 DEF Fault

\* The rows of both tables are only written by the two COMMITs.
LEMMA WhoWrites ==
    ASSUME [Next]_coordVars
    PROVE  \/ UNCHANGED dbVars
           \/ \E s \in Slots : at[s] = "commitReserve" /\ WriteReservation(s)
           \/ \E s \in Slots : at[s] = "commitComplete" /\ WriteCompletion(s)
  BY DEF Next, coordVars, dbVars, CallReserve, CallComplete, SelectKey, InsertTransaction,
         InsertRecord, CommitReserve, Requery, RequeryTransaction, UpdateTransaction,
         UpdateRecord, CommitComplete, SqlFailure, ReserveAckLost, CompleteAckLost, Abandon

\* A stored record stays, with its request.
LEMMA RequestStays ==
    ASSUME IndInv, [Next]_coordVars, NEW k \in Keys, KeyStored(k)
    PROVE  /\ KeyStored(k)'
           /\ records'[k].transaction_id = records[k].transaction_id
           /\ records'[k].request_fingerprint = records[k].request_fingerprint
  BY WriteOnceStep DEF RecordStep, KeyStored

\* A stored transaction stays.
LEMMA TransactionStays ==
    ASSUME IndInv, [Next]_coordVars, NEW t \in Txns, TxnStored(t)
    PROVE  TxnStored(t)'
<1>1. PICK k \in Keys : KeyStored(k) /\ records[k].transaction_id = t
  BY DEF IndInv, TablesAgree, OneKeyPerTransaction
<1>2. KeyStored(k)' /\ records'[k].transaction_id = t
  BY <1>1, RequestStays
<1>3. IndInv'
  BY IndStep
<1>4. RecordsAgree'
  BY <1>3 DEF IndInv, TablesAgree
<1>5. RecordAgrees(records[k], records[k].transaction_id)'
  BY <1>2, <1>4 DEF RecordsAgree
<1> QED
  BY <1>2, <1>5 DEF RecordAgrees

\* A completed record and its transaction never change again: the optimistic
\* lock stops an update of the transaction, because no record of it is open.
LEMMA CompletedStays ==
    ASSUME IndInv, [Next]_coordVars, NEW k \in Keys, records[k].processing_status = "COMPLETED"
    PROVE  /\ records'[k] = records[k]
           /\ txns'[records[k].transaction_id] = txns[records[k].transaction_id]
<1> DEFINE t == records[k].transaction_id
<1>1. KeyStored(k)
  BY DEF KeyStored
<1>2. records'[k] = records[k]
  BY <1>1, WriteOnceStep DEF RecordStep
<1>3. t \in Txns /\ TxnStored(t)
  BY <1>1 DEF IndInv, TablesAgree, RecordsAgree, RecordAgrees
<1>4. txns \in [Txns -> TxnRow]
  BY DEF IndInv, TypeOK, TablesTypeOK
<1>5. CASE UNCHANGED dbVars
  BY <1>2, <1>5 DEF dbVars
<1>6. ASSUME NEW s \in Slots, at[s] = "commitReserve", WriteReservation(s)
      PROVE  txns'[t] = txns[t]
  <2>1. arg[s] \in ReserveArg /\ RowsHeld(s)
    BY <1>6 DEF IndInv, TypeOK, CallsTypeOK, LocksHold, ReserveSteps
  <2>2. TxnOf(arg[s]) = arg[s].command.transaction_id
    BY <2>1 DEF TxnOf, ReserveArg
  <2>3. t # arg[s].command.transaction_id
    BY <1>3, <1>6, <2>1, <2>2 DEF RowsHeld
  <2> QED
    BY <1>3, <1>4, <1>6, <2>3 DEF WriteReservation
<1>7. ASSUME NEW s \in Slots, at[s] = "commitComplete", WriteCompletion(s)
      PROVE  txns'[t] = txns[t]
  <2>1. arg[s] \in CompleteArg /\ RowsHeld(s)
    BY <1>7 DEF IndInv, TypeOK, CallsTypeOK, LocksHold, CompleteSteps
  <2>2. RecordMatches(arg[s]) /\ arg[s].key \in Keys
    BY <1>7, <2>1 DEF RowsHeld, CompleteArg
  <2>3. arg[s].key # k
    BY <2>2 DEF RecordMatches
  <2>4. KeyStored(arg[s].key) /\ records[arg[s].key].transaction_id = arg[s].transaction_id
    BY <2>2 DEF RecordMatches, KeyStored
  <2>5. OneKeyPerTransaction
    BY DEF IndInv, TablesAgree
  <2>6. arg[s].transaction_id # t
    BY <1>1, <2>2, <2>3, <2>4, <2>5 DEF OneKeyPerTransaction
  <2> QED
    BY <1>3, <1>4, <1>7, <2>6 DEF WriteCompletion
<1> QED
  BY <1>2, <1>5, <1>6, <1>7, WhoWrites

-----------------------------------------------------------------------------
(* Verdicts.  A caller that re-queries does so because its key or its      *)
(* transaction is stored; once it has missed its key, the transaction is   *)
(* stored under another key, even if its own key appears in the meantime.  *)

OwnedElsewhere(a) ==
    \E j \in Keys \ {a.key} : KeyStored(j) /\ records[j].transaction_id = TxnOf(a)

ReserveVerdict(s) ==
    /\ ret[s].status = "TRANSACTION_ID_CONFLICT" => OwnedElsewhere(arg[s])
    /\ ret[s].status = "IDEMPOTENCY_CONFLICT" =>
          /\ KeyStored(arg[s].key)
          /\ records[arg[s].key].request_fingerprint # RequestFingerprint(arg[s].command)
    /\ ret[s].status \in {"IN_PROGRESS", "COMPLETED"} =>
          /\ KeyStored(arg[s].key)
          /\ records[arg[s].key].request_fingerprint = RequestFingerprint(arg[s].command)
    /\ ret[s].status = "PersistenceError" => faults > 0 \/ ~Storable(arg[s].command)

SlotVerdict(s) ==
    /\ at[s] = "requery" => KeyStored(arg[s].key) \/ TxnStored(TxnOf(arg[s]))
    /\ at[s] = "requeryTxn" => OwnedElsewhere(arg[s])
    /\ arg[s].op = "reserve" => ReserveVerdict(s)

VerdictInv == \A s \in Slots : SlotVerdict(s)

\* The kind of a call is known from its operation and from its statement.
LEMMA ReserveCall ==
    ASSUME TypeOK, NEW s \in Slots, arg[s].op = "reserve" \/ at[s] \in ReserveSteps
    PROVE  /\ arg[s] \in ReserveArg /\ arg[s].op = "reserve"
           /\ arg[s].key \in Keys /\ arg[s].command \in Command
           /\ TxnOf(arg[s]) = arg[s].command.transaction_id /\ TxnOf(arg[s]) \in Txns
<1>1. arg[s] \in ReserveArg \cup CompleteArg \cup {NoArg}
  BY DEF TypeOK, CallsTypeOK
<1>2. arg[s] \in ReserveArg
  BY <1>1 DEF TypeOK, CallsTypeOK, CompleteArg, NoArg
<1> QED
  BY <1>2 DEF ReserveArg, Command, TxnOf

\* The same for a call of complete.
LEMMA CompleteCall ==
    ASSUME TypeOK, NEW s \in Slots, arg[s].op = "complete" \/ at[s] \in CompleteSteps
    PROVE  /\ arg[s] \in CompleteArg /\ arg[s].op = "complete"
           /\ arg[s].key \in Keys /\ arg[s].transaction_id \in Txns
           /\ TxnOf(arg[s]) = arg[s].transaction_id
<1>1. arg[s] \in ReserveArg \cup CompleteArg \cup {NoArg}
  BY DEF TypeOK, CallsTypeOK
<1>2. arg[s] \in CompleteArg
  BY <1>1 DEF TypeOK, CallsTypeOK, ReserveArg, NoArg
<1> QED
  BY <1>2 DEF CompleteArg, TxnOf

\* What was true of a caller stays true while only the tables and the other
\* callers move.
LEMMA VerdictStays ==
    ASSUME IndInv, [Next]_coordVars, NEW s \in Slots, SlotVerdict(s),
           at'[s] = at[s], arg'[s] = arg[s], ret'[s] = ret[s]
    PROVE  SlotVerdict(s)'
<1>1. \A k \in Keys : KeyStored(k) =>
         /\ records'[k].processing_status # "ABSENT"
         /\ records'[k].transaction_id = records[k].transaction_id
         /\ records'[k].request_fingerprint = records[k].request_fingerprint
  BY RequestStays DEF KeyStored
<1>2. \A t \in Txns : TxnStored(t) => txns'[t].status # "ABSENT"
  BY TransactionStays DEF TxnStored
<1>3. TypeOK
  BY DEF IndInv
<1>4. OwnedElsewhere(arg[s]) => OwnedElsewhere(arg[s])'
  <2> SUFFICES ASSUME OwnedElsewhere(arg[s]) PROVE OwnedElsewhere(arg[s])'
    OBVIOUS
  <2>1. PICK j \in Keys \ {arg[s].key} : KeyStored(j) /\ records[j].transaction_id = TxnOf(arg[s])
    BY DEF OwnedElsewhere
  <2>2. TxnOf(arg[s])' = TxnOf(arg[s])
    BY DEF TxnOf
  <2>3. j \in (Keys \ {arg[s].key})' /\ KeyStored(j)' /\ records'[j].transaction_id = TxnOf(arg[s])'
    BY <1>1, <2>1, <2>2 DEF KeyStored
  <2> QED
    BY <2>3 DEF OwnedElsewhere
<1>5. at[s] \in {"requery", "requeryTxn"} => at[s] \in ReserveSteps
  BY DEF ReserveSteps
<1>6. (at[s] = "requery" => KeyStored(arg[s].key) \/ TxnStored(TxnOf(arg[s])))'
  <2> SUFFICES ASSUME at[s] = "requery" PROVE (KeyStored(arg[s].key) \/ TxnStored(TxnOf(arg[s])))'
    OBVIOUS
  <2>1. arg[s].key \in Keys /\ TxnOf(arg[s]) \in Txns
    BY <1>3, <1>5, ReserveCall
  <2>2. KeyStored(arg[s].key) \/ TxnStored(TxnOf(arg[s]))
    BY DEF SlotVerdict
  <2>3. TxnOf(arg[s])' = TxnOf(arg[s]) /\ arg'[s].key = arg[s].key
    BY DEF TxnOf
  <2> QED
    BY <1>1, <1>2, <2>1, <2>2, <2>3 DEF KeyStored, TxnStored
<1>7. (at[s] = "requeryTxn" => OwnedElsewhere(arg[s]))'
  BY <1>4 DEF SlotVerdict
<1>8. (arg[s].op = "reserve" => ReserveVerdict(s))'
  <2> SUFFICES ASSUME arg[s].op = "reserve" PROVE ReserveVerdict(s)'
    OBVIOUS
  <2>1. arg[s].key \in Keys /\ ReserveVerdict(s)
    BY <1>3, ReserveCall DEF SlotVerdict
  <2>2. faults > 0 => faults' > 0
    BY <1>3, FaultsGrow
  <2>3. /\ RequestFingerprint(arg[s].command)' = RequestFingerprint(arg[s].command)
        /\ Storable(arg[s].command)' = Storable(arg[s].command)
    BY DEF RequestFingerprint, Storable
  <2> QED
    BY <1>1, <1>4, <2>1, <2>2, <2>3 DEF ReserveVerdict, KeyStored
<1> QED
  BY <1>6, <1>7, <1>8 DEF SlotVerdict

\* A call that begins has no verdict yet.
LEMMA NoVerdictYet ==
    ASSUME NEW s \in Slots,
           at'[s] \notin {"requery", "requeryTxn"},
           arg'[s].op = "reserve" => ret'[s].status \in {"none", "ACQUIRED"}
    PROVE  SlotVerdict(s)'
  BY DEF SlotVerdict, ReserveVerdict

\* A SELECT by key reports what it found.
LEMMA FoundVerdict ==
    ASSUME IndInv, [Next]_coordVars, NEW s \in Slots, at[s] \in ReserveSteps, UNCHANGED dbVars,
           KeyStored(arg[s].key),
           Finish(s, ExistingReservation(records[arg[s].key], arg[s].command))
    PROVE  SlotVerdict(s)'
<1> DEFINE row == records[arg[s].key]
           c == arg[s].command
           v == ExistingReservation(row, c)
<1>1. arg[s].key \in Keys /\ TypeOK
  BY ReserveCall DEF IndInv
<1>2. at'[s] = "free" /\ arg' = arg /\ ret'[s] = v
  BY <1>1 DEF Finish, TypeOK, CallsTypeOK
<1>3. row \in IdemRow /\ row.processing_status # "ABSENT"
  BY <1>1 DEF TypeOK, TablesTypeOK, KeyStored
<1>4. row.processing_status \in {"IN_PROGRESS", "COMPLETED"}
  BY <1>3 DEF IdemRow
<1>5. v.status = ClassifyExisting(row, RequestFingerprint(c))
  BY DEF ExistingReservation, Return
<1>6. /\ v.status \in {"IDEMPOTENCY_CONFLICT", "IN_PROGRESS", "COMPLETED"}
      /\ v.status = "IDEMPOTENCY_CONFLICT" <=> row.request_fingerprint # RequestFingerprint(c)
  BY <1>4, <1>5 DEF ClassifyExisting
<1>7. /\ KeyStored(arg[s].key)'
      /\ records' = records /\ arg' = arg
      /\ RequestFingerprint(arg[s].command)' = RequestFingerprint(c)
  BY <1>2 DEF KeyStored, dbVars, RequestFingerprint
<1> HIDE DEF v
<1>8. ReserveVerdict(s)'
  BY <1>2, <1>6, <1>7 DEF ReserveVerdict
<1> QED
  BY <1>2, <1>8 DEF SlotVerdict

\* Every step keeps the verdicts true.
LEMMA VerdictStep ==
    ASSUME IndInv, VerdictInv, [Next]_coordVars
    PROVE  VerdictInv'
<1>1. TypeOK /\ faults \in Nat
  BY FaultsGrow DEF IndInv
<1>2. CASE UNCHANGED coordVars
  <2>1. ASSUME NEW r \in Slots PROVE SlotVerdict(r)'
    BY <1>2, VerdictStays DEF VerdictInv, coordVars
  <2> QED
    BY <2>1 DEF VerdictInv
<1>3. ASSUME NEW s \in Slots, StepOf(s)
      PROVE  VerdictInv'
  <2>1. ASSUME NEW r \in Slots \ {s} PROVE SlotVerdict(r)'
    <3>1. OthersWait(s)
      BY <1>1, <1>3, OneSlotMoves
    <3> QED
      BY <3>1, VerdictStays DEF OthersWait, VerdictInv
  <2>2. DOMAIN at = Slots /\ DOMAIN arg = Slots /\ DOMAIN ret = Slots
    BY <1>1 DEF TypeOK, CallsTypeOK
  <2>3. \A status : Return(status).status = status
    BY DEF Return
  <2>4. SlotVerdict(s)
    BY DEF VerdictInv
  <2>5. SlotVerdict(s)'
    <3>1. ASSUME NEW k \in Keys, NEW c \in Command, CallReserve(s, k, c)
          PROVE  SlotVerdict(s)'
      BY <2>2, <2>3, <3>1, NoVerdictYet DEF CallReserve, Begin
    <3>2. ASSUME NEW a \in CompleteCalls, CallComplete(s, a)
          PROVE  SlotVerdict(s)'
      <4>1. a.op = "complete"
        BY CompleteCallsAssumption DEF CompleteArg
      <4>2. arg'[s] = a /\ at'[s] \in {"free", "updateTxn"}
        <5>1. CASE a.entity.version = a.expected_version + 1
          BY <2>2, <3>2, <5>1 DEF CallComplete, Begin
        <5>2. CASE a.entity.version # a.expected_version + 1
          BY <2>2, <3>2, <5>2 DEF CallComplete
        <5> QED
          BY <5>1, <5>2
      <4> QED
        BY <4>1, <4>2, NoVerdictYet
    <3>3. CASE SelectKey(s) \/ Requery(s)
      <4>1. at[s] \in ReserveSteps /\ UNCHANGED dbVars
        BY <3>3 DEF SelectKey, Requery, ReserveSteps, dbVars
      <4>2. CASE KeyStored(arg[s].key)
        <5>1. Finish(s, ExistingReservation(records[arg[s].key], arg[s].command))
          BY <3>3, <4>2 DEF SelectKey, Requery
        <5> QED
          BY <4>1, <4>2, <5>1, FoundVerdict
      <4>3. CASE SelectKey(s) /\ ~KeyStored(arg[s].key)
        <5>1. at'[s] = "insertTxn" /\ arg' = arg /\ ret' = ret /\ faults' = faults
          BY <2>2, <4>3 DEF SelectKey, GoTo
        <5> QED
          BY <2>4, <4>1, <5>1
          DEF SlotVerdict, ReserveVerdict, OwnedElsewhere, KeyStored, TxnOf, dbVars,
              RequestFingerprint, Storable
      <4>4. CASE Requery(s) /\ ~KeyStored(arg[s].key)
        <5>1. /\ at[s] = "requery" /\ at'[s] = "requeryTxn"
              /\ arg' = arg /\ ret' = ret /\ faults' = faults
          BY <2>2, <4>4 DEF Requery, GoTo
        <5>2. TxnOf(arg[s]) \in Txns /\ TxnStored(TxnOf(arg[s]))
          BY <1>1, <2>4, <4>1, <4>4, <5>1, ReserveCall DEF SlotVerdict
        <5>3. PICK j \in Keys : KeyStored(j) /\ records[j].transaction_id = TxnOf(arg[s])
          BY <5>2 DEF IndInv, TablesAgree, OneKeyPerTransaction
        <5>4. OwnedElsewhere(arg[s])
          BY <4>4, <5>3 DEF OwnedElsewhere
        <5> QED
          BY <2>4, <4>1, <5>1, <5>4
          DEF SlotVerdict, ReserveVerdict, OwnedElsewhere, KeyStored, TxnOf, dbVars,
              RequestFingerprint, Storable
      <4> QED
        BY <3>3, <4>2, <4>3, <4>4
    <3>4. CASE InsertTransaction(s) \/ InsertRecord(s)
      <4>1. CASE ~Storable(arg[s].command) /\ Finish(s, Return("PersistenceError"))
        <5>1. /\ at'[s] = "free" /\ ret'[s].status = "PersistenceError" /\ arg' = arg
              /\ ~Storable(arg[s].command)'
          BY <2>2, <2>3, <4>1 DEF Finish, Storable
        <5> QED
          BY <5>1 DEF SlotVerdict, ReserveVerdict
      <4>2. CASE ~(~Storable(arg[s].command) /\ Finish(s, Return("PersistenceError")))
        <5>1. /\ UNCHANGED dbVars /\ arg' = arg /\ ret' = ret /\ faults' = faults
              /\ \/ at'[s] = "requery" /\ (KeyStored(arg[s].key) \/ TxnStored(TxnOf(arg[s])))
                 \/ at'[s] \in {"insertRecord", "commitReserve"}
          BY <2>2, <3>4, <4>2 DEF InsertTransaction, InsertRecord, GoTo, dbVars
        <5> QED
          BY <2>4, <5>1
          DEF SlotVerdict, ReserveVerdict, OwnedElsewhere, KeyStored, TxnStored, TxnOf, dbVars,
              RequestFingerprint, Storable
      <4> QED
        BY <4>1, <4>2
    <3>5. CASE CommitReserve(s)
      BY <2>2, <2>3, <3>5, NoVerdictYet DEF CommitReserve, Finish
    <3>6. CASE RequeryTransaction(s)
      <4>1. OwnedElsewhere(arg[s]) /\ at[s] \in ReserveSteps
        BY <2>4, <3>6 DEF SlotVerdict, RequeryTransaction, ReserveSteps
      <4>2. PICK j \in Keys : KeyStored(j) /\ records[j].transaction_id = TxnOf(arg[s])
        BY <4>1 DEF OwnedElsewhere
      <4>3. TxnStored(TxnOf(arg[s]))
        BY <4>2 DEF IndInv, TablesAgree, RecordsAgree, RecordAgrees
      <4>4. /\ at'[s] = "free" /\ arg' = arg /\ UNCHANGED dbVars
            /\ ret'[s].status = "TRANSACTION_ID_CONFLICT"
        BY <2>2, <2>3, <3>6, <4>3 DEF RequeryTransaction, Finish, dbVars
      <4>5. OwnedElsewhere(arg[s])'
        BY <4>1, <4>4 DEF OwnedElsewhere, KeyStored, TxnOf, dbVars
      <4> QED
        BY <4>4, <4>5 DEF SlotVerdict, ReserveVerdict
    <3>7. CASE UpdateTransaction(s) \/ UpdateRecord(s) \/ CommitComplete(s)
      <4>1. at[s] \in CompleteSteps /\ arg' = arg /\ at'[s] \in {"free", "updateRecord", "commitComplete"}
        BY <2>2, <3>7
        DEF UpdateTransaction, UpdateRecord, CommitComplete, GoTo, Finish, CompleteSteps
      <4>2. arg'[s].op = "complete"
        BY <1>1, <4>1, CompleteCall
      <4> QED
        BY <4>1, <4>2, NoVerdictYet
    <3>8. CASE SqlFailure(s) \/ ReserveAckLost(s) \/ CompleteAckLost(s)
      <4>1. at'[s] = "free" /\ ret'[s].status = "PersistenceError" /\ faults' = faults + 1
        BY <2>2, <2>3, <3>8 DEF SqlFailure, ReserveAckLost, CompleteAckLost, Finish, Fault
      <4> QED
        BY <1>1, <4>1 DEF SlotVerdict, ReserveVerdict
    <3>9. CASE Abandon(s)
      BY <2>2, <2>3, <3>9, NoVerdictYet DEF Abandon
    <3> QED
      BY <1>3, <3>1, <3>2, <3>3, <3>4, <3>5, <3>6, <3>7, <3>8, <3>9 DEF StepOf
  <2> QED
    BY <2>1, <2>5 DEF VerdictInv
<1> QED
  BY <1>2, <1>3 DEF Next, StepOf

\* Nobody has been told anything initially.
LEMMA VerdictInit == CoordInit => VerdictInv
  BY DEF CoordInit, VerdictInv, SlotVerdict, NoArg

\* What a losing reserve reports is the case and remains so, however many
\* callers race and whichever of the two snapshots of the re-query another
\* caller commits between.
THEOREM VerdictsStayTrue == Spec => []VerdictsAreTrue
<1>1. ASSUME TypeOK, VerdictInv, NEW s \in Slots, arg[s].op = "reserve"
      PROVE  LoserVerdict(s)
  <2>1. ReserveVerdict(s) /\ TxnOf(arg[s]) = arg[s].command.transaction_id
    BY <1>1, ReserveCall DEF VerdictInv, SlotVerdict
  <2> QED
    BY <2>1 DEF ReserveVerdict, LoserVerdict, OwnedElsewhere
<1>2. IndInv /\ VerdictInv => VerdictsAreTrue
  BY <1>1 DEF VerdictsAreTrue, IndInv
<1> QED
  BY <1>2, VerdictInit, VerdictStep, IndInvHolds, PTL DEF Spec

\* A reserve that meets no database fault ends in PersistenceError only if the
\* columns do not take its command: a conflict never does, since the re-query
\* always finds a row that explains the IntegrityError.
THEOREM ConflictsAreExplained == Spec => []ConflictExplained
<1>1. VerdictInv => ConflictExplained
  BY DEF VerdictInv, SlotVerdict, ReserveVerdict, ConflictExplained
<1> QED
  BY <1>1, VerdictInit, VerdictStep, IndInvHolds, PTL DEF Spec

-----------------------------------------------------------------------------
(* Completions.  Before its COMMIT a completion has passed the columns; a  *)
(* normal return means that its rows are the ones that CompletedStays      *)
(* protects.                                                               *)

\* Both rows hold what the completion with arguments a wrote.
CompletionStored(a) ==
    /\ records[a.key].processing_status = "COMPLETED"
    /\ records[a.key].transaction_id = a.transaction_id
    /\ records[a.key].stored_response_body = a.envelope.body
    /\ records[a.key].stored_status_code = a.envelope.status_code
    /\ txns[a.transaction_id].status = a.entity.status
    /\ txns[a.transaction_id].version = a.entity.version
    /\ txns[a.transaction_id].network_reference = a.network_reference

SlotCompletion(s) ==
    /\ at[s] \in {"updateRecord", "commitComplete"} => arg[s].fits
    /\ arg[s].op = "complete" /\ ret[s].status = "DONE" => CompletionStored(arg[s]) /\ arg[s].fits

CompletionInv == \A s \in Slots : SlotCompletion(s)

\* A completion that is stored stays stored.
LEMMA CompletionStays ==
    ASSUME IndInv, [Next]_coordVars, NEW s \in Slots, SlotCompletion(s),
           at'[s] = at[s], arg'[s] = arg[s], ret'[s] = ret[s]
    PROVE  SlotCompletion(s)'
<1>1. ASSUME arg[s].op = "complete", ret[s].status = "DONE"
      PROVE  CompletionStored(arg[s])'
  <2>1. arg[s].key \in Keys /\ CompletionStored(arg[s])
    BY <1>1, CompleteCall DEF IndInv, SlotCompletion
  <2>2. /\ records'[arg[s].key] = records[arg[s].key]
        /\ txns'[arg[s].transaction_id] = txns[arg[s].transaction_id]
    BY <2>1, CompletedStays DEF CompletionStored
  <2> QED
    BY <2>1, <2>2 DEF CompletionStored
<1> QED
  BY <1>1 DEF SlotCompletion

\* The COMMIT of a completion stores it.
LEMMA CompletionWritten ==
    ASSUME IndInv, NEW s \in Slots, at[s] = "commitComplete", WriteCompletion(s), arg' = arg
    PROVE  CompletionStored(arg[s])'
<1> DEFINE a == arg[s]
           row == records[a.key]
           old == txns[a.transaction_id]
<1>1. arg[s].key \in Keys /\ arg[s].transaction_id \in Txns
  BY CompleteCall DEF IndInv, CompleteSteps
<1>2. row \in IdemRow /\ old \in TxnRow /\ records \in [Keys -> IdemRow] /\ txns \in [Txns -> TxnRow]
  BY <1>1 DEF IndInv, TypeOK, TablesTypeOK
<1>3. row.transaction_id = a.transaction_id
  BY DEF IndInv, LocksHold, RowsHeld, RecordMatches
<1>4. records'[a.key] = CompletedRecord(row, a) /\ txns'[a.transaction_id] = CompletedTxnRow(old, a)
  BY <1>1, <1>2, SMTT(60) DEF WriteCompletion
<1>5. /\ records'[a.key].processing_status = "COMPLETED"
      /\ records'[a.key].transaction_id = row.transaction_id
      /\ records'[a.key].stored_response_body = a.envelope.body
      /\ records'[a.key].stored_status_code = a.envelope.status_code
  BY <1>2, <1>4 DEF CompletedRecord, IdemRow
<1>6. /\ txns'[a.transaction_id].status = a.entity.status
      /\ txns'[a.transaction_id].version = a.entity.version
      /\ txns'[a.transaction_id].network_reference = a.network_reference
  BY <1>2, <1>4 DEF CompletedTxnRow, TxnRow
<1> QED
  BY <1>3, <1>5, <1>6 DEF CompletionStored

\* A step that neither reports DONE nor takes the lock of a row.
LEMMA NoCompletionYet ==
    ASSUME NEW s \in Slots,
           at'[s] \notin {"updateRecord", "commitComplete"},
           arg'[s].op = "complete" => ret'[s].status # "DONE"
    PROVE  SlotCompletion(s)'
  BY DEF SlotCompletion

\* Every step keeps the completions.
LEMMA CompletionStep ==
    ASSUME IndInv, CompletionInv, [Next]_coordVars
    PROVE  CompletionInv'
<1>1. TypeOK
  BY DEF IndInv
<1>2. CASE UNCHANGED coordVars
  <2>1. ASSUME NEW r \in Slots PROVE SlotCompletion(r)'
    BY <1>2, CompletionStays DEF CompletionInv, coordVars
  <2> QED
    BY <2>1 DEF CompletionInv
<1>3. ASSUME NEW s \in Slots, StepOf(s)
      PROVE  CompletionInv'
  <2>1. ASSUME NEW r \in Slots \ {s} PROVE SlotCompletion(r)'
    <3>1. OthersWait(s)
      BY <1>1, <1>3, OneSlotMoves
    <3> QED
      BY <3>1, CompletionStays DEF OthersWait, CompletionInv
  <2>2. DOMAIN at = Slots /\ DOMAIN arg = Slots /\ DOMAIN ret = Slots
    BY <1>1 DEF TypeOK, CallsTypeOK
  <2>3. \A status : Return(status).status = status
    BY DEF Return
  <2>4. SlotCompletion(s)
    BY DEF CompletionInv
  <2>5. SlotCompletion(s)'
    <3>1. ASSUME NEW k \in Keys, NEW c \in Command, CallReserve(s, k, c)
          PROVE  SlotCompletion(s)'
      BY <2>2, <2>3, <3>1, NoCompletionYet DEF CallReserve, Begin
    <3>2. ASSUME NEW a \in CompleteCalls, CallComplete(s, a)
          PROVE  SlotCompletion(s)'
      <4>1. CASE a.entity.version = a.expected_version + 1
        BY <2>2, <2>3, <3>2, <4>1, NoCompletionYet DEF CallComplete, Begin
      <4>2. CASE a.entity.version # a.expected_version + 1
        BY <2>2, <2>3, <3>2, <4>2, NoCompletionYet DEF CallComplete
      <4> QED
        BY <4>1, <4>2
    <3>3. CASE \/ SelectKey(s) \/ Requery(s) \/ InsertTransaction(s) \/ InsertRecord(s)
               \/ CommitReserve(s) \/ RequeryTransaction(s) \/ ReserveAckLost(s)
      <4>1. at[s] \in ReserveSteps /\ arg' = arg
            /\ at'[s] \notin {"updateRecord", "commitComplete"}
        BY <2>2, <3>3
        DEF SelectKey, Requery, InsertTransaction, InsertRecord, CommitReserve, RequeryTransaction,
            ReserveAckLost, GoTo, Finish, ReserveSteps
      <4>2. arg'[s].op = "reserve"
        BY <1>1, <4>1, ReserveCall
      <4> QED
        BY <4>1, <4>2, NoCompletionYet
    <3>4. CASE UpdateTransaction(s)
      <4>1. CASE \/ Finish(s, Return("OptimisticConcurrencyError"))
                 \/ Finish(s, Return("PersistenceError"))
        BY <2>2, <2>3, <4>1, NoCompletionYet DEF Finish
      <4>2. CASE arg[s].fits /\ GoTo(s, "updateRecord")
        BY <2>2, <2>4, <3>4, <4>2
        DEF SlotCompletion, GoTo, UpdateTransaction, CompletionStored
      <4> QED
        BY <3>4, <4>1, <4>2 DEF UpdateTransaction
    <3>5. CASE UpdateRecord(s)
      <4>1. CASE Finish(s, Return("OptimisticConcurrencyError"))
        BY <2>2, <2>3, <4>1, NoCompletionYet DEF Finish
      <4>2. CASE GoTo(s, "commitComplete")
        BY <2>2, <2>4, <3>5, <4>2
        DEF SlotCompletion, GoTo, UpdateRecord, CompletionStored
      <4> QED
        BY <3>5, <4>1, <4>2 DEF UpdateRecord
    <3>6. CASE CommitComplete(s)
      <4>1. at[s] = "commitComplete" /\ WriteCompletion(s) /\ arg' = arg /\ at'[s] = "free"
        BY <2>2, <3>6 DEF CommitComplete, Finish
      <4>2. CompletionStored(arg[s])' /\ arg'[s].fits
        BY <2>4, <4>1, CompletionWritten DEF SlotCompletion
      <4> QED
        BY <4>1, <4>2 DEF SlotCompletion
    <3>7. CASE SqlFailure(s) \/ CompleteAckLost(s) \/ Abandon(s)
      BY <2>2, <2>3, <3>7, NoCompletionYet DEF SqlFailure, CompleteAckLost, Abandon, Finish
    <3> QED
      BY <1>3, <3>1, <3>2, <3>3, <3>4, <3>5, <3>6, <3>7 DEF StepOf
  <2> QED
    BY <2>1, <2>5 DEF CompletionInv
<1> QED
  BY <1>2, <1>3 DEF Next, StepOf

\* A completion that returned normally is never overwritten, by whatever races
\* it or comes later, with the same expected version or with a newer one.
THEOREM CompletionsAreFinal == Spec => []CompletionIsFinal
<1>1. CoordInit => CompletionInv
  BY DEF CoordInit, CompletionInv, SlotCompletion, NoArg
<1>2. CompletionInv => CompletionIsFinal
  BY DEF CompletionInv, SlotCompletion, CompletionStored, CompletionIsFinal
<1> QED
  BY <1>1, <1>2, CompletionStep, IndInvHolds, PTL DEF Spec

-----------------------------------------------------------------------------
(* Constraints.  An UPDATE of a transaction row passes its CHECKs because  *)
(* every completion under way carries an entity that passed its own.       *)

EntitiesValid == \A s \in Slots : at[s] \in CompleteSteps => ValidEntity(arg[s].entity)

CheckedInv == RowsPassChecks /\ EntitiesValid

\* Every step keeps the entities of the completions valid.
LEMMA EntitiesStep ==
    ASSUME TypeOK, EntitiesValid, [Next]_coordVars
    PROVE  EntitiesValid'
<1>1. CASE UNCHANGED coordVars
  BY <1>1 DEF EntitiesValid, coordVars
<1>2. ASSUME NEW s \in Slots, StepOf(s)
      PROVE  EntitiesValid'
  <2>1. OthersWait(s)
    BY <1>2, OneSlotMoves
  <2>2. DOMAIN at = Slots /\ DOMAIN arg = Slots
    BY DEF TypeOK, CallsTypeOK
  <2>3. ASSUME at'[s] \in CompleteSteps PROVE ValidEntity(arg'[s].entity)
    <3>1. ASSUME NEW a \in CompleteCalls, CallComplete(s, a)
          PROVE  ValidEntity(arg'[s].entity)
      <4>1. arg' = [arg EXCEPT ![s] = a]
        BY <3>1 DEF CallComplete, Begin
      <4>2. ValidEntity(a.entity)
        BY CompleteCallsAssumption
      <4> QED
        BY <2>2, <4>1, <4>2
    <3>2. ASSUME NEW k \in Keys, NEW c \in Command, CallReserve(s, k, c)
          PROVE  FALSE
      BY <2>2, <2>3, <3>2 DEF CallReserve, Begin, CompleteSteps
    <3>3. CASE UpdateTransaction(s) \/ UpdateRecord(s)
      <4>1. at[s] \in CompleteSteps /\ arg' = arg
        BY <3>3 DEF UpdateTransaction, UpdateRecord, GoTo, Finish, CompleteSteps
      <4> QED
        BY <4>1 DEF EntitiesValid
    <3>4. CASE \/ SelectKey(s) \/ Requery(s) \/ InsertTransaction(s) \/ InsertRecord(s)
               \/ CommitReserve(s) \/ RequeryTransaction(s) \/ CommitComplete(s)
               \/ SqlFailure(s) \/ ReserveAckLost(s) \/ CompleteAckLost(s) \/ Abandon(s)
      BY <2>2, <2>3, <3>4
      DEF SelectKey, Requery, InsertTransaction, InsertRecord, CommitReserve, RequeryTransaction,
          CommitComplete, SqlFailure, ReserveAckLost, CompleteAckLost, Abandon, GoTo, Finish,
          CompleteSteps
    <3> QED
      BY <1>2, <3>1, <3>2, <3>3, <3>4 DEF StepOf
  <2> QED
    BY <2>1, <2>3 DEF EntitiesValid, OthersWait
<1> QED
  BY <1>1, <1>2 DEF Next, StepOf

\* What reserve inserts passes the constraints.
LEMMA ReservationPasses ==
    ASSUME NEW c \in Command
    PROVE  TransactionChecks(ReservedTxnRow(c)) /\ RecordChecks(ReservedRecord(c))
<1>1. TransactionChecks(ReservedTxnRow(c))
  BY DEF TransactionChecks, ReservedTxnRow, NoTxnRow, TransactionStatus
<1>2. {} \in StoredHeaders
  BY DEF StoredHeaders
<1>3. RecordChecks(ReservedRecord(c))
  BY <1>2 DEF RecordChecks, ReservedRecord, NoIdemRow
<1> QED
  BY <1>1, <1>3

\* What complete writes passes the constraints, if the entity is valid.
LEMMA CompletionPasses ==
    ASSUME NEW a \in CompleteArg, ValidEntity(a.entity), NEW old \in TxnRow, NEW row \in IdemRow
    PROVE  TransactionChecks(CompletedTxnRow(old, a)) /\ RecordChecks(CompletedRecord(row, a))
<1>1. a.entity \in Entity /\ a.envelope \in Envelope
  BY DEF CompleteArg
<1>2. TransactionChecks(CompletedTxnRow(old, a))
  <2>1. /\ CompletedTxnRow(old, a).status = a.entity.status
        /\ CompletedTxnRow(old, a).pending_operation = a.entity.pending_operation
        /\ CompletedTxnRow(old, a).version = a.entity.version
    BY DEF CompletedTxnRow, TxnRow
  <2> QED
    BY <1>1, <2>1 DEF TransactionChecks, ValidEntity, Entity
<1>3. /\ a.envelope.status_code \in 100..599
      /\ a.envelope.body \in Body
      /\ a.envelope.headers \in Headers
  BY <1>1 DEF Envelope
<1>4. AllowlistedHeaders(a.envelope.headers) \in StoredHeaders
  BY <1>3 DEF AllowlistedHeaders, Headers, StoredHeaders
<1>5. /\ CompletedRecord(row, a).processing_status = "COMPLETED"
      /\ CompletedRecord(row, a).stored_status_code = a.envelope.status_code
      /\ CompletedRecord(row, a).stored_response_body = a.envelope.body
      /\ CompletedRecord(row, a).stored_headers = AllowlistedHeaders(a.envelope.headers)
  BY DEF CompletedRecord, IdemRow
<1>6. a.envelope.body # None
  BY <1>3, NoneAssumption
<1> QED
  BY <1>2, <1>3, <1>4, <1>5, <1>6 DEF RecordChecks

\* Every step keeps the committed rows within the constraints.
LEMMA ChecksStep ==
    ASSUME IndInv, CheckedInv, [Next]_coordVars
    PROVE  CheckedInv'
<1>1. TypeOK /\ EntitiesValid /\ EntitiesValid'
  BY EntitiesStep DEF IndInv, CheckedInv
<1>2. txns \in [Txns -> TxnRow] /\ records \in [Keys -> IdemRow]
  BY <1>1 DEF TypeOK, TablesTypeOK
<1>3. /\ \A t \in Txns : TxnStored(t) => TransactionChecks(txns[t])
      /\ \A k \in Keys : KeyStored(k) => RecordChecks(records[k])
  BY DEF CheckedInv, RowsPassChecks
<1> DEFINE RowsPass ==
       /\ \A t \in Txns : txns'[t].status # "ABSENT" => TransactionChecks(txns'[t])
       /\ \A k \in Keys : records'[k].processing_status # "ABSENT" => RecordChecks(records'[k])
<1>4. ASSUME UNCHANGED dbVars
      PROVE  RowsPass
  BY <1>3, <1>4 DEF dbVars, TxnStored, KeyStored
<1>5. ASSUME NEW s \in Slots, at[s] = "commitReserve", WriteReservation(s)
      PROVE  RowsPass
  <2>1. arg[s].key \in Keys /\ arg[s].command \in Command
    BY <1>1, <1>5, ReserveCall DEF ReserveSteps
  <2>2. /\ TransactionChecks(ReservedTxnRow(arg[s].command))
        /\ RecordChecks(ReservedRecord(arg[s].command))
    BY <2>1, ReservationPasses
  <2>3. /\ \A t \in Txns : txns'[t] = txns[t] \/ txns'[t] = ReservedTxnRow(arg[s].command)
        /\ \A k \in Keys : records'[k] = records[k] \/ records'[k] = ReservedRecord(arg[s].command)
    BY <1>2, <1>5 DEF WriteReservation
  <2> QED
    BY <1>3, <2>2, <2>3 DEF TxnStored, KeyStored
<1>6. ASSUME NEW s \in Slots, at[s] = "commitComplete", WriteCompletion(s)
      PROVE  RowsPass
  <2>1. arg[s] \in CompleteArg /\ ValidEntity(arg[s].entity)
    BY <1>1, <1>6, CompleteCall DEF CompleteSteps, EntitiesValid
  <2>2. ASSUME NEW t \in Txns, TxnStored(t)' PROVE TransactionChecks(txns'[t])
    <3>1. txns'[t] = txns[t] \/ txns'[t] = CompletedTxnRow(txns[t], arg[s])
      BY <1>2, <1>6 DEF WriteCompletion
    <3>2. TransactionChecks(CompletedTxnRow(txns[t], arg[s]))
      <4>1. txns[t] \in TxnRow
        BY <1>2
      <4>2. PICK row \in IdemRow : TRUE
        BY <1>2, <2>1 DEF CompleteArg
      <4> QED
        BY <2>1, <4>1, <4>2, CompletionPasses
    <3> QED
      BY <1>3, <2>2, <3>1, <3>2 DEF TxnStored
  <2>3. ASSUME NEW k \in Keys, KeyStored(k)' PROVE RecordChecks(records'[k])
    <3>1. records'[k] = records[k] \/ records'[k] = CompletedRecord(records[k], arg[s])
      BY <1>2, <1>6 DEF WriteCompletion
    <3>2. RecordChecks(CompletedRecord(records[k], arg[s]))
      <4>1. records[k] \in IdemRow
        BY <1>2
      <4>2. PICK old \in TxnRow : TRUE
        BY <1>2, <2>1 DEF CompleteArg
      <4> QED
        BY <2>1, <4>1, <4>2, CompletionPasses
    <3> QED
      BY <1>3, <2>3, <3>1, <3>2 DEF KeyStored
  <2> QED
    BY <2>2, <2>3 DEF TxnStored, KeyStored
<1>7. RowsPass
  BY <1>4, <1>5, <1>6, WhoWrites
<1>8. ASSUME NEW k \in Keys, KeyStored(k)'
      PROVE  records'[k].transaction_id \in Txns /\ TxnStored(records[k].transaction_id)'
  <2>1. IndInv'
    BY IndStep
  <2>2. RecordsAgree'
    BY <2>1 DEF IndInv, TablesAgree
  <2>3. RecordAgrees(records[k], records[k].transaction_id)'
    BY <1>8, <2>2 DEF RecordsAgree
  <2> QED
    BY <2>3 DEF RecordAgrees
<1>9. RowsPassChecks'
  <2>1. ASSUME NEW t \in Txns, TxnStored(t)' PROVE TransactionChecks(txns[t])'
    BY <1>7, <2>1 DEF TxnStored, TransactionChecks
  <2>2. ASSUME NEW k \in Keys, KeyStored(k)' PROVE RecordChecks(records[k])'
    BY <1>7, <2>2 DEF KeyStored, RecordChecks
  <2> QED
    BY <1>8, <2>1, <2>2 DEF RowsPassChecks
<1> QED
  BY <1>1, <1>9 DEF CheckedInv

\* Every committed row satisfies the CHECK constraints and the foreign key of
\* the schema: no call of reserve or complete can fail because of them.
THEOREM RowsAlwaysPassChecks == Spec => []RowsPassChecks
<1>1. CoordInit => CheckedInv
  BY DEF CoordInit, CheckedInv, RowsPassChecks, EntitiesValid, TxnStored, KeyStored, NoTxnRow,
         NoIdemRow, CompleteSteps
<1>2. CheckedInv => RowsPassChecks
  BY DEF CheckedInv
<1> QED
  BY <1>1, <1>2, ChecksStep, IndInvHolds, PTL DEF Spec
=============================================================================
