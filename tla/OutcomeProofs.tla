----------------------------- MODULE OutcomeProofs -----------------------------
(***************************************************************************)
(* What the service tells its clients and what it stores is true: a replay *)
(* repeats the stored answer, a final status agrees with the network, and  *)
(* an error without a fault means that the network broke its contract or   *)
(* that the request carries a value that cannot be stored or sent.         *)
(* For every set of keys, transactions, tokens and handlers, any number of *)
(* faults and any answers of the network.                                  *)
(***************************************************************************)
EXTENDS PlatformProofs

-----------------------------------------------------------------------------
(* One handler moves at a time.                                            *)

ServiceStep(s) ==
    \/ \E k \in Keys, c \in Command : Submit(s, k, c)
    \/ NotAcquired(s) \/ Post(s) \/ PostFails(s) \/ Receive(s) \/ Unhandled(s) \/ Timeout(s)
    \/ TransportFailure(s) \/ Completed(s) \/ Sql(s) \/ Handle(s) \/ HandleGarbled(s)
    \/ GatewayFails(s) \/ GatewayRejects(s) \/ DatabaseFails(s) \/ Crash(s)

\* A slot whose handler, database call and exchange stay as they are.
Rests(s) ==
    /\ handler'[s] = handler[s] /\ reply'[s] = reply[s] /\ wire'[s] = wire[s]
    /\ at'[s] = at[s] /\ arg'[s] = arg[s] /\ ret'[s] = ret[s]

\* A step is a step of one handler, of a stray request, or a stutter.
LEMMA StepCases ==
    ASSUME [Next]_vars
    PROVE  \/ UNCHANGED vars
           \/ \E s \in Slots : ServiceStep(s)
           \/ \E c \in stray : HandleStray(c)
  BY DEF Next, ServiceStep

\* What a step of the database does to the tables and to its slot.
LEMMA DatabaseMoves ==
    ASSUME ControlInv, NEW s \in Slots, Sql(s) \/ DatabaseFails(s)
    PROVE  /\ at[s] \in ReserveSteps \cup CompleteSteps /\ Moves(s)
           /\ at[s] \in ReserveSteps => handler[s] = "reserving"
           /\ at[s] \in CompleteSteps => handler[s] = "completing"
           /\ UNCHANGED <<handler, wire, stray, posts, ledger, reply>>
<1>1. CoordTypes /\ SlotControl(s) /\ handler[s] \in HandlerStates
  BY DbTypes DEF ControlInv
<1>2. at[s] \in ReserveSteps => handler[s] = "reserving"
  BY <1>1
  DEF SlotControl, IdleControl, CallingControl, CompletingControl, HandlerStates, ReserveSteps,
      CompleteSteps
<1>3. at[s] \in CompleteSteps => handler[s] = "completing"
  BY <1>1
  DEF SlotControl, IdleControl, CallingControl, ReservingControl, HandlerStates, ReserveSteps,
      CompleteSteps
<1>4. at[s] \in ReserveSteps => arg[s].key \in Keys
  BY <1>2, ReservingCall
<1>5. at[s] \in ReserveSteps \cup CompleteSteps /\ Moves(s)
  BY <1>1, <1>4, StatementMoves, FaultMoves DEF Sql, DatabaseFails
<1> QED
  BY <1>2, <1>3, <1>5 DEF Sql, DatabaseFails, networkVars

\* The other handlers rest.
LEMMA OthersRest ==
    ASSUME ControlInv, NEW s \in Slots, ServiceStep(s), NEW r \in Slots \ {s}
    PROVE  Rests(r)
<1>1. /\ DOMAIN handler = Slots /\ DOMAIN reply = Slots /\ DOMAIN wire = Slots
      /\ DOMAIN at = Slots /\ DOMAIN arg = Slots /\ DOMAIN ret = Slots
  BY DbTypes DEF ControlInv, CoordTypes
<1>2. ASSUME NEW k \in Keys, NEW c \in Command, Submit(s, k, c)
      PROVE  Rests(r)
  BY <1>1, <1>2 DEF Submit, CallReserve, Begin, networkVars, Rests
<1>3. CASE NotAcquired(s) \/ PostFails(s) \/ Unhandled(s) \/ Completed(s)
  <2>1. \E e : Answer(s, e)
    BY <1>3 DEF NotAcquired, PostFails, Unhandled, Completed
  <2>2. wire'[r] = wire[r] /\ at' = at /\ arg' = arg /\ ret' = ret
    BY <1>1, <1>3 DEF NotAcquired, PostFails, Unhandled, Completed, networkVars, coordVars
  <2> QED
    BY <1>1, <2>1, <2>2 DEF Answer, Rests
<1>4. CASE Post(s)
  BY <1>1, <1>4 DEF Post, coordVars, Rests
<1>5. CASE Receive(s) \/ Timeout(s) \/ TransportFailure(s)
  <2>1. PICK result \in NetworkResults : Conclude(s, result)
    BY <1>5, ConcludedResult DEF ControlInv
  <2>2. PICK a : Begin(s, "updateTxn", a)
    BY <1>5, <2>1, ConcludedResult, ConcludeCall DEF ControlInv
  <2> QED
    BY <1>1, <2>1, <2>2 DEF Conclude, Begin, Rests
<1>6. CASE Sql(s) \/ DatabaseFails(s)
  BY <1>6, DatabaseMoves DEF Moves, Rests
<1>7. CASE Handle(s) \/ HandleGarbled(s) \/ GatewayFails(s) \/ GatewayRejects(s)
  <2>1. /\ UNCHANGED <<coordVars, handler, reply>>
        /\ \E w : wire' = [wire EXCEPT ![s] = w]
    BY <1>7 DEF Handle, HandleGarbled, GatewayFails, GatewayRejects
  <2> QED
    BY <1>1, <2>1 DEF coordVars, Rests
<1>8. CASE Crash(s)
  BY <1>1, <1>8 DEF Crash, Abandon, Rests
<1> QED
  BY <1>2, <1>3, <1>4, <1>5, <1>6, <1>7, <1>8 DEF ServiceStep

\* Who writes the tables: the COMMIT of a reservation or of a completion, which
\* ends the call; only a COMMIT that is reported says ACQUIRED or DONE.
CommitsReservation(s) ==
    /\ at[s] = "commitReserve" /\ handler[s] = "reserving" /\ WriteReservation(s)
    /\ at'[s] = "free"
    /\ UNCHANGED <<arg, handler, wire, stray, posts, ledger, reply>>

CommitsCompletion(s) ==
    /\ at[s] = "commitComplete" /\ handler[s] = "completing" /\ WriteCompletion(s)
    /\ at'[s] = "free"
    /\ UNCHANGED <<arg, handler, wire, stray, posts, ledger, reply>>

\* The tables change by a COMMIT only.
LEMMA TableWriters ==
    ASSUME ControlInv, [Next]_vars
    PROVE  \/ UNCHANGED <<txns, records>>
           \/ \E s \in Slots : CommitsReservation(s) /\ ServiceStep(s)
           \/ \E s \in Slots : CommitsCompletion(s) /\ ServiceStep(s)
<1>1. CASE UNCHANGED vars
  BY <1>1 DEF vars
<1>2. ASSUME NEW c \in stray, HandleStray(c)
      PROVE  UNCHANGED <<txns, records>>
  BY <1>2 DEF HandleStray, coordVars
<1>3. ASSUME NEW s \in Slots, Sql(s) \/ DatabaseFails(s)
      PROVE  \/ UNCHANGED <<txns, records>>
             \/ CommitsReservation(s) \/ CommitsCompletion(s)
  <2>1. /\ at[s] = "commitReserve" => handler[s] = "reserving"
        /\ at[s] = "commitComplete" => handler[s] = "completing"
        /\ UNCHANGED <<arg, handler, wire, stray, posts, ledger, reply>>
    BY <1>3, DatabaseMoves DEF ReserveSteps, CompleteSteps, Moves
  <2>2. DOMAIN at = Slots
    BY DbTypes DEF ControlInv, CoordTypes
  <2>3. CASE CommitReserve(s) \/ ReserveAckLost(s)
    BY <2>1, <2>2, <2>3 DEF CommitReserve, ReserveAckLost, Finish, CommitsReservation
  <2>4. CASE CommitComplete(s) \/ CompleteAckLost(s)
    BY <2>1, <2>2, <2>4 DEF CommitComplete, CompleteAckLost, Finish, CommitsCompletion
  <2>5. CASE \/ SelectKey(s) \/ InsertTransaction(s) \/ InsertRecord(s) \/ Requery(s)
             \/ RequeryTransaction(s) \/ UpdateTransaction(s) \/ UpdateRecord(s) \/ SqlFailure(s)
    BY <2>5 DEF SelectKey, InsertTransaction, InsertRecord, Requery, RequeryTransaction,
                UpdateTransaction, UpdateRecord, SqlFailure, dbVars
  <2> QED
    BY <1>3, <2>3, <2>4, <2>5 DEF Sql, DatabaseFails, Statement, DatabaseFault
<1>4. ASSUME NEW s \in Slots, ServiceStep(s), ~Sql(s), ~DatabaseFails(s)
      PROVE  UNCHANGED <<txns, records>>
  BY <1>4
  DEF ServiceStep, Submit, NotAcquired, Post, PostFails, Receive, Unhandled, Timeout,
      TransportFailure, Completed, Handle, HandleGarbled, GatewayFails, GatewayRejects, Crash,
      CallReserve, CallComplete, Conclude, Abandon, coordVars, dbVars
<1> QED
  BY <1>1, <1>2, <1>3, <1>4, StepCases DEF ServiceStep

-----------------------------------------------------------------------------
(* Ownership.  A handler that was told ACQUIRED and has not completed yet  *)
(* owns the record of its key: it is IN_PROGRESS, of the handler's own     *)
(* request, and nobody else owns it.                                       *)

Owning(s) ==
    \/ handler[s] = "calling"
    \/ handler[s] = "reserving" /\ ret[s].status = "ACQUIRED"
    \/ handler[s] = "completing" /\ at[s] # "free"

OwnsRecord(s) ==
    /\ records[reply[s].key].processing_status = "IN_PROGRESS"
    /\ records[reply[s].key].request_fingerprint = RequestFingerprint(reply[s].command)

OwnerInv ==
    /\ \A s \in Slots : Owning(s) => OwnsRecord(s)
    /\ \A r, s \in Slots : r # s /\ Owning(r) /\ Owning(s) => reply[r].key # reply[s].key
    /\ \A k \in Keys : records[k].processing_status = "IN_PROGRESS" =>
          txns[records[k].transaction_id].status = "CREATED"

\* A handler that works on a request: its arguments.
LEMMA AskedWhileBusy ==
    ASSUME ControlInv, NEW s \in Slots, handler[s] # "idle"
    PROVE  /\ reply[s].key \in Keys /\ reply[s].command \in Command
           /\ reply[s].command.transaction_id \in Txns
           /\ arg[s].key = reply[s].key /\ TxnOf(arg[s]) = reply[s].command.transaction_id
           /\ handler[s] # "completing" => arg[s] = ReserveOf(s)
<1>1. SlotControl(s) /\ handler[s] \in HandlerStates
  BY DEF ControlInv
<1>2. CASE handler[s] \in {"reserving", "calling"}
  BY <1>2, ReservingCall DEF Command, ReserveOf
<1>3. CASE handler[s] = "completing"
  <2>1. Asked(s)
    BY <1>1, <1>3 DEF SlotControl, CompletingControl
  <2>2. PICK r \in NetworkResults :
           arg[s] = CompletionOf(reply[s].key, reply[s].command.transaction_id, r)
    BY <1>1, <1>3 DEF SlotControl, CompletingControl
  <2>3. arg[s].key = reply[s].key /\ TxnOf(arg[s]) = reply[s].command.transaction_id
    BY <2>2 DEF CompletionOf, TxnOf
  <2> QED
    BY <1>3, <2>1, <2>3 DEF Asked, Command
<1> QED
  BY <1>1, <1>2, <1>3 DEF HandlerStates

\* The completion of a handler: what was concluded from the network.
LEMMA CompletingCall ==
    ASSUME ControlInv, NEW s \in Slots, handler[s] = "completing"
    PROVE  \E r \in NetworkResults :
              /\ arg[s] = CompletionOf(reply[s].key, reply[s].command.transaction_id, r)
              /\ arg[s].key = reply[s].key
              /\ arg[s].transaction_id = reply[s].command.transaction_id
              /\ arg[s].entity = Execute(r.kind) /\ arg[s].expected_version = 0
              /\ arg[s].envelope = OutcomeEnvelope(reply[s].command.transaction_id, r)
              /\ arg[s].fits = (r.kind \notin OverlongKinds)
<1>1. PICK r \in NetworkResults :
         arg[s] = CompletionOf(reply[s].key, reply[s].command.transaction_id, r)
  BY DEF ControlInv, SlotControl, CompletingControl
<1> QED
  BY <1>1 DEF CompletionOf

\* Who owns a record owned it before, or has just reserved it.
LEMMA OwnersBefore ==
    ASSUME ControlInv, [Next]_vars, NEW s \in Slots, Owning(s)'
    PROVE  \/ Owning(s) /\ handler[s] # "idle" /\ reply'[s] = reply[s]
           \/ CommitsReservation(s)
<1> DEFINE Goal == \/ Owning(s) /\ handler[s] # "idle" /\ reply'[s] = reply[s]
                   \/ CommitsReservation(s)
<1>1. /\ DOMAIN handler = Slots /\ DOMAIN reply = Slots /\ DOMAIN wire = Slots
      /\ DOMAIN at = Slots /\ DOMAIN arg = Slots /\ DOMAIN ret = Slots /\ CoordTypes
  BY DbTypes DEF ControlInv, CoordTypes
<1>2. SlotControl(s) /\ handler[s] \in HandlerStates
  BY DEF ControlInv
<1>3. ASSUME Rests(s) PROVE Goal
  BY <1>3 DEF Rests, Owning
<1>4. CASE UNCHANGED vars
  BY <1>3, <1>4 DEF vars, Rests
<1>5. ASSUME NEW c \in stray, HandleStray(c) PROVE Goal
  BY <1>3, <1>5 DEF HandleStray, coordVars, Rests
<1>6. ASSUME NEW r \in Slots, ServiceStep(r), r # s PROVE Goal
  BY <1>3, <1>6, OthersRest
<1>7. ASSUME ServiceStep(s) PROVE Goal
  <2>1. ASSUME NEW k \in Keys, NEW c \in Command, Submit(s, k, c) PROVE FALSE
    <3>1. handler'[s] = "reserving" /\ ret'[s].status = "none"
      BY <1>1, <2>1, BeginMoves DEF Submit, CallReserve
    <3> QED
      BY <3>1 DEF Owning
  <2>2. ASSUME NotAcquired(s) \/ PostFails(s) \/ Unhandled(s) \/ Completed(s) \/ Crash(s)
        PROVE  FALSE
    <3>1. handler'[s] = "idle"
      BY <1>1, <2>2 DEF NotAcquired, PostFails, Unhandled, Completed, Crash, Answer
    <3> QED
      BY <3>1 DEF Owning
  <2>3. ASSUME Post(s) PROVE Goal
    BY <2>3 DEF Post, Owning
  <2>4. ASSUME Receive(s) \/ Timeout(s) \/ TransportFailure(s) PROVE Goal
    BY <2>4 DEF Receive, Timeout, TransportFailure, Conclude, Owning
  <2>5. ASSUME Handle(s) \/ HandleGarbled(s) \/ GatewayFails(s) \/ GatewayRejects(s) PROVE Goal
    <3>1. handler[s] = "calling"
      BY <2>5, RequestUnderWay DEF Handle, HandleGarbled, GatewayFails, GatewayRejects
    <3> QED
      BY <2>5, <3>1 DEF Handle, HandleGarbled, GatewayFails, GatewayRejects, Owning
  <2>6. ASSUME Sql(s) \/ DatabaseFails(s) PROVE Goal
    <3>1. /\ at[s] \in ReserveSteps \cup CompleteSteps /\ Moves(s)
          /\ handler' = handler /\ reply' = reply
      BY <2>6, DatabaseMoves
    <3>2. CASE at[s] \in ReserveSteps
      <4>1. handler[s] = "reserving" /\ ret'[s].status = "ACQUIRED" /\ ret[s].status = "none"
        BY <1>2, <2>6, <3>1, <3>2, DatabaseMoves
        DEF Owning, SlotControl, ReservingControl, ReserveSteps
      <4>2. CommitReserve(s)
        <5>1. \A status : Return(status).status = status
          BY DEF Return
        <5>2. CASE SelectKey(s) \/ Requery(s)
          <6>1. KeyStored(arg[s].key)
            BY <1>1, <4>1, <5>2 DEF SelectKey, Requery, GoTo
          <6>2. arg[s].key \in Keys
            BY <4>1, ReservingCall
          <6>3. Finish(s, ExistingReservation(records[arg[s].key], arg[s].command))
            BY <5>2, <6>1 DEF SelectKey, Requery
          <6>4. ret'[s].status \in {"IDEMPOTENCY_CONFLICT", "IN_PROGRESS", "COMPLETED"}
            BY <1>1, <6>1, <6>2, <6>3, ExistingStatus DEF Finish
          <6> QED
            BY <4>1, <6>4
        <5>3. CASE InsertTransaction(s) \/ InsertRecord(s)
          BY <1>1, <4>1, <5>1, <5>3 DEF InsertTransaction, InsertRecord, GoTo, Finish
        <5>4. CASE RequeryTransaction(s)
          BY <1>1, <4>1, <5>1, <5>4 DEF RequeryTransaction, Finish
        <5>5. CASE DatabaseFails(s)
          BY <1>1, <4>1, <5>1, <5>5, FaultMoves DEF DatabaseFails
        <5>6. CASE UpdateTransaction(s) \/ UpdateRecord(s) \/ CommitComplete(s)
          BY <3>2, <5>6 DEF UpdateTransaction, UpdateRecord, CommitComplete, ReserveSteps
        <5> QED
          BY <2>6, <5>2, <5>3, <5>4, <5>5, <5>6 DEF Sql, Statement
      <4>3. UNCHANGED <<arg, handler, wire, stray, posts, ledger, reply>>
        BY <2>6, DatabaseMoves DEF Moves
      <4> QED
        BY <1>1, <4>1, <4>2, <4>3 DEF CommitReserve, Finish, CommitsReservation
    <3>3. CASE at[s] \in CompleteSteps
      BY <2>6, <3>1, <3>3, DatabaseMoves DEF Owning, CompleteSteps
    <3> QED
      BY <3>1, <3>2, <3>3
  <2> QED
    BY <1>7, <2>1, <2>2, <2>3, <2>4, <2>5, <2>6 DEF ServiceStep
<1> QED
  BY <1>4, <1>5, <1>6, <1>7, StepCases

\* What the COMMIT of a reservation writes: two rows that were absent.
LEMMA ReservationEffect ==
    ASSUME ControlInv, DbInv, NEW s \in Slots, CommitsReservation(s),
           NEW k, k = reply[s].key, NEW c, c = reply[s].command, NEW t, t = c.transaction_id
    PROVE  /\ k \in Keys /\ c \in Command /\ t \in Txns /\ ~KeyStored(k) /\ ~TxnStored(t)
           /\ records'[k].processing_status = "IN_PROGRESS"
           /\ records'[k].request_fingerprint = RequestFingerprint(c)
           /\ records'[k].transaction_id = t
           /\ txns'[t].status = "CREATED"
           /\ \A j \in Keys \ {k} : records'[j] = records[j]
           /\ \A u \in Txns \ {t} : txns'[u] = txns[u]
<1>1. /\ k \in Keys /\ c \in Command /\ t \in Txns /\ arg[s] = ReserveOf(s)
      /\ arg[s].key = k /\ arg[s].command = c /\ TxnOf(arg[s]) = t
  BY ReservingCall DEF CommitsReservation, Command
<1>2. CoordTypes /\ ~KeyStored(k) /\ ~TxnStored(t)
  BY <1>1, DbFacts DEF CallFacts, CommitsReservation
<1>3. /\ txns' = [txns EXCEPT ![t] = ReservedTxnRow(c)]
      /\ records' = [records EXCEPT ![k] = ReservedRecord(c)]
  BY <1>1 DEF CommitsReservation, WriteReservation
<1>4. ReservedTxnRow(c).status = "CREATED"
  BY DEF ReservedTxnRow, NoTxnRow
<1>5. /\ ReservedRecord(c).processing_status = "IN_PROGRESS"
      /\ ReservedRecord(c).request_fingerprint = RequestFingerprint(c)
      /\ ReservedRecord(c).transaction_id = t
  BY DEF ReservedRecord, NoIdemRow
<1> QED
  BY <1>1, <1>2, <1>3, <1>4, <1>5 DEF CoordTypes

\* What the COMMIT of a completion writes: the outcome, into the rows that its
\* own reservation wrote.
LEMMA CompletionEffect ==
    ASSUME ControlInv, DbInv, NEW s \in Slots, CommitsCompletion(s),
           NEW k, k = reply[s].key, NEW t, t = reply[s].command.transaction_id
    PROVE  /\ k \in Keys /\ t \in Txns /\ arg[s].fits
           /\ records[k].processing_status = "IN_PROGRESS"
           /\ records[k].transaction_id = t
           /\ records'[k].processing_status = "COMPLETED"
           /\ records'[k].request_fingerprint = records[k].request_fingerprint
           /\ records'[k].transaction_id = t
           /\ records'[k].stored_status_code = arg[s].envelope.status_code
           /\ records'[k].stored_response_body = arg[s].envelope.body
           /\ records'[k].stored_headers = AllowlistedHeaders(arg[s].envelope.headers)
           /\ txns'[t].status = arg[s].entity.status
           /\ \A j \in Keys \ {k} : records'[j] = records[j]
           /\ \A u \in Txns \ {t} : txns'[u] = txns[u]
<1>1. handler[s] = "completing" /\ at[s] = "commitComplete"
  BY DEF CommitsCompletion
<1>2. /\ k \in Keys /\ t \in Txns /\ arg[s].key = k /\ arg[s].transaction_id = t
  BY <1>1, AskedWhileBusy, CompletingCall
<1>3. CoordTypes
  BY DbFacts
<1>4. Db!RowsHeld(s) /\ Db!SlotCompletion(s)
  BY DEF DbInv, Db!IndInv, Db!LocksHold, Db!CompletionInv
<1>5. /\ arg[s].fits /\ records[k].processing_status = "IN_PROGRESS"
      /\ records[k].transaction_id = t
  BY <1>1, <1>2, <1>4 DEF Db!RowsHeld, Db!SlotCompletion, Db!RecordMatches
<1> DEFINE a == arg[s]
<1>6. /\ txns' = [txns EXCEPT ![t] = CompletedTxnRow(txns[t], a)]
      /\ records' = [records EXCEPT ![k] = CompletedRecord(records[k], a)]
  BY <1>2, <1>3 DEF CommitsCompletion, WriteCompletion, CoordTypes
<1>7. txns[t] \in TxnRow /\ records[k] \in IdemRow
  BY <1>2, <1>3 DEF CoordTypes
<1> HIDE DEF a
<1>8. CompletedTxnRow(txns[t], a).status = a.entity.status
  BY <1>7 DEF CompletedTxnRow, TxnRow
<1>9. ASSUME NEW row \in IdemRow
      PROVE  /\ CompletedRecord(row, a).processing_status = "COMPLETED"
             /\ CompletedRecord(row, a).request_fingerprint = row.request_fingerprint
             /\ CompletedRecord(row, a).transaction_id = row.transaction_id
             /\ CompletedRecord(row, a).stored_status_code = a.envelope.status_code
             /\ CompletedRecord(row, a).stored_response_body = a.envelope.body
             /\ CompletedRecord(row, a).stored_headers = AllowlistedHeaders(a.envelope.headers)
  BY DEF CompletedRecord, IdemRow
<1>10. a = arg[s]
  BY DEF a
<1> QED
  BY <1>2, <1>3, <1>5, <1>6, <1>7, <1>8, <1>9, <1>10 DEF CoordTypes

\* The owners keep their records.
LEMMA OwnerStep ==
    ASSUME ControlInv, DbInv, OwnerInv, [Next]_vars
    PROVE  OwnerInv'
<1>1. ASSUME NEW s \in Slots, Owning(s)' PROVE OwnsRecord(s)'
  <2>1. CASE CommitsReservation(s)
    <3>1. reply'[s] = reply[s]
      BY <2>1 DEF CommitsReservation
    <3> QED
      BY <2>1, <3>1, ReservationEffect DEF OwnsRecord
  <2>2. CASE Owning(s) /\ handler[s] # "idle" /\ reply'[s] = reply[s]
    <3>1. OwnsRecord(s) /\ reply[s].key \in Keys
      BY <2>2, AskedWhileBusy DEF OwnerInv
    <3>2. CASE UNCHANGED <<txns, records>>
      BY <2>2, <3>1, <3>2 DEF OwnsRecord
    <3>3. ASSUME NEW r \in Slots, CommitsReservation(r) PROVE OwnsRecord(s)'
      <4>1. ~KeyStored(reply[r].key) /\ \A j \in Keys \ {reply[r].key} : records'[j] = records[j]
        BY <3>3, ReservationEffect
      <4>2. reply[s].key # reply[r].key
        BY <3>1, <4>1 DEF OwnsRecord, KeyStored
      <4> QED
        BY <2>2, <3>1, <4>1, <4>2 DEF OwnsRecord
    <3>4. ASSUME NEW r \in Slots, CommitsCompletion(r) PROVE OwnsRecord(s)'
      <4>1. \A j \in Keys \ {reply[r].key} : records'[j] = records[j]
        BY <3>4, CompletionEffect
      <4>2. Owning(r)
        BY <3>4 DEF CommitsCompletion, Owning
      <4>3. r # s
        BY <1>1, <3>4 DEF CommitsCompletion, Owning
      <4>4. reply[s].key # reply[r].key
        BY <2>2, <4>2, <4>3 DEF OwnerInv
      <4> QED
        BY <2>2, <3>1, <4>1, <4>4 DEF OwnsRecord
    <3> QED
      BY <3>2, <3>3, <3>4, TableWriters
  <2> QED
    BY <1>1, <2>1, <2>2, OwnersBefore
<1>2. ASSUME NEW r \in Slots, NEW s \in Slots, r # s, Owning(r)', Owning(s)'
      PROVE  reply'[r].key # reply'[s].key
  <2>1. ASSUME NEW p \in Slots, NEW q \in Slots, p # q, CommitsReservation(p), Owning(q)'
        PROVE  reply'[p].key # reply'[q].key
    <3>1. /\ reply' = reply /\ ~CommitsReservation(q)
      <4>1. ~CommitsReservation(q)
        <5> SUFFICES ASSUME CommitsReservation(q) PROVE FALSE
          OBVIOUS
        <5>1. /\ ~KeyStored(reply[p].key)
              /\ records'[reply[p].key].processing_status = "IN_PROGRESS"
              /\ \A j \in Keys \ {reply[q].key} : records'[j] = records[j]
              /\ reply[p].key \in Keys
          BY <2>1, ReservationEffect
        <5>2. reply[p].key = reply[q].key
          BY <5>1 DEF KeyStored
        <5>3. p \in Db!KeyHolders(reply[p].key) /\ q \in Db!KeyHolders(reply[p].key)
          BY <2>1, <5>2, ReservingCall DEF CommitsReservation, Db!KeyHolders
        <5> QED
          BY <2>1, <5>1, <5>3 DEF DbInv, Db!IndInv, Db!LocksHold, Db!WritersExclude
      <4> QED
        BY <2>1, <4>1 DEF CommitsReservation
    <3>2. Owning(q) /\ handler[q] # "idle"
      BY <2>1, <3>1, OwnersBefore
    <3>3. KeyStored(reply[q].key)
      BY <3>2 DEF OwnerInv, OwnsRecord, KeyStored
    <3> QED
      BY <2>1, <3>1, <3>3, ReservationEffect
  <2>2. CASE CommitsReservation(r) \/ CommitsReservation(s)
    BY <1>2, <2>1, <2>2
  <2>3. CASE ~CommitsReservation(r) /\ ~CommitsReservation(s)
    <3>1. Owning(r) /\ Owning(s) /\ reply'[r] = reply[r] /\ reply'[s] = reply[s]
      BY <1>2, <2>3, OwnersBefore
    <3> QED
      BY <1>2, <3>1 DEF OwnerInv
  <2> QED
    BY <2>2, <2>3
<1>3. ASSUME NEW k \in Keys, records'[k].processing_status = "IN_PROGRESS"
      PROVE  txns'[records'[k].transaction_id].status = "CREATED"
  <2>1. CASE UNCHANGED <<txns, records>>
    BY <1>3, <2>1 DEF OwnerInv
  <2>2. ASSUME NEW s \in Slots, CommitsReservation(s)
        PROVE  txns'[records'[k].transaction_id].status = "CREATED"
    <3> DEFINE c == reply[s].command
               t == c.transaction_id
    <3>1. /\ records'[reply[s].key].transaction_id = t /\ txns'[t].status = "CREATED"
          /\ ~TxnStored(t)
          /\ \A j \in Keys \ {reply[s].key} : records'[j] = records[j]
          /\ \A u \in Txns \ {t} : txns'[u] = txns[u]
      BY <2>2, ReservationEffect
    <3>2. CASE k = reply[s].key
      BY <3>1, <3>2
    <3>3. CASE k # reply[s].key
      <4>1. /\ records'[k] = records[k] /\ KeyStored(k)
            /\ txns[records[k].transaction_id].status = "CREATED"
        BY <1>3, <3>1, <3>3 DEF OwnerInv, KeyStored
      <4>2. records[k].transaction_id \in Txns /\ TxnStored(records[k].transaction_id)
        BY <4>1, DbFacts DEF TableFacts, RecordFacts
      <4> HIDE DEF t
      <4> QED
        BY <3>1, <4>1, <4>2
    <3> QED
      BY <3>2, <3>3
  <2>3. ASSUME NEW s \in Slots, CommitsCompletion(s)
        PROVE  txns'[records'[k].transaction_id].status = "CREATED"
    <3> DEFINE t == reply[s].command.transaction_id
    <3>1. /\ records'[reply[s].key].processing_status = "COMPLETED"
          /\ reply[s].key \in Keys /\ KeyStored(reply[s].key) /\ records[reply[s].key].transaction_id = t
          /\ \A j \in Keys \ {reply[s].key} : records'[j] = records[j]
          /\ \A u \in Txns \ {t} : txns'[u] = txns[u]
      BY <2>3, CompletionEffect DEF KeyStored
    <3>2. /\ k # reply[s].key /\ records'[k] = records[k] /\ KeyStored(k)
          /\ txns[records[k].transaction_id].status = "CREATED"
      BY <1>3, <3>1 DEF OwnerInv, KeyStored
    <3>3. records[k].transaction_id \in Txns /\ records[k].transaction_id # t
      BY <3>1, <3>2, DbFacts DEF TableFacts, RecordFacts
    <3> HIDE DEF t
    <3> QED
      BY <3>1, <3>2, <3>3
  <2> QED
    BY <2>1, <2>2, <2>3, TableWriters
<1> QED
  BY <1>1, <1>2, <1>3 DEF OwnerInv

\* Nobody owns a record initially.
LEMMA OwnerInit == Init => OwnerInv
  BY DEF Init, CoordInit, OwnerInv, Owning, NoIdemRow

\* An owner's record is its own in every reachable state.
LEMMA OwnerHolds == Spec => []OwnerInv
  BY ControlHolds, DbHolds, OwnerInit, OwnerStep, PTL DEF Spec

-----------------------------------------------------------------------------
(* Replays.  An outcome that a handler is about to tell its client, or has *)
(* told it, is the one that the record of the key holds.                   *)

HasOutcome(k, c, e) ==
    /\ records[k].processing_status = "COMPLETED"
    /\ records[k].request_fingerprint = RequestFingerprint(c)
    /\ ReplayEnvelope(records[k]) = [e EXCEPT !.is_replay = TRUE]

SlotReply(s) ==
    /\ handler[s] = "reserving" /\ at[s] = "free" /\ ret[s].status = "COMPLETED" =>
          HasOutcome(reply[s].key, reply[s].command, ret[s].envelope)
    /\ handler[s] = "completing" /\ at[s] = "free" /\ ret[s].status = "DONE" =>
          HasOutcome(reply[s].key, reply[s].command, arg[s].envelope)
    /\ handler[s] = "idle" /\ reply[s].key \in Keys /\ reply[s].envelope.body.document \in Outcomes =>
          HasOutcome(reply[s].key, reply[s].command, reply[s].envelope)

ReplyInv == \A s \in Slots : SlotReply(s)

\* A stored outcome stays.
LEMMA OutcomeStays ==
    ASSUME ControlInv, DbInv, [Next]_vars, NEW k \in Keys, NEW c, NEW e, HasOutcome(k, c, e)
    PROVE  HasOutcome(k, c, e)'
<1>1. KeyStored(k)
  BY DEF HasOutcome, KeyStored
<1>2. records'[k] = records[k]
  BY <1>1, RecordsStay DEF HasOutcome
<1> QED
  BY <1>2 DEF HasOutcome

\* A handler that rests keeps what it knows.
LEMMA ReplyRests ==
    ASSUME ControlInv, DbInv, [Next]_vars, NEW s \in Slots, SlotReply(s), Rests(s)
    PROVE  SlotReply(s)'
<1>1. handler[s] # "idle" => reply[s].key \in Keys
  BY AskedWhileBusy
<1>2. ASSUME handler[s] = "reserving", at[s] = "free", ret[s].status = "COMPLETED"
      PROVE  HasOutcome(reply[s].key, reply[s].command, ret[s].envelope)'
  BY <1>1, <1>2, OutcomeStays DEF SlotReply, Rests
<1>3. ASSUME handler[s] = "completing", at[s] = "free", ret[s].status = "DONE"
      PROVE  HasOutcome(reply[s].key, reply[s].command, arg[s].envelope)'
  BY <1>1, <1>3, OutcomeStays DEF SlotReply, Rests
<1>4. ASSUME handler[s] = "idle", reply[s].key \in Keys, reply[s].envelope.body.document \in Outcomes
      PROVE  HasOutcome(reply[s].key, reply[s].command, reply[s].envelope)'
  BY <1>4, OutcomeStays DEF SlotReply, Rests
<1> QED
  BY <1>2, <1>3, <1>4 DEF SlotReply, Rests

\* A problem that is no outcome of the network.
LEMMA NoOutcome ==
    /\ \A code, headers : \A document \in Documents \ Outcomes :
          ProblemEnvelope(code, document, headers).body.document \notin Outcomes
    /\ PersistenceProblem.body.document \notin Outcomes
    /\ InternalServerError.body.document \notin Outcomes
    /\ {"idempotency-conflict", "idempotency-in-progress", "transaction-id-conflict"}
          \subseteq Documents \ Outcomes
  BY DEF ProblemEnvelope, PersistenceProblem, InternalServerError, Outcomes, Documents

\* The replay marker, field by field.
LEMMA ReplayMark ==
    ASSUME NEW e \in Envelope, NEW x, x = [e EXCEPT !.is_replay = TRUE]
    PROVE  x = [status_code |-> e.status_code, body |-> e.body, headers |-> e.headers,
                media_type |-> e.media_type, is_replay |-> TRUE]
  BY DEF Envelope

\* What the envelope of a stored completion becomes when it is replayed.
LEMMA StoredOutcome ==
    ASSUME NEW t \in Txns, NEW r \in NetworkResults, NEW row,
           NEW e, e = OutcomeEnvelope(t, r),
           row.stored_status_code = e.status_code,
           row.stored_response_body = e.body,
           row.stored_headers = AllowlistedHeaders(e.headers)
    PROVE  ReplayEnvelope(row) = [e EXCEPT !.is_replay = TRUE]
<1>1. e \in Envelope
  BY OutcomeEnvelopeType, ZenonT(60)
<1>3. AllowlistedHeaders(e.headers) = e.headers
  BY OutcomeEnvelopeType, ZenonT(60)
<1>4. e.media_type = ReplayMediaType(e.status_code)
  BY OutcomeEnvelopeType, ZenonT(60)
<1>2. [e EXCEPT !.is_replay = TRUE] =
         [status_code |-> e.status_code, body |-> e.body, headers |-> e.headers,
          media_type |-> e.media_type, is_replay |-> TRUE]
  BY <1>1, ReplayMark
<1> QED
  BY <1>1, <1>2, <1>3, <1>4 DEF ReplayEnvelope

\* A reserve that finds the completed record of its request is told its outcome.
LEMMA FoundOutcome ==
    ASSUME ControlInv, DbInv, [Next]_vars, NEW s \in Slots, Sql(s) \/ DatabaseFails(s),
           handler'[s] = "reserving", at'[s] = "free", ret'[s].status = "COMPLETED"
    PROVE  HasOutcome(reply[s].key, reply[s].command, ret[s].envelope)'
<1>1. /\ handler[s] = "reserving" /\ at[s] \in ReserveSteps /\ reply' = reply
  BY DatabaseMoves DEF Moves, CompleteResults
<1>2. /\ arg[s].key = reply[s].key /\ arg[s].key \in Keys /\ arg[s].command = reply[s].command
  BY <1>1, ReservingCall
<1>3. CoordTypes
  BY DbFacts
<1>4. \A status : Return(status).status = status
  BY DEF Return
<1> DEFINE k == reply[s].key
           c == reply[s].command
<1>5. SelectKey(s) \/ Requery(s)
  <2>1. ~DatabaseFails(s)
    BY <1>3, <1>4, FaultMoves DEF DatabaseFails
  <2>2. ~(InsertTransaction(s) \/ InsertRecord(s))
    BY <1>3, <1>4 DEF InsertTransaction, InsertRecord, GoTo, Finish, CoordTypes
  <2>3. ~(CommitReserve(s) \/ RequeryTransaction(s))
    BY <1>3, <1>4 DEF CommitReserve, RequeryTransaction, Finish, CoordTypes
  <2>4. ~(UpdateTransaction(s) \/ UpdateRecord(s) \/ CommitComplete(s))
    BY <1>1 DEF UpdateTransaction, UpdateRecord, CommitComplete, ReserveSteps
  <2> QED
    BY <2>1, <2>2, <2>3, <2>4 DEF Sql, Statement
<1>6. /\ KeyStored(k) /\ records' = records
      /\ ret'[s] = ExistingReservation(records[k], c)
  BY <1>2, <1>3, <1>5 DEF SelectKey, Requery, GoTo, Finish, CoordTypes
<1>7. /\ records[k].request_fingerprint = RequestFingerprint(c)
      /\ records[k].processing_status = "COMPLETED"
      /\ ret'[s].envelope = ReplayEnvelope(records[k])
  BY <1>2, <1>4, <1>6 DEF ExistingReservation, ClassifyExisting, KeyStored
<1>8. ReplayEnvelope(records[k]) = [ret'[s].envelope EXCEPT !.is_replay = TRUE]
  <2>1. CoordTypes'
    BY ControlStep, DbTypes, PTL DEF ControlInv
  <2>2. ret'[s].envelope \in Envelope
    BY <2>1 DEF CoordTypes
  <2> QED
    BY <1>7, <2>2, ReplayMark DEF ReplayEnvelope
<1> QED
  BY <1>1, <1>6, <1>7, <1>8 DEF HasOutcome

\* A completion that is reported is the stored outcome.
LEMMA DoneOutcome ==
    ASSUME ControlInv, DbInv, OwnerInv, [Next]_vars, NEW s \in Slots, Sql(s) \/ DatabaseFails(s),
           handler'[s] = "completing", at'[s] = "free", ret'[s].status = "DONE"
    PROVE  HasOutcome(reply[s].key, reply[s].command, arg[s].envelope)'
<1>1. /\ handler[s] = "completing" /\ at[s] \in CompleteSteps
      /\ UNCHANGED <<arg, handler, wire, stray, posts, ledger, reply>>
  BY DatabaseMoves DEF Moves, ReserveResults
<1>2. CoordTypes
  BY DbFacts
<1>3. \A status : Return(status).status = status
  BY DEF Return
<1>4. CommitComplete(s)
  <2>1. ~DatabaseFails(s)
    BY <1>2, <1>3, FaultMoves DEF DatabaseFails
  <2>2. ~(UpdateTransaction(s) \/ UpdateRecord(s))
    BY <1>2, <1>3 DEF UpdateTransaction, UpdateRecord, GoTo, Finish, CoordTypes
  <2>3. ~(SelectKey(s) \/ InsertTransaction(s) \/ InsertRecord(s) \/ CommitReserve(s)
          \/ Requery(s) \/ RequeryTransaction(s))
    BY <1>1 DEF SelectKey, InsertTransaction, InsertRecord, CommitReserve, Requery,
                RequeryTransaction, CompleteSteps
  <2> QED
    BY <2>1, <2>2, <2>3 DEF Sql, Statement
<1>5. CommitsCompletion(s)
  BY <1>1, <1>4 DEF CommitComplete, CommitsCompletion
<1> DEFINE k == reply[s].key
           t == reply[s].command.transaction_id
<1>6. PICK r \in NetworkResults : arg[s].envelope = OutcomeEnvelope(t, r)
  BY <1>1, CompletingCall
<1>7. /\ k \in Keys /\ t \in Txns
      /\ records'[k].processing_status = "COMPLETED"
      /\ records'[k].request_fingerprint = records[k].request_fingerprint
      /\ records'[k].stored_status_code = arg[s].envelope.status_code
      /\ records'[k].stored_response_body = arg[s].envelope.body
      /\ records'[k].stored_headers = AllowlistedHeaders(arg[s].envelope.headers)
  BY <1>5, CompletionEffect
<1>8. records[k].request_fingerprint = RequestFingerprint(reply[s].command)
  BY <1>1 DEF OwnerInv, Owning, OwnsRecord, CompleteSteps
<1>9. ASSUME NEW row, row = records'[k], NEW e, e = arg[s].envelope
      PROVE  ReplayEnvelope(row) = [e EXCEPT !.is_replay = TRUE]
  <2>1. /\ t \in Txns /\ e = OutcomeEnvelope(t, r)
        /\ row.stored_status_code = e.status_code
        /\ row.stored_response_body = e.body
        /\ row.stored_headers = AllowlistedHeaders(e.headers)
    BY <1>6, <1>7, <1>9
  <2> HIDE DEF t
  <2> QED
    BY <2>1, StoredOutcome
<1> QED
  BY <1>1, <1>7, <1>8, <1>9 DEF HasOutcome

\* What a handler answers with is an outcome only if it is the stored one.
LEMMA AnswerOutcome ==
    ASSUME ControlInv, DbInv, [Next]_vars, NEW s \in Slots, SlotReply(s),
           NotAcquired(s) \/ PostFails(s) \/ Unhandled(s) \/ Completed(s),
           reply'[s].envelope.body.document \in Outcomes
    PROVE  HasOutcome(reply[s].key, reply[s].command, reply[s].envelope)'
<1>1. DOMAIN reply = Slots /\ reply \in [Slots -> Replies] /\ SlotControl(s)
  BY DEF ControlInv
<1>2. \A e : Answer(s, e) => /\ reply'[s].envelope = e /\ reply'[s].key = reply[s].key
                             /\ reply'[s].command = reply[s].command
  BY <1>1 DEF Answer, Replies
<1> DEFINE Known(e) == HasOutcome(reply[s].key, reply[s].command, e) /\ reply'[s].envelope = e
<1>3. ASSUME NotAcquired(s) PROVE Known(ret[s].envelope)
  <2>1. /\ handler[s] = "reserving" /\ at[s] = "free" /\ ret[s].status \in ReserveResults \ {"ACQUIRED"}
        /\ reply'[s].envelope = ReservationEnvelope(ret[s])
    BY <1>1, <1>2, <1>3 DEF NotAcquired, SlotControl, ReservingControl
  <2>2. ret[s].status = "COMPLETED"
    BY <2>1, NoOutcome DEF ReservationEnvelope, ReserveResults
  <2>3. ReservationEnvelope(ret[s]) = ret[s].envelope
    BY <2>2 DEF ReservationEnvelope
  <2> QED
    BY <2>1, <2>2, <2>3 DEF SlotReply
<1>4. ~Unhandled(s) /\ ~PostFails(s)
  BY <1>2, NoOutcome DEF Unhandled, PostFails
<1>5. ASSUME Completed(s) PROVE Known(arg[s].envelope)
  <2>1. /\ handler[s] = "completing" /\ at[s] = "free"
        /\ reply'[s].envelope = IF ret[s].status = "DONE" THEN arg[s].envelope ELSE PersistenceProblem
    BY <1>2, <1>5 DEF Completed
  <2>2. ret[s].status = "DONE"
    BY <2>1, NoOutcome
  <2> QED
    BY <2>1, <2>2 DEF SlotReply
<1>6. PICK e : Known(e)
  BY <1>3, <1>4, <1>5
<1>7. reply[s].key \in Keys /\ reply'[s].key = reply[s].key /\ reply'[s].command = reply[s].command
  BY <1>2, <1>4, AskedWhileBusy DEF NotAcquired, Completed
<1> QED
  BY <1>6, <1>7, OutcomeStays

\* Every step keeps the replies true.
LEMMA ReplyStep ==
    ASSUME ControlInv, DbInv, OwnerInv, ReplyInv, [Next]_vars
    PROVE  ReplyInv'
<1> SUFFICES ASSUME NEW s \in Slots PROVE SlotReply(s)'
  BY DEF ReplyInv
<1>0. SlotReply(s)
  BY DEF ReplyInv
<1>1. /\ DOMAIN handler = Slots /\ DOMAIN reply = Slots /\ DOMAIN wire = Slots
      /\ DOMAIN at = Slots /\ DOMAIN arg = Slots /\ DOMAIN ret = Slots
  BY DbTypes DEF ControlInv, CoordTypes
<1>2. CASE UNCHANGED vars
  BY <1>0, <1>2, ReplyRests DEF vars, Rests
<1>3. ASSUME NEW c \in stray, HandleStray(c) PROVE SlotReply(s)'
  BY <1>0, <1>3, ReplyRests DEF HandleStray, coordVars, Rests
<1>4. ASSUME NEW r \in Slots, ServiceStep(r), r # s PROVE SlotReply(s)'
  BY <1>0, <1>4, OthersRest, ReplyRests
<1>5. ASSUME ServiceStep(s) PROVE SlotReply(s)'
  <2>1. ASSUME NEW k \in Keys, NEW c \in Command, Submit(s, k, c) PROVE SlotReply(s)'
    <3>1. handler'[s] = "reserving" /\ at'[s] = "select"
      BY <1>1, <2>1 DEF Submit, CallReserve, Begin
    <3> QED
      BY <3>1 DEF SlotReply
  <2>2. CASE NotAcquired(s) \/ PostFails(s) \/ Unhandled(s) \/ Completed(s)
    <3>1. handler'[s] = "idle"
      BY <1>1, <2>2 DEF NotAcquired, PostFails, Unhandled, Completed, Answer
    <3>2. reply'[s].envelope.body.document \in Outcomes =>
             HasOutcome(reply[s].key, reply[s].command, reply[s].envelope)'
      BY <1>0, <2>2, AnswerOutcome
    <3> QED
      BY <3>1, <3>2 DEF SlotReply
  <2>3. CASE Post(s) \/ Handle(s) \/ HandleGarbled(s) \/ GatewayFails(s) \/ GatewayRejects(s)
    <3>1. handler'[s] = "calling"
      BY <1>1, <2>3, RequestUnderWay DEF Post, Handle, HandleGarbled, GatewayFails, GatewayRejects
    <3> QED
      BY <3>1 DEF SlotReply
  <2>4. CASE Receive(s) \/ Timeout(s) \/ TransportFailure(s)
    <3>1. PICK result \in NetworkResults : Conclude(s, result)
      BY <2>4, ConcludedResult DEF ControlInv
    <3>2. \E a : Begin(s, "updateTxn", a)
      BY <2>4, <3>1, ConcludedResult, ConcludeCall DEF ControlInv
    <3>3. handler'[s] = "completing" /\ at'[s] = "updateTxn"
      BY <1>1, <3>1, <3>2 DEF Conclude, Begin
    <3> QED
      BY <3>3 DEF SlotReply
  <2>5. CASE Crash(s)
    <3>1. handler'[s] = "idle" /\ reply'[s].key = None
      BY <1>1, <2>5 DEF Crash, NoReply
    <3> QED
      BY <3>1, NoneAssumption DEF SlotReply
  <2>6. CASE Sql(s) \/ DatabaseFails(s)
    <3>1. handler'[s] # "idle"
      BY <1>1, <2>6, DatabaseMoves
    <3> QED
      BY <2>6, <3>1, FoundOutcome, DoneOutcome DEF SlotReply
  <2> QED
    BY <1>5, <2>1, <2>2, <2>3, <2>4, <2>5, <2>6 DEF ServiceStep
<1> QED
  BY <1>2, <1>3, <1>4, <1>5, StepCases

\* Nobody has been told anything initially.
LEMMA ReplyInit == Init => ReplyInv
  BY NoneAssumption DEF Init, ReplyInv, SlotReply, NoReply

\* The replies are true in every reachable state.
LEMMA ReplyHolds == Spec => []ReplyInv
  BY ControlHolds, DbHolds, OwnerHolds, ReplyInit, ReplyStep, PTL DEF Spec

\* A client that was told an outcome was told what is stored: whatever races,
\* fails or crashes afterwards, a retry of its request gets the same status
\* code, body, Retry-After and media type.
THEOREM ReplaysAreFaithful == Spec => []ReplayIsFaithful
<1>1. ReplyInv => ReplayIsFaithful
  BY DEF ReplyInv, SlotReply, HasOutcome, ReplayIsFaithful
<1> QED
  BY <1>1, ReplyHolds, PTL

-----------------------------------------------------------------------------
(* Outcomes.  The network decides about a transaction only by the request  *)
(* that its one owner sent, at once or, as a stray, later; while the       *)
(* request is under way there is no trace of it, and the owner concludes a *)
(* final status only from an answer that excludes a later decision.        *)

NoTrace(t) == ledger[t] = "none" /\ \A c \in stray : c.transaction_id # t

\* What was decided is what the emulator decides about the token of the stored
\* request, and every trace comes from a call.
LedgerInv ==
    /\ \A k \in Keys : KeyStored(k) =>
          ledger[records[k].transaction_id] \in
             {"none", ScenarioResponse(records[k].request_fingerprint[2]).payload}
    /\ \A c \in stray : \E k \in Keys :
          KeyStored(k) /\ records[k].request_fingerprint = RequestFingerprint(c)
    /\ \A t \in Txns : ~NoTrace(t) => \E k \in Keys : posts[<<k, t>>] # 0

SlotExchange(s) ==
    LET t == reply[s].command.transaction_id
        r == wire[s].response
    IN  /\ handler[s] = "calling" => posts[<<reply[s].key, t>>] # 0
        /\ wire[s].phase = "request" => NoTrace(t)
        /\ wire[s].phase = "response" =>
              /\ r.status_code = 200 /\ r.payload \in {"AUTHORIZED", "DECLINED"} => ledger[t] = r.payload
              /\ r.status_code \in Rejecting => NoTrace(t)
        /\ handler[s] = "completing" /\ at[s] # "free" =>
              /\ arg[s].entity.status \in {"AUTHORIZED", "DECLINED"} /\ arg[s].fits =>
                    ledger[t] = arg[s].entity.status
              /\ arg[s].entity.status = "FAILED" => NoTrace(t)

RowTrue(t) ==
    /\ txns[t].status \in {"AUTHORIZED", "DECLINED"} => ledger[t] = txns[t].status
    /\ txns[t].status = "FAILED" => NoTrace(t)

OutcomeInv == LedgerInv /\ (\A s \in Slots : SlotExchange(s)) /\ \A t \in Txns : RowTrue(t)

\* The facts that the other invariants supply.
ServiceInv == ControlInv /\ NetworkTypes /\ DbInv /\ PostsInv /\ OwnerInv

\* The request of a fingerprint.
LEMMA FingerprintFields ==
    ASSUME NEW c \in Command
    PROVE  /\ RequestFingerprint(c)[2] = c.payment_token
           /\ RequestFingerprint(c)[3] = c.transaction_id
           /\ c.transaction_id \in Txns
  BY DEF RequestFingerprint, Command

\* An owner's key, its record and its transaction.
LEMMA OwnerFacts ==
    ASSUME ServiceInv, NEW s \in Slots, Owning(s),
           NEW k, k = reply[s].key, NEW c, c = reply[s].command, NEW t, t = c.transaction_id
    PROVE  /\ k \in Keys /\ c \in Command /\ t \in Txns /\ KeyStored(k)
           /\ records[k].request_fingerprint = RequestFingerprint(c)
           /\ records[k].request_fingerprint[2] = c.payment_token
           /\ records[k].transaction_id = t
           /\ txns[t].status = "CREATED"
<1>1. k \in Keys /\ c \in Command
  BY AskedWhileBusy DEF ServiceInv, Owning
<1>2. /\ records[k].request_fingerprint = RequestFingerprint(c)
      /\ records[k].processing_status = "IN_PROGRESS"
  BY DEF ServiceInv, OwnerInv, OwnsRecord
<1>3. KeyStored(k)
  BY <1>2 DEF KeyStored
<1>4. records[k].request_fingerprint[3] = records[k].transaction_id
  BY <1>1, <1>3, DbFacts DEF ServiceInv, TableFacts, RecordFacts
<1>5. /\ records[k].request_fingerprint[2] = c.payment_token
      /\ records[k].transaction_id = t /\ t \in Txns
  BY <1>1, <1>2, <1>4, FingerprintFields
<1>6. txns[t].status = "CREATED"
  BY <1>1, <1>2, <1>5 DEF ServiceInv, OwnerInv
<1> QED
  BY <1>1, <1>2, <1>3, <1>5, <1>6

\* A record that is stored for a transaction is the only one.
LEMMA OneRecord ==
    ASSUME ServiceInv, NEW j \in Keys, NEW k \in Keys, KeyStored(j), KeyStored(k),
           records[j].transaction_id = records[k].transaction_id
    PROVE  j = k
  BY DbFacts DEF ServiceInv, TableFacts

\* Two owners work on different transactions.
LEMMA OwnersApart ==
    ASSUME ServiceInv, NEW r \in Slots, NEW s \in Slots, r # s, Owning(r), Owning(s)
    PROVE  reply[r].command.transaction_id # reply[s].command.transaction_id
<1>1. reply[r].key # reply[s].key
  BY DEF ServiceInv, OwnerInv
<1>2. /\ reply[r].key \in Keys /\ KeyStored(reply[r].key)
      /\ records[reply[r].key].transaction_id = reply[r].command.transaction_id
  BY OwnerFacts
<1>3. /\ reply[s].key \in Keys /\ KeyStored(reply[s].key)
      /\ records[reply[s].key].transaction_id = reply[s].command.transaction_id
  BY OwnerFacts
<1> QED
  BY <1>1, <1>2, <1>3, OneRecord

\* What a step does to the ledger: nothing, or the network processes a request
\* of a stored record.
LEMMA LedgerMoves ==
    ASSUME ServiceInv, LedgerInv, [Next]_vars
    PROVE  \/ ledger' = ledger
           \/ \E c \in Command, k \in Keys :
                 /\ Process(c) /\ KeyStored(k) /\ records' = records
                 /\ records[k].request_fingerprint[2] = c.payment_token
                 /\ records[k].transaction_id = c.transaction_id
                 /\ \/ c \in stray
                    \/ \E s \in Slots : /\ ServiceStep(s) /\ wire[s].phase = "request"
                                        /\ c = reply[s].command
<1>1. CASE UNCHANGED vars
  BY <1>1 DEF vars
<1>2. ASSUME NEW c \in stray, HandleStray(c)
      PROVE  \E k \in Keys :
                 /\ Process(c) /\ KeyStored(k) /\ records' = records /\ c \in Command
                 /\ records[k].request_fingerprint[2] = c.payment_token
                 /\ records[k].transaction_id = c.transaction_id
  <2>1. c \in Command
    BY DEF ServiceInv, NetworkTypes
  <2>2. PICK k \in Keys : KeyStored(k) /\ records[k].request_fingerprint = RequestFingerprint(c)
    BY DEF LedgerInv
  <2>3. records[k].request_fingerprint[3] = records[k].transaction_id
    BY <2>2, DbFacts DEF ServiceInv, TableFacts, RecordFacts
  <2> QED
    BY <1>2, <2>1, <2>2, <2>3, FingerprintFields DEF HandleStray, coordVars
<1>3. ASSUME NEW s \in Slots, Handle(s) \/ HandleGarbled(s)
      PROVE  \E c \in Command, k \in Keys :
                 /\ Process(c) /\ KeyStored(k) /\ records' = records
                 /\ records[k].request_fingerprint[2] = c.payment_token
                 /\ records[k].transaction_id = c.transaction_id
                 /\ wire[s].phase = "request" /\ c = reply[s].command
  <2>1. /\ wire[s].phase = "request" /\ Process(arg[s].command) /\ records' = records
    BY <1>3 DEF Handle, HandleGarbled, coordVars
  <2>2. /\ handler[s] = "calling" /\ arg[s].command = reply[s].command
    BY <2>1, RequestUnderWay DEF ServiceInv
  <2>3. Owning(s)
    BY <2>2 DEF Owning
  <2> QED
    BY <2>1, <2>2, <2>3, OwnerFacts
<1>4. ASSUME NEW s \in Slots, ServiceStep(s), ~Handle(s), ~HandleGarbled(s)
      PROVE  ledger' = ledger
  BY <1>4
  DEF ServiceStep, Submit, NotAcquired, Post, PostFails, Receive, Unhandled, Timeout,
      TransportFailure, Completed, Sql, GatewayFails, GatewayRejects, DatabaseFails, Crash, Conclude,
      networkVars
<1> QED
  BY <1>1, <1>2, <1>3, <1>4, StepCases DEF ServiceStep

\* What a step does to the stray requests: it takes some away, or leaves one
\* that was under way.
LEMMA StrayMoves ==
    ASSUME ServiceInv, [Next]_vars
    PROVE  \/ stray' \subseteq stray
           \/ \E s \in Slots : /\ ServiceStep(s) /\ wire[s].phase = "request"
                               /\ stray' = stray \cup {reply[s].command}
                               /\ records' = records
<1>1. CASE UNCHANGED vars
  BY <1>1 DEF vars
<1>2. ASSUME NEW c \in stray, HandleStray(c) PROVE stray' \subseteq stray
  BY <1>2 DEF HandleStray
<1>3. ASSUME NEW s \in Slots, Timeout(s) \/ TransportFailure(s) \/ GatewayFails(s) \/ Crash(s)
      PROVE  \/ stray' \subseteq stray
             \/ /\ wire[s].phase = "request" /\ stray' = stray \cup {reply[s].command}
                /\ records' = records
  <2>1. Detach(s) /\ records' = records
    BY <1>3 DEF Timeout, TransportFailure, GatewayFails, Crash, Conclude, CallComplete, Abandon, dbVars,
                coordVars
  <2> QED
    BY <2>1, DetachEffect, RequestUnderWay DEF ServiceInv
<1>4. ASSUME NEW s \in Slots, ServiceStep(s), ~Timeout(s), ~TransportFailure(s), ~GatewayFails(s),
             ~Crash(s)
      PROVE  stray' = stray
  BY <1>4
  DEF ServiceStep, Submit, NotAcquired, Post, PostFails, Receive, Unhandled, Completed, Sql, Handle,
      HandleGarbled, GatewayRejects, DatabaseFails, networkVars
<1> QED
  BY <1>1, <1>2, <1>3, <1>4, StepCases DEF ServiceStep

\* The trace of a transaction whose owner does not move: a decision stays, and
\* no decision or stray request appears out of nothing.
LEMMA TraceKept ==
    ASSUME ServiceInv, LedgerInv, [Next]_vars, NEW t \in Txns,
           ~\E s \in Slots : /\ ServiceStep(s) /\ wire[s].phase = "request"
                             /\ reply[s].command.transaction_id = t
    PROVE  /\ ledger[t] # "none" => ledger'[t] = ledger[t]
           /\ NoTrace(t) => NoTrace(t)'
<1>1. ASSUME NEW c \in Command, NEW k \in Keys, Process(c), KeyStored(k),
             records[k].request_fingerprint[2] = c.payment_token,
             records[k].transaction_id = c.transaction_id,
             ledger[t] # "none"
      PROVE  ledger'[t] = ledger[t]
  <2>1. ledger[c.transaction_id] \in {"none", ScenarioResponse(c.payment_token).payload}
    BY <1>1 DEF LedgerInv
  <2>2. ledger[t] \in {"AUTHORIZED", "DECLINED"}
    BY <1>1 DEF ServiceInv, NetworkTypes
  <2> QED
    BY <1>1, <2>1, <2>2, ProcessEffect DEF ServiceInv
<1>2. ledger[t] # "none" => ledger'[t] = ledger[t]
  BY <1>1, LedgerMoves
<1>3. NoTrace(t) => ledger'[t] = ledger[t]
  BY LedgerMoves, ProcessEffect DEF NoTrace, ServiceInv
<1>4. NoTrace(t) => \A c \in stray' : c.transaction_id # t
  BY StrayMoves DEF NoTrace
<1> QED
  BY <1>2, <1>3, <1>4 DEF NoTrace

\* The first call finds no trace of its transaction.
LEMMA FirstCall ==
    ASSUME ServiceInv, LedgerInv, NEW t \in Txns, \A k \in Keys : posts[<<k, t>>] = 0
    PROVE  NoTrace(t)
  BY DEF LedgerInv

\* A transaction whose row is absent has no trace.
LEMMA AbsentHasNoTrace ==
    ASSUME ServiceInv, LedgerInv, NEW t \in Txns, ~TxnStored(t)
    PROVE  NoTrace(t)
<1>1. ASSUME NEW k \in Keys PROVE posts[<<k, t>>] = 0
  <2> SUFFICES ASSUME posts[<<k, t>>] # 0 PROVE FALSE
    OBVIOUS
  <2>1. KeyStored(k) /\ records[k].transaction_id = t
    BY DEF ServiceInv, PostsInv, PostsOwned
  <2> QED
    BY <2>1, DbFacts DEF ServiceInv, TableFacts, RecordFacts
<1> QED
  BY <1>1, FirstCall

\* Counts never fall.
LEMMA PostsGrow ==
    ASSUME ServiceInv, [Next]_vars, NEW k \in Keys, NEW t \in Txns, posts[<<k, t>>] # 0
    PROVE  posts'[<<k, t>>] # 0
<1>1. posts \in [Keys \X Txns -> Nat] /\ posts[<<k, t>>] \in {0, 1}
  BY DEF ServiceInv, NetworkTypes, PostsInv, PostsOwned
<1>2. ASSUME NEW s \in Slots, Post(s) PROVE posts'[<<k, t>>] # 0
  <2>1. posts' = [posts EXCEPT ![<<arg[s].key, TxnOf(arg[s])>>] = @ + 1] /\ handler[s] = "reserving"
    BY <1>2 DEF Post
  <2>2. <<arg[s].key, TxnOf(arg[s])>> \in Keys \X Txns /\ <<k, t>> \in Keys \X Txns
    BY <2>1, ReservingCall DEF ServiceInv
  <2>3. posts'[<<k, t>>] \in {posts[<<k, t>>], posts[<<k, t>>] + 1}
    BY <1>1, <2>1, <2>2
  <2> QED
    BY <1>1, <2>3
<1>3. CASE ~\E s \in Slots : Post(s)
  <2>1. posts' = posts
    BY <1>3
    DEF Next, vars, Submit, NotAcquired, PostFails, Receive, Unhandled, Timeout, TransportFailure,
        Completed, Sql, Handle, HandleGarbled, GatewayFails, GatewayRejects, DatabaseFails, Crash,
        HandleStray, Conclude, networkVars
  <2> QED
    BY <2>1, SMTT(60)
<1> QED
  BY <1>2, <1>3

\* Every step keeps the ledger and the stray requests explained.
LEMMA LedgerStep ==
    ASSUME ServiceInv, OutcomeInv, [Next]_vars
    PROVE  LedgerInv'
<1>0. LedgerInv
  BY DEF OutcomeInv
<1>1. ASSUME NEW k \in Keys, KeyStored(k)'
      PROVE  ledger'[records'[k].transaction_id] \in
                {"none", ScenarioResponse(records'[k].request_fingerprint[2]).payload}
  <2>1. CASE KeyStored(k)
    <3> DEFINE t == records[k].transaction_id
               payload == ScenarioResponse(records[k].request_fingerprint[2]).payload
    <3>1. /\ records'[k].transaction_id = t /\ t \in Txns
          /\ records'[k].request_fingerprint = records[k].request_fingerprint
      BY <2>1, RecordsStay, DbFacts DEF ServiceInv, TableFacts, RecordFacts
    <3>2. ledger[t] \in {"none", payload}
      BY <1>0, <2>1 DEF LedgerInv
    <3>3. ASSUME NEW c \in Command, NEW j \in Keys, Process(c), KeyStored(j),
                 records[j].request_fingerprint[2] = c.payment_token,
                 records[j].transaction_id = c.transaction_id
          PROVE  ledger'[t] \in {"none", payload}
      <4>1. CASE c.transaction_id = t
        <5>1. payload = ScenarioResponse(c.payment_token).payload
          BY <2>1, <3>3, <4>1, OneRecord
        <5> HIDE DEF payload
        <5> QED
          BY <3>2, <3>3, <4>1, <5>1, ProcessEffect DEF ServiceInv
      <4>2. CASE c.transaction_id # t
        BY <3>1, <3>2, <3>3, <4>2, ProcessEffect DEF ServiceInv
      <4> QED
        BY <4>1, <4>2
    <3>4. ledger'[t] \in {"none", payload}
      BY <1>0, <3>2, <3>3, LedgerMoves
    <3> QED
      BY <3>1, <3>4
  <2>2. CASE ~KeyStored(k)
    <3>1. PICK s \in Slots : CommitsReservation(s) /\ k = reply[s].key
      <4>1. CASE UNCHANGED <<txns, records>>
        BY <1>1, <2>2, <4>1 DEF KeyStored
      <4>2. ASSUME NEW s \in Slots, CommitsReservation(s) PROVE k = reply[s].key
        BY <1>1, <2>2, <4>2, ReservationEffect DEF KeyStored, ServiceInv
      <4>3. ASSUME NEW s \in Slots, CommitsCompletion(s) PROVE FALSE
        <5>1. /\ KeyStored(reply[s].key)
              /\ \A j \in Keys \ {reply[s].key} : records'[j] = records[j]
          BY <4>3, CompletionEffect DEF KeyStored, ServiceInv
        <5> QED
          BY <1>1, <2>2, <5>1 DEF KeyStored
      <4> QED
        BY <4>1, <4>2, <4>3, TableWriters DEF ServiceInv
    <3> DEFINE t == reply[s].command.transaction_id
    <3>2. t \in Txns /\ ~TxnStored(t) /\ records'[k].transaction_id = t /\ ledger' = ledger
      BY <3>1, ReservationEffect DEF ServiceInv, CommitsReservation
    <3> HIDE DEF t
    <3>3. ledger[t] = "none"
      BY <1>0, <3>2, AbsentHasNoTrace DEF NoTrace
    <3> QED
      BY <3>2, <3>3
  <2> QED
    BY <2>1, <2>2
<1>2. ASSUME NEW c \in stray'
      PROVE  \E k \in Keys : KeyStored(k)' /\ records'[k].request_fingerprint = RequestFingerprint(c)
  <2>1. CASE c \in stray
    <3>1. PICK k \in Keys : KeyStored(k) /\ records[k].request_fingerprint = RequestFingerprint(c)
      BY <1>0, <2>1 DEF LedgerInv
    <3> QED
      BY <3>1, RecordsStay DEF ServiceInv
  <2>2. ASSUME NEW s \in Slots, wire[s].phase = "request", c = reply[s].command, records' = records
        PROVE  \E k \in Keys : KeyStored(k)' /\ records'[k].request_fingerprint = RequestFingerprint(c)
    <3>1. Owning(s)
      BY <2>2, RequestUnderWay DEF ServiceInv, Owning
    <3>2. /\ reply[s].key \in Keys /\ KeyStored(reply[s].key)
          /\ records[reply[s].key].request_fingerprint = RequestFingerprint(c)
      BY <2>2, <3>1, OwnerFacts
    <3> QED
      BY <2>2, <3>2 DEF KeyStored
  <2> QED
    BY <1>2, <2>1, <2>2, StrayMoves
<1>3. ASSUME NEW t \in Txns, ~NoTrace(t)'
      PROVE  \E k \in Keys : posts'[<<k, t>>] # 0
  <2>1. \E k \in Keys : posts[<<k, t>>] # 0
    <3>1. CASE ~NoTrace(t)
      BY <1>0, <3>1 DEF LedgerInv
    <3>2. CASE NoTrace(t)
      <4>1. PICK s \in Slots : wire[s].phase = "request" /\ reply[s].command.transaction_id = t
        BY <1>0, <1>3, <3>2, TraceKept
      <4>2. handler[s] = "calling" /\ reply[s].key \in Keys
        BY <4>1, RequestUnderWay DEF ServiceInv
      <4> QED
        BY <4>1, <4>2 DEF OutcomeInv, SlotExchange
    <3> QED
      BY <3>1, <3>2
  <2> QED
    BY <2>1, PostsGrow
<1> QED
  BY <1>1, <1>2, <1>3 DEF LedgerInv

\* A row is true after every step.
LEMMA RowStep ==
    ASSUME ServiceInv, OutcomeInv, [Next]_vars, NEW t \in Txns
    PROVE  RowTrue(t)'
<1>0. LedgerInv /\ RowTrue(t)
  BY DEF OutcomeInv
<1>1. ASSUME txns'[t] = txns[t] PROVE RowTrue(t)'
  <2>1. ASSUME NEW s \in Slots, wire[s].phase = "request", reply[s].command.transaction_id = t
        PROVE  txns[t].status = "CREATED"
    <3>1. Owning(s)
      BY <2>1, RequestUnderWay DEF ServiceInv, Owning
    <3> QED
      BY <2>1, <3>1, OwnerFacts
  <2>2. CASE txns[t].status = "CREATED"
    BY <1>1, <2>2 DEF RowTrue
  <2>3. CASE txns[t].status # "CREATED"
    <3>1. /\ ledger[t] # "none" => ledger'[t] = ledger[t]
          /\ NoTrace(t) => NoTrace(t)'
      BY <1>0, <2>1, <2>3, TraceKept
    <3> QED
      BY <1>0, <1>1, <3>1 DEF RowTrue
  <2> QED
    BY <2>2, <2>3
<1>2. ASSUME NEW s \in Slots, CommitsReservation(s) PROVE RowTrue(t)'
  <2> DEFINE u == reply[s].command.transaction_id
  <2>1. txns'[u].status = "CREATED" /\ \A v \in Txns \ {u} : txns'[v] = txns[v]
    BY <1>2, ReservationEffect DEF ServiceInv
  <2> HIDE DEF u
  <2>2. CASE t = u
    BY <2>1, <2>2 DEF RowTrue
  <2> QED
    BY <1>1, <2>1, <2>2
<1>3. ASSUME NEW s \in Slots, CommitsCompletion(s) PROVE RowTrue(t)'
  <2> DEFINE u == reply[s].command.transaction_id
  <2>1. /\ arg[s].fits /\ txns'[u].status = arg[s].entity.status
        /\ \A v \in Txns \ {u} : txns'[v] = txns[v]
    BY <1>3, CompletionEffect DEF ServiceInv
  <2>2. /\ arg[s].entity.status \in {"AUTHORIZED", "DECLINED"} => ledger[u] = arg[s].entity.status
        /\ arg[s].entity.status = "FAILED" => NoTrace(u)
        /\ ledger' = ledger /\ stray' = stray
    BY <1>3, <2>1 DEF OutcomeInv, SlotExchange, CommitsCompletion
  <2> HIDE DEF u
  <2>3. CASE t = u
    BY <2>1, <2>2, <2>3 DEF RowTrue, NoTrace
  <2> QED
    BY <1>1, <2>1, <2>3
<1> QED
  BY <1>1, <1>2, <1>3, TableWriters DEF ServiceInv

\* A slot rests unless its handler moves.
LEMMA IdleRests ==
    ASSUME ControlInv, [Next]_vars, NEW r \in Slots, ~ServiceStep(r)
    PROVE  Rests(r)
<1>1. CASE UNCHANGED vars
  BY <1>1 DEF vars, Rests
<1>2. ASSUME NEW c \in stray, HandleStray(c) PROVE Rests(r)
  BY <1>2 DEF HandleStray, coordVars, Rests
<1> QED
  BY <1>1, <1>2, StepCases, OthersRest

\* What a handler knows of the network holds while another one moves.
LEMMA ExchangeRests ==
    ASSUME ServiceInv, OutcomeInv, [Next]_vars, NEW r \in Slots, ~ServiceStep(r)
    PROVE  SlotExchange(r)'
<1>0. Rests(r) /\ SlotExchange(r) /\ LedgerInv /\ SlotControl(r) /\ handler[r] \in HandlerStates
  BY IdleRests DEF ServiceInv, OutcomeInv, ControlInv
<1> DEFINE t == reply[r].command.transaction_id
<1>1. CASE Owning(r)
  <2>1. t \in Txns /\ reply[r].key \in Keys
    BY <1>1, OwnerFacts
  <2>2. ASSUME NEW s \in Slots, ServiceStep(s), wire[s].phase = "request",
               reply[s].command.transaction_id = t
        PROVE  FALSE
    <3>1. Owning(s)
      BY <2>2, RequestUnderWay DEF ServiceInv, Owning
    <3> QED
      BY <1>1, <2>2, <3>1, OwnersApart
  <2>3. /\ ledger[t] # "none" => ledger'[t] = ledger[t]
        /\ NoTrace(t) => ledger'[t] = "none" /\ \A c \in stray' : c.transaction_id # t
    BY <1>0, <2>1, <2>2, TraceKept DEF NoTrace
  <2>4. reply'[r] = reply[r] /\ posts[<<reply[r].key, t>>] # 0 => posts'[<<reply[r].key, t>>] # 0
    BY <1>0, <2>1, PostsGrow DEF Rests
  <2> QED
    BY <1>0, <2>3, <2>4 DEF SlotExchange, Rests, NoTrace
<1>2. CASE ~Owning(r)
  <2>1. /\ handler[r] # "calling" /\ ~(handler[r] = "completing" /\ at[r] # "free")
        /\ wire[r].phase = "none"
    BY <1>0, <1>2, RequestUnderWay DEF Owning, ServiceInv
  <2> QED
    BY <1>0, <2>1 DEF SlotExchange, Rests
<1> QED
  BY <1>1, <1>2

\* The service makes a final status only of an answer that excludes another:
\* AUTHORIZED and DECLINED of a complete 200, FAILED of a 4xx other than 408.
LEMMA ConclusionIsJustified ==
    ASSUME NEW r \in HttpResponse, NEW kind, kind = HandleResponse(r).kind
    PROVE  /\ Execute(kind).status \in {"AUTHORIZED", "DECLINED"} /\ kind \notin OverlongKinds =>
                 r.status_code = 200 /\ r.payload = Execute(kind).status
           /\ Execute(kind).status = "FAILED" => r.status_code \in Rejecting
<1>1. r.status_code \in 100..599 /\ r.payload \in Payloads
  BY DEF HttpResponse
<1>2. /\ Outcome("Authorized").kind = "Authorized" /\ Outcome("Declined").kind = "Declined"
      /\ Outcome("AuthorizedOverlong").kind \in OverlongKinds
      /\ Outcome("DeclinedOverlong").kind \in OverlongKinds
      /\ Outcome("AuthorizedOverlong").kind = "AuthorizedOverlong"
      /\ Outcome("DeclinedOverlong").kind = "DeclinedOverlong"
      /\ Outcome("InvalidResponse").kind = "InvalidResponse" /\ Outcome("Timeout").kind = "Timeout"
      /\ Outcome("Rejected").kind = "Rejected" /\ Outcome("Unavailable").kind = "Unavailable"
      /\ \A n : NetworkResult("RateLimit", n).kind = "RateLimit"
  BY DEF Outcome, NetworkResult, OverlongKinds
<1>3. /\ Execute("Authorized").status = "AUTHORIZED" /\ Execute("Declined").status = "DECLINED"
      /\ Execute("AuthorizedOverlong").status = "AUTHORIZED"
      /\ Execute("DeclinedOverlong").status = "DECLINED"
      /\ Execute("InvalidResponse").status = "PENDING_RECONCILIATION"
      /\ Execute("Timeout").status = "PENDING_RECONCILIATION"
      /\ Execute("Unavailable").status = "PENDING_RECONCILIATION"
      /\ Execute("RateLimit").status = "FAILED" /\ Execute("Rejected").status = "FAILED"
  BY ExecuteEntity DEF AuthorizedKinds, DeclinedKinds, Ambiguous
<1>4. CASE r.status_code = 200
  <2>1. HandleResponse(r) \in {Outcome("Authorized"), Outcome("Declined"),
                               Outcome("AuthorizedOverlong"), Outcome("DeclinedOverlong"),
                               Outcome("InvalidResponse")}
        /\ (HandleResponse(r) = Outcome("Authorized") => r.payload = "AUTHORIZED")
        /\ (HandleResponse(r) = Outcome("Declined") => r.payload = "DECLINED")
    <3>1. CASE r.payload = "AUTHORIZED"
      BY <1>2, <1>4, <3>1 DEF HandleResponse, ContractPayloads
    <3>2. CASE r.payload = "DECLINED"
      BY <1>2, <1>4, <3>2 DEF HandleResponse, ContractPayloads
    <3>3. CASE r.payload = "overlong"
      BY <1>2, <1>4, <3>3 DEF HandleResponse, ContractPayloads
    <3>4. CASE r.payload = "overlongDecline"
      BY <1>2, <1>4, <3>4 DEF HandleResponse, ContractPayloads
    <3>5. CASE r.payload \notin ContractPayloads
      BY <1>2, <1>4, <3>5 DEF HandleResponse, ContractPayloads
    <3> QED
      BY <3>1, <3>2, <3>3, <3>4, <3>5 DEF ContractPayloads
  <2> QED
    BY <1>2, <1>3, <1>4, <2>1
<1>5. CASE r.status_code = 408
  <2>1. HandleResponse(r) = Outcome("Timeout")
    BY <1>5 DEF HandleResponse
  <2> QED
    BY <1>2, <1>3, <2>1
<1>6. CASE r.status_code \in (400..499) \ {408}
  <2>1. \/ HandleResponse(r) = NetworkResult("RateLimit", ParseRetryAfter(r.retry_after))
        \/ HandleResponse(r) = Outcome("Rejected")
    BY <1>6 DEF HandleResponse
  <2>2. kind \in {"RateLimit", "Rejected"}
    BY <1>2, <2>1
  <2> QED
    BY <1>3, <1>6, <2>2 DEF Rejecting
<1>7. CASE r.status_code \notin {200} \cup (400..499)
  <2>1. HandleResponse(r) = Outcome("Unavailable")
    BY <1>1, <1>7 DEF HandleResponse
  <2> QED
    BY <1>2, <1>3, <2>1
<1> QED
  BY <1>4, <1>5, <1>6, <1>7

\* A handler that concludes a final status is entitled to it.
LEMMA ConcludeExchange ==
    ASSUME ServiceInv, OutcomeInv, [Next]_vars, NEW s \in Slots,
           Receive(s) \/ Timeout(s) \/ TransportFailure(s)
    PROVE  SlotExchange(s)'
<1>1. handler[s] = "calling" /\ CallingControl(s) /\ SlotExchange(s)
  BY ConcludedResult DEF ServiceInv, ControlInv, OutcomeInv
<1>2. PICK result \in NetworkResults :
         /\ Conclude(s, result)
         /\ \/ /\ Receive(s) /\ result = HandleResponse(wire[s].response)
               /\ wire[s].phase = "response" /\ stray' = stray
            \/ result.kind \in {"Timeout", "Unavailable"}
  <2>1. Outcome("Timeout") \in NetworkResults /\ Outcome("Unavailable") \in NetworkResults
    BY DEF NetworkResults, Ambiguous
  <2>2. Outcome("Timeout").kind = "Timeout" /\ Outcome("Unavailable").kind = "Unavailable"
    BY DEF Outcome, NetworkResult
  <2>3. wire[s].response \in HttpResponse
    BY <1>1 DEF CallingControl
  <2> QED
    BY <2>1, <2>2, <2>3, HandleResponseType DEF Receive, Timeout, TransportFailure
<1> DEFINE t == reply[s].command.transaction_id
           a == CompletionOf(reply[s].key, t, result)
<1>3. Begin(s, "updateTxn", a)
  BY <1>1, <1>2, ConcludeCall
<1>4. /\ handler'[s] = "completing" /\ wire'[s] = NoExchange /\ arg'[s] = a /\ reply' = reply
      /\ ledger' = ledger
  <2>1. DOMAIN handler = Slots /\ DOMAIN wire = Slots /\ DOMAIN arg = Slots
    BY DbTypes DEF ServiceInv, ControlInv, CoordTypes
  <2> HIDE DEF a
  <2> QED
    BY <1>2, <1>3, <2>1 DEF Conclude, Begin
<1>5. a.entity = Execute(result.kind) /\ (a.fits => result.kind \notin OverlongKinds)
  BY DEF CompletionOf
<1>6. wire'[s].phase = "none"
  BY <1>4 DEF NoExchange
<1> HIDE DEF a
<1>7. /\ a.entity.status \in {"AUTHORIZED", "DECLINED"} /\ a.fits => ledger[t] = a.entity.status
      /\ a.entity.status = "FAILED" => NoTrace(t) /\ stray' = stray
  <2>1. CASE result.kind \in {"Timeout", "Unavailable"}
    <3>1. a.entity.status = "PENDING_RECONCILIATION"
      BY <1>5, <2>1, ExecuteEntity DEF AuthorizedKinds, DeclinedKinds, Ambiguous
    <3> QED
      BY <3>1
  <2>2. CASE /\ result = HandleResponse(wire[s].response)
             /\ wire[s].phase = "response" /\ stray' = stray
    <3>1. wire[s].response \in HttpResponse
      BY <1>1 DEF CallingControl
    <3>2. /\ Execute(result.kind).status \in {"AUTHORIZED", "DECLINED"}
                /\ result.kind \notin OverlongKinds =>
                   /\ wire[s].response.status_code = 200
                   /\ wire[s].response.payload = Execute(result.kind).status
          /\ Execute(result.kind).status = "FAILED" => wire[s].response.status_code \in Rejecting
      BY <2>2, <3>1, ConclusionIsJustified
    <3> QED
      BY <1>1, <1>5, <2>2, <3>2 DEF SlotExchange
  <2> QED
    BY <1>2, <2>1, <2>2
<1> QED
  BY <1>4, <1>6, <1>7 DEF SlotExchange, NoTrace

\* A handler that posts finds no trace of its transaction.
LEMMA PostExchange ==
    ASSUME ServiceInv, OutcomeInv, [Next]_vars, NEW s \in Slots, Post(s)
    PROVE  SlotExchange(s)'
<1> DEFINE k == reply[s].key
           t == reply[s].command.transaction_id
<1>1. /\ handler[s] = "reserving" /\ ret[s].status = "ACQUIRED"
      /\ handler' = [handler EXCEPT ![s] = "calling"] /\ wire' = [wire EXCEPT ![s] = Request]
      /\ posts' = [posts EXCEPT ![<<arg[s].key, TxnOf(arg[s])>>] = @ + 1]
      /\ stray' = stray /\ ledger' = ledger /\ reply' = reply
  BY DEF Post
<1>2. Owning(s) /\ posts[<<k, t>>] = 0
  BY <1>1 DEF Owning, ServiceInv, PostsInv, FirstPost
<1>3. /\ arg[s].key = k /\ TxnOf(arg[s]) = t /\ k \in Keys /\ t \in Txns
      /\ KeyStored(k) /\ records[k].transaction_id = t
  BY <1>1, <1>2, ReservingCall, OwnerFacts DEF ServiceInv
<1> HIDE DEF k, t
<1>4. ASSUME NEW j \in Keys PROVE posts[<<j, t>>] = 0
  <2>1. posts[<<j, t>>] # 0 => KeyStored(j) /\ records[j].transaction_id = t
    BY <1>3 DEF ServiceInv, PostsInv, PostsOwned
  <2> QED
    BY <1>2, <1>3, <2>1, OneRecord
<1>5. NoTrace(t)
  BY <1>3, <1>4, FirstCall DEF OutcomeInv
<1>6. posts'[<<k, t>>] = 1
  <2>1. posts \in [Keys \X Txns -> Nat] /\ <<k, t>> \in Keys \X Txns
    BY <1>3 DEF ServiceInv, NetworkTypes
  <2> QED
    BY <1>1, <1>2, <1>3, <2>1
<1>7. /\ handler'[s] = "calling" /\ wire'[s].phase = "request"
  BY <1>1, Exchanges DEF ServiceInv, ControlInv
<1>8. reply'[s].key = k /\ reply'[s].command.transaction_id = t
  BY <1>1 DEF k, t
<1> QED
  BY <1>1, <1>5, <1>6, <1>7, <1>8 DEF SlotExchange, NoTrace

\* An answer of the network, or one given in its place, is what happened.
LEMMA AnswerExchange ==
    ASSUME ServiceInv, OutcomeInv, [Next]_vars, NEW s \in Slots,
           Handle(s) \/ HandleGarbled(s) \/ GatewayFails(s) \/ GatewayRejects(s)
    PROVE  SlotExchange(s)'
<1> DEFINE c == reply[s].command
           t == c.transaction_id
<1>1. /\ wire[s].phase # "none"
      /\ UNCHANGED <<coordVars, handler, posts, reply>>
      /\ \E w : wire' = [wire EXCEPT ![s] = w]
  BY DEF Handle, HandleGarbled, GatewayFails, GatewayRejects
<1>2. /\ handler[s] = "calling" /\ arg[s].command = c /\ c \in Command /\ t \in Txns
  BY <1>1, RequestUnderWay, FingerprintFields DEF ServiceInv
<1>3. DOMAIN wire = Slots /\ SlotExchange(s)
  BY DEF ServiceInv, ControlInv, OutcomeInv
<1>4. posts[<<reply[s].key, t>>] # 0
  BY <1>2, <1>3 DEF SlotExchange
<1> HIDE DEF c, t
<1> DEFINE r == wire'[s].response
           Good == /\ wire'[s].phase = "request" => NoTrace(t)'
                   /\ wire'[s].phase = "response" =>
                        /\ r.status_code = 200 /\ r.payload \in {"AUTHORIZED", "DECLINED"} =>
                              ledger'[t] = r.payload
                        /\ r.status_code \in Rejecting => ledger'[t] = "none" /\ stray' = stray
                                                          /\ NoTrace(t)
<1>5. ASSUME Handle(s)
      PROVE  Good
  <2>1. /\ wire[s].phase = "request" /\ Process(c) /\ stray' = stray
        /\ wire'[s] = IF InTime(c) THEN Answered(ScenarioResponse(c.payment_token)) ELSE Late
    BY <1>2, <1>3, <1>5 DEF Handle
  <2>2. NoTrace(t)
    BY <1>3, <2>1 DEF SlotExchange, c, t
  <2>3. CASE ~InTime(c)
    BY <2>1, <2>3, Exchanges
  <2>4. CASE InTime(c)
    <3>1. r = ScenarioResponse(c.payment_token) /\ wire'[s].phase = "response"
      BY <2>1, <2>4, Exchanges
    <3>2. r.payload \in {"AUTHORIZED", "DECLINED"} => ledger'[t] = r.payload
      BY <1>2, <2>1, <3>1, ProcessEffect DEF t, ServiceInv
    <3>3. r.status_code \in {200, 422, 429} /\ (r.status_code = 200 \/ r.payload = "problem")
      BY <3>1, ScenarioType
    <3>4. r.payload = "problem" => ledger' = ledger
      BY <1>2, <2>1, <3>1, ProcessEffect DEF t, ServiceInv
    <3>5. 200 \notin Rejecting
      BY DEF Rejecting
    <3> QED
      BY <2>1, <2>2, <3>1, <3>2, <3>3, <3>4, <3>5 DEF NoTrace
  <2> QED
    BY <2>3, <2>4
<1>6. ASSUME HandleGarbled(s)
      PROVE  Good
  <2>1. PICK p \in GarbledAnswers : wire' = [wire EXCEPT ![s] = Answered(Response(200, p))]
    BY <1>6 DEF HandleGarbled
  <2>2. p \in {"overlong", "overlongDecline", "undecodable"}
    BY <2>1, GatewayAssumption
  <2>3. Response(200, p).status_code = 200 /\ Response(200, p).payload = p
    BY DEF Response
  <2>4. r = Response(200, p) /\ wire'[s].phase = "response"
    BY <1>3, <2>1 DEF Answered
  <2> QED
    BY <2>2, <2>3, <2>4 DEF Rejecting
<1>7. ASSUME GatewayFails(s)
      PROVE  Good
  <2>1. PICK p \in GatewayFailures : wire' = [wire EXCEPT ![s] = Answered(p)]
    BY <1>7 DEF GatewayFails
  <2>2. r = p /\ wire'[s].phase = "response"
    BY <1>3, <2>1 DEF Answered
  <2> QED
    BY <2>2, GatewayAssumption
<1>8. ASSUME GatewayRejects(s)
      PROVE  Good
  <2>1. PICK p \in GatewayRejections : wire' = [wire EXCEPT ![s] = Answered(p)]
    BY <1>8 DEF GatewayRejects
  <2>2. r = p /\ wire'[s].phase = "response"
    BY <1>3, <2>1 DEF Answered
  <2>3. NoTrace(t) /\ stray' = stray /\ ledger' = ledger
    BY <1>3, <1>8 DEF GatewayRejects, SlotExchange, c, t
  <2>4. r.status_code \in Rejecting /\ r.status_code # 200
    BY <2>2, GatewayAssumption DEF Rejecting
  <2> QED
    BY <2>2, <2>3, <2>4 DEF NoTrace
<1>9. Good
  BY <1>5, <1>6, <1>7, <1>8
<1>10. wire'[s].phase # "request"
  BY <1>3, Exchanges DEF Handle, HandleGarbled, GatewayFails, GatewayRejects, Answered
<1>11. /\ handler'[s] = "calling" /\ reply'[s] = reply[s] /\ posts' = posts
  BY <1>1, <1>2
<1>12. reply'[s].command.transaction_id = t /\ posts'[<<reply'[s].key, t>>] # 0
  BY <1>4, <1>11 DEF c, t
<1> QED
  BY <1>9, <1>10, <1>11, <1>12 DEF SlotExchange, NoTrace

\* Every step of a handler keeps what it knows of the network.
LEMMA ExchangeStep ==
    ASSUME ServiceInv, OutcomeInv, [Next]_vars, NEW s \in Slots
    PROVE  SlotExchange(s)'
<1>0. /\ DOMAIN handler = Slots /\ ControlInv' /\ SlotExchange(s)
  BY ControlStep DEF ServiceInv, ControlInv, OutcomeInv
<1>1. ASSUME handler'[s] \in {"idle", "reserving"} PROVE SlotExchange(s)'
  <2>1. wire'[s] = NoExchange
    BY <1>0, <1>1 DEF ControlInv, SlotControl, IdleControl, ReservingControl
  <2> QED
    BY <1>1, <2>1 DEF SlotExchange, NoExchange
<1>2. ASSUME NEW k \in Keys, NEW c \in Command, Submit(s, k, c) PROVE SlotExchange(s)'
  BY <1>0, <1>1, <1>2 DEF Submit
<1>3. CASE NotAcquired(s) \/ PostFails(s) \/ Unhandled(s) \/ Completed(s) \/ Crash(s)
  BY <1>0, <1>1, <1>3 DEF NotAcquired, PostFails, Unhandled, Completed, Crash, Answer
<1>4. CASE Sql(s) \/ DatabaseFails(s)
  <2>1. /\ UNCHANGED <<arg, handler, wire, stray, posts, ledger, reply>>
        /\ at[s] # "free"
    BY <1>4, DatabaseMoves DEF ServiceInv, Moves, ReserveSteps, CompleteSteps
  <2> QED
    BY <1>0, <2>1 DEF SlotExchange, NoTrace
<1> QED
  BY <1>2, <1>3, <1>4, ExchangeRests, ConcludeExchange, PostExchange, AnswerExchange DEF ServiceStep

\* There is no trace of any transaction initially.
LEMMA OutcomeInit == Init => OutcomeInv
<1> SUFFICES ASSUME Init PROVE OutcomeInv
  OBVIOUS
<1>1. LedgerInv
  BY DEF Init, CoordInit, LedgerInv, NoTrace, KeyStored, NoIdemRow
<1>2. ASSUME NEW s \in Slots PROVE SlotExchange(s)
  BY DEF Init, SlotExchange, NoExchange
<1>3. ASSUME NEW t \in Txns PROVE RowTrue(t)
  BY DEF Init, CoordInit, RowTrue, NoTxnRow
<1> QED
  BY <1>1, <1>2, <1>3 DEF OutcomeInv

\* Every step keeps the outcomes true.
LEMMA OutcomeStep ==
    ASSUME ServiceInv, OutcomeInv, [Next]_vars
    PROVE  OutcomeInv'
  BY LedgerStep, ExchangeStep, RowStep DEF OutcomeInv

\* The invariants of the service hold in every reachable state.
LEMMA ServiceHolds == Spec => []ServiceInv
  BY ControlHolds, DbHolds, PostsHolds, OwnerHolds, PTL DEF ServiceInv

\* So do the outcomes.
LEMMA OutcomeHolds == Spec => []OutcomeInv
  BY ServiceHolds, OutcomeInit, OutcomeStep, PTL DEF Spec

\* A final status in the transactions table agrees with what the network
\* decided, and FAILED means that it neither decided nor ever will: no late
\* authorization, lost answer, gateway error, race or crash makes the service
\* report an outcome that the network contradicts.
THEOREM OutcomesAreTrue == Spec => []OutcomeIsTrue
<1>1. ASSUME ServiceInv, OutcomeInv, NEW t \in Txns
      PROVE  /\ txns[t].status \in {"AUTHORIZED", "DECLINED"} => ledger[t] = txns[t].status
             /\ txns[t].status = "FAILED" => ledger[t] = "none" /\ ~InFlight(t)
  <2>1. RowTrue(t)
    BY <1>1 DEF OutcomeInv
  <2>2. ASSUME NEW s \in Slots, wire[s].phase = "request", TxnOf(arg[s]) = t
        PROVE  txns[t].status = "CREATED"
    <3>1. handler[s] = "calling" /\ arg[s].command = reply[s].command
          /\ TxnOf(arg[s]) = arg[s].command.transaction_id
      BY <1>1, <2>2, RequestUnderWay DEF ServiceInv
    <3>2. Owning(s) /\ reply[s].command.transaction_id = t
      BY <2>2, <3>1 DEF Owning
    <3> QED
      BY <1>1, <3>2, OwnerFacts
  <2> QED
    BY <2>1, <2>2 DEF RowTrue, NoTrace, InFlight
<1>2. ServiceInv /\ OutcomeInv => OutcomeIsTrue
  BY <1>1 DEF OutcomeIsTrue
<1> QED
  BY <1>2, ServiceHolds, OutcomeHolds, PTL

-----------------------------------------------------------------------------
(* Errors.  With a network and gateways whose answers can be decoded and   *)
(* whose fields fit their columns, a 500 and a record without an owner are *)
(* the work of a database fault, of a crash, or of a request whose own     *)
(* values cannot be stored or sent.                                        *)

WellFormedAnswers ==
    /\ GarbledAnswers = {}
    /\ \A r \in GatewayFailures \cup GatewayRejections :
          /\ r.payload # "undecodable"
          /\ r.status_code = 200 => r.payload \notin {"overlong", "overlongDecline"}

\* A request that no column takes or that no client can send.
Unservable(c) == ~Storable(c) \/ c.payment_token \in UnencodableTokens

\* What a handler has met so far: answers that it can read, completions that
\* fit, and no failure without a fault or a cause in its own request.
SoundSlot(s) ==
    /\ wire[s].response.payload # "undecodable"
    /\ wire[s].response.status_code = 200 =>
          wire[s].response.payload \notin {"overlong", "overlongDecline"}
    /\ handler[s] = "completing" => arg[s].fits
    /\ handler[s] = "completing" /\ at[s] = "free" /\ ret[s].status # "DONE" => faults > 0
    /\ handler[s] = "idle" /\ reply[s].key \in Keys /\ reply[s].envelope.status_code = 500 =>
          faults > 0 \/ Unservable(reply[s].command)

SoundInv ==
    /\ WellFormedAnswers
    /\ \A k \in Keys : records[k].processing_status = "COMPLETED" =>
          records[k].stored_status_code \in {201, 202, 502, 503}
    /\ \A s \in Slots : SoundSlot(s)

\* The count of faults never falls.
LEMMA FaultsGrow ==
    ASSUME ControlInv, [Next]_vars
    PROVE  faults' \in Nat /\ (faults > 0 => faults' > 0) /\ (faults' = 0 => faults = 0)
<1>1. faults \in Nat
  BY DbTypes, MaxFaultsAssumption DEF ControlInv, CoordTypes
<1>2. faults' = faults \/ faults' = faults + 1
  BY DbStep
  DEF Db!Next, Db!coordVars, Db!CallReserve, Db!CallComplete, Db!SelectKey, Db!InsertTransaction,
      Db!InsertRecord, Db!CommitReserve, Db!Requery, Db!RequeryTransaction, Db!UpdateTransaction,
      Db!UpdateRecord, Db!CommitComplete, Db!SqlFailure, Db!ReserveAckLost, Db!CompleteAckLost, Db!Fault
<1> QED
  BY <1>1, <1>2

\* The status code of a completion.
LEMMA CompletionCode ==
    ASSUME ControlInv, NEW s \in Slots, handler[s] = "completing"
    PROVE  arg[s].envelope.status_code \in {201, 202, 502, 503}
<1>1. PICK t \in Txns, r \in NetworkResults : arg[s].envelope = OutcomeEnvelope(t, r)
  BY AskedWhileBusy, CompletingCall
<1>2. OutcomeEnvelope(t, r).status_code \in {201, 202, 502, 503}
  BY OutcomeEnvelopeType, ZenonT(60)
<1> QED
  BY <1>1, <1>2

\* The status code of a stored outcome.
LEMMA OutcomeCode ==
    ASSUME NEW k, NEW c, NEW e \in Envelope, HasOutcome(k, c, e)
    PROVE  records[k].stored_status_code = e.status_code
<1> DEFINE x == [e EXCEPT !.is_replay = TRUE]
<1>1. x.status_code = e.status_code
  BY DEF Envelope
<1>2. ReplayEnvelope(records[k]).status_code = records[k].stored_status_code
  BY DEF ReplayEnvelope
<1>3. ReplayEnvelope(records[k]) = x
  BY DEF HasOutcome
<1> QED
  BY <1>1, <1>2, <1>3

\* The stored status codes are those of outcomes.
LEMMA StoredCodes ==
    ASSUME ServiceInv, SoundInv, [Next]_vars, NEW k \in Keys,
           records'[k].processing_status = "COMPLETED"
    PROVE  records'[k].stored_status_code \in {201, 202, 502, 503}
<1>1. CASE UNCHANGED <<txns, records>>
  BY <1>1 DEF SoundInv
<1>2. ASSUME NEW s \in Slots, CommitsReservation(s)
      PROVE  records'[k] = records[k]
  BY <1>2, ReservationEffect DEF ServiceInv
<1>3. ASSUME NEW s \in Slots, CommitsCompletion(s)
      PROVE  \/ records'[k] = records[k]
             \/ records'[k].stored_status_code \in {201, 202, 502, 503}
  <2>1. arg[s].envelope.status_code \in {201, 202, 502, 503}
    BY <1>3, CompletionCode DEF ServiceInv, CommitsCompletion
  <2> QED
    BY <1>3, <2>1, CompletionEffect DEF ServiceInv
<1> QED
  BY <1>1, <1>2, <1>3, TableWriters DEF SoundInv, ServiceInv

\* A completion of an owner fails by a fault only: the version it expects is
\* the stored one, and the record is still in progress.
LEMMA CompletionSucceeds ==
    ASSUME ServiceInv, SoundInv, [Next]_vars, NEW s \in Slots, Sql(s) \/ DatabaseFails(s),
           handler[s] = "completing", at'[s] = "free", ret'[s].status # "DONE"
    PROVE  faults' > 0
<1>1. CoordTypes /\ faults \in Nat
  BY DbFacts, MaxFaultsAssumption DEF ServiceInv, CoordTypes
<1>2. at[s] \in CompleteSteps /\ at[s] # "free"
  BY DatabaseMoves DEF ServiceInv, ReserveSteps, CompleteSteps
<1>3. Owning(s)
  BY <1>2 DEF Owning
<1>4. PICK r \in NetworkResults :
         /\ arg[s].key = reply[s].key /\ arg[s].transaction_id = reply[s].command.transaction_id
         /\ arg[s].expected_version = 0
  BY CompletingCall DEF ServiceInv
<1>5. /\ arg[s].key \in Keys /\ arg[s].transaction_id \in Txns /\ KeyStored(arg[s].key)
      /\ records[arg[s].key].transaction_id = arg[s].transaction_id
      /\ records[arg[s].key].processing_status = "IN_PROGRESS"
  BY <1>3, <1>4, OwnerFacts DEF ServiceInv, OwnerInv, OwnsRecord
<1>6. TxnStored(arg[s].transaction_id) /\ txns[arg[s].transaction_id].version = 0
  BY <1>5, DbFacts DEF ServiceInv, TableFacts, RecordFacts
<1>7. VersionMatches(arg[s]) /\ RecordMatches(arg[s]) /\ arg[s].fits
  BY <1>4, <1>5, <1>6 DEF VersionMatches, RecordMatches, SoundInv, SoundSlot
<1>8. CASE Sql(s)
  <2>1. UpdateTransaction(s) \/ UpdateRecord(s) \/ CommitComplete(s)
    BY <1>2, <1>8 DEF Sql, Statement, SelectKey, InsertTransaction, InsertRecord, CommitReserve,
                      Requery, RequeryTransaction, CompleteSteps
  <2>2. ~CommitComplete(s)
    BY <1>1 DEF CommitComplete, Finish, Return, CoordTypes
  <2>3. GoTo(s, "updateRecord") \/ GoTo(s, "commitComplete")
    BY <1>7, <2>1, <2>2 DEF UpdateTransaction, UpdateRecord
  <2> QED
    BY <1>1, <2>3 DEF GoTo, CoordTypes
<1>9. CASE DatabaseFails(s)
  BY <1>1, <1>9 DEF DatabaseFails, DatabaseFault, SqlFailure, ReserveAckLost, CompleteAckLost, Fault
<1> QED
  BY <1>8, <1>9

\* A reserve that failed met a fault or a value that no column takes.
LEMMA ReserveFailed ==
    ASSUME ServiceInv, NEW s \in Slots, handler[s] = "reserving", ret[s].status = "PersistenceError"
    PROVE  faults > 0 \/ Unservable(reply[s].command)
<1>1. arg[s].op = "reserve" /\ arg[s].command = reply[s].command
  BY ReservingCall DEF ServiceInv
<1>2. Db!SlotVerdict(s)
  BY DEF ServiceInv, DbInv, Db!VerdictInv
<1> QED
  BY <1>1, <1>2 DEF Db!SlotVerdict, Db!ReserveVerdict, Db!Storable, Storable, Unservable

\* The status codes of problems.
LEMMA ProblemCodes ==
    \A code, document, headers : ProblemEnvelope(code, document, headers).status_code = code
  BY DEF ProblemEnvelope

\* A handler answers with a 500 only after a fault or because of its request.
LEMMA AnswerSound ==
    ASSUME ServiceInv, ReplyInv, SoundInv, [Next]_vars, NEW s \in Slots,
           NotAcquired(s) \/ PostFails(s) \/ Unhandled(s) \/ Completed(s),
           reply'[s].envelope.status_code = 500
    PROVE  faults > 0 \/ Unservable(reply'[s].command)
<1>1. DOMAIN reply = Slots /\ reply \in [Slots -> Replies] /\ SlotControl(s) /\ SoundSlot(s)
      /\ SlotReply(s)
  BY DEF ServiceInv, ControlInv, SoundInv, ReplyInv
<1>2. \A e : Answer(s, e) => reply'[s].envelope = e /\ reply'[s].command = reply[s].command
  BY <1>1 DEF Answer, Replies
<1>3. ASSUME NotAcquired(s) PROVE faults > 0 \/ Unservable(reply[s].command)
  <2>1. /\ handler[s] = "reserving" /\ at[s] = "free" /\ ret[s].status \in ReserveResults \ {"ACQUIRED"}
        /\ reply'[s].envelope = ReservationEnvelope(ret[s])
    BY <1>1, <1>2, <1>3 DEF NotAcquired, SlotControl, ReservingControl
  <2>2. CASE ret[s].status = "COMPLETED"
    <3>1. ReservationEnvelope(ret[s]) = ret[s].envelope
      BY <2>2 DEF ReservationEnvelope
    <3>2. /\ HasOutcome(reply[s].key, reply[s].command, ret[s].envelope) /\ reply[s].key \in Keys
          /\ ret[s].envelope \in Envelope
      BY <1>1, <2>1, <2>2, AskedWhileBusy, DbFacts DEF SlotReply, ServiceInv, CoordTypes
    <3>3. records[reply[s].key].stored_status_code = ret[s].envelope.status_code
      BY <3>2, OutcomeCode
    <3>4. records[reply[s].key].stored_status_code \in {201, 202, 502, 503}
      BY <3>2 DEF SoundInv, HasOutcome
    <3> QED
      BY <2>1, <3>1, <3>3, <3>4
  <2>3. CASE ret[s].status = "PersistenceError"
    BY <2>1, <2>3, ReserveFailed
  <2>4. CASE ret[s].status \in {"IDEMPOTENCY_CONFLICT", "IN_PROGRESS", "TRANSACTION_ID_CONFLICT"}
    <3>1. ReservationEnvelope(ret[s]).status_code = 409
      BY <2>4, ProblemCodes DEF ReservationEnvelope
    <3> QED
      BY <2>1, <3>1
  <2> QED
    BY <2>1, <2>2, <2>3, <2>4 DEF ReserveResults
<1>4. ~Unhandled(s)
  BY <1>1 DEF Unhandled, SoundSlot
<1>4a. ASSUME PostFails(s) PROVE Unservable(reply[s].command)
  BY <1>4a, ReservingCall DEF PostFails, ServiceInv, Unservable
<1>5. ASSUME Completed(s) PROVE faults > 0
  <2>1. /\ handler[s] = "completing" /\ at[s] = "free"
        /\ reply'[s].envelope = IF ret[s].status = "DONE" THEN arg[s].envelope ELSE PersistenceProblem
    BY <1>2, <1>5 DEF Completed
  <2>2. arg[s].envelope.status_code \in {201, 202, 502, 503}
    BY <2>1, CompletionCode DEF ServiceInv
  <2> QED
    BY <1>1, <2>1, <2>2 DEF SoundSlot
<1>6. reply'[s].command = reply[s].command
  BY <1>2, <1>4 DEF NotAcquired, PostFails, Completed
<1> QED
  BY <1>3, <1>4, <1>4a, <1>5, <1>6

\* The answers that reach a handler can be read.
LEMMA AnswersReadable ==
    ASSUME ServiceInv, SoundInv, [Next]_vars, NEW s \in Slots
    PROVE  /\ wire'[s].response.payload # "undecodable"
           /\ wire'[s].response.status_code = 200 =>
                 wire'[s].response.payload \notin {"overlong", "overlongDecline"}
<1> DEFINE Good(r) == /\ r.payload # "undecodable"
                      /\ r.status_code = 200 => r.payload \notin {"overlong", "overlongDecline"}
<1>1. DOMAIN wire = Slots /\ Good(wire[s].response)
  BY DEF ServiceInv, ControlInv, SoundInv, SoundSlot
<1>2. Good(NoExchange.response) /\ Good(Request.response) /\ Good(Late.response)
  BY DEF NoExchange, Request, Late, Response
<1>3. \A token : Good(ScenarioResponse(token))
  BY ScenarioType
<1>4. \A r : Answered(r).response = r
  BY DEF Answered
<1>5. WellFormedAnswers
  BY DEF SoundInv
<1>6. CASE ~ServiceStep(s)
  BY <1>1, <1>6, IdleRests DEF ServiceInv, Rests
<1>7. CASE ServiceStep(s)
  <2>1. \/ wire' = wire
        \/ \E w \in {NoExchange, Request, Late} : wire' = [wire EXCEPT ![s] = w]
        \/ \E r : Good(r) /\ wire' = [wire EXCEPT ![s] = Answered(r)]
    <3>1. CASE Handle(s)
      BY <1>3, <3>1 DEF Handle
    <3>2. CASE HandleGarbled(s)
      BY <1>5, <3>2 DEF HandleGarbled, WellFormedAnswers
    <3>3. CASE GatewayFails(s) \/ GatewayRejects(s)
      BY <1>5, <3>3 DEF GatewayFails, GatewayRejects, WellFormedAnswers
    <3>4. CASE Receive(s) \/ Timeout(s) \/ TransportFailure(s) \/ Unhandled(s) \/ Crash(s) \/ Post(s)
      BY <3>4 DEF Receive, Timeout, TransportFailure, Unhandled, Crash, Post, Conclude
    <3>5. CASE \/ \E k \in Keys, c \in Command : Submit(s, k, c)
               \/ NotAcquired(s) \/ PostFails(s) \/ Completed(s) \/ Sql(s) \/ DatabaseFails(s)
      BY <3>5 DEF Submit, NotAcquired, PostFails, Completed, Sql, DatabaseFails, networkVars
    <3> QED
      BY <1>7, <3>1, <3>2, <3>3, <3>4, <3>5 DEF ServiceStep
  <2>2. ASSUME NEW w \in {NoExchange, Request, Late}, wire' = [wire EXCEPT ![s] = w]
        PROVE  Good(wire'[s].response)
    <3>1. wire'[s] = w
      BY <1>1, <2>2
    <3> QED
      BY <1>2, <3>1
  <2>3. ASSUME NEW r, Good(r), wire' = [wire EXCEPT ![s] = Answered(r)]
        PROVE  Good(wire'[s].response)
    <3>1. wire'[s] = Answered(r)
      BY <1>1, <2>3
    <3> QED
      BY <1>4, <2>3, <3>1
  <2> QED
    BY <1>1, <2>1, <2>2, <2>3
<1> QED
  BY <1>6, <1>7

\* What is concluded from a readable answer fits its columns.
LEMMA ConclusionFits ==
    ASSUME ServiceInv, SoundInv, [Next]_vars, NEW s \in Slots,
           Receive(s) \/ Timeout(s) \/ TransportFailure(s)
    PROVE  handler'[s] = "completing" /\ at'[s] = "updateTxn" /\ arg'[s].fits
<1>1. handler[s] = "calling" /\ CallingControl(s) /\ SoundSlot(s)
  BY ConcludedResult DEF ServiceInv, ControlInv, SoundInv
<1>2. PICK result \in NetworkResults : Conclude(s, result) /\ result.kind \notin OverlongKinds
  <2>1. Outcome("Timeout") \in NetworkResults /\ Outcome("Unavailable") \in NetworkResults
    BY DEF NetworkResults, Ambiguous
  <2>2. Outcome("Timeout").kind = "Timeout" /\ Outcome("Unavailable").kind = "Unavailable"
    BY DEF Outcome, NetworkResult
  <2>2a. "Timeout" \notin OverlongKinds /\ "Unavailable" \notin OverlongKinds
    BY DEF OverlongKinds
  <2>3. CASE Receive(s)
    <3> DEFINE r == wire[s].response
    <3>1. r \in HttpResponse /\ r.status_code \in 100..599
      BY <1>1 DEF CallingControl, HttpResponse
    <3>2. r.status_code = 200 => r.payload \notin {"overlong", "overlongDecline"}
      BY <1>1 DEF SoundSlot
    <3> HIDE DEF r
    <3>3. HandleResponse(r) \in NetworkResults
      BY <3>1, HandleResponseType
    <3>4. HandleResponse(r).kind \notin OverlongKinds
      <4>0. /\ \A kind : Outcome(kind).kind = kind
            /\ \A n : NetworkResult("RateLimit", n).kind = "RateLimit"
        BY DEF Outcome, NetworkResult
      <4>1. CASE r.status_code = 200
        <5>1. HandleResponse(r) \in {Outcome("Authorized"), Outcome("Declined"),
                                     Outcome("InvalidResponse")}
          BY <3>2, <4>1, SMTT(60) DEF HandleResponse, ContractPayloads
        <5> QED
          BY <4>0, <5>1 DEF OverlongKinds
      <4>2. r.status_code = 429 =>
               HandleResponse(r) = NetworkResult("RateLimit", ParseRetryAfter(r.retry_after))
        BY SMTT(60) DEF HandleResponse
      <4>3. r.status_code = 408 => HandleResponse(r) = Outcome("Timeout")
        BY SMTT(60) DEF HandleResponse
      <4>4. r.status_code \in (400..499) \ {408, 429} => HandleResponse(r) = Outcome("Rejected")
        BY SMTT(60) DEF HandleResponse
      <4>5. r.status_code \notin {200} \cup (400..499) => HandleResponse(r) = Outcome("Unavailable")
        BY SMTT(60) DEF HandleResponse
      <4>6. CASE r.status_code # 200
        BY <4>0, <4>2, <4>3, <4>4, <4>5, <4>6 DEF OverlongKinds
      <4> QED
        BY <4>1, <4>6
    <3>5. Conclude(s, HandleResponse(r))
      BY <2>3 DEF Receive, r
    <3> QED
      BY <3>3, <3>4, <3>5
  <2>4. CASE Timeout(s) \/ TransportFailure(s)
    BY <2>1, <2>2, <2>2a, <2>4 DEF Timeout, TransportFailure
  <2> QED
    BY <2>3, <2>4
<1> DEFINE a == CompletionOf(reply[s].key, reply[s].command.transaction_id, result)
<1>3. Begin(s, "updateTxn", a)
  BY <1>1, <1>2, ConcludeCall
<1>4. a.fits
  BY <1>2 DEF CompletionOf
<1>5. DOMAIN handler = Slots /\ DOMAIN at = Slots /\ DOMAIN arg = Slots
  BY DbTypes DEF ServiceInv, ControlInv, CoordTypes
<1> HIDE DEF a
<1> QED
  BY <1>2, <1>3, <1>4, <1>5 DEF Conclude, Begin

\* Every step keeps the service sound.
LEMMA SoundStep ==
    ASSUME ServiceInv, ReplyInv, SoundInv, [Next]_vars
    PROVE  SoundInv'
<1>1. ASSUME NEW k \in Keys, records'[k].processing_status = "COMPLETED"
      PROVE  records'[k].stored_status_code \in {201, 202, 502, 503}
  BY <1>1, StoredCodes
<1>2. ASSUME NEW s \in Slots PROVE SoundSlot(s)'
  <2>0. SoundSlot(s) /\ DOMAIN handler = Slots /\ DOMAIN reply = Slots
    BY DEF SoundInv, ServiceInv, ControlInv
  <2>1. faults > 0 => faults' > 0
    BY FaultsGrow DEF ServiceInv
  <2> DEFINE Later ==
        /\ handler'[s] = "completing" => arg'[s].fits
        /\ handler'[s] = "completing" /\ at'[s] = "free" /\ ret'[s].status # "DONE" => faults' > 0
        /\ handler'[s] = "idle" /\ reply'[s].key \in Keys /\ reply'[s].envelope.status_code = 500
              => faults' > 0 \/ Unservable(reply'[s].command)
  <2>2. ASSUME ~ServiceStep(s) PROVE Later
    BY <2>0, <2>1, <2>2, IdleRests DEF ServiceInv, Rests, SoundSlot
  <2>3. ASSUME \/ \E k \in Keys, c \in Command : Submit(s, k, c)
               \/ Post(s) \/ Handle(s) \/ HandleGarbled(s) \/ GatewayFails(s) \/ GatewayRejects(s)
        PROVE  Later
    <3>1. handler'[s] \in {"reserving", "calling"}
      BY <2>0, <2>3, RequestUnderWay
      DEF Submit, Post, Handle, HandleGarbled, GatewayFails, GatewayRejects, ServiceInv
    <3> QED
      BY <3>1
  <2>4. ASSUME NotAcquired(s) \/ PostFails(s) \/ Unhandled(s) \/ Completed(s) PROVE Later
    <3>1. handler'[s] = "idle"
      BY <2>0, <2>4 DEF NotAcquired, PostFails, Unhandled, Completed, Answer
    <3> QED
      BY <2>1, <2>4, <3>1, AnswerSound
  <2>5. ASSUME Receive(s) \/ Timeout(s) \/ TransportFailure(s) PROVE Later
    BY <2>5, ConclusionFits
  <2>6. ASSUME Crash(s) PROVE Later
    <3>1. handler'[s] = "idle" /\ reply'[s].key = None
      BY <2>0, <2>6 DEF Crash, NoReply
    <3> QED
      BY <3>1, NoneAssumption
  <2>7. ASSUME Sql(s) \/ DatabaseFails(s) PROVE Later
    <3>1. handler' = handler /\ arg' = arg /\ handler[s] # "idle"
      BY <2>7, DatabaseMoves DEF ServiceInv, Moves
    <3> QED
      BY <2>0, <2>7, <3>1, CompletionSucceeds DEF SoundSlot
  <2>8. Later
    BY <2>2, <2>3, <2>4, <2>5, <2>6, <2>7 DEF ServiceStep
  <2> QED
    BY <2>8, AnswersReadable DEF SoundSlot, Unservable, Storable
<1>3. WellFormedAnswers'
  BY DEF SoundInv, WellFormedAnswers
<1> QED
  BY <1>1, <1>2, <1>3 DEF SoundInv

\* The service is sound initially.
LEMMA SoundInit == WellFormedAnswers /\ Init => SoundInv
  BY NoneAssumption
  DEF Init, CoordInit, SoundInv, SoundSlot, NoReply, NoExchange, Response, NoIdemRow

\* It stays so.
LEMMA SoundHolds == WellFormedAnswers /\ Spec => []SoundInv
  BY ServiceHolds, ReplyHolds, SoundInit, SoundStep, PTL DEF Spec

\* With a network whose answers can be decoded and fit their columns, a request
\* ends in a 500 only after a database fault or a crash, or because it carries a
\* value that no column takes or a token that no client can send.  Other requests
\* never cause one: reserve explains every conflict, and the version 0 that the
\* orchestrator expects in complete is never stale.
THEOREM NoSpuriousErrors == WellFormedAnswers /\ Spec => []NoSpuriousError
<1>1. SoundInv => NoSpuriousError
  BY DEF SoundInv, SoundSlot, NoSpuriousError, Unservable
<1> QED
  BY <1>1, SoundHolds, PTL

-----------------------------------------------------------------------------
(* Abandoned records.                                                      *)

\* A handler that will complete the record of key k.
Completes(s, k) ==
    /\ handler[s] # "idle" /\ arg[s].key = k
    /\ handler[s] = "reserving" => ret[s].status = "ACQUIRED"

\* Without a fault, a handler that completes a record does so until it is
\* completed, unless it cannot send the token.
LEMMA CompleterStays ==
    ASSUME ServiceInv, ReplyInv, SoundInv, [Next]_vars, faults' = 0, NEW k \in Keys,
           records'[k].processing_status = "IN_PROGRESS", NEW s \in Slots, Completes(s, k),
           records[k].request_fingerprint[2] \notin UnencodableTokens
    PROVE  Completes(s, k)'
<1>0. SoundSlot(s) /\ SlotReply(s) /\ faults = 0
  BY FaultsGrow DEF SoundInv, ReplyInv, ServiceInv
<1>1. /\ DOMAIN handler = Slots /\ DOMAIN arg = Slots /\ handler[s] \in HandlerStates
      /\ ControlInv' /\ reply[s].key = k /\ SlotControl(s)
  BY DbTypes, ControlStep, AskedWhileBusy DEF ServiceInv, ControlInv, CoordTypes, Completes
<1>2. CASE ~ServiceStep(s)
  BY <1>2, IdleRests DEF ServiceInv, Rests, Completes
<1>3. ASSUME NEW j \in Keys, NEW c \in Command, Submit(s, j, c) PROVE FALSE
  BY <1>3 DEF Submit, Completes
<1>4. CASE Post(s) \/ Handle(s) \/ HandleGarbled(s) \/ GatewayFails(s) \/ GatewayRejects(s)
  <2>1. handler'[s] = "calling" /\ arg' = arg
    BY <1>1, <1>4, RequestUnderWay
    DEF Post, Handle, HandleGarbled, GatewayFails, GatewayRejects, ServiceInv, coordVars
  <2> QED
    BY <2>1 DEF Completes
<1>5. CASE Receive(s) \/ Timeout(s) \/ TransportFailure(s)
  <2>1. handler'[s] = "completing" /\ reply' = reply
    BY <1>5, ConclusionFits DEF Receive, Timeout, TransportFailure, Conclude
  <2>2. SlotControl(s)'
    BY <1>1 DEF ControlInv
  <2>3. \E r : arg'[s] = CompletionOf(reply'[s].key, reply'[s].command.transaction_id, r)
    BY <2>1, <2>2 DEF SlotControl, CompletingControl
  <2>4. arg'[s].key = reply'[s].key
    BY <2>3 DEF CompletionOf
  <2> QED
    BY <1>1, <2>1, <2>4 DEF Completes
<1>6. CASE NotAcquired(s) \/ PostFails(s) \/ Unhandled(s) \/ Completed(s) \/ Crash(s)
  <2>0. ~PostFails(s)
    <3> SUFFICES ASSUME PostFails(s) PROVE FALSE
      OBVIOUS
    <3>1. handler[s] = "reserving" /\ Owning(s)
          /\ arg[s].command.payment_token \in UnencodableTokens
      BY DEF PostFails, Owning
    <3>2. arg[s].command = reply[s].command
      BY <3>1, ReservingCall DEF ServiceInv
    <3>3. records[k].request_fingerprint[2] = reply[s].command.payment_token
      BY <1>1, <3>1, OwnerFacts
    <3> QED
      BY <3>1, <3>2, <3>3
  <2>1. ~NotAcquired(s)
    BY DEF NotAcquired, Completes
  <2>2. ~Unhandled(s)
    BY <1>0 DEF Unhandled, SoundSlot
  <2>3. ~Crash(s)
    BY <1>0 DEF Crash, Fault
  <2>4. ~Completed(s)
    <3> SUFFICES ASSUME Completed(s) PROVE FALSE
      OBVIOUS
    <3>1. handler[s] = "completing" /\ at[s] = "free" /\ records' = records
      BY DEF Completed, coordVars
    <3>2. ret[s].status = "DONE"
      BY <1>0, <3>1 DEF SoundSlot
    <3>3. records[k].processing_status = "COMPLETED"
      BY <1>0, <1>1, <3>1, <3>2 DEF SlotReply, HasOutcome
    <3> QED
      BY <3>1, <3>3
  <2> QED
    BY <1>6, <2>0, <2>1, <2>2, <2>3, <2>4
<1>7. CASE Sql(s) \/ DatabaseFails(s)
  <2>1. /\ handler' = handler /\ arg' = arg /\ at[s] # "free"
        /\ handler[s] # "reserving"
    BY <1>1, <1>7, DatabaseMoves
    DEF ServiceInv, Moves, ReserveSteps, CompleteSteps, SlotControl, ReservingControl, Completes
  <2> QED
    BY <2>1 DEF Completes
<1> QED
  BY <1>2, <1>3, <1>4, <1>5, <1>6, <1>7 DEF ServiceStep

\* A record whose token can be sent is left IN_PROGRESS without a handler that
\* will complete it only by a database fault or a crash: the crash window that
\* the README documents is the only one, as long as the network's answers can be
\* decoded and fit their columns.
THEOREM OnlyFaultsAbandon == WellFormedAnswers /\ Spec => []AbandonedOnlyByFault
<1>1. Init => AbandonedOnlyByFault
  BY DEF Init, CoordInit, AbandonedOnlyByFault, NoIdemRow
<1>2. ASSUME ServiceInv, ReplyInv, SoundInv, AbandonedOnlyByFault, [Next]_vars
      PROVE  AbandonedOnlyByFault'
  <2> SUFFICES ASSUME faults' = 0, NEW k \in Keys, records'[k].processing_status = "IN_PROGRESS"
               PROVE  \/ records'[k].request_fingerprint[2] \in UnencodableTokens
                      \/ \E s \in Slots : Completes(s, k)'
    BY DEF AbandonedOnlyByFault, Completes
  <2>1. faults = 0
    BY <1>2, FaultsGrow DEF ServiceInv
  <2>2. CASE records[k].processing_status = "IN_PROGRESS"
    <3>1. records'[k].request_fingerprint = records[k].request_fingerprint
      BY <1>2, <2>2, RecordsStay DEF ServiceInv, KeyStored
    <3>2. CASE records[k].request_fingerprint[2] \notin UnencodableTokens
      <4>1. PICK s \in Slots : Completes(s, k)
        BY <1>2, <2>1, <2>2, <3>2 DEF AbandonedOnlyByFault, Completes
      <4> QED
        BY <1>2, <3>2, <4>1, CompleterStays
    <3> QED
      BY <3>1, <3>2
  <2>3. CASE records[k].processing_status # "IN_PROGRESS"
    <3>1. PICK s \in Slots : CommitsReservation(s) /\ ServiceStep(s) /\ reply[s].key = k
      <4>1. ASSUME NEW s \in Slots, CommitsReservation(s) PROVE k = reply[s].key
        BY <1>2, <2>3, <4>1, ReservationEffect DEF ServiceInv
      <4>2. ASSUME NEW s \in Slots, CommitsCompletion(s) PROVE FALSE
        BY <1>2, <2>3, <4>2, CompletionEffect DEF ServiceInv
      <4> QED
        BY <1>2, <2>3, <4>1, <4>2, TableWriters DEF ServiceInv
    <3>2. handler' = handler /\ arg' = arg /\ handler[s] = "reserving" /\ at[s] = "commitReserve"
      BY <3>1 DEF CommitsReservation
    <3>3. arg[s].key = k
      BY <1>2, <3>1, <3>2, ReservingCall DEF ServiceInv
    <3>4. CommitReserve(s)
      <4>1. Sql(s)
        <5>1. at'[s] # at[s]
          BY <3>1, <3>2 DEF CommitsReservation
        <5>2. Sql(s) \/ DatabaseFails(s)
          BY <2>1, <3>1, <3>2, <5>1
          DEF ServiceStep, Submit, NotAcquired, Post, PostFails, Receive, Unhandled, Timeout,
              TransportFailure, Completed, Handle, HandleGarbled, GatewayFails, GatewayRejects, Crash,
              Fault, coordVars
        <5>3. ~DatabaseFails(s)
          BY <2>1 DEF DatabaseFails, DatabaseFault, SqlFailure, ReserveAckLost, CompleteAckLost, Fault
        <5> QED
          BY <5>2, <5>3
      <4> QED
        BY <3>2, <4>1
        DEF Sql, Statement, SelectKey, InsertTransaction, InsertRecord, Requery, RequeryTransaction,
            UpdateTransaction, UpdateRecord, CommitComplete
    <3>5. ret'[s].status = "ACQUIRED"
      <4>1. DOMAIN ret = Slots
        BY <1>2, DbFacts DEF ServiceInv, CoordTypes
      <4> QED
        BY <3>4, <4>1 DEF CommitReserve, Finish, Return
    <3> QED
      BY <3>2, <3>3, <3>5 DEF Completes
  <2> QED
    BY <2>2, <2>3
<1> QED
  BY <1>1, <1>2, ServiceHolds, ReplyHolds, SoundHolds, PTL DEF Spec

-----------------------------------------------------------------------------
(* The timeout token.  When the emulator's delay is longer than the        *)
(* platform's timeout, no answer to this token arrives in time, so nothing *)
(* justifies to report its transaction as authorized.                      *)

DelayExceedsTimeout == EmulatorDelay > NetworkTimeout

LateSlot(s) ==
    reply[s].command.payment_token = "tok_test_timeout" =>
        /\ wire[s].phase = "response" =>
              ~(wire[s].response.status_code = 200 /\ wire[s].response.payload = "AUTHORIZED")
        /\ handler[s] = "completing" /\ at[s] # "free" /\ arg[s].fits =>
              arg[s].entity.status # "AUTHORIZED"

LateInv ==
    /\ DelayExceedsTimeout
    /\ \A s \in Slots : LateSlot(s)
    /\ TimeoutTokenIsAmbiguous

\* No answer that reaches a handler with the timeout token is an authorization.
LEMMA LateAnswers ==
    ASSUME ServiceInv, LateInv, [Next]_vars, NEW s \in Slots,
           Handle(s) \/ HandleGarbled(s) \/ GatewayFails(s) \/ GatewayRejects(s)
    PROVE  LateSlot(s)'
<1>1. /\ wire[s].phase # "none" /\ UNCHANGED <<handler, reply>> /\ DOMAIN wire = Slots
  BY DEF Handle, HandleGarbled, GatewayFails, GatewayRejects, ServiceInv, ControlInv
<1>2. /\ handler[s] = "calling" /\ arg[s].command = reply[s].command
  BY <1>1, RequestUnderWay DEF ServiceInv
<1> SUFFICES ASSUME reply[s].command.payment_token = "tok_test_timeout"
             PROVE  \/ wire'[s].phase = "late"
                    \/ wire'[s].response.status_code # 200
                    \/ wire'[s].response.payload # "AUTHORIZED"
  BY <1>1, <1>2 DEF LateSlot
<1>3. \A r : Answered(r).response = r
  BY DEF Answered
<1>4. CASE Handle(s)
  <2>1. ~InTime(arg[s].command)
    BY <1>2, DelayAssumption DEF LateInv, DelayExceedsTimeout, InTime
  <2>2. wire'[s] = Late
    BY <1>1, <1>4, <2>1 DEF Handle
  <2> QED
    BY <2>2, Exchanges
<1>5. CASE HandleGarbled(s)
  <2>1. PICK p \in GarbledAnswers : wire' = [wire EXCEPT ![s] = Answered(Response(200, p))]
    BY <1>5 DEF HandleGarbled
  <2>2. wire'[s].response = Response(200, p)
    BY <1>1, <1>3, <2>1
  <2>3. Response(200, p).payload = p
    BY DEF Response
  <2> QED
    BY <2>1, <2>2, <2>3, GatewayAssumption
<1>6. CASE GatewayFails(s)
  <2>1. PICK p \in GatewayFailures : wire' = [wire EXCEPT ![s] = Answered(p)]
    BY <1>6 DEF GatewayFails
  <2>2. wire'[s].response = p
    BY <1>1, <1>3, <2>1
  <2> QED
    BY <2>1, <2>2, GatewayAssumption
<1>7. CASE GatewayRejects(s)
  <2>1. PICK p \in GatewayRejections : wire' = [wire EXCEPT ![s] = Answered(p)]
    BY <1>7 DEF GatewayRejects
  <2>2. wire'[s].response = p
    BY <1>1, <1>3, <2>1
  <2> QED
    BY <2>1, <2>2, GatewayAssumption DEF Rejecting
<1> QED
  BY <1>4, <1>5, <1>6, <1>7

\* Nothing that a handler with the timeout token concludes is an authorization.
LEMMA LateConclusion ==
    ASSUME ServiceInv, LateInv, [Next]_vars, NEW s \in Slots,
           Receive(s) \/ Timeout(s) \/ TransportFailure(s)
    PROVE  LateSlot(s)'
<1>1. handler[s] = "calling" /\ CallingControl(s) /\ LateSlot(s)
  BY ConcludedResult DEF ServiceInv, ControlInv, LateInv
<1>2. PICK result \in NetworkResults :
         /\ Conclude(s, result)
         /\ \/ result = HandleResponse(wire[s].response) /\ wire[s].phase = "response"
            \/ result.kind \in {"Timeout", "Unavailable"}
  <2>1. Outcome("Timeout") \in NetworkResults /\ Outcome("Unavailable") \in NetworkResults
    BY DEF NetworkResults, Ambiguous
  <2>2. Outcome("Timeout").kind = "Timeout" /\ Outcome("Unavailable").kind = "Unavailable"
    BY DEF Outcome, NetworkResult
  <2>3. wire[s].response \in HttpResponse
    BY <1>1 DEF CallingControl
  <2> QED
    BY <2>1, <2>2, <2>3, HandleResponseType DEF Receive, Timeout, TransportFailure
<1> DEFINE a == CompletionOf(reply[s].key, reply[s].command.transaction_id, result)
<1>3. Begin(s, "updateTxn", a)
  BY <1>1, <1>2, ConcludeCall
<1>4. a.entity = Execute(result.kind) /\ (a.fits => result.kind \notin OverlongKinds)
  BY DEF CompletionOf
<1> HIDE DEF a
<1>5. wire'[s] = NoExchange /\ arg'[s] = a /\ reply' = reply
  <2>1. DOMAIN wire = Slots /\ DOMAIN arg = Slots
    BY DbTypes DEF ServiceInv, ControlInv, CoordTypes
  <2> QED
    BY <1>2, <1>3, <2>1 DEF Conclude, Begin
<1>6. wire'[s].phase = "none"
  BY <1>5 DEF NoExchange
<1>7. ASSUME reply[s].command.payment_token = "tok_test_timeout", a.fits
      PROVE  a.entity.status # "AUTHORIZED"
  <2>1. CASE result.kind \in {"Timeout", "Unavailable"}
    <3>1. Execute(result.kind).status = "PENDING_RECONCILIATION"
      BY <2>1, ExecuteEntity DEF AuthorizedKinds, DeclinedKinds, Ambiguous
    <3> QED
      BY <1>4, <3>1
  <2>2. CASE result = HandleResponse(wire[s].response) /\ wire[s].phase = "response"
    <3>1. wire[s].response \in HttpResponse
      BY <1>1 DEF CallingControl
    <3>2. Execute(result.kind).status = "AUTHORIZED" /\ result.kind \notin OverlongKinds =>
             wire[s].response.status_code = 200 /\ wire[s].response.payload = "AUTHORIZED"
      BY <2>2, <3>1, ConclusionIsJustified
    <3> QED
      BY <1>1, <1>4, <1>7, <2>2, <3>2 DEF LateSlot
  <2> QED
    BY <1>2, <2>1, <2>2
<1> QED
  BY <1>5, <1>6, <1>7 DEF LateSlot

\* Every step keeps the timeout token ambiguous.
LEMMA LateStep ==
    ASSUME ServiceInv, LateInv, [Next]_vars
    PROVE  LateInv'
<1>1. ASSUME NEW s \in Slots PROVE LateSlot(s)'
  <2>0. DOMAIN handler = Slots /\ ControlInv' /\ LateSlot(s)
    BY ControlStep DEF ServiceInv, ControlInv, LateInv
  <2>1. CASE ~ServiceStep(s)
    BY <2>0, <2>1, IdleRests DEF ServiceInv, Rests, LateSlot
  <2>2. ASSUME handler'[s] \in {"idle", "reserving"} PROVE LateSlot(s)'
    <3>1. wire'[s] = NoExchange
      BY <2>0, <2>2 DEF ControlInv, SlotControl, IdleControl, ReservingControl
    <3> QED
      BY <2>2, <3>1 DEF LateSlot, NoExchange
  <2>3. ASSUME NEW k \in Keys, NEW c \in Command, Submit(s, k, c) PROVE LateSlot(s)'
    BY <2>0, <2>2, <2>3 DEF Submit
  <2>4. CASE NotAcquired(s) \/ PostFails(s) \/ Unhandled(s) \/ Completed(s) \/ Crash(s)
    BY <2>0, <2>2, <2>4 DEF NotAcquired, PostFails, Unhandled, Completed, Crash, Answer
  <2>5. CASE Post(s)
    <3>1. handler'[s] = "calling" /\ wire'[s].phase = "request"
      BY <2>0, <2>5, Exchanges DEF Post, ServiceInv, ControlInv
    <3> QED
      BY <3>1 DEF LateSlot
  <2>6. CASE Sql(s) \/ DatabaseFails(s)
    <3>1. UNCHANGED <<arg, handler, wire, reply>> /\ at[s] # "free"
      BY <2>6, DatabaseMoves DEF ServiceInv, Moves, ReserveSteps, CompleteSteps
    <3> QED
      BY <2>0, <3>1 DEF LateSlot
  <2> QED
    BY <2>1, <2>3, <2>4, <2>5, <2>6, LateAnswers, LateConclusion DEF ServiceStep
<1>2. TimeoutTokenIsAmbiguous'
  <2> SUFFICES ASSUME NEW k \in Keys, records'[k].processing_status = "COMPLETED",
                      records'[k].request_fingerprint[2] = "tok_test_timeout"
               PROVE  txns'[records'[k].transaction_id].status # "AUTHORIZED"
    BY DEF TimeoutTokenIsAmbiguous
  <2>1. CASE records[k].processing_status = "COMPLETED"
    <3>1. /\ records'[k] = records[k]
          /\ txns'[records[k].transaction_id] = txns[records[k].transaction_id]
      BY <2>1, RecordsStay DEF ServiceInv, KeyStored
    <3> QED
      BY <2>1, <3>1 DEF LateInv, TimeoutTokenIsAmbiguous
  <2>2. CASE records[k].processing_status # "COMPLETED"
    <3>1. PICK s \in Slots : CommitsCompletion(s) /\ k = reply[s].key
      <4>1. ASSUME NEW s \in Slots, CommitsReservation(s) PROVE FALSE
        BY <2>2, <4>1, ReservationEffect DEF ServiceInv
      <4>2. ASSUME NEW s \in Slots, CommitsCompletion(s) PROVE k = reply[s].key
        BY <2>2, <4>2, CompletionEffect DEF ServiceInv
      <4> QED
        BY <2>2, <4>1, <4>2, TableWriters DEF ServiceInv
    <3> DEFINE t == reply[s].command.transaction_id
    <3>2. /\ arg[s].fits /\ records'[k].transaction_id = t
          /\ txns'[t].status = arg[s].entity.status
          /\ records'[k].request_fingerprint = records[k].request_fingerprint
      BY <3>1, CompletionEffect DEF ServiceInv
    <3>3. Owning(s) /\ handler[s] = "completing" /\ at[s] # "free"
      BY <3>1 DEF Owning, CommitsCompletion
    <3>4. records[k].request_fingerprint[2] = reply[s].command.payment_token
      BY <3>1, <3>3, OwnerFacts
    <3>5. arg[s].entity.status # "AUTHORIZED"
      BY <3>2, <3>3, <3>4 DEF LateInv, LateSlot
    <3> QED
      BY <3>2, <3>5
  <2> QED
    BY <2>1, <2>2
<1>3. DelayExceedsTimeout'
  BY DEF LateInv, DelayExceedsTimeout
<1> QED
  BY <1>1, <1>2, <1>3 DEF LateInv

\* Nothing is late initially.
LEMMA LateInit == DelayExceedsTimeout /\ Init => LateInv
  BY DEF Init, CoordInit, LateInv, LateSlot, TimeoutTokenIsAmbiguous, NoExchange, NoIdemRow

\* When the emulator's delay exceeds the platform's timeout, as the README's
\* table of tokens presupposes, the transaction of tok_test_timeout is never
\* stored as authorized, whatever gateways answer in the emulator's place.
THEOREM TimeoutTokenStaysAmbiguous == DelayExceedsTimeout /\ Spec => []TimeoutTokenIsAmbiguous
<1>1. LateInv => TimeoutTokenIsAmbiguous
  BY DEF LateInv
<1> QED
  BY <1>1, ServiceHolds, LateInit, LateStep, PTL DEF Spec

-----------------------------------------------------------------------------
(* The lifecycle.  The UPDATE of complete() checks versions, not statuses. *)
(* That it never writes a status the entity could not have reached follows *)
(* from who owns the row and from what the service made of the answer.     *)

\* What the service makes of a new entity, an operation of the entity makes.
LEMMA ExecuteFollows ==
    ASSUME NEW r \in NetworkResults
    PROVE  Follows(NewEntity, Execute(r.kind))
<1>1. r.kind \in AuthorizedKinds \cup DeclinedKinds \cup {"Rejected", "RateLimit"} \cup Ambiguous
  BY ResultKinds
<1>2. /\ NewEntity.status = "CREATED"
      /\ OrdinaryTransitions["CREATED"] = {"AUTHORIZED", "DECLINED", "FAILED"}
      /\ ReconciliationEntries["CREATED"] = "AUTHORIZATION"
  BY DEF NewEntity, OrdinaryTransitions, ReconciliationEntries, TransactionStatus
<1>3. ASSUME NEW target \in {"AUTHORIZED", "DECLINED", "FAILED"}
      PROVE  Follows(NewEntity, TransitionTo(NewEntity, target))
  <2>1. TransitionVerdict(NewEntity, target) = "ok"
    BY <1>2 DEF TransitionVerdict
  <2> QED
    BY <2>1 DEF Follows, TransactionStatus
<1>4. Follows(NewEntity, MarkPendingReconciliation(NewEntity, "AUTHORIZATION"))
  <2>1. MarkPendingVerdict(NewEntity, "AUTHORIZATION") = "ok"
    BY <1>2 DEF MarkPendingVerdict
  <2> QED
    BY <2>1 DEF Follows, PendingOperation
<1>5. \/ \E target \in {"AUTHORIZED", "DECLINED", "FAILED"} :
            Execute(r.kind) = TransitionTo(NewEntity, target)
      \/ Execute(r.kind) = MarkPendingReconciliation(NewEntity, "AUTHORIZATION")
  BY <1>1 DEF Execute, AuthorizedKinds, DeclinedKinds, Ambiguous
<1> QED
  BY <1>3, <1>4, <1>5

\* A reservation stores a new entity.
LEMMA ReservationIsNew ==
    ASSUME ServiceInv, NEW s \in Slots, CommitsReservation(s), NEW t \in Txns
    PROVE  RowFollows(t)
<1>1. PICK u \in Txns : u = reply[s].command.transaction_id
  BY ReservationEffect DEF ServiceInv
<1>2. ~TxnStored(u) /\ \A v \in Txns \ {u} : txns'[v] = txns[v]
  BY <1>1, ReservationEffect DEF ServiceInv
<1>3. txns'[u] = ReservedTxnRow(arg[s].command)
  <2>1. TxnOf(arg[s]) = u /\ arg[s] = ReserveOf(s)
    BY <1>1, AskedWhileBusy DEF ServiceInv, CommitsReservation
  <2>2. arg[s].command.transaction_id = u
    BY <2>1 DEF TxnOf, ReserveOf
  <2>3. DOMAIN txns = Txns
    BY DbFacts DEF ServiceInv, CoordTypes
  <2> QED
    BY <2>2, <2>3 DEF CommitsReservation, WriteReservation
<1>4. EntityOf(ReservedTxnRow(arg[s].command)) = NewEntity
  BY DEF EntityOf, ReservedTxnRow, NoTxnRow, NewEntity
<1> QED
  BY <1>2, <1>3, <1>4 DEF RowFollows

\* A completion stores what the service made of the entity that the reservation
\* stored.
LEMMA CompletionFollows ==
    ASSUME ServiceInv, Db!RowsPassChecks, NEW s \in Slots, CommitsCompletion(s), NEW t \in Txns
    PROVE  RowFollows(t)
<1>1. PICK u \in Txns : u = reply[s].command.transaction_id
  BY CompletionEffect DEF ServiceInv
<1>2. PICK k \in Keys : k = reply[s].key
  BY CompletionEffect DEF ServiceInv
<1>3. /\ records[k].processing_status = "IN_PROGRESS" /\ records[k].transaction_id = u
      /\ \A v \in Txns \ {u} : txns'[v] = txns[v]
  BY <1>1, <1>2, CompletionEffect DEF ServiceInv
<1>4. PICK r \in NetworkResults : arg[s].entity = Execute(r.kind) /\ arg[s].transaction_id = u
  BY <1>1, CompletingCall DEF ServiceInv, CommitsCompletion
<1>5. txns \in [Txns -> TxnRow]
  BY DbFacts DEF ServiceInv, CoordTypes
<1>6. TxnStored(u) /\ txns[u].status = "CREATED" /\ txns[u].version = 0
  <2>1. RecordFacts(k)
    BY <1>3, DbFacts DEF ServiceInv, TableFacts, KeyStored
  <2> QED
    BY <1>3, <2>1 DEF RecordFacts, ServiceInv, OwnerInv
<1>7. txns[u].pending_operation = NoOperation
  <2>1. Db!TransactionChecks(txns[u])
    BY <1>6 DEF Db!RowsPassChecks, TxnStored, Db!TxnStored
  <2> QED
    BY <1>6, <2>1 DEF Db!TransactionChecks, NoOperation, Db!NoOperation
<1>8. EntityOf(txns[u]) = NewEntity
  BY <1>6, <1>7 DEF EntityOf, NewEntity
<1>9. txns'[u] = CompletedTxnRow(txns[u], arg[s])
  BY <1>4, <1>5 DEF CommitsCompletion, WriteCompletion
<1>10. EntityOf(txns'[u]) = Execute(r.kind) /\ txns'[u].terms = txns[u].terms
  <2>1. PICK row \in TxnRow : row = txns[u]
    BY <1>5
  <2>2. Execute(r.kind) \in Entity
    BY ResultKinds, ExecuteEntity
  <2>3. PICK e \in Entity : e = arg[s].entity
    BY <1>4, <2>2
  <2>4. /\ CompletedTxnRow(row, arg[s]).status = e.status
        /\ CompletedTxnRow(row, arg[s]).version = e.version
        /\ CompletedTxnRow(row, arg[s]).pending_operation = e.pending_operation
        /\ CompletedTxnRow(row, arg[s]).terms = row.terms
    BY <2>3 DEF CompletedTxnRow, TxnRow
  <2>5. e = [status |-> e.status, version |-> e.version, pending_operation |-> e.pending_operation]
    BY DEF Entity
  <2> QED
    BY <1>4, <1>9, <2>1, <2>3, <2>4, <2>5 DEF EntityOf
<1> QED
  BY <1>3, <1>6, <1>8, <1>10, ExecuteFollows DEF RowFollows

\* Every transaction row in the database has the history of an entity: it is
\* inserted new and changes only by an operation that the entity's transition
\* tables allow, whatever handlers race, fail or crash.
THEOREM RowsAreEntities == Spec => RowsFollowLifecycle
<1>1. ASSUME ServiceInv, Db!RowsPassChecks, [Next]_vars
      PROVE  [\A t \in Txns : RowFollows(t)]_vars
  <2> SUFFICES ASSUME NEW t \in Txns PROVE RowFollows(t)
    OBVIOUS
  <2>1. CASE UNCHANGED <<txns, records>>
    BY <2>1 DEF RowFollows
  <2>2. CASE \E s \in Slots : CommitsReservation(s)
    BY <1>1, <2>2, ReservationIsNew
  <2>3. CASE \E s \in Slots : CommitsCompletion(s)
    BY <1>1, <2>3, CompletionFollows
  <2> QED
    BY <1>1, <2>1, <2>2, <2>3, TableWriters DEF ServiceInv
<1> QED
  BY <1>1, ServiceHolds, SafeInService, PTL DEF Spec, RowsFollowLifecycle
=============================================================================
