----------------------------- MODULE PlatformProofs -----------------------------
(***************************************************************************)
(* The transaction service uses the coordinator as CoordinatorClients      *)
(* allows, so the coordinator's theorems hold in it, and it calls the      *)
(* network at most once for a key and for a transaction: for every set of  *)
(* keys, transactions, tokens and handlers, any number of faults and any   *)
(* answers of the network.                                                 *)
(***************************************************************************)
EXTENDS Platform, TLAPS

\* The coordinator's theorems, read in the state of the service.
Db == INSTANCE CoordinatorProofs WITH CompleteCalls <- OrchestratorCalls

-----------------------------------------------------------------------------
(* The control of a handler: which call it has open at each of its states, *)
(* with which arguments, and what it may be told.                          *)

ReserveResults == {"ACQUIRED", "IN_PROGRESS", "COMPLETED", "IDEMPOTENCY_CONFLICT",
                   "TRANSACTION_ID_CONFLICT", "PersistenceError"}
CompleteResults == {"DONE", "OptimisticConcurrencyError", "PersistenceError"}

Asked(s) == reply[s].key \in Keys /\ reply[s].command \in Command

ReserveOf(s) == [op |-> "reserve", key |-> reply[s].key, command |-> reply[s].command]

IdleControl(s) == at[s] = "free" /\ wire[s] = NoExchange

ReservingControl(s) ==
    /\ Asked(s) /\ arg[s] = ReserveOf(s) /\ wire[s] = NoExchange
    /\ at[s] \in ReserveSteps \cup {"free"}
    /\ at[s] = "free" => ret[s].status \in ReserveResults
    /\ at[s] # "free" => ret[s].status = "none"

CallingControl(s) ==
    /\ Asked(s) /\ arg[s] = ReserveOf(s)
    /\ at[s] = "free" /\ ret[s].status = "ACQUIRED"
    /\ wire[s].phase \in {"request", "late", "response"} /\ wire[s].response \in HttpResponse

CompletingControl(s) ==
    /\ Asked(s) /\ wire[s] = NoExchange
    /\ \E r \in NetworkResults :
          arg[s] = CompletionOf(reply[s].key, reply[s].command.transaction_id, r)
    /\ at[s] \in CompleteSteps \cup {"free"}
    /\ at[s] = "free" => ret[s].status \in CompleteResults
    /\ at[s] # "free" => ret[s].status = "none"

SlotControl(s) ==
    /\ handler[s] = "idle" => IdleControl(s)
    /\ handler[s] = "reserving" => ReservingControl(s)
    /\ handler[s] = "calling" => CallingControl(s)
    /\ handler[s] = "completing" => CompletingControl(s)

Replies == [key : Keys \cup {None}, command : Command \cup {None}, envelope : Envelope]

ControlInv ==
    /\ Db!TypeOK
    /\ handler \in [Slots -> HandlerStates]
    /\ DOMAIN wire = Slots
    /\ reply \in [Slots -> Replies]
    /\ \A s \in Slots : SlotControl(s)

-----------------------------------------------------------------------------
(* The network's answers and the calls of complete.                        *)

\* The Retry-After value that leaves the adapter is between 1 and 60.
LEMMA RetryAfterClamped ==
    ASSUME NEW h \in RetryAfterHeader
    PROVE  ParseRetryAfter(h) \in 1..60
  BY DEF RetryAfterHeader, ParseRetryAfter, Larger, Smaller

\* The adapter makes a result of every response.
LEMMA HandleResponseType ==
    ASSUME NEW r \in HttpResponse
    PROVE  HandleResponse(r) \in NetworkResults
<1>1. r.status_code \in 100..599 /\ r.retry_after \in RetryAfterHeader
  BY DEF HttpResponse
<1>2. ParseRetryAfter(r.retry_after) \in 1..60
  BY <1>1, RetryAfterClamped
<1>3. {"Authorized", "AuthorizedOverlong", "Declined", "DeclinedOverlong", "Rejected", "Timeout",
       "InvalidResponse", "Unavailable"}
         = AuthorizedKinds \cup DeclinedKinds \cup {"Rejected"} \cup Ambiguous
  BY DEF AuthorizedKinds, DeclinedKinds, Ambiguous
<1>4. \/ HandleResponse(r) = NetworkResult("RateLimit", ParseRetryAfter(r.retry_after))
      \/ \E kind \in {"Authorized", "AuthorizedOverlong", "Declined", "DeclinedOverlong", "Rejected",
                      "Timeout", "InvalidResponse", "Unavailable"} : HandleResponse(r) = Outcome(kind)
  <2>1. CASE r.status_code = 200
    BY <2>1, SMTT(60) DEF HandleResponse, ContractPayloads
  <2>2. r.status_code = 429 =>
           HandleResponse(r) = NetworkResult("RateLimit", ParseRetryAfter(r.retry_after))
    BY SMTT(60) DEF HandleResponse
  <2>3. r.status_code = 408 => HandleResponse(r) = Outcome("Timeout")
    BY SMTT(60) DEF HandleResponse
  <2>4. r.status_code \in (400..499) \ {408, 429} => HandleResponse(r) = Outcome("Rejected")
    BY SMTT(60) DEF HandleResponse
  <2>5. r.status_code \notin {200} \cup (400..499) => HandleResponse(r) = Outcome("Unavailable")
    BY SMTT(60) DEF HandleResponse
  <2> QED
    BY <2>1, <2>2, <2>3, <2>4, <2>5
<1> QED
  BY <1>2, <1>3, <1>4 DEF NetworkResults

\* The kinds of results.
LEMMA ResultKinds ==
    ASSUME NEW r \in NetworkResults
    PROVE  /\ r.kind \in AuthorizedKinds \cup DeclinedKinds \cup {"Rejected", "RateLimit"} \cup Ambiguous
           /\ r.retry_after \in 1..60
  BY DEF NetworkResults, Outcome, NetworkResult

\* The transaction that execute() returns is a valid entity of version 1.
LEMMA ExecuteEntity ==
    ASSUME NEW kind \in AuthorizedKinds \cup DeclinedKinds \cup {"Rejected", "RateLimit"} \cup Ambiguous
    PROVE  /\ Execute(kind) \in Entity /\ ValidEntity(Execute(kind)) /\ Execute(kind).version = 1
           /\ Execute(kind).status =
                 CASE kind \in AuthorizedKinds -> "AUTHORIZED"
                   [] kind \in DeclinedKinds -> "DECLINED"
                   [] kind \in Ambiguous -> "PENDING_RECONCILIATION"
                   [] kind \in {"RateLimit", "Rejected"} -> "FAILED"
<1>0. PICK old \in Entity : old = NewEntity
  BY DEF NewEntity, Entity, TransactionStatus
<1>1. ASSUME NEW status \in TransactionStatus, NEW e, e = TransitionTo(NewEntity, status)
      PROVE  e = [status |-> status, version |-> 1, pending_operation |-> NoOperation]
  <2>1. e = [status |-> status, version |-> old.version + 1,
             pending_operation |-> old.pending_operation]
    BY <1>0, <1>1 DEF TransitionTo, Entity
  <2> QED
    BY <1>0, <2>1 DEF NewEntity
<1>2. ASSUME NEW e, e = MarkPendingReconciliation(NewEntity, "AUTHORIZATION")
      PROVE  e = [status |-> "PENDING_RECONCILIATION", version |-> 1,
                  pending_operation |-> "AUTHORIZATION"]
  <2>1. e = [status |-> "PENDING_RECONCILIATION", version |-> old.version + 1,
             pending_operation |-> "AUTHORIZATION"]
    BY <1>0, <1>2 DEF MarkPendingReconciliation, Entity
  <2> QED
    BY <1>0, <2>1 DEF NewEntity
<1>3. CASE kind \in AuthorizedKinds
  <2>1. Execute(kind) = TransitionTo(NewEntity, "AUTHORIZED")
    BY <1>3 DEF Execute, AuthorizedKinds, DeclinedKinds, Ambiguous
  <2> QED
    BY <1>1, <1>3, <2>1
    DEF Entity, ValidEntity, TransactionStatus, AuthorizedKinds, DeclinedKinds, Ambiguous
<1>4. CASE kind \in DeclinedKinds
  <2>1. Execute(kind) = TransitionTo(NewEntity, "DECLINED")
    BY <1>4 DEF Execute, AuthorizedKinds, DeclinedKinds, Ambiguous
  <2> QED
    BY <1>1, <1>4, <2>1
    DEF Entity, ValidEntity, TransactionStatus, AuthorizedKinds, DeclinedKinds, Ambiguous
<1>5. CASE kind \in Ambiguous
  <2>1. Execute(kind) = MarkPendingReconciliation(NewEntity, "AUTHORIZATION")
    BY <1>5 DEF Execute, AuthorizedKinds, DeclinedKinds, Ambiguous
  <2> QED
    BY <1>2, <1>5, <2>1
    DEF Entity, ValidEntity, TransactionStatus, PendingOperation, NoOperation, AuthorizedKinds,
        DeclinedKinds, Ambiguous
<1>6. CASE kind \in {"RateLimit", "Rejected"}
  <2>1. Execute(kind) = TransitionTo(NewEntity, "FAILED")
    BY <1>6 DEF Execute, AuthorizedKinds, DeclinedKinds, Ambiguous
  <2> QED
    BY <1>1, <1>6, <2>1
    DEF Entity, ValidEntity, TransactionStatus, AuthorizedKinds, DeclinedKinds, Ambiguous
<1> QED
  BY <1>3, <1>4, <1>5, <1>6

\* The envelope of an outcome.  A replay rebuilds it from what is stored: the
\* status code determines the media type, and the allowlist keeps its headers.
LEMMA OutcomeEnvelopeType ==
    ASSUME NEW t \in Txns, NEW r \in NetworkResults
    PROVE  LET e == OutcomeEnvelope(t, r)
           IN  /\ e \in Envelope
               /\ e.status_code \in {201, 202, 502, 503}
               /\ e.headers \in StoredHeaders
               /\ AllowlistedHeaders(e.headers) = e.headers
               /\ e.media_type = ReplayMediaType(e.status_code)
               /\ e.is_replay = FALSE
               /\ e.body.document \in Outcomes
<1> DEFINE e == OutcomeEnvelope(t, r)
<1>1. CASE r.kind = "RateLimit"
  <2>1. e = [status_code |-> 503,
             body |-> [document |-> "provider-rate-limited", transaction_id |-> None, version |-> 0],
             headers |-> {<<"Retry-After", r.retry_after>>},
             media_type |-> "application/problem+json", is_replay |-> FALSE]
    BY <1>1 DEF OutcomeEnvelope, ProblemEnvelope
  <2>2. {<<"Retry-After", r.retry_after>>} \in StoredHeaders
    BY ResultKinds DEF StoredHeaders
  <2>3. {<<"Retry-After", r.retry_after>>} \in Headers
    BY ResultKinds DEF Headers, HeaderNames
  <2>4. [document |-> "provider-rate-limited", transaction_id |-> None, version |-> 0] \in Body
    BY DEF Body, Documents
  <2>5. AllowlistedHeaders({<<"Retry-After", r.retry_after>>}) = {<<"Retry-After", r.retry_after>>}
    BY DEF AllowlistedHeaders
  <2> QED
    BY <2>1, <2>2, <2>3, <2>4, <2>5 DEF Envelope, MediaTypes, ReplayMediaType, Outcomes
<1>2. CASE r.kind = "Rejected"
  <2>1. e = [status_code |-> 502,
             body |-> [document |-> "downstream-rejected", transaction_id |-> None, version |-> 0],
             headers |-> {}, media_type |-> "application/problem+json", is_replay |-> FALSE]
    BY <1>2 DEF OutcomeEnvelope, ProblemEnvelope
  <2>2. {} \in StoredHeaders /\ {} \in Headers /\ AllowlistedHeaders({}) = {}
    BY DEF StoredHeaders, Headers, AllowlistedHeaders
  <2>3. [document |-> "downstream-rejected", transaction_id |-> None, version |-> 0] \in Body
    BY DEF Body, Documents
  <2> QED
    BY <2>1, <2>2, <2>3 DEF Envelope, MediaTypes, ReplayMediaType, Outcomes
<1>3. CASE r.kind \notin {"RateLimit", "Rejected"}
  <2>1. /\ Execute(r.kind).version = 1
        /\ Execute(r.kind).status \in {"AUTHORIZED", "DECLINED", "PENDING_RECONCILIATION"}
    BY <1>3, ResultKinds, ExecuteEntity DEF AuthorizedKinds, DeclinedKinds, Ambiguous
  <2>2. e = ResultEnvelope(t, Execute(r.kind))
    BY <1>3 DEF OutcomeEnvelope
  <2>3. PICK code \in {201, 202}, document \in {"AUTHORIZED", "DECLINED", "PENDING_RECONCILIATION"} :
           e = [status_code |-> code,
                body |-> [document |-> document, transaction_id |-> t, version |-> 1],
                headers |-> {}, media_type |-> "application/json", is_replay |-> FALSE]
    <3>1. CASE Execute(r.kind).status \in {"AUTHORIZED", "DECLINED"}
      BY <2>1, <2>2, <3>1 DEF ResultEnvelope
    <3>2. CASE Execute(r.kind).status = "PENDING_RECONCILIATION"
      BY <2>1, <2>2, <3>2 DEF ResultEnvelope
    <3> QED
      BY <2>1, <3>1, <3>2
  <2>4. {} \in StoredHeaders /\ {} \in Headers /\ AllowlistedHeaders({}) = {}
    BY DEF StoredHeaders, Headers, AllowlistedHeaders
  <2>5. [document |-> document, transaction_id |-> t, version |-> 1] \in Body
    BY DEF Body, Documents
  <2> QED
    BY <2>3, <2>4, <2>5 DEF Envelope, MediaTypes, ReplayMediaType, Outcomes
<1> QED
  BY <1>1, <1>2, <1>3

\* The orchestrator calls complete with arguments of the port's types, with a
\* valid entity and with the version that follows the one it expects.
LEMMA CompletionArgument ==
    ASSUME NEW k \in Keys, NEW t \in Txns, NEW r \in NetworkResults
    PROVE  LET a == CompletionOf(k, t, r)
           IN  /\ a \in CompleteArg /\ ValidEntity(a.entity) /\ a \in OrchestratorCalls
               /\ a.op = "complete" /\ a.key = k /\ a.transaction_id = t
               /\ a.entity = Execute(r.kind) /\ a.entity.version = 1 /\ a.expected_version = 0
               /\ a.envelope = OutcomeEnvelope(t, r)
               /\ a.fits = (r.kind \notin OverlongKinds)
<1> DEFINE a == CompletionOf(k, t, r)
<1>1. Execute(r.kind) \in Entity /\ ValidEntity(Execute(r.kind)) /\ Execute(r.kind).version = 1
  BY ResultKinds, ExecuteEntity
<1>2. OutcomeEnvelope(t, r) \in Envelope
  BY OutcomeEnvelopeType, ZenonT(60)
<1>3. /\ (IF r.kind \in AuthorizedKinds THEN t ELSE None) \in Txns \cup {None}
      /\ (IF r.kind \in DeclinedKinds THEN "INSUFFICIENT_FUNDS" ELSE None) \in {"INSUFFICIENT_FUNDS", None}
      /\ (r.kind \notin OverlongKinds) \in BOOLEAN
  OBVIOUS
<1>4. a \in CompleteArg
  BY <1>1, <1>2, <1>3 DEF CompletionOf, CompleteArg
<1>5. a \in OrchestratorCalls
  BY DEF OrchestratorCalls
<1> QED
  BY <1>1, <1>4, <1>5 DEF CompletionOf

-----------------------------------------------------------------------------
(* The service uses the coordinator as any of its callers.                 *)

\* The initial states are the coordinator's.
LEMMA InitRefines == Init => Clients!CoordInit
  BY DEF Init, CoordInit, Clients!CoordInit, NoTxnRow, Clients!NoTxnRow, NoIdemRow,
         Clients!NoIdemRow, NoArg, Clients!NoArg, Return, Clients!Return, NoEnvelope,
         Clients!NoEnvelope, ProblemEnvelope, Clients!ProblemEnvelope, NoOperation,
         Clients!NoOperation

\* A statement is a statement.
LEMMA StatementRefines ==
    ASSUME NEW s \in Slots, Statement(s)
    PROVE  \/ Clients!SelectKey(s) \/ Clients!InsertTransaction(s) \/ Clients!InsertRecord(s)
           \/ Clients!CommitReserve(s) \/ Clients!Requery(s) \/ Clients!RequeryTransaction(s)
           \/ Clients!UpdateTransaction(s) \/ Clients!UpdateRecord(s) \/ Clients!CommitComplete(s)
  BY DEF Statement,
         SelectKey, Clients!SelectKey, InsertTransaction, Clients!InsertTransaction,
      InsertRecord, Clients!InsertRecord, ReservedTxnRow, Clients!ReservedTxnRow,
      ReservedRecord, Clients!ReservedRecord, WriteReservation, Clients!WriteReservation,
      CommitReserve, Clients!CommitReserve, ExistingReservation,
      Clients!ExistingReservation, Requery, Clients!Requery, RequeryTransaction,
      Clients!RequeryTransaction, VersionMatches, Clients!VersionMatches, UpdateTransaction,
      Clients!UpdateTransaction, RecordMatches, Clients!RecordMatches, UpdateRecord,
      Clients!UpdateRecord, CompletedTxnRow, Clients!CompletedTxnRow, CompletedRecord,
      Clients!CompletedRecord, WriteCompletion, Clients!WriteCompletion, CommitComplete,
      Clients!CommitComplete, RequestFingerprint, Clients!RequestFingerprint,
      ProblemEnvelope, Clients!ProblemEnvelope, AllowlistedHeaders,
      Clients!AllowlistedHeaders, ReplayMediaType, Clients!ReplayMediaType, NoTxnRow,
      Clients!NoTxnRow, NoIdemRow, Clients!NoIdemRow, ReplayEnvelope,
      Clients!ReplayEnvelope, ClassifyExisting, Clients!ClassifyExisting, NoEnvelope,
      Clients!NoEnvelope, Return, Clients!Return, TxnOf, Clients!TxnOf, TxnStored,
      Clients!TxnStored, KeyStored, Clients!KeyStored, TxnRowHolders, Clients!TxnRowHolders,
      KeyHolders, Clients!KeyHolders, TxnUpdaters, Clients!TxnUpdaters, GoTo, Clients!GoTo,
      Finish, Clients!Finish, NoOperation, Clients!NoOperation, Storable, Clients!Storable

\* A fault is a fault.
LEMMA FaultRefines ==
    ASSUME NEW s \in Slots, DatabaseFault(s)
    PROVE  Clients!SqlFailure(s) \/ Clients!ReserveAckLost(s) \/ Clients!CompleteAckLost(s)
  BY DEF DatabaseFault,
         Fault, Clients!Fault, SqlFailure, Clients!SqlFailure, ReserveAckLost,
      Clients!ReserveAckLost, CompleteAckLost, Clients!CompleteAckLost, WriteReservation,
      Clients!WriteReservation, WriteCompletion, Clients!WriteCompletion, ReservedTxnRow,
      Clients!ReservedTxnRow, ReservedRecord, Clients!ReservedRecord, CompletedTxnRow,
      Clients!CompletedTxnRow, CompletedRecord, Clients!CompletedRecord, AllowlistedHeaders,
      Clients!AllowlistedHeaders, RequestFingerprint, Clients!RequestFingerprint, NoTxnRow,
      Clients!NoTxnRow, NoIdemRow, Clients!NoIdemRow, NoOperation, Clients!NoOperation,
      Finish, Clients!Finish, Return, Clients!Return, NoEnvelope, Clients!NoEnvelope,
      ProblemEnvelope, Clients!ProblemEnvelope, dbVars, Clients!dbVars

\* A handler that calls complete does so with one of the orchestrator's calls.
LEMMA ConcludeCall ==
    ASSUME NEW s \in Slots, CallingControl(s), NEW result \in NetworkResults, Conclude(s, result)
    PROVE  LET a == CompletionOf(reply[s].key, reply[s].command.transaction_id, result)
           IN  CallComplete(s, a) /\ a \in OrchestratorCalls /\ Begin(s, "updateTxn", a)
<1> DEFINE a == CompletionOf(reply[s].key, reply[s].command.transaction_id, result)
<1>1. /\ reply[s].key \in Keys /\ reply[s].command.transaction_id \in Txns
      /\ arg[s].key = reply[s].key /\ TxnOf(arg[s]) = reply[s].command.transaction_id
  BY DEF CallingControl, Asked, ReserveOf, TxnOf, Command
<1>2. CallComplete(s, a)
  BY <1>1 DEF Conclude
<1>3. a \in OrchestratorCalls /\ a.entity.version = 1 /\ a.expected_version = 0
  BY <1>1, CompletionArgument
<1> HIDE DEF a
<1>4. Begin(s, "updateTxn", a)
  BY <1>2, <1>3 DEF CallComplete
<1> QED
  BY <1>2, <1>3, <1>4 DEF a

\* What a handler that waits for the network concludes is a result.
LEMMA ConcludedResult ==
    ASSUME NEW s \in Slots, SlotControl(s), Receive(s) \/ Timeout(s) \/ TransportFailure(s)
    PROVE  /\ handler[s] = "calling" /\ CallingControl(s)
           /\ \E result \in NetworkResults : Conclude(s, result)
<1>1. handler[s] = "calling" /\ CallingControl(s)
  BY DEF Receive, Timeout, TransportFailure, SlotControl
<1>2. CASE Receive(s)
  BY <1>1, <1>2, HandleResponseType DEF Receive, CallingControl
<1>3. Outcome("Timeout") \in NetworkResults /\ Outcome("Unavailable") \in NetworkResults
  BY DEF NetworkResults, Ambiguous
<1> QED
  BY <1>1, <1>2, <1>3 DEF Timeout, TransportFailure

\* Every step of the service is a step of the coordinator or leaves it alone.
LEMMA StepRefines ==
    ASSUME ControlInv, [Next]_vars
    PROVE  [Clients!Next]_(Clients!coordVars)
<1>1. CASE UNCHANGED vars
  BY <1>1 DEF vars, Clients!coordVars
<1>2. ASSUME NEW s \in Slots, NEW k \in Keys, NEW c \in Command, Submit(s, k, c)
      PROVE  Clients!Next
  <2>1. Clients!CallReserve(s, k, c)
    BY <1>2 DEF Submit, CallReserve, Clients!CallReserve, Begin, Clients!Begin, Return, Clients!Return,
                NoEnvelope, Clients!NoEnvelope, ProblemEnvelope, Clients!ProblemEnvelope
  <2>2. c \in Clients!Command
    BY DEF Command, Clients!Command
  <2> QED
    BY <2>1, <2>2 DEF Clients!Next
<1>3. ASSUME NEW s \in Slots,
             \/ NotAcquired(s) \/ Post(s) \/ PostFails(s) \/ Unhandled(s) \/ Completed(s) \/ Handle(s)
             \/ HandleGarbled(s) \/ GatewayFails(s) \/ GatewayRejects(s)
      PROVE  UNCHANGED Clients!coordVars
  BY <1>3 DEF NotAcquired, Post, PostFails, Unhandled, Completed, Handle, HandleGarbled, GatewayFails,
              GatewayRejects, coordVars, Clients!coordVars
<1>4. ASSUME NEW c \in stray, HandleStray(c)
      PROVE  UNCHANGED Clients!coordVars
  BY <1>4 DEF HandleStray, coordVars, Clients!coordVars
<1>5. ASSUME NEW s \in Slots, Receive(s) \/ Timeout(s) \/ TransportFailure(s)
      PROVE  Clients!Next
  <2>1. CallingControl(s)
    BY <1>5, ConcludedResult DEF ControlInv
  <2>2. PICK result \in NetworkResults : Conclude(s, result)
    BY <1>5, ConcludedResult DEF ControlInv
  <2>3. PICK a \in OrchestratorCalls : CallComplete(s, a)
    BY <2>1, <2>2, ConcludeCall
  <2>4. Clients!CallComplete(s, a)
    BY <2>3 DEF CallComplete, Clients!CallComplete, Begin, Clients!Begin, Return, Clients!Return,
                NoEnvelope, Clients!NoEnvelope, ProblemEnvelope, Clients!ProblemEnvelope
  <2> QED
    BY <2>4 DEF Clients!Next
<1>6. ASSUME NEW s \in Slots, Sql(s)
      PROVE  Clients!Next
  BY <1>6, StatementRefines DEF Sql, Clients!Next
<1>7. ASSUME NEW s \in Slots, DatabaseFails(s)
      PROVE  Clients!Next
  BY <1>7, FaultRefines DEF DatabaseFails, Clients!Next
<1>8. ASSUME NEW s \in Slots, Crash(s)
      PROVE  Clients!Next
  <2>1. Clients!Fault /\ Clients!Abandon(s)
    BY <1>8, SMTT(60) DEF Crash, Fault, Clients!Fault, Abandon, Clients!Abandon, NoArg, Clients!NoArg,
                Return, Clients!Return, NoEnvelope, Clients!NoEnvelope, ProblemEnvelope,
                Clients!ProblemEnvelope, dbVars, Clients!dbVars
  <2> QED
    BY <2>1 DEF Clients!Next
<1> QED
  BY <1>1, <1>2, <1>3, <1>4, <1>5, <1>6, <1>7, <1>8 DEF Next

\* The two instances of the coordinator are one.
LEMMA SameStep == [Clients!Next]_(Clients!coordVars) => [Db!Next]_(Db!coordVars)
  BY DEF Clients!Next, Db!Next,
      Clients!CallReserve, Db!CallReserve, Clients!CallComplete, Db!CallComplete,
      Clients!Abandon, Db!Abandon, Clients!Command, Db!Command, Clients!SelectKey,
      Db!SelectKey, Clients!InsertTransaction, Db!InsertTransaction, Clients!InsertRecord,
      Db!InsertRecord, Clients!ReservedTxnRow, Db!ReservedTxnRow, Clients!ReservedRecord,
      Db!ReservedRecord, Clients!WriteReservation, Db!WriteReservation,
      Clients!CommitReserve, Db!CommitReserve, Clients!ExistingReservation,
      Db!ExistingReservation, Clients!Requery, Db!Requery, Clients!RequeryTransaction,
      Db!RequeryTransaction, Clients!VersionMatches, Db!VersionMatches,
      Clients!UpdateTransaction, Db!UpdateTransaction, Clients!RecordMatches,
      Db!RecordMatches, Clients!UpdateRecord, Db!UpdateRecord, Clients!CompletedTxnRow,
      Db!CompletedTxnRow, Clients!CompletedRecord, Db!CompletedRecord,
      Clients!WriteCompletion, Db!WriteCompletion, Clients!CommitComplete,
      Db!CommitComplete, Clients!Fault, Db!Fault, Clients!SqlFailure, Db!SqlFailure,
      Clients!ReserveAckLost, Db!ReserveAckLost, Clients!CompleteAckLost,
      Db!CompleteAckLost, Clients!coordVars, Db!coordVars, Clients!dbVars, Db!dbVars,
      Clients!RequestFingerprint, Db!RequestFingerprint, Clients!ProblemEnvelope,
      Db!ProblemEnvelope, Clients!AllowlistedHeaders, Db!AllowlistedHeaders,
      Clients!ReplayMediaType, Db!ReplayMediaType, Clients!NoTxnRow, Db!NoTxnRow,
      Clients!NoIdemRow, Db!NoIdemRow, Clients!ReplayEnvelope, Db!ReplayEnvelope,
      Clients!ClassifyExisting, Db!ClassifyExisting, Clients!NoArg, Db!NoArg,
      Clients!NoEnvelope, Db!NoEnvelope, Clients!Return, Db!Return, Clients!TxnOf, Db!TxnOf,
      Clients!TxnStored, Db!TxnStored, Clients!KeyStored, Db!KeyStored,
      Clients!TxnRowHolders, Db!TxnRowHolders, Clients!KeyHolders, Db!KeyHolders,
      Clients!TxnUpdaters, Db!TxnUpdaters, Clients!GoTo, Db!GoTo, Clients!Finish, Db!Finish,
      Clients!Begin, Db!Begin, Clients!NoOperation, Db!NoOperation, Clients!Storable, Db!Storable

\* The two instances begin in the same states.
LEMMA SameInit == Clients!CoordInit => Db!CoordInit
  BY DEF Clients!CoordInit, Db!CoordInit, Clients!NoTxnRow, Db!NoTxnRow, Clients!NoIdemRow,
         Db!NoIdemRow, Clients!NoArg, Db!NoArg, Clients!Return, Db!Return, Clients!NoEnvelope,
         Db!NoEnvelope, Clients!ProblemEnvelope, Db!ProblemEnvelope, Clients!NoOperation,
         Db!NoOperation

\* The types of the two copies of the coordinator's data are the same.
LEMMA SameTypes ==
    /\ Command = Db!Command /\ Body = Db!Body /\ Envelope = Db!Envelope
    /\ Entity = Db!Entity /\ ReserveArg = Db!ReserveArg /\ CompleteArg = Db!CompleteArg
    /\ TxnRow = Db!TxnRow /\ IdemRow = Db!IdemRow /\ NoArg = Db!NoArg
<1>1. Command = Db!Command /\ Body = Db!Body /\ Envelope = Db!Envelope
  BY DEF Command, Db!Command, Body, Db!Body, Envelope, Db!Envelope, Documents, Db!Documents,
         Headers, Db!Headers, HeaderNames, Db!HeaderNames, MediaTypes, Db!MediaTypes
<1>2. Entity = Db!Entity
  BY DEF Entity, Db!Entity, TransactionStatus, Db!TransactionStatus, PendingOperation,
         Db!PendingOperation, NoOperation, Db!NoOperation
<1>3. CompleteArg = Db!CompleteArg
  BY <1>1, <1>2 DEF CompleteArg, Db!CompleteArg
<1>4. ReserveArg = Db!ReserveArg
  BY <1>1 DEF ReserveArg, Db!ReserveArg
<1>5. TxnRow = Db!TxnRow
  BY DEF TxnRow, Db!TxnRow, TransactionStatus, Db!TransactionStatus, PendingOperation,
         Db!PendingOperation, NoOperation, Db!NoOperation
<1>6. IdemRow = Db!IdemRow
  BY <1>1 DEF IdemRow, Db!IdemRow, Fingerprint, Db!Fingerprint, StoredHeaders, Db!StoredHeaders
<1>7. NoArg = Db!NoArg
  BY DEF NoArg, Db!NoArg
<1> QED
  BY <1>1, <1>2, <1>3, <1>4, <1>5, <1>6, <1>7

\* The assumptions of the coordinator's theorems hold for the orchestrator.
LEMMA DbAssumptions ==
    /\ None \notin Keys /\ None \notin Txns /\ None \notin Db!Command
       /\ None \notin Db!Body /\ None \notin Db!Envelope
    /\ MaxFaults \in Nat /\ Unstorable \subseteq Txns \cup Terms
    /\ OrchestratorCalls \subseteq {a \in Db!CompleteArg : Db!ValidEntity(a.entity)}
<1>1. \A e : ValidEntity(e) <=> Db!ValidEntity(e)
  BY DEF ValidEntity, Db!ValidEntity, NoOperation, Db!NoOperation
<1>2. ASSUME NEW a \in OrchestratorCalls
      PROVE  a \in Db!CompleteArg /\ Db!ValidEntity(a.entity)
  <2>1. PICK k \in Keys, t \in Txns, r \in NetworkResults : a = CompletionOf(k, t, r)
    BY DEF OrchestratorCalls
  <2> QED
    BY <1>1, <2>1, CompletionArgument, SameTypes
<1> QED
  BY <1>2, SameTypes, NoneAssumption, MaxFaultsAssumption, UnstorableAssumption

-----------------------------------------------------------------------------
(* Control.  A database call moves its own slot only, and ends with one of *)
(* the results of its operation.                                           *)

CoordTypes ==
    /\ txns \in [Txns -> TxnRow]
    /\ records \in [Keys -> IdemRow]
    /\ at \in [Slots -> Steps]
    /\ arg \in [Slots -> ReserveArg \cup CompleteArg \cup {NoArg}]
    /\ ret \in [Slots -> [status : Results, envelope : Envelope]]
    /\ faults \in 0..MaxFaults

\* The coordinator's types, in the words of this module.
LEMMA DbTypes == Db!TypeOK => CoordTypes
<1>1. Steps = Db!Steps /\ Results = Db!Results
  BY DEF Steps, Db!Steps, ReserveSteps, Db!ReserveSteps, CompleteSteps, Db!CompleteSteps,
         Results, Db!Results
<1> QED
  BY <1>1, SameTypes
  DEF CoordTypes, Db!TypeOK, Db!TablesTypeOK, Db!CallsTypeOK, Db!Returned

\* What slot s of a database call may do in one step.
Moves(s) ==
    /\ arg' = arg
    /\ \A r \in Slots \ {s} : at'[r] = at[r] /\ ret'[r] = ret[r]
    /\ at'[s] # "free" => ret'[s] = ret[s]
    /\ at[s] \in ReserveSteps =>
          /\ at'[s] \in ReserveSteps \cup {"free"}
          /\ at'[s] = "free" => ret'[s].status \in ReserveResults
    /\ at[s] \in CompleteSteps =>
          /\ at'[s] \in CompleteSteps \cup {"free"}
          /\ at'[s] = "free" => ret'[s].status \in CompleteResults

\* A reservation that a SELECT found is a result of reserve.
LEMMA ExistingStatus ==
    ASSUME CoordTypes, NEW k \in Keys, KeyStored(k), NEW c
    PROVE  ExistingReservation(records[k], c).status \in
              {"IDEMPOTENCY_CONFLICT", "IN_PROGRESS", "COMPLETED"}
<1>1. records[k].processing_status \in {"IN_PROGRESS", "COMPLETED"}
  BY DEF CoordTypes, IdemRow, KeyStored
<1> QED
  BY <1>1 DEF ExistingReservation, ClassifyExisting, Return

\* A statement moves its slot only, to a statement or a result of its operation.
LEMMA StatementMoves ==
    ASSUME CoordTypes, NEW s \in Slots, Statement(s),
           at[s] \in ReserveSteps => arg[s].key \in Keys
    PROVE  at[s] \in ReserveSteps \cup CompleteSteps /\ Moves(s)
<1>1. DOMAIN at = Slots /\ DOMAIN ret = Slots
  BY DEF CoordTypes
<1>2. \A status : Return(status).status = status
  BY DEF Return
<1>3. CASE SelectKey(s) \/ Requery(s)
  <2>1. at[s] \in {"select", "requery"}
    BY <1>3 DEF SelectKey, Requery
  <2>2. CASE KeyStored(arg[s].key)
    <3>1. Finish(s, ExistingReservation(records[arg[s].key], arg[s].command))
      BY <1>3, <2>2 DEF SelectKey, Requery
    <3>2. ExistingReservation(records[arg[s].key], arg[s].command).status \in ReserveResults
      BY <2>1, <2>2, ExistingStatus DEF ReserveSteps, ReserveResults
    <3> QED
      BY <1>1, <2>1, <3>1, <3>2 DEF Finish, Moves, ReserveSteps, CompleteSteps
  <2>3. CASE ~KeyStored(arg[s].key)
    <3>1. GoTo(s, "insertTxn") \/ GoTo(s, "requeryTxn")
      BY <1>3, <2>3 DEF SelectKey, Requery
    <3> QED
      BY <1>1, <2>1, <3>1 DEF GoTo, Moves, ReserveSteps, CompleteSteps
  <2> QED
    BY <2>2, <2>3
<1>4. CASE InsertTransaction(s) \/ InsertRecord(s)
  <2>1. at[s] \in {"insertTxn", "insertRecord"}
    BY <1>4 DEF InsertTransaction, InsertRecord
  <2>2. \/ GoTo(s, "requery") \/ GoTo(s, "insertRecord") \/ GoTo(s, "commitReserve")
        \/ Finish(s, Return("PersistenceError"))
    BY <1>4 DEF InsertTransaction, InsertRecord
  <2>3. CASE Finish(s, Return("PersistenceError"))
    BY <1>1, <1>2, <2>1, <2>3 DEF Finish, Moves, ReserveSteps, CompleteSteps, ReserveResults
  <2>4. CASE GoTo(s, "requery") \/ GoTo(s, "insertRecord") \/ GoTo(s, "commitReserve")
    BY <1>1, <2>1, <2>4 DEF GoTo, Moves, ReserveSteps, CompleteSteps
  <2> QED
    BY <2>2, <2>3, <2>4
<1>5. CASE CommitReserve(s) \/ RequeryTransaction(s)
  <2>1. at[s] \in {"commitReserve", "requeryTxn"}
    BY <1>5 DEF CommitReserve, RequeryTransaction
  <2>2. PICK status \in {"ACQUIRED", "TRANSACTION_ID_CONFLICT", "PersistenceError"} :
           Finish(s, Return(status))
    BY <1>5 DEF CommitReserve, RequeryTransaction
  <2> QED
    BY <1>1, <1>2, <2>1, <2>2 DEF Finish, Moves, ReserveSteps, CompleteSteps, ReserveResults
<1>6. CASE UpdateTransaction(s) \/ UpdateRecord(s) \/ CommitComplete(s)
  <2>1. at[s] \in {"updateTxn", "updateRecord", "commitComplete"}
    BY <1>6 DEF UpdateTransaction, UpdateRecord, CommitComplete
  <2>2. \/ GoTo(s, "updateRecord") \/ GoTo(s, "commitComplete")
        \/ \E status \in CompleteResults : Finish(s, Return(status))
    BY <1>6 DEF UpdateTransaction, UpdateRecord, CommitComplete, CompleteResults
  <2>3. CASE GoTo(s, "updateRecord") \/ GoTo(s, "commitComplete")
    BY <1>1, <2>1, <2>3 DEF GoTo, Moves, ReserveSteps, CompleteSteps
  <2>4. ASSUME NEW status \in CompleteResults, Finish(s, Return(status))
        PROVE  at[s] \in ReserveSteps \cup CompleteSteps /\ Moves(s)
    BY <1>1, <1>2, <2>1, <2>4 DEF Finish, Moves, ReserveSteps, CompleteSteps
  <2> QED
    BY <2>2, <2>3, <2>4
<1> QED
  BY <1>3, <1>4, <1>5, <1>6 DEF Statement

\* So does a fault.
LEMMA FaultMoves ==
    ASSUME CoordTypes, NEW s \in Slots, DatabaseFault(s)
    PROVE  /\ at[s] \in ReserveSteps \cup CompleteSteps /\ Moves(s)
           /\ at'[s] = "free" /\ ret'[s] = Return("PersistenceError")
<1>1. DOMAIN at = Slots /\ DOMAIN ret = Slots /\ at[s] \in Steps
  BY DEF CoordTypes
<1>2. Return("PersistenceError").status = "PersistenceError"
  BY DEF Return
<1>3. at[s] # "free" /\ Finish(s, Return("PersistenceError"))
  BY DEF DatabaseFault, SqlFailure, ReserveAckLost, CompleteAckLost
<1>4. at[s] \in ReserveSteps \cup CompleteSteps
  BY <1>1, <1>3 DEF Steps
<1> QED
  BY <1>1, <1>2, <1>3, <1>4 DEF Finish, Moves, ReserveResults, CompleteResults

\* A slot that nothing touches keeps its control.
LEMMA ControlStays ==
    ASSUME NEW s \in Slots, SlotControl(s), handler'[s] = handler[s], at'[s] = at[s],
           arg'[s] = arg[s], ret'[s] = ret[s], wire'[s] = wire[s],
           reply'[s].key = reply[s].key, reply'[s].command = reply[s].command
    PROVE  SlotControl(s)'
  BY DEF SlotControl, IdleControl, ReservingControl, CallingControl, CompletingControl, Asked,
         ReserveOf

\* A database step of the slot keeps its control.
LEMMA ControlMoves ==
    ASSUME NEW s \in Slots, SlotControl(s), handler[s] \in HandlerStates, Moves(s),
           at[s] \in ReserveSteps \cup CompleteSteps,
           handler' = handler, wire' = wire, reply' = reply
    PROVE  SlotControl(s)'
<1>1. at[s] # "free"
  BY DEF ReserveSteps, CompleteSteps
<1>2. handler[s] \in {"reserving", "completing"}
  BY <1>1 DEF SlotControl, IdleControl, CallingControl, HandlerStates
<1>3. CASE handler[s] = "reserving"
  <2>1. ReservingControl(s) /\ at[s] \in ReserveSteps
    BY <1>1, <1>3 DEF SlotControl, ReservingControl
  <2> QED
    BY <1>1, <1>3, <2>1 DEF SlotControl, ReservingControl, Moves, Asked, ReserveOf
<1>4. CASE handler[s] = "completing"
  <2>1. CompletingControl(s) /\ at[s] \in CompleteSteps
    BY <1>1, <1>4 DEF SlotControl, CompletingControl
  <2> QED
    BY <1>1, <1>4, <2>1 DEF SlotControl, CompletingControl, Moves, Asked
<1> QED
  BY <1>2, <1>3, <1>4

\* What the emulator answers is an HTTP response.
LEMMA ScenarioType ==
    ASSUME NEW token
    PROVE  /\ ScenarioResponse(token) \in HttpResponse
           /\ ScenarioResponse(token).status_code \in {200, 422, 429}
           /\ ScenarioResponse(token).status_code = 200 \/ ScenarioResponse(token).payload = "problem"
           /\ ScenarioResponse(token).payload \in {"AUTHORIZED", "DECLINED", "unparseable", "problem"}
<1>0. NoRetryAfter \in RetryAfterHeader
  BY DEF NoRetryAfter, RetryAfterHeader
<1>1. ASSUME NEW code \in {200, 422}, NEW payload \in {"AUTHORIZED", "DECLINED", "unparseable", "problem"}
      PROVE  /\ Response(code, payload) \in HttpResponse
             /\ Response(code, payload).status_code = code
             /\ Response(code, payload).payload = payload
  BY <1>0 DEF Response, HttpResponse, Payloads
<1>2. CASE token \in {"tok_test_approved", "tok_test_timeout"}
  <2>1. ScenarioResponse(token) = Response(200, "AUTHORIZED")
    BY <1>2 DEF ScenarioResponse, SupportedTokens
  <2> QED
    BY <1>1, <2>1
<1>3. CASE token = "tok_test_declined"
  <2>1. ScenarioResponse(token) = Response(200, "DECLINED")
    BY <1>3 DEF ScenarioResponse, SupportedTokens
  <2> QED
    BY <1>1, <2>1
<1>4. CASE token = "tok_test_malformed"
  <2>1. ScenarioResponse(token) = Response(200, "unparseable")
    BY <1>4 DEF ScenarioResponse, SupportedTokens
  <2> QED
    BY <1>1, <2>1
<1>5. CASE token = "tok_test_rate_limited"
  <2>1. ScenarioResponse(token) = [status_code |-> 429, payload |-> "problem", retry_after |-> RetryAfter(1)]
    BY <1>5 DEF ScenarioResponse, SupportedTokens, Response
  <2>2. RetryAfter(1) \in RetryAfterHeader
    BY DEF RetryAfter, RetryAfterHeader
  <2> QED
    BY <2>1, <2>2 DEF HttpResponse, Payloads
<1>6. CASE token \notin SupportedTokens
  <2>1. ScenarioResponse(token) = Response(422, "problem")
    BY <1>6 DEF ScenarioResponse, SupportedTokens
  <2> QED
    BY <1>1, <2>1
<1> QED
  BY <1>2, <1>3, <1>4, <1>5, <1>6 DEF SupportedTokens

\* The parts of an exchange.
LEMMA Exchanges ==
    /\ NoExchange.phase = "none"
    /\ Request.phase = "request" /\ Request.response \in HttpResponse
    /\ Late.phase = "late" /\ Late.response \in HttpResponse
    /\ \A r : Answered(r).phase = "response" /\ Answered(r).response = r
    /\ \A p \in Payloads : Response(200, p) \in HttpResponse
<1>1. \A p \in Payloads : Response(200, p) \in HttpResponse
  BY DEF Response, HttpResponse, NoRetryAfter, RetryAfterHeader
<1>2. "unparseable" \in Payloads
  BY DEF Payloads
<1> QED
  BY <1>1, <1>2 DEF NoExchange, Request, Late, Answered

\* A new phase of the exchange of a handler that is calling.
LEMMA ExchangeMoves ==
    ASSUME ControlInv, NEW s \in Slots, wire[s].phase # "none", NEW w,
           wire' = [wire EXCEPT ![s] = w],
           w.phase \in {"request", "late", "response"}, w.response \in HttpResponse,
           UNCHANGED <<coordVars, handler, reply>>
    PROVE  handler[s] = "calling" /\ \A r \in Slots : SlotControl(r)'
<1>1. SlotControl(s) /\ handler[s] \in HandlerStates
  BY DEF ControlInv
<1>2. handler[s] = "calling" /\ CallingControl(s)
  BY <1>1, Exchanges
  DEF SlotControl, IdleControl, ReservingControl, CompletingControl, HandlerStates
<1>3. at' = at /\ arg' = arg /\ ret' = ret /\ handler' = handler /\ reply' = reply
  BY DEF coordVars
<1>4. wire'[s] = w /\ \A r \in Slots \ {s} : wire'[r] = wire[r]
  BY DEF ControlInv
<1>5. SlotControl(s)'
  BY <1>2, <1>3, <1>4 DEF SlotControl, CallingControl, Asked, ReserveOf
<1>6. ASSUME NEW r \in Slots \ {s} PROVE SlotControl(r)'
  BY <1>3, <1>4, ControlStays DEF ControlInv
<1> QED
  BY <1>2, <1>5, <1>6

\* A handler that answers is idle again.
LEMMA AnswerMoves ==
    ASSUME ControlInv, NEW s \in Slots, at[s] = "free", NEW e \in Envelope, Answer(s, e),
           wire'[s] = NoExchange, \A r \in Slots \ {s} : wire'[r] = wire[r], UNCHANGED coordVars
    PROVE  /\ \A r \in Slots : SlotControl(r)'
           /\ reply' \in [Slots -> Replies] /\ handler' \in [Slots -> HandlerStates]
<1>1. reply \in [Slots -> Replies] /\ handler \in [Slots -> HandlerStates]
  BY DEF ControlInv
<1>2. /\ handler' = [handler EXCEPT ![s] = "idle"]
      /\ reply' = [reply EXCEPT ![s] = [reply[s] EXCEPT !.envelope = e]]
  BY DEF Answer
<1>3. [reply[s] EXCEPT !.envelope = e] \in Replies
  BY <1>1 DEF Replies
<1>4. reply' \in [Slots -> Replies] /\ handler' \in [Slots -> HandlerStates]
  BY <1>1, <1>2, <1>3 DEF HandlerStates
<1>5. at' = at /\ arg' = arg /\ ret' = ret
  BY DEF coordVars
<1>6. SlotControl(s)'
  BY <1>1, <1>2, <1>5 DEF SlotControl, IdleControl
<1>7. ASSUME NEW r \in Slots \ {s} PROVE SlotControl(r)'
  <2>1. handler'[r] = handler[r] /\ reply'[r] = reply[r]
    BY <1>1, <1>2
  <2> QED
    BY <1>5, <2>1, ControlStays DEF ControlInv
<1> QED
  BY <1>4, <1>6, <1>7

\* A call that a handler makes or gives up concerns its own slot.
LEMMA BeginMoves ==
    ASSUME CoordTypes, NEW s \in Slots, NEW step, NEW a, Begin(s, step, a)
    PROVE  /\ at'[s] = step /\ arg'[s] = a /\ ret'[s].status = "none"
           /\ \A r \in Slots \ {s} : at'[r] = at[r] /\ arg'[r] = arg[r] /\ ret'[r] = ret[r]
<1>1. Return("none").status = "none"
  BY DEF Return
<1> QED
  BY <1>1 DEF CoordTypes, Begin

\* The envelopes that a handler answers with.
LEMMA AnswerTypes ==
    /\ PersistenceProblem \in Envelope
    /\ InternalServerError \in Envelope
    /\ NoEnvelope \in Envelope
    /\ \A r \in [status : ReserveResults, envelope : Envelope] :
          r.status # "ACQUIRED" => ReservationEnvelope(r) \in Envelope
<1>1. ASSUME NEW code \in {409, 500}, NEW document \in Documents,
             NEW headers \in {{}, {<<"Retry-After", 1>>}}
      PROVE  ProblemEnvelope(code, document, headers) \in Envelope
  <2>1. headers \in Headers
    BY DEF Headers, HeaderNames
  <2>2. [document |-> document, transaction_id |-> None, version |-> 0] \in Body
    BY DEF Body
  <2> QED
    BY <2>1, <2>2 DEF ProblemEnvelope, Envelope, MediaTypes
<1>2. "internal-persistence-error" \in Documents /\ "internal-server-error" \in Documents
      /\ "idempotency-conflict" \in Documents /\ "idempotency-in-progress" \in Documents
      /\ "transaction-id-conflict" \in Documents
  BY DEF Documents
<1>3. PersistenceProblem \in Envelope /\ NoEnvelope \in Envelope
  BY <1>1, <1>2 DEF PersistenceProblem, NoEnvelope
<1>4. InternalServerError \in Envelope
  <2>1. PICK e \in Envelope : e = ProblemEnvelope(500, "internal-server-error", {})
    BY <1>1, <1>2
  <2>2. InternalServerError = [e EXCEPT !.media_type = "text/plain"]
    BY <2>1 DEF InternalServerError
  <2> QED
    BY <2>2 DEF Envelope, MediaTypes
<1>5. ASSUME NEW r \in [status : ReserveResults, envelope : Envelope], r.status # "ACQUIRED"
      PROVE  ReservationEnvelope(r) \in Envelope
  <2>1. CASE r.status = "COMPLETED"
    BY <2>1 DEF ReservationEnvelope
  <2>2. CASE r.status = "IDEMPOTENCY_CONFLICT"
    BY <1>1, <1>2, <2>2 DEF ReservationEnvelope
  <2>3. CASE r.status = "IN_PROGRESS"
    BY <1>1, <1>2, <2>3 DEF ReservationEnvelope
  <2>4. CASE r.status = "TRANSACTION_ID_CONFLICT"
    BY <1>1, <1>2, <2>4 DEF ReservationEnvelope
  <2>5. CASE r.status = "PersistenceError"
    BY <1>3, <2>5 DEF ReservationEnvelope
  <2> QED
    BY <1>5, <2>1, <2>2, <2>3, <2>4, <2>5 DEF ReserveResults
<1> QED
  BY <1>3, <1>4, <1>5

\* Every step keeps the control of the handlers.
LEMMA ControlStep ==
    ASSUME ControlInv, [Next]_vars
    PROVE  ControlInv'
<1>1. CoordTypes /\ handler \in [Slots -> HandlerStates] /\ DOMAIN wire = Slots
      /\ reply \in [Slots -> Replies]
  BY DbTypes DEF ControlInv
<1>2. Db!TypeOK'
  <2>1. [Db!Next]_(Db!coordVars)
    BY StepRefines, SameStep
  <2>2. Db!TypeOK
    BY DEF ControlInv
  <2> QED
    BY <2>1, <2>2, DbAssumptions, Db!TypeStep
<1> DEFINE Kept == /\ handler' \in [Slots -> HandlerStates] /\ DOMAIN wire' = Slots
                   /\ reply' \in [Slots -> Replies] /\ \A s \in Slots : SlotControl(s)'
<1>3. \A s \in Slots : SlotControl(s)
  BY DEF ControlInv
<1>4. CASE UNCHANGED vars
  <2>1. ASSUME NEW s \in Slots PROVE SlotControl(s)'
    BY <1>3, <1>4, ControlStays DEF vars
  <2> QED
    BY <1>1, <1>2, <1>4, <2>1 DEF vars, ControlInv
<1>5. ASSUME NEW s \in Slots, NEW k \in Keys, NEW c \in Command, Submit(s, k, c)
      PROVE  Kept
  <2> DEFINE a == [op |-> "reserve", key |-> k, command |-> c]
             e == [NoReply EXCEPT !.key = k, !.command = c]
  <2>1. /\ at'[s] = "select" /\ arg'[s] = a /\ ret'[s].status = "none"
        /\ \A r \in Slots \ {s} : at'[r] = at[r] /\ arg'[r] = arg[r] /\ ret'[r] = ret[r]
    BY <1>1, <1>5, BeginMoves DEF Submit, CallReserve
  <2>2. e \in Replies /\ e.key = k /\ e.command = c
    <3>1. PICK old \in Replies : old = NoReply
      BY AnswerTypes DEF NoReply, Replies
    <3>2. e = [old EXCEPT !.key = k, !.command = c]
      BY <3>1
    <3> QED
      BY <3>2 DEF Replies
  <2>3. handler' = [handler EXCEPT ![s] = "reserving"] /\ reply' = [reply EXCEPT ![s] = e] /\ wire' = wire
    BY <1>5 DEF Submit, networkVars
  <2> HIDE DEF e
  <2>5. wire[s] = NoExchange
    BY <1>3, <1>5 DEF Submit, SlotControl, IdleControl
  <2>6. SlotControl(s)'
    BY <1>1, <2>1, <2>2, <2>3, <2>5
    DEF SlotControl, ReservingControl, Asked, ReserveOf, ReserveSteps
  <2>7. ASSUME NEW r \in Slots \ {s} PROVE SlotControl(r)'
    <3>1. handler'[r] = handler[r] /\ reply'[r] = reply[r]
      BY <1>1, <2>3
    <3> QED
      BY <1>3, <2>1, <2>3, <3>1, ControlStays
  <2> QED
    BY <1>1, <2>2, <2>3, <2>6, <2>7 DEF HandlerStates
<1>6. ASSUME NEW s \in Slots, NotAcquired(s)
      PROVE  Kept
  <2>1. /\ at[s] = "free" /\ Answer(s, ReservationEnvelope(ret[s])) /\ wire' = wire
        /\ UNCHANGED coordVars /\ ret[s].status # "ACQUIRED" /\ handler[s] = "reserving"
    BY <1>6 DEF NotAcquired, networkVars
  <2>2. wire[s] = NoExchange /\ ret[s].status \in ReserveResults
    BY <1>3, <2>1 DEF SlotControl, ReservingControl
  <2>3. ReservationEnvelope(ret[s]) \in Envelope
    BY <1>1, <2>1, <2>2, AnswerTypes DEF CoordTypes
  <2> QED
    BY <1>1, <2>1, <2>2, <2>3, AnswerMoves
<1>7. ASSUME NEW s \in Slots, Post(s)
      PROVE  Kept
  <2>1. /\ handler[s] = "reserving" /\ at[s] = "free" /\ ret[s].status = "ACQUIRED"
        /\ handler' = [handler EXCEPT ![s] = "calling"] /\ wire' = [wire EXCEPT ![s] = Request]
        /\ at' = at /\ arg' = arg /\ ret' = ret /\ reply' = reply
    BY <1>7 DEF Post, coordVars
  <2>2. SlotControl(s)'
    BY <1>1, <1>3, <2>1, Exchanges DEF SlotControl, ReservingControl, CallingControl, Asked, ReserveOf
  <2>3. ASSUME NEW r \in Slots \ {s} PROVE SlotControl(r)'
    <3>1. handler'[r] = handler[r] /\ wire'[r] = wire[r]
      BY <1>1, <2>1
    <3> QED
      BY <1>3, <2>1, <3>1, ControlStays
  <2> QED
    BY <1>1, <2>1, <2>2, <2>3 DEF HandlerStates
<1>7a. ASSUME NEW s \in Slots, PostFails(s)
       PROVE  Kept
  <2>1. /\ at[s] = "free" /\ Answer(s, InternalServerError) /\ wire' = wire
        /\ UNCHANGED coordVars /\ handler[s] = "reserving"
    BY <1>7a DEF PostFails, networkVars
  <2>2. wire[s] = NoExchange
    BY <1>3, <2>1 DEF SlotControl, ReservingControl
  <2> QED
    BY <1>1, <2>1, <2>2, AnswerTypes, AnswerMoves
<1>8. ASSUME NEW s \in Slots, Receive(s) \/ Timeout(s) \/ TransportFailure(s)
      PROVE  Kept
  <2>1. handler[s] = "calling" /\ CallingControl(s)
    BY <1>3, <1>8, ConcludedResult
  <2>2. PICK result \in NetworkResults : Conclude(s, result)
    BY <1>3, <1>8, ConcludedResult
  <2> DEFINE a == CompletionOf(reply[s].key, reply[s].command.transaction_id, result)
  <2>3. Begin(s, "updateTxn", a)
    BY <2>1, <2>2, ConcludeCall
  <2>4. /\ at'[s] = "updateTxn" /\ arg'[s] = a /\ ret'[s].status = "none"
        /\ \A r \in Slots \ {s} : at'[r] = at[r] /\ arg'[r] = arg[r] /\ ret'[r] = ret[r]
    BY <1>1, <2>3, BeginMoves
  <2>5. /\ handler' = [handler EXCEPT ![s] = "completing"]
        /\ wire' = [wire EXCEPT ![s] = NoExchange] /\ reply' = reply
    BY <2>2 DEF Conclude
  <2>6. SlotControl(s)'
    <3>1. "updateTxn" \in CompleteSteps
      BY DEF CompleteSteps
    <3>2. CompletingControl(s)'
      BY <1>1, <2>1, <2>4, <2>5, <3>1 DEF CompletingControl, CallingControl, Asked, CompleteSteps
    <3> QED
      BY <1>1, <2>5, <3>2 DEF SlotControl
  <2>7. ASSUME NEW r \in Slots \ {s} PROVE SlotControl(r)'
    <3>1. handler'[r] = handler[r] /\ wire'[r] = wire[r] /\ reply'[r] = reply[r]
      BY <1>1, <2>5
    <3> QED
      BY <1>3, <2>4, <3>1, ControlStays
  <2> QED
    BY <1>1, <2>5, <2>6, <2>7 DEF HandlerStates
<1>9. ASSUME NEW s \in Slots, Unhandled(s)
      PROVE  Kept
  <2>1. /\ Answer(s, InternalServerError) /\ UNCHANGED coordVars /\ handler[s] = "calling"
        /\ wire' = [wire EXCEPT ![s] = NoExchange]
    BY <1>9 DEF Unhandled
  <2>2. at[s] = "free"
    BY <1>3, <2>1 DEF SlotControl, CallingControl
  <2>3. wire'[s] = NoExchange /\ \A r \in Slots \ {s} : wire'[r] = wire[r]
    BY <1>1, <2>1
  <2> QED
    BY <1>1, <2>1, <2>2, <2>3, AnswerTypes, AnswerMoves
<1>10. ASSUME NEW s \in Slots, Completed(s)
       PROVE  Kept
  <2> DEFINE e == IF ret[s].status = "DONE" THEN arg[s].envelope ELSE PersistenceProblem
  <2>1. /\ at[s] = "free" /\ Answer(s, e) /\ wire' = wire
        /\ UNCHANGED coordVars /\ handler[s] = "completing"
    BY <1>10 DEF Completed, networkVars
  <2>2. CompletingControl(s)
    BY <1>3, <2>1 DEF SlotControl
  <2>3. PICK r \in NetworkResults :
           arg[s] = CompletionOf(reply[s].key, reply[s].command.transaction_id, r)
    BY <2>2 DEF CompletingControl
  <2>4. reply[s].key \in Keys /\ reply[s].command.transaction_id \in Txns
    BY <2>2 DEF CompletingControl, Asked, Command
  <2>5. arg[s].envelope \in Envelope
    <3>1. arg[s].envelope = OutcomeEnvelope(reply[s].command.transaction_id, r)
      BY <2>3 DEF CompletionOf
    <3> QED
      BY <2>4, <3>1, OutcomeEnvelopeType, ZenonT(60)
  <2>6. e \in Envelope
    BY <2>5, AnswerTypes
  <2>7. wire[s] = NoExchange
    BY <2>2 DEF CompletingControl
  <2> HIDE DEF e
  <2> QED
    BY <1>1, <2>1, <2>6, <2>7, AnswerMoves
<1>11. ASSUME NEW s \in Slots, Sql(s) \/ DatabaseFails(s)
       PROVE  Kept
  <2>1. handler' = handler /\ wire' = wire /\ reply' = reply
    BY <1>11 DEF Sql, DatabaseFails, networkVars
  <2>2. at[s] \in ReserveSteps => arg[s].key \in Keys
    <3> SUFFICES ASSUME at[s] \in ReserveSteps PROVE arg[s].key \in Keys
      OBVIOUS
    <3>1. handler[s] = "reserving"
      BY <1>1, <1>3
      DEF SlotControl, IdleControl, CallingControl, CompletingControl, HandlerStates, ReserveSteps,
          CompleteSteps
    <3>2. ReservingControl(s)
      BY <1>3, <3>1 DEF SlotControl
    <3> QED
      BY <3>2 DEF ReservingControl, Asked, ReserveOf
  <2>3. at[s] \in ReserveSteps \cup CompleteSteps /\ Moves(s)
    BY <1>1, <1>11, <2>2, StatementMoves, FaultMoves DEF Sql, DatabaseFails
  <2>4. SlotControl(s)'
    BY <1>1, <1>3, <2>1, <2>3, ControlMoves
  <2>5. ASSUME NEW r \in Slots \ {s} PROVE SlotControl(r)'
    BY <1>3, <2>1, <2>3, ControlStays DEF Moves
  <2> QED
    BY <1>1, <2>1, <2>4, <2>5
<1>12. ASSUME NEW s \in Slots, Handle(s)
       PROVE  Kept
  <2> DEFINE w == IF InTime(arg[s].command)
                  THEN Answered(ScenarioResponse(arg[s].command.payment_token))
                  ELSE Late
  <2>1. /\ wire[s].phase # "none" /\ wire' = [wire EXCEPT ![s] = w]
        /\ UNCHANGED <<coordVars, handler, reply>>
    BY <1>12 DEF Handle
  <2>2. w.phase \in {"request", "late", "response"} /\ w.response \in HttpResponse
    BY Exchanges, ScenarioType
  <2> HIDE DEF w
  <2> QED
    BY <1>1, <2>1, <2>2, ExchangeMoves
<1>13. ASSUME NEW s \in Slots, HandleGarbled(s) \/ GatewayFails(s) \/ GatewayRejects(s)
       PROVE  Kept
  <2>1. wire[s].phase # "none" /\ UNCHANGED <<coordVars, handler, reply>>
    BY <1>13 DEF HandleGarbled, GatewayFails, GatewayRejects
  <2>2. PICK r \in HttpResponse : wire' = [wire EXCEPT ![s] = Answered(r)]
    <3>1. {"overlong", "overlongDecline", "undecodable"} \subseteq Payloads
      BY DEF Payloads
    <3> QED
      BY <1>13, <3>1, GatewayAssumption, Exchanges DEF HandleGarbled, GatewayFails, GatewayRejects
  <2>3. \A q \in Slots : SlotControl(q)'
    <3> DEFINE w == Answered(r)
    <3>1. wire' = [wire EXCEPT ![s] = w] /\ w.phase = "response" /\ w.response \in HttpResponse
      BY <2>2, Exchanges
    <3> HIDE DEF w
    <3> QED
      BY <2>1, <3>1, ExchangeMoves
  <2> QED
    BY <1>1, <2>1, <2>2, <2>3
<1>14. ASSUME NEW c \in stray, HandleStray(c)
       PROVE  Kept
  <2>1. UNCHANGED <<coordVars, handler, wire, reply>>
    BY <1>14 DEF HandleStray
  <2>2. ASSUME NEW s \in Slots PROVE SlotControl(s)'
    BY <1>3, <2>1, ControlStays DEF coordVars
  <2> QED
    BY <1>1, <2>1, <2>2
<1>15. ASSUME NEW s \in Slots, Crash(s)
       PROVE  Kept
  <2>1. /\ at' = [at EXCEPT ![s] = "free"] /\ arg' = [arg EXCEPT ![s] = NoArg]
        /\ ret' = [ret EXCEPT ![s] = Return("none")] /\ handler' = [handler EXCEPT ![s] = "idle"]
        /\ reply' = [reply EXCEPT ![s] = NoReply] /\ wire' = [wire EXCEPT ![s] = NoExchange]
    BY <1>15 DEF Crash, Abandon
  <2>2. NoReply \in Replies
    BY AnswerTypes DEF NoReply, Replies
  <2>3. SlotControl(s)'
    BY <1>1, <2>1 DEF SlotControl, IdleControl, CoordTypes
  <2>4. ASSUME NEW r \in Slots \ {s} PROVE SlotControl(r)'
    <3>1. /\ handler'[r] = handler[r] /\ wire'[r] = wire[r] /\ reply'[r] = reply[r]
          /\ at'[r] = at[r] /\ arg'[r] = arg[r] /\ ret'[r] = ret[r]
      BY <1>1, <2>1 DEF CoordTypes
    <3> QED
      BY <1>3, <3>1, ControlStays
  <2> QED
    BY <1>1, <2>1, <2>2, <2>3, <2>4 DEF HandlerStates
<1>16. CASE Next
  <2>1. Kept
    BY <1>5, <1>6, <1>7, <1>8, <1>9, <1>10, <1>11, <1>12, <1>13, <1>14, <1>15, <1>16, <1>7a DEF Next
  <2> QED
    BY <1>2, <2>1 DEF ControlInv
<1> QED
  BY <1>4, <1>16

\* Initially every handler is idle.
LEMMA ControlInit == Init => ControlInv
<1> SUFFICES ASSUME Init PROVE ControlInv
  OBVIOUS
<1>1. Db!TypeOK
  BY InitRefines, SameInit, DbAssumptions, Db!TypeInit
<1>2. NoReply \in Replies
  BY AnswerTypes DEF NoReply, Replies
<1> QED
  BY <1>1, <1>2
  DEF Init, CoordInit, ControlInv, HandlerStates, SlotControl, IdleControl

\* The control invariant holds in every reachable state.
LEMMA ControlHolds == Spec => []ControlInv
  BY ControlInit, ControlStep, PTL DEF Spec

\* The service is one of the callers that CoordinatorClients describes: it
\* calls complete only after it was told ACQUIRED, with a response that the
\* network or a failure explains, and never while another call is open.
THEOREM OrchestratorIsCaller == Spec => UsesCoordinator
  BY ControlHolds, InitRefines, StepRefines, PTL DEF Spec, UsesCoordinator, Clients!Spec

-----------------------------------------------------------------------------
(* The coordinator's guarantees hold in the service.                       *)

DbInv == Db!IndInv /\ Db!WinnerInv /\ Db!VerdictInv /\ Db!CompletionInv

\* They hold initially.
LEMMA DbInit == Init => DbInv
<1> SUFFICES ASSUME Init PROVE DbInv
  OBVIOUS
<1>1. Db!CoordInit
  BY InitRefines, SameInit
<1>2. Db!IndInv
  BY <1>1, DbAssumptions, Db!IndInit
<1>3. Db!WinnerInv
  BY <1>1 DEF Db!CoordInit, Db!WinnerInv, Db!UniqueWinner, Db!WinnerOwns, Db!Return
<1>4. Db!VerdictInv
  BY <1>1, DbAssumptions, Db!VerdictInit
<1>5. Db!CompletionInv
  BY <1>1 DEF Db!CoordInit, Db!CompletionInv, Db!SlotCompletion, Db!NoArg
<1> QED
  BY <1>2, <1>3, <1>4, <1>5 DEF DbInv

\* A step of the service is a step of the coordinator.
LEMMA DbStep ==
    ASSUME ControlInv, [Next]_vars
    PROVE  [Db!Next]_(Db!coordVars)
  BY StepRefines, SameStep

\* Every step keeps them.
LEMMA DbKept ==
    ASSUME ControlInv, DbInv, [Next]_vars
    PROVE  DbInv'
<1>1. [Db!Next]_(Db!coordVars)
  BY DbStep
<1>2. Db!IndInv /\ Db!WinnerInv /\ Db!VerdictInv /\ Db!CompletionInv
  BY DEF DbInv
<1>3. Db!IndInv'
  BY <1>1, <1>2, DbAssumptions, Db!IndStep
<1>4. Db!WinnerInv'
  BY <1>1, <1>2, DbAssumptions, Db!WinnerStep
<1>5. Db!VerdictInv'
  BY <1>1, <1>2, DbAssumptions, Db!VerdictStep
<1>6. Db!CompletionInv'
  BY <1>1, <1>2, DbAssumptions, Db!CompletionStep
<1> QED
  BY <1>3, <1>4, <1>5, <1>6 DEF DbInv

\* The coordinator's inductive invariants hold in every reachable state.
LEMMA DbHolds == Spec => []DbInv
  BY ControlHolds, DbInit, DbKept, PTL DEF Spec

\* The service inherits what is proved of the coordinator's callers: whatever
\* handlers race, fail or crash, the two tables agree, no statements wait in a
\* circle, a reservation has one winner, losers are told the truth, conflicts
\* are explained, completions are final and every row passes the constraints of
\* the schema.
THEOREM SafeInService ==
    Spec => [](/\ Db!TablesAgree /\ Db!NoCircularWait /\ Db!UniqueWinner
               /\ Db!VerdictsAreTrue /\ Db!ConflictExplained
               /\ Db!CompletionIsFinal /\ Db!RowsPassChecks)
<1>1. Db!Spec => []Db!TablesAgree
  BY DbAssumptions, Db!TablesAlwaysAgree
<1>2. Db!Spec => []Db!UniqueWinner
  BY DbAssumptions, Db!WinnerIsUnique
<1>3. Db!Spec => []Db!VerdictsAreTrue
  BY DbAssumptions, Db!VerdictsStayTrue
<1>4. Db!Spec => []Db!CompletionIsFinal
  BY DbAssumptions, Db!CompletionsAreFinal
<1>5. Db!Spec => []Db!RowsPassChecks
  BY DbAssumptions, Db!RowsAlwaysPassChecks
<1>6. Db!Spec => []Db!NoCircularWait
  BY DbAssumptions, Db!WaitsNeverCircle
<1>7. Db!Spec => []Db!ConflictExplained
  BY DbAssumptions, Db!ConflictsAreExplained
<1>8. Clients!Spec => Db!Spec
  BY SameInit, SameStep, PTL DEF Clients!Spec, Db!Spec
<1> QED
  BY <1>1, <1>2, <1>3, <1>4, <1>5, <1>6, <1>7, <1>8, OrchestratorIsCaller, PTL DEF UsesCoordinator

\* What follows for the tables, in the words of this module: a stored record
\* and its transaction are of one request, no transaction has two keys, and
\* an open COMMIT of a reservation finds neither.
RecordFacts(k) ==
    LET t == records[k].transaction_id
    IN  /\ t \in Txns
        /\ TxnStored(t)
        /\ records[k].request_fingerprint \in Fingerprint
        /\ records[k].request_fingerprint[3] = t
        /\ txns[t].version = IF records[k].processing_status = "COMPLETED" THEN 1 ELSE 0

TableFacts ==
    /\ \A k \in Keys : KeyStored(k) => RecordFacts(k)
    /\ \A t \in Txns : TxnStored(t) => \E k \in Keys : KeyStored(k) /\ records[k].transaction_id = t
    /\ \A j, k \in Keys :
          KeyStored(j) /\ KeyStored(k) /\ records[j].transaction_id = records[k].transaction_id
             => j = k

CallFacts ==
    /\ \A s \in Slots : at[s] = "commitReserve" =>
          ~KeyStored(arg[s].key) /\ ~TxnStored(TxnOf(arg[s]))
    /\ \A s \in Slots : ret[s].status = "ACQUIRED" =>
          KeyStored(arg[s].key) /\ records[arg[s].key].transaction_id = TxnOf(arg[s])
    /\ \A r, s \in Slots :
          r # s /\ ret[r].status = "ACQUIRED" /\ ret[s].status = "ACQUIRED"
             => arg[r].key # arg[s].key /\ TxnOf(arg[r]) # TxnOf(arg[s])

\* The facts follow from the coordinator's invariants.
LEMMA DbFacts ==
    ASSUME DbInv
    PROVE  CoordTypes /\ TableFacts /\ CallFacts
<1>1. Db!IndInv /\ Db!WinnerInv
  BY DEF DbInv
<1>2. CoordTypes
  BY <1>1, DbTypes DEF Db!IndInv
<1>3. Fingerprint = Db!Fingerprint
  BY DEF Fingerprint, Db!Fingerprint
<1>4. TableFacts
  <2>1. Db!RecordsAgree /\ Db!OneKeyPerTransaction
    BY <1>1 DEF Db!IndInv, Db!TablesAgree
  <2>2. ASSUME NEW k \in Keys, KeyStored(k) PROVE RecordFacts(k)
    <3>1. Db!RecordAgrees(records[k], records[k].transaction_id)
      BY <2>1, <2>2 DEF Db!RecordsAgree, Db!KeyStored, KeyStored
    <3> QED
      BY <1>3, <3>1 DEF Db!RecordAgrees, Db!SameRequest, Db!TxnStored, TxnStored, RecordFacts
  <2> QED
    BY <2>1, <2>2
    DEF Db!OneKeyPerTransaction, Db!KeyStored, KeyStored, Db!TxnStored, TxnStored, TableFacts
<1>5. CallFacts
  <2>1. \A s \in Slots : Db!RowsHeld(s) /\ Db!WinnerOwns(s)
    BY <1>1 DEF Db!IndInv, Db!LocksHold, Db!WinnerInv
  <2>2. \A s \in Slots : at[s] = "commitReserve" =>
          ~KeyStored(arg[s].key) /\ ~TxnStored(TxnOf(arg[s]))
    BY <2>1 DEF Db!RowsHeld, Db!KeyStored, KeyStored, Db!TxnStored, TxnStored, Db!TxnOf, TxnOf
  <2>3. \A s \in Slots : ret[s].status = "ACQUIRED" =>
          KeyStored(arg[s].key) /\ records[arg[s].key].transaction_id = TxnOf(arg[s])
    BY <2>1 DEF Db!WinnerOwns, Db!KeyStored, KeyStored, Db!TxnOf, TxnOf
  <2>4. Db!UniqueWinner
    BY <1>1 DEF Db!WinnerInv
  <2> QED
    BY <2>2, <2>3, <2>4 DEF CallFacts, Db!UniqueWinner, Db!TxnOf, TxnOf
<1> QED
  BY <1>2, <1>4, <1>5

\* In every step a stored record keeps its request, and a completed one and
\* its transaction do not change.
LEMMA RecordsStay ==
    ASSUME ControlInv, DbInv, [Next]_vars, NEW k \in Keys, KeyStored(k)
    PROVE  /\ KeyStored(k)'
           /\ records'[k].transaction_id = records[k].transaction_id
           /\ records'[k].request_fingerprint = records[k].request_fingerprint
           /\ records[k].processing_status = "COMPLETED" =>
                 /\ records'[k] = records[k]
                 /\ txns'[records[k].transaction_id] = txns[records[k].transaction_id]
<1>1. Db!IndInv /\ [Db!Next]_(Db!coordVars) /\ Db!KeyStored(k)
  BY DbStep DEF DbInv, Db!KeyStored, KeyStored
<1>2. /\ Db!KeyStored(k)'
      /\ records'[k].transaction_id = records[k].transaction_id
      /\ records'[k].request_fingerprint = records[k].request_fingerprint
  BY <1>1, DbAssumptions, Db!RequestStays
<1>3. ASSUME records[k].processing_status = "COMPLETED"
      PROVE  /\ records'[k] = records[k]
             /\ txns'[records[k].transaction_id] = txns[records[k].transaction_id]
  BY <1>1, <1>3, DbAssumptions, Db!CompletedStays
<1> QED
  BY <1>2, <1>3 DEF Db!KeyStored, KeyStored

-----------------------------------------------------------------------------
(* Types of the network's variables.                                       *)

NetworkTypes ==
    /\ stray \subseteq Command
    /\ posts \in [Keys \X Txns -> Nat]
    /\ ledger \in [Txns -> {"none", "AUTHORIZED", "DECLINED"}]

\* A handler with a request under way is calling, for the command it was given.
LEMMA RequestUnderWay ==
    ASSUME ControlInv, NEW s \in Slots, wire[s].phase # "none"
    PROVE  /\ handler[s] = "calling" /\ CallingControl(s)
           /\ arg[s].op = "reserve" /\ arg[s].key = reply[s].key /\ arg[s].key \in Keys
           /\ arg[s].command = reply[s].command /\ arg[s].command \in Command
           /\ TxnOf(arg[s]) = arg[s].command.transaction_id
           /\ TxnOf(arg[s]) \in Txns
<1>1. SlotControl(s) /\ handler[s] \in HandlerStates
  BY DEF ControlInv
<1>2. handler[s] = "calling" /\ CallingControl(s)
  BY <1>1, Exchanges
  DEF SlotControl, IdleControl, ReservingControl, CompletingControl, HandlerStates
<1> QED
  BY <1>2 DEF CallingControl, Asked, ReserveOf, TxnOf, Command

\* A handler that is reserving: its call and its arguments.
LEMMA ReservingCall ==
    ASSUME ControlInv, NEW s \in Slots, handler[s] \in {"reserving", "calling"}
    PROVE  /\ arg[s].op = "reserve" /\ arg[s].key = reply[s].key /\ arg[s].key \in Keys
           /\ arg[s].command = reply[s].command /\ arg[s].command \in Command
           /\ TxnOf(arg[s]) = reply[s].command.transaction_id
           /\ TxnOf(arg[s]) \in Txns
           /\ arg[s] = ReserveOf(s)
<1>1. Asked(s) /\ arg[s] = ReserveOf(s)
  BY DEF ControlInv, SlotControl, ReservingControl, CallingControl
<1> QED
  BY <1>1 DEF Asked, ReserveOf, TxnOf, Command

\* What the network decides about a command.
LEMMA ProcessEffect ==
    ASSUME NetworkTypes, NEW c \in Command, Process(c)
    PROVE  /\ ledger' \in [Txns -> {"none", "AUTHORIZED", "DECLINED"}]
           /\ \A t \in Txns : t # c.transaction_id => ledger'[t] = ledger[t]
           /\ ScenarioResponse(c.payment_token).payload \in {"AUTHORIZED", "DECLINED"} =>
                 ledger'[c.transaction_id] = ScenarioResponse(c.payment_token).payload
           /\ ScenarioResponse(c.payment_token).payload \notin {"AUTHORIZED", "DECLINED"} =>
                 ledger' = ledger
<1>1. c.transaction_id \in Txns
  BY DEF Command
<1> QED
  BY <1>1 DEF Process, NetworkTypes

\* What Detach leaves behind.
LEMMA DetachEffect ==
    ASSUME ControlInv, NetworkTypes, NEW s \in Slots, Detach(s)
    PROVE  /\ stray' \subseteq Command
           /\ wire[s].phase = "request" => stray' = stray \cup {arg[s].command}
           /\ wire[s].phase # "request" => stray' = stray
  BY RequestUnderWay DEF Detach, NetworkTypes

\* What each step does to the variables of the network.
LEMMA NetworkStep ==
    ASSUME ControlInv, NetworkTypes, [Next]_vars
    PROVE  NetworkTypes'
<1>1. CASE UNCHANGED vars
  BY <1>1 DEF vars, NetworkTypes
<1>2. ASSUME NEW s \in Slots,
             \/ \E k \in Keys, c \in Command : Submit(s, k, c)
             \/ NotAcquired(s) \/ Completed(s) \/ Sql(s) \/ DatabaseFails(s) \/ Unhandled(s)
             \/ PostFails(s) \/ GatewayRejects(s)
      PROVE  NetworkTypes'
  BY <1>2
  DEF Submit, NotAcquired, Completed, Sql, DatabaseFails, Unhandled, PostFails, GatewayRejects, networkVars,
      NetworkTypes
<1>3. ASSUME NEW s \in Slots, Post(s)
      PROVE  NetworkTypes'
  <2>1. posts' = [posts EXCEPT ![<<arg[s].key, TxnOf(arg[s])>>] = @ + 1]
        /\ stray' = stray /\ ledger' = ledger /\ handler[s] = "reserving"
    BY <1>3 DEF Post
  <2>2. <<arg[s].key, TxnOf(arg[s])>> \in Keys \X Txns
    BY <2>1, ReservingCall
  <2>3. posts' \in [Keys \X Txns -> Nat]
    <3>1. posts[<<arg[s].key, TxnOf(arg[s])>>] \in Nat
      BY <2>2 DEF NetworkTypes
    <3> QED
      BY <2>1, <2>2, <3>1 DEF NetworkTypes
  <2> QED
    BY <2>1, <2>3 DEF NetworkTypes
<1>4. ASSUME NEW s \in Slots, Receive(s) \/ Timeout(s) \/ TransportFailure(s) \/ GatewayFails(s) \/ Crash(s)
      PROVE  NetworkTypes'
  <2>1. posts' = posts /\ ledger' = ledger /\ (stray' = stray \/ Detach(s))
    BY <1>4 DEF Receive, Timeout, TransportFailure, GatewayFails, Crash, Conclude
  <2> QED
    BY <2>1, DetachEffect DEF NetworkTypes
<1>5. ASSUME NEW s \in Slots, Handle(s) \/ HandleGarbled(s)
      PROVE  NetworkTypes'
  <2>1. /\ wire[s].phase = "request" /\ Process(arg[s].command)
        /\ posts' = posts /\ stray' = stray
    BY <1>5 DEF Handle, HandleGarbled
  <2> QED
    BY <2>1, RequestUnderWay, ProcessEffect DEF NetworkTypes
<1>6. ASSUME NEW c \in stray, HandleStray(c)
      PROVE  NetworkTypes'
  BY <1>6, ProcessEffect DEF HandleStray, NetworkTypes
<1> QED
  BY <1>1, <1>2, <1>3, <1>4, <1>5, <1>6 DEF Next

\* The variables of the network have their types initially.
LEMMA NetworkInit == Init => NetworkTypes
  BY DEF Init, NetworkTypes

\* Every variable of the service keeps its type; whatever header the network
\* sends, the Retry-After value of an answer is between 1 and 60.
THEOREM ServiceTypes == Spec => []TypeOK
<1>1. ASSUME ControlInv, NetworkTypes PROVE TypeOK
  <2>1. CoordTypes
    BY <1>1, DbTypes DEF ControlInv
  <2>2. ASSUME NEW s \in Slots PROVE wire[s].phase \in {"none", "request", "late", "response"}
    <3>1. SlotControl(s) /\ handler[s] \in HandlerStates
      BY <1>1 DEF ControlInv
    <3> QED
      BY <3>1, Exchanges
      DEF SlotControl, IdleControl, ReservingControl, CallingControl, CompletingControl, HandlerStates
  <2>3. \A s \in Slots : reply[s].envelope \in Envelope
    BY <1>1 DEF ControlInv, Replies
  <2> QED
    BY <1>1, <2>1, <2>2, <2>3 DEF TypeOK, CoordTypes, ControlInv, NetworkTypes
<1> QED
  BY <1>1, ControlHolds, NetworkInit, NetworkStep, PTL DEF Spec

-----------------------------------------------------------------------------
(* Invocations.  The network is called for a key and a transaction only    *)
(* when the record of the key, for that transaction, is committed, and a   *)
(* handler that has yet to call has the one reservation for which nobody   *)
(* has called.                                                             *)

PostsOwned ==
    \A k \in Keys, t \in Txns :
        /\ posts[<<k, t>>] \in {0, 1}
        /\ posts[<<k, t>>] # 0 => KeyStored(k) /\ records[k].transaction_id = t

FirstPost(s) ==
    handler[s] = "reserving" /\ ret[s].status = "ACQUIRED" =>
        posts[<<reply[s].key, reply[s].command.transaction_id>>] = 0

PostsInv == PostsOwned /\ \A s \in Slots : FirstPost(s)

\* A step in which nobody posts leaves the counts and the commands of the
\* handlers that are reserving.
LEMMA PostsStay ==
    ASSUME ControlInv, DbInv, PostsInv, [Next]_vars, posts' = posts,
           \A s \in Slots : handler'[s] = "reserving" /\ ret'[s].status = "ACQUIRED" =>
               /\ reply'[s] = reply[s] /\ handler[s] = "reserving"
               /\ ret[s].status = "ACQUIRED" \/ ~KeyStored(reply[s].key)
    PROVE  PostsInv'
<1>1. PostsOwned'
  <2>1. ASSUME NEW k \in Keys, NEW t \in Txns, posts[<<k, t>>] # 0
        PROVE  KeyStored(k)' /\ records'[k].transaction_id = t
    BY <2>1, RecordsStay DEF PostsInv, PostsOwned
  <2>2. ASSUME NEW k \in Keys, NEW t \in Txns
        PROVE  /\ posts'[<<k, t>>] \in {0, 1}
               /\ posts'[<<k, t>>] # 0 => KeyStored(k)' /\ records'[k].transaction_id = t
    <3>1. posts'[<<k, t>>] = posts[<<k, t>>]
      OBVIOUS
    <3> QED
      BY <2>1, <3>1 DEF PostsInv, PostsOwned
  <2> QED
    BY <2>2 DEF PostsOwned
<1>2. ASSUME NEW s \in Slots, handler'[s] = "reserving", ret'[s].status = "ACQUIRED"
      PROVE  posts[<<reply[s].key, reply[s].command.transaction_id>>] = 0
  <2>1. handler[s] = "reserving" /\ (ret[s].status = "ACQUIRED" \/ ~KeyStored(reply[s].key))
    BY <1>2
  <2>2. reply[s].key \in Keys /\ reply[s].command.transaction_id \in Txns
    BY <2>1, ReservingCall
  <2> QED
    BY <2>1, <2>2 DEF PostsInv, FirstPost, PostsOwned
<1> QED
  BY <1>1, <1>2 DEF PostsInv, FirstPost

\* A handler is told ACQUIRED when its reservation is committed, and its key
\* was free until then.
LEMMA Acquirers ==
    ASSUME ControlInv, DbInv, [Next]_vars, NEW s \in Slots, ret'[s].status = "ACQUIRED"
    PROVE  \/ ret[s].status = "ACQUIRED"
           \/ at[s] = "commitReserve" /\ ~KeyStored(arg[s].key)
<1>1. Db!IndInv /\ [Db!Next]_(Db!coordVars)
  BY DbStep DEF DbInv
<1>2. \/ \E r \in Slots : Db!CommitReserve(r)
      \/ \A r \in Slots : ret'[r].status = "ACQUIRED" => ret'[r] = ret[r] /\ arg'[r] = arg[r]
  BY <1>1, DbAssumptions, Db!WinnersBefore
<1>3. ASSUME NEW r \in Slots, Db!CommitReserve(r), ret[s].status # "ACQUIRED"
      PROVE  at[s] = "commitReserve" /\ ~KeyStored(arg[s].key)
  <2>1. at[r] = "commitReserve" /\ \E v : ret' = [ret EXCEPT ![r] = v]
    BY <1>3 DEF Db!CommitReserve, Db!Finish
  <2>2. r = s
    BY <1>3, <2>1, DbFacts DEF CoordTypes
  <2> QED
    BY <2>1, <2>2, DbFacts DEF CallFacts
<1> QED
  BY <1>2, <1>3

\* A handler is reserving because it was, or because its request just came.
LEMMA Reservers ==
    ASSUME ControlInv, [Next]_vars, NEW s \in Slots, handler'[s] = "reserving"
    PROVE  \/ handler[s] = "reserving" /\ reply'[s] = reply[s]
           \/ ret'[s].status = "none"
<1>1. handler \in [Slots -> HandlerStates] /\ DOMAIN reply = Slots /\ CoordTypes
  BY DbTypes DEF ControlInv
<1>2. CASE UNCHANGED vars
  BY <1>2 DEF vars
<1>3. ASSUME NEW r \in Slots, NEW k \in Keys, NEW c \in Command, Submit(r, k, c)
      PROVE  \/ handler[s] = "reserving" /\ reply'[s] = reply[s]
             \/ ret'[s].status = "none"
  <2>1. ret'[r].status = "none"
    BY <1>1, <1>3, BeginMoves DEF Submit, CallReserve
  <2>2. s # r => handler'[s] = handler[s] /\ reply'[s] = reply[s]
    BY <1>1, <1>3 DEF Submit
  <2> QED
    BY <2>1, <2>2
<1>4. ASSUME NEW r \in Slots, NotAcquired(r) \/ PostFails(r) \/ Unhandled(r) \/ Completed(r)
      PROVE  handler[s] = "reserving" /\ reply'[s] = reply[s]
  <2>1. \E e : Answer(r, e)
    BY <1>4 DEF NotAcquired, PostFails, Unhandled, Completed
  <2> QED
    BY <1>1, <2>1 DEF Answer
<1>5. ASSUME NEW r \in Slots,
             \/ Post(r) \/ Receive(r) \/ Timeout(r) \/ TransportFailure(r) \/ Crash(r)
      PROVE  handler[s] = "reserving" /\ reply'[s] = reply[s]
  <2>1. /\ \E h \in {"calling", "completing", "idle"} : handler' = [handler EXCEPT ![r] = h]
        /\ reply' = reply \/ reply' = [reply EXCEPT ![r] = NoReply]
    BY <1>5 DEF Post, Receive, Timeout, TransportFailure, Crash, Conclude
  <2> QED
    BY <1>1, <2>1
<1>6. ASSUME NEW r \in Slots,
             \/ Sql(r) \/ DatabaseFails(r) \/ Handle(r) \/ HandleGarbled(r) \/ GatewayFails(r)
             \/ GatewayRejects(r)
      PROVE  handler' = handler /\ reply' = reply
  BY <1>6 DEF Sql, DatabaseFails, Handle, HandleGarbled, GatewayFails, GatewayRejects
<1>7. ASSUME NEW c \in stray, HandleStray(c)
      PROVE  handler' = handler /\ reply' = reply
  BY <1>7 DEF HandleStray
<1> QED
  BY <1>2, <1>3, <1>4, <1>5, <1>6, <1>7 DEF Next

\* A handler posts once for its reservation, and no other holds that one.
LEMMA PostKeeps ==
    ASSUME ControlInv, NetworkTypes, DbInv, PostsInv, NEW s \in Slots, Post(s)
    PROVE  PostsInv'
<1> DEFINE p == <<reply[s].key, reply[s].command.transaction_id>>
<1>1. /\ handler[s] = "reserving" /\ ret[s].status = "ACQUIRED"
      /\ handler' = [handler EXCEPT ![s] = "calling"]
      /\ posts' = [posts EXCEPT ![<<arg[s].key, TxnOf(arg[s])>>] = @ + 1]
      /\ records' = records /\ ret' = ret /\ reply' = reply
  BY DEF Post, coordVars
<1>2. arg[s].key = reply[s].key /\ TxnOf(arg[s]) = reply[s].command.transaction_id
      /\ reply[s].key \in Keys /\ reply[s].command.transaction_id \in Txns
  BY <1>1, ReservingCall
<1>3. posts[p] = 0 /\ KeyStored(reply[s].key)
      /\ records[reply[s].key].transaction_id = reply[s].command.transaction_id
  BY <1>1, <1>2, DbFacts DEF PostsInv, FirstPost, CallFacts
<1>4. posts' = [posts EXCEPT ![p] = 1]
  BY <1>1, <1>2, <1>3
<1>5. p \in DOMAIN posts /\ DOMAIN posts = Keys \X Txns
  BY <1>2 DEF NetworkTypes
<1>6. ASSUME NEW k \in Keys, NEW t \in Txns
      PROVE  /\ posts'[<<k, t>>] \in {0, 1}
             /\ posts'[<<k, t>>] # 0 => KeyStored(k)' /\ records'[k].transaction_id = t
  <2>1. KeyStored(k)' = KeyStored(k)
    BY <1>1 DEF KeyStored
  <2>2. CASE <<k, t>> = p
    <3>1. posts'[<<k, t>>] = 1 /\ k = reply[s].key /\ t = reply[s].command.transaction_id
      BY <1>4, <1>5, <2>2
    <3> QED
      BY <1>1, <1>3, <2>1, <3>1
  <2>3. CASE <<k, t>> # p
    <3>1. posts'[<<k, t>>] = posts[<<k, t>>]
      BY <1>4, <1>5, <2>3
    <3> QED
      BY <1>1, <2>1, <3>1 DEF PostsInv, PostsOwned
  <2> QED
    BY <2>2, <2>3
<1>7. ASSUME NEW r \in Slots PROVE FirstPost(r)'
  <2> SUFFICES ASSUME handler'[r] = "reserving", ret'[r].status = "ACQUIRED"
               PROVE  posts'[<<reply[r].key, reply[r].command.transaction_id>>] = 0
    BY <1>1 DEF FirstPost
  <2>1. r # s /\ handler[r] = "reserving" /\ ret[r].status = "ACQUIRED"
    BY <1>1 DEF ControlInv
  <2>2. /\ arg[r].key = reply[r].key /\ reply[r].key \in Keys
        /\ reply[r].command.transaction_id \in Txns
    BY <2>1, ReservingCall
  <2>3. reply[r].key # reply[s].key
    BY <1>1, <1>2, <2>1, <2>2, DbFacts DEF CallFacts
  <2>4. posts'[<<reply[r].key, reply[r].command.transaction_id>>] =
        posts[<<reply[r].key, reply[r].command.transaction_id>>]
    BY <1>4, <1>5, <2>2, <2>3
  <2> QED
    BY <2>1, <2>4 DEF PostsInv, FirstPost
<1> QED
  BY <1>6, <1>7 DEF PostsInv, PostsOwned

\* Every step keeps the invocations.
LEMMA PostsStep ==
    ASSUME ControlInv, NetworkTypes, DbInv, PostsInv, [Next]_vars
    PROVE  PostsInv'
<1>1. CASE \E s \in Slots : Post(s)
  BY <1>1, PostKeeps
<1>2. CASE ~\E s \in Slots : Post(s)
  <2>1. posts' = posts
    BY <1>2
    DEF Next, vars, Submit, NotAcquired, PostFails, Receive, Unhandled, Timeout, TransportFailure, Completed, Sql,
        Handle, HandleGarbled, GatewayFails, GatewayRejects, DatabaseFails, Crash, HandleStray,
        Conclude, networkVars
  <2>2. ASSUME NEW s \in Slots, handler'[s] = "reserving", ret'[s].status = "ACQUIRED"
        PROVE  /\ reply'[s] = reply[s] /\ handler[s] = "reserving"
               /\ ret[s].status = "ACQUIRED" \/ ~KeyStored(reply[s].key)
    <3>1. reply'[s] = reply[s] /\ handler[s] = "reserving"
      BY <2>2, Reservers
    <3>2. arg[s].key = reply[s].key
      BY <3>1, ReservingCall
    <3> QED
      BY <2>2, <3>1, <3>2, Acquirers
  <2> QED
    BY <2>1, <2>2, PostsStay, SMTT(60)
<1> QED
  BY <1>1, <1>2

\* Nobody has called the network initially.
LEMMA PostsInit == Init => PostsInv
<1> SUFFICES ASSUME Init PROVE PostsInv
  OBVIOUS
<1>1. posts = [kt \in Keys \X Txns |-> 0] /\ handler = [s \in Slots |-> "idle"]
  BY DEF Init
<1>2. \A k \in Keys, t \in Txns : posts[<<k, t>>] = 0
  BY <1>1
<1> QED
  BY <1>1, <1>2 DEF PostsInv, PostsOwned, FirstPost

\* The types of the network and the counts hold in every reachable state.
LEMMA PostsHolds == Spec => [](NetworkTypes /\ PostsInv)
  BY ControlHolds, DbHolds, NetworkInit, NetworkStep, PostsInit, PostsStep, PTL DEF Spec

\* The network is called at most once for a key and at most once for a
\* transaction, whatever requests race, retry, crash or lose their database,
\* for any number of handlers, keys, transactions and faults.
THEOREM InvokedAtMostOnce == Spec => []AtMostOneInvocation
<1>1. ASSUME DbInv, PostsInv PROVE AtMostOneInvocation
  <2> SUFFICES ASSUME NEW p \in Keys \X Txns, NEW q \in Keys \X Txns
               PROVE  /\ posts[p] <= 1
                      /\ p # q /\ posts[p] > 0 /\ posts[q] > 0 => p[1] # q[1] /\ p[2] # q[2]
    BY DEF AtMostOneInvocation
  <2>1. /\ p[1] \in Keys /\ p[2] \in Txns /\ p = <<p[1], p[2]>>
        /\ q[1] \in Keys /\ q[2] \in Txns /\ q = <<q[1], q[2]>>
    OBVIOUS
  <2>2. /\ posts[p] \in {0, 1}
        /\ posts[p] # 0 => KeyStored(p[1]) /\ records[p[1]].transaction_id = p[2]
    BY <1>1, <2>1 DEF PostsInv, PostsOwned
  <2>3. /\ posts[q] \in {0, 1}
        /\ posts[q] # 0 => KeyStored(q[1]) /\ records[q[1]].transaction_id = q[2]
    BY <1>1, <2>1 DEF PostsInv, PostsOwned
  <2>4. ASSUME p # q, posts[p] > 0, posts[q] > 0
        PROVE  p[1] # q[1] /\ p[2] # q[2]
    <3>1. /\ KeyStored(p[1]) /\ records[p[1]].transaction_id = p[2]
          /\ KeyStored(q[1]) /\ records[q[1]].transaction_id = q[2]
      BY <2>2, <2>3, <2>4
    <3>2. p[2] = q[2] => p[1] = q[1]
      BY <1>1, <2>1, <3>1, DbFacts DEF TableFacts
    <3>3. ~(p[1] = q[1] /\ p[2] = q[2])
      BY <2>1, <2>4
    <3> QED
      BY <3>1, <3>2, <3>3
  <2> QED
    BY <2>2, <2>4
<1> QED
  BY <1>1, DbHolds, PostsHolds, PTL
=============================================================================
