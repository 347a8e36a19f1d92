------------------------------ MODULE PoolProofs ------------------------------
(***************************************************************************)
(* The connection pool only delays: the coordinator behind it does nothing *)
(* that it could not do without, so what is proved of the coordinator      *)
(* holds behind the pool, and no connection is lost, for every limit of    *)
(* the pool and every number of handlers.                                  *)
(***************************************************************************)
EXTENDS ConnectionPool, FiniteSetTheorems, TLAPS

\* The coordinator's theorems, read in the state of this module.
Db == INSTANCE CoordinatorProofs

-----------------------------------------------------------------------------
(* Refinement: every step is one of the coordinator's, or leaves it alone. *)

\* The initial states are the coordinator's.
LEMMA InitRefines == Init => Clients!CoordInit
  BY SMTT(60) DEF Init, CoordInit, Clients!CoordInit, NoTxnRow, Clients!NoTxnRow, NoIdemRow,
         Clients!NoIdemRow, NoArg, Clients!NoArg, Return, Clients!Return, NoEnvelope,
         Clients!NoEnvelope, ProblemEnvelope, Clients!ProblemEnvelope, NoOperation,
         Clients!NoOperation

\* A statement is a statement.
LEMMA StatementRefines ==
    ASSUME NEW s \in Slots, Statement(s)
    PROVE  \/ Clients!SelectKey(s) \/ Clients!InsertTransaction(s) \/ Clients!InsertRecord(s)
           \/ Clients!CommitReserve(s) \/ Clients!Requery(s) \/ Clients!RequeryTransaction(s)
           \/ Clients!UpdateTransaction(s) \/ Clients!UpdateRecord(s) \/ Clients!CommitComplete(s)
  BY DEF Statement,
         SelectKey, Clients!SelectKey, InsertTransaction, Clients!InsertTransaction,
      InsertRecord, Clients!InsertRecord, ReservedTxnRow, Clients!ReservedTxnRow,
      ReservedRecord, Clients!ReservedRecord, WriteReservation, Clients!WriteReservation,
      CommitReserve, Clients!CommitReserve, ExistingReservation,
      Clients!ExistingReservation, Requery, Clients!Requery, RequeryTransaction,
      Clients!RequeryTransaction, VersionMatches, Clients!VersionMatches, UpdateTransaction,
      Clients!UpdateTransaction, RecordMatches, Clients!RecordMatches, UpdateRecord,
      Clients!UpdateRecord, CompletedTxnRow, Clients!CompletedTxnRow, CompletedRecord,
      Clients!CompletedRecord, WriteCompletion, Clients!WriteCompletion, CommitComplete,
      Clients!CommitComplete, RequestFingerprint, Clients!RequestFingerprint,
      ProblemEnvelope, Clients!ProblemEnvelope, AllowlistedHeaders,
      Clients!AllowlistedHeaders, ReplayMediaType, Clients!ReplayMediaType, NoTxnRow,
      Clients!NoTxnRow, NoIdemRow, Clients!NoIdemRow, ReplayEnvelope,
      Clients!ReplayEnvelope, ClassifyExisting, Clients!ClassifyExisting, NoEnvelope,
      Clients!NoEnvelope, Return, Clients!Return, TxnOf, Clients!TxnOf, TxnStored,
      Clients!TxnStored, KeyStored, Clients!KeyStored, TxnRowHolders, Clients!TxnRowHolders,
      KeyHolders, Clients!KeyHolders, TxnUpdaters, Clients!TxnUpdaters, GoTo, Clients!GoTo,
      Finish, Clients!Finish, NoOperation, Clients!NoOperation, Storable, Clients!Storable

\* A fault is a fault.
LEMMA FaultRefines ==
    ASSUME NEW s \in Slots, DatabaseFault(s)
    PROVE  Clients!SqlFailure(s) \/ Clients!ReserveAckLost(s) \/ Clients!CompleteAckLost(s)
  BY DEF DatabaseFault,
         Fault, Clients!Fault, SqlFailure, Clients!SqlFailure, ReserveAckLost,
      Clients!ReserveAckLost, CompleteAckLost, Clients!CompleteAckLost, WriteReservation,
      Clients!WriteReservation, WriteCompletion, Clients!WriteCompletion, ReservedTxnRow,
      Clients!ReservedTxnRow, ReservedRecord, Clients!ReservedRecord, CompletedTxnRow,
      Clients!CompletedTxnRow, CompletedRecord, Clients!CompletedRecord, AllowlistedHeaders,
      Clients!AllowlistedHeaders, RequestFingerprint, Clients!RequestFingerprint, NoTxnRow,
      Clients!NoTxnRow, NoIdemRow, Clients!NoIdemRow, NoOperation, Clients!NoOperation,
      Finish, Clients!Finish, Return, Clients!Return, NoEnvelope, Clients!NoEnvelope,
      ProblemEnvelope, Clients!ProblemEnvelope, dbVars, Clients!dbVars

\* Every step of the pool is a step of the coordinator or leaves it alone.
LEMMA StepRefines ==
    ASSUME [Next]_vars
    PROVE  [Clients!Next]_(Clients!coordVars)
<1>1. CASE UNCHANGED vars
  BY <1>1 DEF vars, Clients!coordVars
<1>2. ASSUME NEW s \in Slots, Reserve(s)
      PROVE  Clients!Next
  <2>1. PICK k \in Keys, c \in Command : CallReserve(s, k, c)
    BY <1>2 DEF Reserve
  <2>2. Clients!CallReserve(s, k, c)
    BY <2>1 DEF CallReserve, Clients!CallReserve, Begin, Clients!Begin, Return, Clients!Return,
                NoEnvelope, Clients!NoEnvelope, ProblemEnvelope, Clients!ProblemEnvelope
  <2>3. c \in Clients!Command
    BY DEF Command, Clients!Command
  <2> QED
    BY <2>2, <2>3 DEF Clients!Next
<1>3. ASSUME NEW s \in Slots, Complete(s)
      PROVE  Clients!Next
  <2>1. PICK a \in CompleteCalls : CallComplete(s, a)
    BY <1>3 DEF Complete
  <2>2. Clients!CallComplete(s, a)
    BY <2>1 DEF CallComplete, Clients!CallComplete, Begin, Clients!Begin, Return, Clients!Return,
                NoEnvelope, Clients!NoEnvelope, ProblemEnvelope, Clients!ProblemEnvelope
  <2> QED
    BY <2>2 DEF Clients!Next
<1>4. ASSUME NEW s \in Slots, Checkout(s)
      PROVE  UNCHANGED Clients!coordVars
  BY <1>4 DEF Checkout, coordVars, Clients!coordVars
<1>5. ASSUME NEW s \in Slots, Sql(s)
      PROVE  Clients!Next
  BY <1>5, StatementRefines DEF Sql, Clients!Next
<1>6. ASSUME NEW s \in Slots, Fails(s)
      PROVE  Clients!Next
  BY <1>6, FaultRefines DEF Fails, Clients!Next
<1>7. ASSUME NEW s \in Slots, Cancelled(s)
      PROVE  Clients!Next
  <2>1. Clients!Fault /\ Clients!Abandon(s)
    BY <1>7 DEF Cancelled, Fault, Clients!Fault, Abandon, Clients!Abandon, NoArg, Clients!NoArg,
                Return, Clients!Return, NoEnvelope, Clients!NoEnvelope, ProblemEnvelope,
                Clients!ProblemEnvelope, dbVars, Clients!dbVars
  <2> QED
    BY <2>1 DEF Clients!Next
<1> QED
  BY <1>1, <1>2, <1>3, <1>4, <1>5, <1>6, <1>7 DEF Next

\* With a pool of any size the coordinator does nothing that it could not do
\* without: waiting for a connection, returning it before the re-query and
\* losing it with a cancelled task change when statements run, not which.
THEOREM PoolRefinesCoordinator == Spec => PoolOnlyDelays
  BY InitRefines, StepRefines, PTL DEF Spec, PoolOnlyDelays, Clients!Spec

-----------------------------------------------------------------------------
(* The coordinator's theorems hold behind the pool.                        *)

\* The two instances of the coordinator are one.
LEMMA SameCoordinator == Clients!Spec => Db!Spec
  BY PTL
  DEF Clients!Spec, Db!Spec, Clients!Next, Db!Next, Clients!CoordInit, Db!CoordInit,
      Clients!CallReserve, Db!CallReserve, Clients!CallComplete, Db!CallComplete,
      Clients!Abandon, Db!Abandon, Clients!Command, Db!Command, Clients!SelectKey,
      Db!SelectKey, Clients!InsertTransaction, Db!InsertTransaction, Clients!InsertRecord,
      Db!InsertRecord, Clients!ReservedTxnRow, Db!ReservedTxnRow, Clients!ReservedRecord,
      Db!ReservedRecord, Clients!WriteReservation, Db!WriteReservation,
      Clients!CommitReserve, Db!CommitReserve, Clients!ExistingReservation,
      Db!ExistingReservation, Clients!Requery, Db!Requery, Clients!RequeryTransaction,
      Db!RequeryTransaction, Clients!VersionMatches, Db!VersionMatches,
      Clients!UpdateTransaction, Db!UpdateTransaction, Clients!RecordMatches,
      Db!RecordMatches, Clients!UpdateRecord, Db!UpdateRecord, Clients!CompletedTxnRow,
      Db!CompletedTxnRow, Clients!CompletedRecord, Db!CompletedRecord,
      Clients!WriteCompletion, Db!WriteCompletion, Clients!CommitComplete,
      Db!CommitComplete, Clients!Fault, Db!Fault, Clients!SqlFailure, Db!SqlFailure,
      Clients!ReserveAckLost, Db!ReserveAckLost, Clients!CompleteAckLost,
      Db!CompleteAckLost, Clients!coordVars, Db!coordVars, Clients!dbVars, Db!dbVars,
      Clients!RequestFingerprint, Db!RequestFingerprint, Clients!ProblemEnvelope,
      Db!ProblemEnvelope, Clients!AllowlistedHeaders, Db!AllowlistedHeaders,
      Clients!ReplayMediaType, Db!ReplayMediaType, Clients!NoTxnRow, Db!NoTxnRow,
      Clients!NoIdemRow, Db!NoIdemRow, Clients!ReplayEnvelope, Db!ReplayEnvelope,
      Clients!ClassifyExisting, Db!ClassifyExisting, Clients!NoArg, Db!NoArg,
      Clients!NoEnvelope, Db!NoEnvelope, Clients!Return, Db!Return, Clients!TxnOf, Db!TxnOf,
      Clients!TxnStored, Db!TxnStored, Clients!KeyStored, Db!KeyStored,
      Clients!TxnRowHolders, Db!TxnRowHolders, Clients!KeyHolders, Db!KeyHolders,
      Clients!TxnUpdaters, Db!TxnUpdaters, Clients!GoTo, Db!GoTo, Clients!Finish, Db!Finish,
      Clients!Begin, Db!Begin, Clients!NoOperation, Db!NoOperation, Clients!Storable, Db!Storable

\* The assumptions of the coordinator's theorems are those of this module.
LEMMA DbAssumptions ==
    /\ None \notin Keys /\ None \notin Txns /\ None \notin Db!Command
       /\ None \notin Db!Body /\ None \notin Db!Envelope
    /\ MaxFaults \in Nat /\ Unstorable \subseteq Txns \cup Terms
    /\ CompleteCalls \subseteq {a \in Db!CompleteArg : Db!ValidEntity(a.entity)}
<1>1. Command = Db!Command /\ Body = Db!Body /\ Envelope = Db!Envelope
  BY DEF Command, Db!Command, Body, Db!Body, Envelope, Db!Envelope, Documents, Db!Documents,
         Headers, Db!Headers, HeaderNames, Db!HeaderNames, MediaTypes, Db!MediaTypes
<1>2. Entity = Db!Entity
  BY DEF Entity, Db!Entity, TransactionStatus, Db!TransactionStatus, PendingOperation,
         Db!PendingOperation, NoOperation, Db!NoOperation
<1>3. CompleteArg = Db!CompleteArg
  BY <1>1, <1>2 DEF CompleteArg, Db!CompleteArg
<1>4. \A e : ValidEntity(e) <=> Db!ValidEntity(e)
  BY DEF ValidEntity, Db!ValidEntity, NoOperation, Db!NoOperation
<1> QED
  BY <1>1, <1>3, <1>4, NoneAssumption, MaxFaultsAssumption, UnstorableAssumption, CallersAssumption

\* The types of the coordinator hold behind the pool.
LEMMA DbTypes == Spec => []Db!TypeOK
<1>1. Db!Spec => []Db!TypeOK
  BY DbAssumptions, Db!TypeCorrect
<1> QED
  BY <1>1, PoolRefinesCoordinator, SameCoordinator, PTL DEF PoolOnlyDelays

\* The guarantees that CoordinatorProofs establishes for the coordinator's
\* callers also hold when their sessions share a pool: the two tables agree,
\* no statements wait in a circle, a reservation has one winner, verdicts are
\* true, conflicts are explained, completions are final and every row passes the
\* constraints of the schema.
THEOREM SafeBehindPool ==
    Spec => [](/\ Db!TablesAgree /\ Db!NoCircularWait /\ Db!UniqueWinner
               /\ Db!VerdictsAreTrue /\ Db!ConflictExplained
               /\ Db!CompletionIsFinal /\ Db!RowsPassChecks)
<1>1. Db!Spec => []Db!TablesAgree
  BY DbAssumptions, Db!TablesAlwaysAgree
<1>2. Db!Spec => []Db!UniqueWinner
  BY DbAssumptions, Db!WinnerIsUnique
<1>3. Db!Spec => []Db!VerdictsAreTrue
  BY DbAssumptions, Db!VerdictsStayTrue
<1>4. Db!Spec => []Db!CompletionIsFinal
  BY DbAssumptions, Db!CompletionsAreFinal
<1>5. Db!Spec => []Db!RowsPassChecks
  BY DbAssumptions, Db!RowsAlwaysPassChecks
<1>6. Db!Spec => []Db!NoCircularWait
  BY DbAssumptions, Db!WaitsNeverCircle
<1>7. Db!Spec => []Db!ConflictExplained
  BY DbAssumptions, Db!ConflictsAreExplained
<1> QED
  BY <1>1, <1>2, <1>3, <1>4, <1>5, <1>6, <1>7, PoolRefinesCoordinator, SameCoordinator, PTL DEF PoolOnlyDelays

-----------------------------------------------------------------------------
(* Connections.  The inductive invariant is ConnectionsBalance itself with *)
(* the types of the pool's two variables, over the coordinator's types.    *)

Holders == {s \in Slots : connected[s]}

PoolInv ==
    /\ idle \in Nat
    /\ connected \in [Slots -> BOOLEAN]
    /\ ConnectionsBalance

\* Holders is finite and is what ConnectionsBalance counts.
LEMMA HoldersFinite ==
    ASSUME PoolInv
    PROVE  /\ IsFiniteSet(Holders) /\ Cardinality(Holders) \in Nat
           /\ idle + Cardinality(Holders) = PoolLimit
<1>1. Holders \in SUBSET Slots
  BY DEF Holders
<1>2. IsFiniteSet(Holders)
  BY <1>1, CallersAssumption, FS_Subset
<1>3. Cardinality(Holders) \in Nat
  BY <1>2, FS_CardinalityType
<1> QED
  BY <1>2, <1>3 DEF PoolInv, ConnectionsBalance, Holders

\* A session that takes a connection takes one that was idle.
LEMMA CheckoutBalances ==
    ASSUME PoolInv, NEW s \in Slots, Checkout(s)
    PROVE  PoolInv'
<1>1. s \notin Holders /\ Holders' = Holders \cup {s} /\ connected' \in [Slots -> BOOLEAN]
  BY DEF Checkout, PoolInv, Holders
<1>2. Cardinality(Holders \cup {s}) = Cardinality(Holders) + 1
  BY <1>1, HoldersFinite, FS_AddElement
<1>3. idle \in Nat /\ idle > 0 /\ idle' = idle - 1
  BY DEF Checkout, PoolInv
<1>4. idle' \in Nat /\ idle' + Cardinality(Holders') = PoolLimit
  BY <1>1, <1>2, <1>3, HoldersFinite
<1>5. \A r \in Slots : connected'[r] => at'[r] # "free"
  <2>1. at' = at /\ at[s] # "free"
    BY DEF Checkout, coordVars
  <2>2. \A r \in Slots : connected'[r] => r = s \/ connected[r]
    BY DEF Checkout, PoolInv
  <2> QED
    BY <2>1, <2>2 DEF PoolInv, ConnectionsBalance
<1> QED
  BY <1>1, <1>4, <1>5 DEF PoolInv, ConnectionsBalance, Holders

\* A session that closes returns its connection, if it has one, exactly once.
LEMMA ReleaseBalances ==
    ASSUME PoolInv, NEW s \in Slots, Release(s),
           \A r \in Slots \ {s} : at'[r] = at[r]
    PROVE  PoolInv'
<1>1. connected' \in [Slots -> BOOLEAN]
  BY DEF Release, PoolInv
<1>2. \A r \in Slots \ {s} : connected'[r] = connected[r]
  BY DEF Release, PoolInv
<1>3. connected'[s] = (connected[s] /\ ~SessionCloses(s))
  BY DEF Release, PoolInv
<1>4. CASE SessionCloses(s) /\ connected[s]
  <2>1. s \in Holders /\ Holders' = Holders \ {s}
    BY <1>2, <1>3, <1>4 DEF Holders
  <2>2. Cardinality(Holders \ {s}) = Cardinality(Holders) - 1
    BY <2>1, HoldersFinite, FS_RemoveElement
  <2>3. idle' = idle + 1 /\ idle \in Nat
    BY <1>4 DEF Release, PoolInv
  <2>4. idle' \in Nat /\ idle' + Cardinality(Holders') = PoolLimit
    BY <2>1, <2>2, <2>3, HoldersFinite
  <2>5. \A r \in Slots : connected'[r] => at'[r] # "free"
    BY <1>2, <1>3, <1>4 DEF PoolInv, ConnectionsBalance
  <2> QED
    BY <1>1, <2>4, <2>5 DEF PoolInv, ConnectionsBalance, Holders
<1>5. CASE ~(SessionCloses(s) /\ connected[s])
  <2>1. Holders' = Holders
    BY <1>2, <1>3, <1>5 DEF Holders
  <2>2. idle' = idle
    BY <1>5 DEF Release
  <2>3. \A r \in Slots : connected'[r] => at'[r] # "free"
    <3>1. connected'[s] => at'[s] # "free"
      BY <1>3 DEF SessionCloses
    <3> QED
      BY <1>2, <3>1 DEF PoolInv, ConnectionsBalance
  <2>4. idle' \in Nat /\ idle' + Cardinality(Holders') = PoolLimit
    BY <2>1, <2>2, HoldersFinite DEF PoolInv
  <2> QED
    BY <1>1, <2>3, <2>4 DEF PoolInv, ConnectionsBalance, Holders
<1> QED
  BY <1>4, <1>5

\* A call that begins has no connection yet.
LEMMA BeginBalances ==
    ASSUME PoolInv, NEW s \in Slots, at[s] = "free", UNCHANGED poolVars,
           \A r \in Slots \ {s} : at'[r] = at[r]
    PROVE  PoolInv'
<1>1. connected' = connected /\ idle' = idle /\ Holders' = Holders
  BY DEF poolVars, Holders
<1>2. \A r \in Slots : connected'[r] => at'[r] # "free"
  BY <1>1 DEF PoolInv, ConnectionsBalance
<1> QED
  BY <1>1, <1>2 DEF PoolInv, ConnectionsBalance

\* Every step keeps the balance.
LEMMA PoolStep ==
    ASSUME Db!TypeOK, PoolInv, [Next]_vars
    PROVE  PoolInv'
<1>1. DOMAIN at = Slots
  BY DEF Db!TypeOK, Db!CallsTypeOK
<1>2. CASE UNCHANGED vars
  BY <1>2 DEF vars, PoolInv, ConnectionsBalance
<1>3. ASSUME NEW s \in Slots, Reserve(s) \/ Complete(s)
      PROVE  PoolInv'
  <2>1. UNCHANGED poolVars /\ at[s] = "free"
    BY <1>3 DEF Reserve, Complete, CallReserve, CallComplete, Begin
  <2>2. \A r \in Slots \ {s} : at'[r] = at[r]
    BY <1>1, <1>3 DEF Reserve, Complete, CallReserve, CallComplete, Begin
  <2> QED
    BY <2>1, <2>2, BeginBalances
<1>4. ASSUME NEW s \in Slots, Checkout(s)
      PROVE  PoolInv'
  BY <1>4, CheckoutBalances
<1>5. ASSUME NEW s \in Slots, Sql(s)
      PROVE  PoolInv'
  <2>1. \E step : at' = [at EXCEPT ![s] = step]
    BY <1>5 DEF Sql, Statement, SelectKey, InsertTransaction, InsertRecord, CommitReserve, Requery,
                RequeryTransaction, UpdateTransaction, UpdateRecord, CommitComplete, GoTo, Finish
  <2>2. \A r \in Slots \ {s} : at'[r] = at[r]
    BY <1>1, <2>1
  <2> QED
    BY <1>5, <2>2, ReleaseBalances DEF Sql
<1>6. ASSUME NEW s \in Slots, Fails(s) \/ Cancelled(s)
      PROVE  PoolInv'
  <2>1. at' = [at EXCEPT ![s] = "free"] /\ Release(s)
    BY <1>6 DEF Fails, Cancelled, DatabaseFault, SqlFailure, ReserveAckLost, CompleteAckLost,
                Abandon, Finish
  <2> QED
    BY <1>1, <2>1, ReleaseBalances
<1> QED
  BY <1>2, <1>3, <1>4, <1>5, <1>6 DEF Next

\* Initially every connection is in the pool.
LEMMA PoolInit == Init => PoolInv
<1> SUFFICES ASSUME Init PROVE PoolInv
  OBVIOUS
<1>1. connected = [s \in Slots |-> FALSE] /\ idle = PoolLimit
  BY DEF Init
<1>2. {s \in Slots : connected[s]} = {}
  BY <1>1
<1>3. Cardinality({s \in Slots : connected[s]}) = 0
  BY <1>2, FS_EmptySet
<1> QED
  BY <1>1, <1>3, PoolAssumption DEF PoolInv, ConnectionsBalance

\* No connection is lost, counted twice or held during the network call, on any
\* way out of reserve and complete, for any limit and any number of handlers.
THEOREM ConnectionsAlwaysBalance == Spec => []ConnectionsBalance
<1>1. PoolInv => ConnectionsBalance
  BY DEF PoolInv
<1> QED
  BY <1>1, PoolInit, PoolStep, DbTypes, PTL DEF Spec

-----------------------------------------------------------------------------
(* Waiting.  A session keeps its connection from its first statement to    *)
(* its COMMIT, so whoever holds a row holds a connection; and the waits    *)
(* for rows have no circle: a holder of a transaction row waits at most    *)
(* for a key, and a holder of a key for nothing.                           *)

MidSession == {"insertTxn", "insertRecord", "commitReserve", "requeryTxn",
               "updateRecord", "commitComplete"}

SessionInv == \A s \in Slots : at[s] \in MidSession => connected[s]

\* The guard of the next statement: no other session holds the row it needs.
NeedNotWait(s) ==
    /\ at[s] # "free"
    /\ at[s] = "insertTxn" /\ Storable(arg[s].command) =>
          TxnRowHolders(TxnOf(arg[s])) \subseteq {s}
    /\ at[s] = "insertRecord" => KeyHolders(arg[s].key) \subseteq {s}
    /\ at[s] = "updateTxn" /\ VersionMatches(arg[s]) /\ arg[s].fits =>
          TxnUpdaters(TxnOf(arg[s])) \subseteq {s}

\* A session that has begun keeps its connection until it closes.
LEMMA SessionStep ==
    ASSUME Db!TypeOK, PoolInv, SessionInv, [Next]_vars
    PROVE  SessionInv'
<1>1. DOMAIN at = Slots /\ connected \in [Slots -> BOOLEAN]
  BY DEF Db!TypeOK, Db!CallsTypeOK, PoolInv
<1>2. CASE UNCHANGED vars
  BY <1>2 DEF vars, SessionInv
<1>3. ASSUME NEW s \in Slots, Reserve(s) \/ Complete(s)
      PROVE  SessionInv'
  <2>1. connected' = connected /\ at'[s] \in {"select", "updateTxn", "free"}
    BY <1>1, <1>3 DEF Reserve, Complete, CallReserve, CallComplete, Begin, poolVars
  <2>2. \A r \in Slots \ {s} : at'[r] = at[r]
    BY <1>1, <1>3 DEF Reserve, Complete, CallReserve, CallComplete, Begin
  <2> QED
    BY <2>1, <2>2 DEF SessionInv, MidSession
<1>4. ASSUME NEW s \in Slots, Checkout(s)
      PROVE  SessionInv'
  BY <1>1, <1>4 DEF Checkout, coordVars, SessionInv
<1>5. ASSUME NEW s \in Slots, NEW step, at' = [at EXCEPT ![s] = step], Release(s),
             step \in MidSession => connected[s]
      PROVE  SessionInv'
  <2>1. at'[s] = step /\ \A r \in Slots \ {s} : at'[r] = at[r] /\ connected'[r] = connected[r]
    BY <1>1, <1>5 DEF Release
  <2>2. connected'[s] = (connected[s] /\ ~SessionCloses(s))
    BY <1>1, <1>5 DEF Release
  <2>3. step \in MidSession => ~SessionCloses(s)
    BY <2>1 DEF SessionCloses, MidSession
  <2> QED
    BY <1>5, <2>1, <2>2, <2>3 DEF SessionInv
<1>6. ASSUME NEW s \in Slots, Sql(s)
      PROVE  SessionInv'
  <2>1. PICK step : at' = [at EXCEPT ![s] = step]
    BY <1>6 DEF Sql, Statement, SelectKey, InsertTransaction, InsertRecord, CommitReserve, Requery,
                RequeryTransaction, UpdateTransaction, UpdateRecord, CommitComplete, GoTo, Finish
  <2> QED
    BY <1>5, <1>6, <2>1 DEF Sql
<1>7. ASSUME NEW s \in Slots, Fails(s) \/ Cancelled(s)
      PROVE  SessionInv'
  <2>1. at' = [at EXCEPT ![s] = "free"] /\ Release(s)
    BY <1>7 DEF Fails, Cancelled, DatabaseFault, SqlFailure, ReserveAckLost, CompleteAckLost,
                Abandon, Finish
  <2> QED
    BY <1>5, <2>1 DEF MidSession
<1> QED
  BY <1>2, <1>3, <1>4, <1>6, <1>7 DEF Next

\* Whoever holds a key goes on; whoever holds a transaction row goes on, or
\* waits for a key's holder who does.
LEMMA HoldersGoOn ==
    ASSUME SessionInv, NEW r \in Slots, at[r] \in {"insertRecord", "commitReserve",
                                                   "updateRecord", "commitComplete"}
    PROVE  \E s \in Slots : connected[s] /\ NeedNotWait(s)
<1>1. connected[r]
  BY DEF SessionInv, MidSession
<1>2. CASE at[r] # "insertRecord"
  BY <1>1, <1>2 DEF NeedNotWait
<1>3. CASE at[r] = "insertRecord" /\ KeyHolders(arg[r].key) \subseteq {r}
  BY <1>1, <1>3 DEF NeedNotWait
<1>4. CASE ~(KeyHolders(arg[r].key) \subseteq {r})
  <2>1. PICK q \in KeyHolders(arg[r].key) : q # r
    BY <1>4
  <2>2. q \in Slots /\ at[q] \in {"commitReserve", "commitComplete"}
    BY <2>1 DEF KeyHolders
  <2> QED
    BY <2>2 DEF SessionInv, MidSession, NeedNotWait
<1> QED
  BY <1>2, <1>3, <1>4

\* When the pool is exhausted, somebody who holds a connection need not wait:
\* callers that wait for rows or for the re-query's connection never wait in a
\* circle with callers that wait for the pool, however small it is and however
\* many there are.
THEOREM NobodyWaitsInCircle ==
    Spec => [](idle = 0 => \E s \in Slots : connected[s] /\ NeedNotWait(s))
<1>1. ASSUME PoolInv, SessionInv, idle = 0
      PROVE  \E s \in Slots : connected[s] /\ NeedNotWait(s)
  <2>1. Cardinality(Holders) # 0
    BY <1>1, HoldersFinite, PoolAssumption
  <2>2. Holders # {}
    BY <2>1, FS_EmptySet
  <2>3. PICK s \in Slots : connected[s]
    BY <2>2 DEF Holders
  <2>4. at[s] # "free"
    BY <1>1, <2>3 DEF PoolInv, ConnectionsBalance
  <2>5. CASE NeedNotWait(s)
    BY <2>3, <2>5
  <2>6. CASE at[s] = "insertTxn" /\ ~(TxnRowHolders(TxnOf(arg[s])) \subseteq {s})
    <3>1. PICK r \in TxnRowHolders(TxnOf(arg[s])) : r # s
      BY <2>6
    <3>2. r \in Slots /\ at[r] \in {"insertRecord", "commitReserve", "updateRecord", "commitComplete"}
      BY <3>1 DEF TxnRowHolders
    <3> QED
      BY <1>1, <3>2, HoldersGoOn
  <2>7. CASE at[s] = "insertRecord"
    BY <1>1, <2>7, HoldersGoOn
  <2>8. CASE at[s] = "updateTxn" /\ ~(TxnUpdaters(TxnOf(arg[s])) \subseteq {s})
    <3>1. PICK r \in TxnUpdaters(TxnOf(arg[s])) : r # s
      BY <2>8
    <3>2. r \in Slots /\ at[r] \in {"updateRecord", "commitComplete"}
      BY <3>1 DEF TxnUpdaters, TxnRowHolders
    <3> QED
      BY <1>1, <3>2, HoldersGoOn
  <2> QED
    BY <2>4, <2>5, <2>6, <2>7, <2>8 DEF NeedNotWait
<1>2. Init => SessionInv
  BY DEF Init, CoordInit, SessionInv, MidSession
<1>3. PoolInv /\ SessionInv => (idle = 0 => \E s \in Slots : connected[s] /\ NeedNotWait(s))
  BY <1>1
<1> QED
  BY <1>2, <1>3, PoolInit, PoolStep, SessionStep, DbTypes, PTL DEF Spec
=============================================================================
