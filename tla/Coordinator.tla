----------------------------- MODULE Coordinator -----------------------------
(***************************************************************************)
(* SqlAlchemyIdempotencyCoordinator over PostgreSQL at READ COMMITTED: the *)
(* two tables and, per caller slot, the SQL statement its open database    *)
(* transaction is about to run.                                            *)
(*                                                                         *)
(* The tables hold committed rows only.  What a transaction has written    *)
(* but not committed is determined by the statement it has reached         *)
(* (TxnRowHolders, KeyHolders): another session's statement on such a row  *)
(* waits until the writer commits or rolls back.  A rollback therefore     *)
(* leaves the tables as they are and releases what the slot held.          *)
(*                                                                         *)
(* Rollback on a lost connection is instantaneous: nobody observes the     *)
(* delay until the server notices, except as a longer wait.                *)
(***************************************************************************)
EXTENDS Idempotency

CONSTANTS Slots,       \* concurrent callers of the coordinator
          MaxFaults,   \* bound on database faults and crashes
          Unstorable   \* identifiers and terms that some column does not take

ASSUME MaxFaultsAssumption == MaxFaults \in Nat

ASSUME UnstorableAssumption == Unstorable \subseteq Txns \cup Terms

VARIABLES txns,      \* the transactions table
          records,   \* the idempotency_records table
          at,        \* the statement each slot's transaction runs next
          arg,       \* the arguments of each slot's call
          ret,       \* what each slot's last call returned or raised
          faults     \* faults so far

dbVars == <<txns, records>>
callVars == <<at, arg, ret>>
coordVars == <<txns, records, at, arg, ret, faults>>

ReserveArg == [op : {"reserve"}, key : Keys, command : Command]

CompleteArg == [op : {"complete"}, key : Keys, transaction_id : Txns,
                entity : Entity, expected_version : Nat, envelope : Envelope,
                network_reference : Txns \cup {None},
                decline_code : {"INSUFFICIENT_FUNDS", None},
                fits : BOOLEAN]   \* network_reference, authorization_code and
                                  \* decline_code are at most 128 characters

NoArg == [op |-> "none"]

ReserveSteps == {"select", "insertTxn", "insertRecord", "commitReserve",
                 "requery", "requeryTxn"}
CompleteSteps == {"updateTxn", "updateRecord", "commitComplete"}
Steps == {"free"} \cup ReserveSteps \cup CompleteSteps

Results == {"none", "ACQUIRED", "IN_PROGRESS", "COMPLETED",
            "IDEMPOTENCY_CONFLICT", "TRANSACTION_ID_CONFLICT", "DONE",
            "OptimisticConcurrencyError", "PersistenceError"}

\* A COMPLETED reservation carries the stored envelope.
NoEnvelope == ProblemEnvelope(500, "internal-persistence-error", {})
Return(status) == [status |-> status, envelope |-> NoEnvelope]

\* The transaction_id a call is about.
TxnOf(a) == IF a.op = "reserve" THEN a.command.transaction_id ELSE a.transaction_id

TxnStored(t) == txns[t].status # "ABSENT"
KeyStored(k) == records[k].processing_status # "ABSENT"

-----------------------------------------------------------------------------
(* Rows with an uncommitted insert or update, and who wrote it.            *)

TxnRowHolders(t) ==
    {s \in Slots : /\ at[s] \in {"insertRecord", "commitReserve",
                                 "updateRecord", "commitComplete"}
                   /\ TxnOf(arg[s]) = t}

KeyHolders(k) ==
    {s \in Slots : /\ at[s] \in {"commitReserve", "commitComplete"}
                   /\ arg[s].key = k}

\* An UPDATE waits for another UPDATE of the row; an uncommitted INSERT is
\* invisible to it and it matches nothing.  Mutant: the row is locked by the COMMIT.
LateUpdaters(t) == {s \in TxnRowHolders(t) : at[s] = "commitComplete"}

TxnUpdaters(t) == {s \in TxnRowHolders(t) : at[s] \in {"updateRecord", "commitComplete"}}

-----------------------------------------------------------------------------
GoTo(s, step) == /\ at' = [at EXCEPT ![s] = step]
                 /\ UNCHANGED <<arg, ret>>

\* The call of slot s ends with value v and its session is closed.
Finish(s, v) == /\ at' = [at EXCEPT ![s] = "free"]
                /\ ret' = [ret EXCEPT ![s] = v]
                /\ UNCHANGED arg

Begin(s, step, a) == /\ at[s] = "free"
                     /\ at' = [at EXCEPT ![s] = step]
                     /\ arg' = [arg EXCEPT ![s] = a]
                     /\ ret' = [ret EXCEPT ![s] = Return("none")]

CallReserve(s, k, c) ==
    /\ Begin(s, "select", [op |-> "reserve", key |-> k, command |-> c])
    /\ UNCHANGED <<txns, records, faults>>

\* The reservation for a row of idempotency_records that a SELECT returned.
ExistingReservation(row, c) ==
    LET status == ClassifyExisting(row, RequestFingerprint(c))
    IN  IF status = "COMPLETED"
        THEN [status |-> status, envelope |-> ReplayEnvelope(row)]
        ELSE Return(status)

\* SELECT ... WHERE idempotency_key_hash = :key in Short Tx 1
SelectKey(s) ==
    /\ at[s] = "select"
    /\ LET k == arg[s].key
       IN  IF KeyStored(k)
           THEN Finish(s, ExistingReservation(records[k], arg[s].command))
           ELSE GoTo(s, "insertTxn")
    /\ UNCHANGED <<txns, records, faults>>

\* Whether every column of transactions takes the values of a command: an
\* amount above BIGINT, a NUL or a lone surrogate in a text and a currency with
\* a newline pass the validators of the API and fail here.
Storable(c) == c.transaction_id \notin Unstorable /\ c.terms \notin Unstorable

\* Step A.  A duplicate primary key raises IntegrityError: session.begin()
\* rolls back and the call re-queries in a fresh session.  A value that does not
\* fit is a DataError, raised before the index is searched: no re-query follows.
InsertTransaction(s) ==
    /\ at[s] = "insertTxn"
    /\ \/ /\ ~Storable(arg[s].command)
          /\ Finish(s, Return("PersistenceError"))
       \/ /\ Storable(arg[s].command)
          /\ TxnRowHolders(TxnOf(arg[s])) \subseteq {s}
          /\ GoTo(s, IF TxnStored(TxnOf(arg[s])) THEN "requery" ELSE "insertRecord")
    /\ UNCHANGED <<txns, records, faults>>

\* Step B.  The rollback on a duplicate key takes back Step A.
\* Mutant: an upsert, which replaces the record of a duplicate key.
UpsertRecord(s) ==
    /\ at[s] = "insertRecord"
    /\ KeyHolders(arg[s].key) \subseteq {s}
    /\ GoTo(s, "commitReserve")
    /\ UNCHANGED <<txns, records, faults>>

InsertRecord(s) ==
    /\ at[s] = "insertRecord"
    /\ LET k == arg[s].key
       IN  /\ KeyHolders(k) \subseteq {s}
           /\ GoTo(s, IF KeyStored(k) THEN "requery" ELSE "commitReserve")
    /\ UNCHANGED <<txns, records, faults>>

ReservedTxnRow(c) == [NoTxnRow EXCEPT !.status = "CREATED", !.terms = c.terms]

ReservedRecord(c) ==
    [NoIdemRow EXCEPT !.processing_status = "IN_PROGRESS",
                      !.request_fingerprint = RequestFingerprint(c),
                      !.transaction_id = c.transaction_id]

\* COMMIT of Short Tx 1 makes both rows visible at once.
WriteReservation(s) ==
    LET a == arg[s]
    IN  /\ txns' = [txns EXCEPT ![a.command.transaction_id] = ReservedTxnRow(a.command)]
        /\ records' = [records EXCEPT ![a.key] = ReservedRecord(a.command)]

CommitReserve(s) ==
    /\ at[s] = "commitReserve"
    /\ WriteReservation(s)
    /\ Finish(s, Return("ACQUIRED"))
    /\ UNCHANGED faults

\* The post-conflict re-query: first by key, in a fresh transaction.
\* Mutant: it looks at the transaction_id only.
RequeryTransactionOnly(s) ==
    /\ at[s] = "requery"
    /\ GoTo(s, "requeryTxn")
    /\ UNCHANGED <<txns, records, faults>>

Requery(s) ==
    /\ at[s] = "requery"
    /\ LET k == arg[s].key
       IN  IF KeyStored(k)
           THEN Finish(s, ExistingReservation(records[k], arg[s].command))
           ELSE GoTo(s, "requeryTxn")
    /\ UNCHANGED <<txns, records, faults>>

\* Then by transaction_id; at READ COMMITTED this is a newer snapshot.
RequeryTransaction(s) ==
    /\ at[s] = "requeryTxn"
    /\ Finish(s, Return(IF TxnStored(TxnOf(arg[s]))
                        THEN "TRANSACTION_ID_CONFLICT"
                        ELSE "PersistenceError"))
    /\ UNCHANGED <<txns, records, faults>>

-----------------------------------------------------------------------------
\* complete(): the version of the entity is checked before any statement.
CallComplete(s, a) ==
    /\ IF a.entity.version # a.expected_version + 1
       THEN /\ at[s] = "free"
            /\ at' = at
            /\ arg' = [arg EXCEPT ![s] = a]
            /\ ret' = [ret EXCEPT ![s] = Return("OptimisticConcurrencyError")]
       ELSE Begin(s, "updateTxn", a)
    /\ UNCHANGED <<txns, records, faults>>

\* UPDATE transactions ... WHERE transaction_id = :t AND version = :expected
\* Mutant: the version is not part of the WHERE clause.
AnyVersionMatches(a) == TxnStored(a.transaction_id)

VersionMatches(a) ==
    /\ TxnStored(a.transaction_id)
    /\ txns[a.transaction_id].version = a.expected_version

\* It waits for the writer of a row that matches.  A value that is too long for
\* its column is a DataError: PostgreSQL raises it when it plans the statement
\* or when it builds the new row, before any wait.
UpdateTransaction(s) ==
    /\ at[s] = "updateTxn"
    /\ \/ /\ ~VersionMatches(arg[s])
          /\ Finish(s, Return("OptimisticConcurrencyError"))
       \/ /\ ~arg[s].fits
          /\ Finish(s, Return("PersistenceError"))
       \/ /\ VersionMatches(arg[s]) /\ arg[s].fits
          /\ TxnUpdaters(TxnOf(arg[s])) \subseteq {s}
          /\ GoTo(s, "updateRecord")
    /\ UNCHANGED <<txns, records, faults>>

\* UPDATE idempotency_records ... WHERE key, transaction_id and IN_PROGRESS
\* Mutant: the status of the record is not part of the WHERE clause.
RecordMatchesAnyStatus(a) ==
    KeyStored(a.key) /\ records[a.key].transaction_id = a.transaction_id

RecordMatches(a) ==
    /\ records[a.key].processing_status = "IN_PROGRESS"
    /\ records[a.key].transaction_id = a.transaction_id

\* It never waits: another update of this record holds the row of the same
\* transaction, which slot s has locked.
UpdateRecord(s) ==
    /\ at[s] = "updateRecord"
    /\ IF RecordMatches(arg[s])
       THEN GoTo(s, "commitComplete")
       ELSE Finish(s, Return("OptimisticConcurrencyError"))
    /\ UNCHANGED <<txns, records, faults>>

\* The row that complete() leaves.  Mutant: the pending operation is not written.
CompletedRowWithoutOperation(row, a) ==
    [row EXCEPT !.status = a.entity.status,
                !.version = a.entity.version,
                !.network_reference = a.network_reference,
                !.decline_code = a.decline_code]

CompletedTxnRow(row, a) ==
    [row EXCEPT !.status = a.entity.status,
                !.pending_operation = a.entity.pending_operation,
                !.version = a.entity.version,
                !.network_reference = a.network_reference,
                !.decline_code = a.decline_code]

CompletedRecord(row, a) ==
    [row EXCEPT !.processing_status = "COMPLETED",
                !.stored_status_code = a.envelope.status_code,
                !.stored_response_body = a.envelope.body,
                !.stored_headers = AllowlistedHeaders(a.envelope.headers)]

\* COMMIT of Short Tx 2.
WriteCompletion(s) ==
    LET a == arg[s]
    IN  /\ txns' = [txns EXCEPT ![a.transaction_id] = CompletedTxnRow(@, a)]
        /\ records' = [records EXCEPT ![a.key] = CompletedRecord(@, a)]

CommitComplete(s) ==
    /\ at[s] = "commitComplete"
    /\ WriteCompletion(s)
    /\ Finish(s, Return("DONE"))
    /\ UNCHANGED faults

-----------------------------------------------------------------------------
(* Faults.  SQLAlchemyError in any statement or COMMIT becomes             *)
(* PersistenceError; a COMMIT can fail on the client after the server has  *)
(* made it durable.                                                        *)

Fault == /\ faults < MaxFaults
         /\ faults' = faults + 1

SqlFailure(s) ==
    /\ at[s] # "free"
    /\ Fault
    /\ Finish(s, Return("PersistenceError"))
    /\ UNCHANGED dbVars

ReserveAckLost(s) ==
    /\ at[s] = "commitReserve"
    /\ Fault
    /\ WriteReservation(s)
    /\ Finish(s, Return("PersistenceError"))

CompleteAckLost(s) ==
    /\ at[s] = "commitComplete"
    /\ Fault
    /\ WriteCompletion(s)
    /\ Finish(s, Return("PersistenceError"))

\* The caller's task or process dies: its session is rolled back.
Abandon(s) ==
    /\ at' = [at EXCEPT ![s] = "free"]
    /\ arg' = [arg EXCEPT ![s] = NoArg]
    /\ ret' = [ret EXCEPT ![s] = Return("none")]
    /\ UNCHANGED dbVars

-----------------------------------------------------------------------------
CoordInit ==
    /\ txns = [t \in Txns |-> NoTxnRow]
    /\ records = [k \in Keys |-> NoIdemRow]
    /\ at = [s \in Slots |-> "free"]
    /\ arg = [s \in Slots |-> NoArg]
    /\ ret = [s \in Slots |-> Return("none")]
    /\ faults = 0

\* The steps of a call in progress that fairness drives.
Statement(s) ==
    \/ SelectKey(s) \/ InsertTransaction(s) \/ InsertRecord(s) \/ CommitReserve(s)
    \/ Requery(s) \/ RequeryTransaction(s)
    \/ UpdateTransaction(s) \/ UpdateRecord(s) \/ CommitComplete(s)

DatabaseFault(s) == SqlFailure(s) \/ ReserveAckLost(s) \/ CompleteAckLost(s)
=============================================================================
