-------------------------- MODULE CoordinatorClients --------------------------
(***************************************************************************)
(* The coordinator on its own: any number of callers that invoke reserve   *)
(* and complete in any order and with any arguments the port allows, as    *)
(* the coordinator and optimistic-locking tests of the repository do.      *)
(* Every user of the port, the orchestrator included, is such a caller.    *)
(***************************************************************************)
EXTENDS Coordinator

CONSTANT CompleteCalls   \* the arguments with which complete may be called

\* The arguments are of the port's types and the entity passed its own
\* constructor, _validate_initial_invariants included.
ASSUME CompleteCallsAssumption ==
    CompleteCalls \subseteq {a \in CompleteArg : ValidEntity(a.entity)}

\* A caller uses the coordinator again when its previous call has returned.
Next ==
    \E s \in Slots :
        \/ \E k \in Keys, c \in Command : CallReserve(s, k, c)
        \/ \E a \in CompleteCalls : CallComplete(s, a)
        \/ SelectKey(s)
        \/ InsertTransaction(s)
        \/ InsertRecord(s)
        \/ CommitReserve(s)
        \/ Requery(s)
        \/ RequeryTransaction(s)
        \/ UpdateTransaction(s)
        \/ UpdateRecord(s)
        \/ CommitComplete(s)
        \/ SqlFailure(s)
        \/ ReserveAckLost(s)
        \/ CompleteAckLost(s)
        \/ Fault /\ Abandon(s)

Spec == CoordInit /\ [][Next]_coordVars

-----------------------------------------------------------------------------
\* The type of every variable; a call in progress has the arguments of the
\* operation its statement belongs to, and a COMPLETED record has a response
\* (chk_idempotency_payload_integrity).
TablesTypeOK ==
    /\ txns \in [Txns -> TxnRow]
    /\ records \in [Keys -> IdemRow]
    /\ \A k \in Keys : records[k].processing_status = "COMPLETED" =>
          records[k].stored_status_code \in 100..599 /\ records[k].stored_response_body \in Body

Returned == [status : Results, envelope : Envelope]

CallsTypeOK ==
    /\ at \in [Slots -> Steps]
    /\ arg \in [Slots -> ReserveArg \cup CompleteArg \cup {NoArg}]
    /\ \A s \in Slots : /\ at[s] \in ReserveSteps => arg[s] \in ReserveArg
                        /\ at[s] \in CompleteSteps => arg[s] \in CompleteArg
    /\ ret \in [Slots -> Returned]

TypeOK == TablesTypeOK /\ CallsTypeOK /\ faults \in 0..MaxFaults

\* The two tables never disagree, whatever fails in reserve or complete: a
\* record points at a transaction row of the same request, version 0 under an
\* IN_PROGRESS record and version 1 under a COMPLETED one.
SameRequest(row, t) ==
    /\ row.request_fingerprint \in Fingerprint
    /\ row.request_fingerprint[3] = t
    /\ txns[t].terms = row.request_fingerprint[1]

RecordAgrees(row, t) ==
    /\ t \in Txns
    /\ TxnStored(t)
    /\ SameRequest(row, t)
    /\ txns[t].version = IF row.processing_status = "COMPLETED" THEN 1 ELSE 0

RecordsAgree ==
    \A k \in Keys : KeyStored(k) => RecordAgrees(records[k], records[k].transaction_id)

\* A transaction row belongs to exactly one idempotency key, although no
\* UNIQUE constraint on idempotency_records.transaction_id says so.
OneKeyPerTransaction ==
    /\ \A t \in Txns : TxnStored(t) =>
          \E k \in Keys : KeyStored(k) /\ records[k].transaction_id = t
    /\ \A j, k \in Keys :
          KeyStored(j) /\ KeyStored(k) /\ records[j].transaction_id = records[k].transaction_id
             => j = k

TablesAgree == RecordsAgree /\ OneKeyPerTransaction

\* Why the tables agree, per caller: a transaction that is about to be
\* inserted or a key that is about to be committed does not exist yet, a row
\* that was matched by an UPDATE still matches, and nobody else has written
\* the same row or is about to.
RowsHeld(s) ==
    /\ at[s] \in {"insertRecord", "commitReserve"} => ~TxnStored(TxnOf(arg[s]))
    /\ at[s] = "commitReserve" => ~KeyStored(arg[s].key)
    /\ at[s] \in CompleteSteps =>
          arg[s].entity.version = arg[s].expected_version + 1
    /\ at[s] \in {"updateRecord", "commitComplete"} => VersionMatches(arg[s])
    /\ at[s] = "commitComplete" => RecordMatches(arg[s])

WritersExclude ==
    /\ \A t \in Txns : \A r, s \in TxnRowHolders(t) : r = s
    /\ \A k \in Keys : \A r, s \in KeyHolders(k) : r = s

LocksHold == WritersExclude /\ \A s \in Slots : RowsHeld(s)

\* PostgreSQL never finds a deadlock: whoever has written a row waits at most
\* for a COMMIT, since reserve and complete both take the transaction row before
\* the record.  complete() waits in its first statement only: the record that
\* its second one matches is held by nobody else, whatever keys and
\* transactions other callers combine.
WaitsFor(s) ==
    LET a == arg[s]
    IN  CASE at[s] = "insertTxn" -> {r \in TxnRowHolders(TxnOf(a)) \ {s} : Storable(a.command)}
          [] at[s] = "insertRecord" -> KeyHolders(a.key) \ {s}
          [] at[s] = "updateTxn" -> {r \in TxnUpdaters(TxnOf(a)) \ {s} : VersionMatches(a) /\ a.fits}
          [] at[s] = "updateRecord" -> {r \in KeyHolders(a.key) \ {s} : RecordMatches(a)}
          [] OTHER -> {}

NoCircularWait ==
    \A s \in Slots :
        /\ at[s] = "updateRecord" => WaitsFor(s) = {}
        /\ \A r \in WaitsFor(s) : \A q \in WaitsFor(r) : WaitsFor(q) = {}

\* Two callers that both were told ACQUIRED reserved different keys and
\* different transactions: the winner of a race is unique.
UniqueWinner ==
    \A r, s \in Slots :
        r # s /\ ret[r].status = "ACQUIRED" /\ ret[s].status = "ACQUIRED"
           => arg[r].key # arg[s].key /\ TxnOf(arg[r]) # TxnOf(arg[s])

\* What the uniqueness rests on: a caller that was told ACQUIRED still owns the
\* record it inserted.
WinnerOwns(s) ==
    ret[s].status = "ACQUIRED" =>
        /\ arg[s] \in ReserveArg
        /\ KeyStored(arg[s].key)
        /\ records[arg[s].key].transaction_id = TxnOf(arg[s])

\* What a losing reserve reports is the case: TRANSACTION_ID_CONFLICT means
\* the transaction exists under another key, IDEMPOTENCY_CONFLICT that the key
\* is taken by another payload, IN_PROGRESS and COMPLETED that it is taken by
\* this payload.  The re-query runs in two snapshots after the conflict.
LoserVerdict(s) ==
    LET k == arg[s].key
        c == arg[s].command
    IN  CASE ret[s].status = "TRANSACTION_ID_CONFLICT" ->
                \E j \in Keys \ {k} : records[j].transaction_id = c.transaction_id
          [] ret[s].status = "IDEMPOTENCY_CONFLICT" ->
                KeyStored(k) /\ records[k].request_fingerprint # RequestFingerprint(c)
          [] ret[s].status \in {"IN_PROGRESS", "COMPLETED"} ->
                KeyStored(k) /\ records[k].request_fingerprint = RequestFingerprint(c)
          [] OTHER -> TRUE

VerdictsAreTrue ==
    \A s \in Slots : at[s] = "free" /\ arg[s].op = "reserve" => LoserVerdict(s)

\* reserve raises PersistenceError without a database fault only for a command
\* that the columns do not take, never for a conflict: whatever other callers
\* commit or roll back in between, the re-query finds a row that explains the
\* IntegrityError.
ConflictExplained ==
    \A s \in Slots :
        arg[s].op = "reserve" /\ ret[s].status = "PersistenceError" =>
            faults > 0 \/ ~Storable(arg[s].command)

\* A completion that returned normally is never overwritten by another one
\* that raced it or came later: both rows still hold what it wrote, nothing of
\* it cut to the width of a column.
CompletionIsFinal ==
    \A s \in Slots :
        arg[s].op = "complete" /\ ret[s].status = "DONE" =>
            LET a == arg[s]
            IN  /\ records[a.key].processing_status = "COMPLETED"
                /\ records[a.key].stored_response_body = a.envelope.body
                /\ records[a.key].stored_status_code = a.envelope.status_code
                /\ txns[a.transaction_id].status = a.entity.status
                /\ txns[a.transaction_id].version = a.entity.version
                /\ txns[a.transaction_id].network_reference = a.network_reference
                /\ a.fits

\* Every committed row satisfies the CHECK constraints and the foreign key of
\* the schema, so no call fails because of them: whatever completions race,
\* the entity's own invariant and the NULLs of reserve imply the table's.
RowsPassChecks ==
    /\ \A t \in Txns : TxnStored(t) => TransactionChecks(txns[t])
    /\ \A k \in Keys : KeyStored(k) =>
          /\ RecordChecks(records[k])
          /\ records[k].transaction_id \in Txns /\ TxnStored(records[k].transaction_id)

\* A stored record never changes again except from IN_PROGRESS to COMPLETED,
\* keeping its request, and its transaction row changes in that same step.
RecordStep(k) ==
    KeyStored(k) /\ records'[k] # records[k] =>
        /\ records[k].processing_status = "IN_PROGRESS"
        /\ records'[k].processing_status = "COMPLETED"
        /\ records'[k].request_fingerprint = records[k].request_fingerprint
        /\ records'[k].transaction_id = records[k].transaction_id
        /\ txns'[records[k].transaction_id].version = 1

RecordsAreWriteOnce == [][\A k \in Keys : RecordStep(k)]_coordVars
=============================================================================
