# Formal models of the Transaction Reliability Platform

TLA+ models of the service under `src/src/transaction_platform`, the TLC runs
that check them on small instances, and TLAPS proofs, for every instance, of the
safety properties of every part and of the refinements between them. Paths below are relative to
`src/src/transaction_platform`.

## The system

| Component | State | Operations | Hard part |
| --- | --- | --- | --- |
| Transaction entity (`domain/transaction.py`) | status, version, pending operation | `transition_to`, `mark_pending_reconciliation`, `resolve_reconciliation` | three transition tables and a terminal set that must agree; statuses recur after reconciliation |
| Idempotency coordinator (`infrastructure/idempotency_coordinator.py`, `models.py`) | tables `transactions` and `idempotency_records` | `reserve` (SELECT, two INSERTs, re-query), `complete` (two guarded UPDATEs) | races at READ COMMITTED, partial failure, lost COMMIT acknowledgements |
| Authorization service (`application/authorize_transaction.py`) | none | `execute` | ambiguous outcomes must not become FAILED |
| Orchestrator (`application/idempotent_orchestrator.py`) | none between requests | `handle_authorization` | crash between `reserve` and `complete`; replay equals original |
| Network adapter (`adapters/http_payment_network.py`) | none | `authorize`, `_handle_response`, `parse_retry_after` | deadline racing an answer; 408 and 5xx after processing |
| Emulator (`emulator/`) | none (a ledger in the model) | header and schema checks, one scenario per token | processes requests whose client has gone; has its own copy of the schema |
| API (`api/app.py`, `errors.py`) | none | `create_transaction`, exception handlers | exceptions without a handler |
| Request validation (`api/schemas.py`, `common/idempotency.py`, `common/correlation.py`) | none | field and header validators, fingerprint | its boundaries against the columns', the encoders' and the emulator's |
| Problem details (`common/problem_details.py`) | none | `build_problem_response` | which problem answers which error |
| Engine and pool (`infrastructure/database.py`) | connections | checkout, return | waiting for rows while holding a connection |
| Schema (`migrations/versions/0001_initial_schema.py`) | | columns, keys, CHECK constraints | repeats the entity's invariants |
| Wiring, settings, health endpoints | configuration | | |

A request goes API → orchestrator → `reserve` (short transaction 1) → service →
adapter → emulator → `complete` (short transaction 2) → response. No database
transaction is open while the network is called. Handlers are asyncio tasks of
one or of several processes; they meet only in PostgreSQL, and every `await` is
a point where others run.

What makes each part correct:

* entity: it is always storable, versions never repeat, `is_terminal` tells the
  truth, capture follows authorization and refund follows capture;
* coordinator: the tables agree, a reservation has one winner, losers are told
  the truth, a completed record is final;
* service as a whole: at most one network call per key and per transaction,
  stored outcomes agree with the network's, replays equal originals, requests
  end; to its clients it is `IdempotentService`;
* pool: no connection is lost, none is held during the network call, and an
  exhausted pool delays requests but blocks nobody for ever;
* request intake: whatever the validators accept, the columns, the encoders and
  the emulator's own validators accept, but for named gaps; a refused request
  leaves no trace, and a blocked key belongs to a payment that was never sent.

`PROJECT.json` lists the hazards behind these at their source lines.

## Modules

| Module | Models |
| --- | --- |
| `Transaction` | the entity's tables and operations as pure operators: a verdict (exception or `"ok"`) and an effect |
| `TransactionLifecycle` | one entity under any calls |
| `Idempotency` | commands, fingerprints, envelopes, table rows, classification and replay |
| `Coordinator` | the database and the statements of `reserve` and `complete`, one action each |
| `CoordinatorClients` | the coordinator under arbitrary callers; this is the abstract environment the service refines |
| `PaymentNetwork` | emulator, adapter, service and envelope mapping as pure operators |
| `IdempotentService` | the promise to clients: keys are claimed, the network is called, one decision is made, every answer is true |
| `Platform` | concurrent handlers over `Coordinator` and the network; refines `CoordinatorClients` and `IdempotentService` |
| `ConnectionPool` | `Coordinator` behind a bounded pool; refines `CoordinatorClients` |
| `RequestIntake` | one request after the other through parsing, headers, schema, INSERT, the payload and the emulator |
| `MCCoordinatorClients`, `MCPlatform`, `MCConnectionPool`, `MCRequestIntake` | constants for TLC |
| `LifecycleProofs` | theorems about the entity |
| `CoordinatorProofs` | theorems about the coordinator: the tables, the waits for rows, what callers are told |
| `PoolProofs`, `IntakeProofs` | theorems about the pool and about the request intake |
| `ServiceProofs` | what `IdempotentService` amounts to for its clients |
| `PlatformProofs`, `OutcomeProofs`, `PromiseProofs` | theorems about the service: it is a caller of the coordinator and calls the network once; outcomes, rows, replays and errors; it implements `IdempotentService` |

Operators whose comment begins with "Mutant" are deliberate small faults of the
operator that follows. No specification uses them; substituting one shows that
a property notices the fault.

### How the state corresponds to the code

* `txns`, `records`: the committed rows. A row that does not exist has status
  `"ABSENT"`. What an open transaction has written follows from the statement it
  has reached: `TxnRowHolders` and `KeyHolders` are the rows on which another
  session waits. `arg` and `ret` are the arguments and the result of the
  coordinator call a handler makes, `at` the next statement.
* A unique violation waits for the other writer first, as PostgreSQL does; an
  UPDATE whose WHERE clause matches waits for another UPDATE of the row and
  then re-evaluates it; one that does not match affects no row at once, and an
  uncommitted INSERT is not seen.
* `handler[s]`: where `handle_authorization` is suspended. `wire[s]`: the HTTP
  exchange. `stray`: requests the network may still process although their
  handler timed out, failed or crashed. `ledger`: what the network decided.
  `posts`: network calls per key and transaction. `reply`: the response sent.
* Data is abstracted: a key stands for its SHA-256 digest and a fingerprint for
  the tuple of digested fields (no collisions); merchant, amount and currency
  are one value; a body is its document type, transaction and version; an HTTP
  response is its code, payload class and Retry-After; `authorization_code` is
  left out beside `network_reference`. A rollback after a lost connection is
  immediate.
* `Unstorable`: transaction identifiers and terms (merchant, amount, currency)
  that pass the API's validators and that no column takes: an amount above
  BIGINT, a NUL or a lone surrogate, a currency with a newline. The first INSERT
  fails on them with a DataError, before the index is searched, so no re-query
  follows and `reserve` raises `PersistenceError` with no fault.
* `UnencodableTokens`: tokens that the HTTP client cannot write as JSON, a lone
  surrogate with httpx from 0.28 on. `PostFails` is the `UnicodeEncodeError` that
  leaves `client.post` before anything is sent and that no layer catches.
* `fits` of a completion: whether its codes fit VARCHAR(128), which the adapter
  does not check. A 200 with such a code, of an authorization or of a decline,
  or with a body that does not match its Content-Encoding, does not come from
  the emulator; `GarbledAnswers` lets a run have them. `TransactionChecks` and `RecordChecks` are the CHECK
  constraints over statuses, versions and payloads; no action tests them, and
  `RowsPassChecks` shows that none has to.
* `ConnectionPool`: `connected[s]` says that the open session of a call has its
  connection. A session gets it with its first statement and gives it back when
  its context manager ends, by result, exception or cancellation; the re-query
  has a session of its own, after the first one is closed. The pool's timeout is
  one of the faults. Handlers are reduced to their calls: reserve, then, if
  acquired, one complete at any later time or never.
* `RequestIntake`: `stage` is how far the request has come. A text is its length
  without surrounding white space, whether it has some, and whether it contains
  NUL or a lone surrogate; a token also says whether it is supported, only
  well-formed, or not even that; a currency whether a newline follows; a header
  is its length and whether all its characters are allowed ones. `BigIntMax`
  stands for 2^63 - 1, which is beyond TLC's integers. `EnsureAscii` is what
  httpx did before 0.28: escape what is not ASCII (`pyproject.toml` admits both).
  The emulator's header check and validators are operators of their own
  (`EmulatorText`, `EmulatorAmount`, `EmulatorCurrency`, `EmulatorCorrelation`),
  translated from its copy of the code, so either copy can change alone.
  `stored` and `calls` are the rows of the key and the payloads sent; `before` is both when the request arrived.
* `Platform` maps to `IdempotentService` as follows: a key's owner is the command
  in its record's fingerprint, its decision the response in its record, the calls
  are `posts`, and a client waits while its handler is not idle.
* The network contract assumed (`GatewayAssumption`) is the one the README
  states: a 4xx other than 408 means the request was not processed.

## Runs

| Run | Instance | Shows |
| --- | --- | --- |
| `lifecycle` | versions up to 9 | the entity properties; nine transitions allow authorize, capture and refund with a reverted reconciliation in each phase |
| `coordinator` | 2 keys, 2 transactions, 2 terms, one of them unstorable, 2 callers, 1 fault; completions with right, stale and skipped versions, overlong codes and statuses of later phases | `TablesAgree`, `LocksHold`, `NoCircularWait`, `UniqueWinner`, `VerdictsAreTrue`, `ConflictExplained`, `CompletionIsFinal`, `RowsPassChecks`, `RecordsAreWriteOnce` |
| `races` | 2 keys, 2 transactions, 2 terms, one of them unstorable, 2 slots, a token with a scenario and one that no client can encode, 2 faults | `AtMostOneInvocation`, `ReplayIsFaithful`, `NoSpuriousError`, `AbandonedOnlyByFault` |
| `scenarios` | 1 key, 2 transactions, all tokens and one unknown, all classes of gateway answers, garbled ones too, 1 fault | `OutcomeIsTrue`, `ReplayIsFaithful`, `RowsFollowLifecycle`, the Retry-After clamp in `TypeOK`, `TimeoutTokenIsAmbiguous` with the tests' 200 ms delay and 20 ms deadline |
| `progress` | 2 keys, 2 transactions, 2 slots, 1 fault, fairness | `EveryRequestEnds`, `ReservedIsCompleted` |
| `refinement` | 2 keys, 2 transactions, 2 slots, 1 token, garbled answers, gateway failures and rejections, 1 fault | `Platform` implements `CoordinatorClients` (`UsesCoordinator`) and `IdempotentService` (`KeepsPromise`); what that means for its clients (`ClientsAgree`) |
| `pool` | 3 callers, 2 connections, 2 keys, 2 transactions, 2 terms, one of them unstorable, 1 fault | `ConnectionsBalance`, `SomeoneProceeds`; the pool implements `CoordinatorClients` |
| `pool_progress` | 3 callers, 1 connection, 2 keys, 1 transaction, 1 fault, fairness | `EveryCallEnds` |
| `intake` | requests that differ from an ordinary one in at most two places | `AcceptedIsUnderstood`, `ErrorOnlyByGap`, `RefusedLeavesNothing`, `RetryIsRecognised`, `BlockedWasNeverSent`, with a client that writes UTF-8 |
| `default_delays`, `undecodable`, `currency` | | violations, see Findings |

Why the bounds are enough to be interesting: two slots race on the same key, on
the same transaction under two keys, and on a retry; slots are reused, so a
request can follow any number of earlier ones; two keys and two transactions
allow both kinds of conflict at once; two faults allow a lost acknowledgement
followed by a crash of the retry. Three callers for two connections are enough
for one to wait for a row, one to hold it and one to wait for the pool; with one
connection the re-query competes with everybody. The alternatives of a request
lie on both sides of every boundary, and two deviations at once show which of
two checks answers. Named bounds: `MaxFaults`, `MaxVersion`, `PoolLimit`,
`BigIntMax`. Symmetry is used only for safety.

Deadlock is checked in every run, so no state leaves every handler waiting.

**Fairness** (`FairSpec`): weak fairness of each handler's own next step. The
event loop runs a ready task; PostgreSQL answers a statement that need not
wait; `asyncio.timeout` ends the wait for the network, so the deadline is part of
the handler's step. The network itself is not assumed to answer, and faults are
not fair. For arbitrary callers a waiter can starve behind endless failing
completions of the same transaction; the orchestrator completes only what it
has reserved, which is why progress is checked on `Platform`.

`ConnectionPool` assumes weak fairness of each call's statements and strong
fairness of checkout: the queue of SQLAlchemy's asyncio pool wakes its waiters in
order, so a waiter is not passed over for ever while connections come back. It
assumes neither that the network answers nor that the pool's timeout fires.

**Refinement.** `UsesCoordinator` and `PoolOnlyDelays` say that service and pool
use the coordinator only in ways `CoordinatorClients` allows, so the theorems about
it hold for them. `KeepsPromise` is the service as its clients see it. The
abstract service may answer 500 or drop a client at any time, and may say "in
progress" of a key that was decided in the meantime, since the code may too;
everything else it says is true.

## Proofs

Everything here holds for any sets of keys, transactions, tokens and handlers,
any number of faults, and any sequence of requests and answers. Every safety
property that a run checks is proved but `SomeoneProceeds`, which speaks of
`ENABLED`.

**Entity** (`LifecycleProofs`): `TypeCorrect`, `EntityStaysValid`,
`VersionCountsSteps`, `TerminalMeansStuck`, `MoneyAlwaysMovesInOrder`,
`ReconciliationStaysOnCourse`. The last two need to know what an entity with a
pending operation has been through (`PendingCourse`, `CourseInv`).

**Coordinator** (`CoordinatorProofs`):

* `TypeCorrect`, `TablesAlwaysAgree`, `LocksAlwaysHold`: `TablesAgree` is not
  inductive, since whether a COMMIT keeps the tables in agreement depends on
  what the open transaction found earlier. The invariant adds
  `LocksHold`: a row about to be inserted is still absent, a row matched by an
  UPDATE still matches, and writers of a row exclude each other.
  `TypeOK /\ TablesAgree /\ LocksHold` (`IndInv`) is inductive; the proof has one
  lemma per kind of step: calls, statements that only read or wait, the COMMITs.
* `WaitsNeverCircle`: from the same invariant. Whoever holds a transaction row is
  past its first statement, and whoever holds a record has only to commit, so a
  wait leads to somebody who can commit after at most one more wait. It also shows why `UpdateRecord` needs no guard for a wait: nobody else can
  hold a record that it matches.
* `RecordsWrittenOnce`: the action property from the same invariant.
* `WinnerIsUnique`: adds that a caller who was told ACQUIRED still owns its
  record (`WinnerOwns`), since records are never removed and never change their
  transaction.
* `VerdictsStayTrue`, `ConflictsAreExplained`: `VerdictInv` says what the re-query
  knows between its two snapshots, namely that the row behind the
  IntegrityError is still there, or that the transaction is owned by another key.
  So `PersistenceError` comes from a fault or from the command's own values.
* `CompletionsAreFinal`, `RowsAlwaysPassChecks`: a completion that returned is
  what both rows hold, and every value written passed the entity's constructor.

**Pool** (`PoolProofs`): `PoolRefinesCoordinator` maps each step to a step of
`CoordinatorClients` or a stutter, and `SafeBehindPool` carries the coordinator's
theorems over, `ConflictExplained` among them. `ConnectionsAlwaysBalance` counts the holders of connections.
`NobodyWaitsInCircle` is `SomeoneProceeds` with the guard of a statement
(`NeedNotWait`) in place of `ENABLED`: a session keeps its connection from its first
statement on (`SessionInv`), so the holder of a row holds a connection, and the
waits for rows are at most two deep.

**Request intake** (`IntakeProofs`), for requests of any content:
`AcceptedAlwaysUnderstood`, `ErrorsOnlyByGap`, `RefusalLeavesNothing`,
`RetriesAreRecognised`, `BlockedNeverSent`. The conjunction of the properties with
what is known of a request at each stage (`StageInv`), of the stored one
(`StoredInv`) and of the payloads sent (`SentInv`) is inductive.
`AcceptedAlwaysUnderstood` rests on a lemma that compares the two copies of the
schema field by field.

**Service.** The argument is built in layers, each an invariant over the ones
before it:

| Invariant | Says | Yields |
| --- | --- | --- |
| `ControlInv` | which database call and which exchange a handler has open in each of its states, with which arguments | `OrchestratorIsCaller` (`Platform` implements `CoordinatorClients`), `SafeInService` |
| `NetworkTypes` | types of the network's variables | `ServiceTypes` |
| `DbInv` | the coordinator's invariants, imported through that refinement | used by all below |
| `PostsInv` | a counted call belongs to the stored record of its key, and an acquired key has none yet | `InvokedAtMostOnce` |
| `OwnerInv` | who was told ACQUIRED and has not completed owns an IN_PROGRESS record with its own fingerprint, and nobody else owns that key | used by all below |
| `ReplyInv` | an outcome about to be told, or told, is the one stored | `ReplaysAreFaithful` |
| `OutcomeInv` | what the network decided comes from the stored request; a request under way has left no trace; a final status is concluded only from an answer that excludes a later decision | `OutcomesAreTrue` |
| `ControlInv`, `OwnerInv` | (as above, for two consecutive states) | `RowsAreEntities` |
| `SoundInv` | without a fault nothing a handler met makes it fail but its own request, when no column takes it or no client can encode it (`Unservable`) | `NoSpuriousErrors`, `OnlyFaultsAbandon` |
| `LateInv` | no answer to the timeout token arrives in time | `TimeoutTokenStaysAmbiguous` |
| `PostedInv` | who completes has called | `ServiceKeepsPromise` (`Platform` implements `IdempotentService`) |

`ServiceKeepsPromise` maps a request to Ask, the COMMIT of a reservation to
Claim, the post to Call, the COMMIT of a completion to Decide, an answer to
Respond or Apologise, a crash to Drop, and everything else to a stutter; a COMMIT
whose acknowledgement is lost claims or decides like any other.

`RowsAreEntities` is about the gap between the two halves of the code: the entity
checks its transition tables in memory, the coordinator's UPDATE checks versions
only. What closes it is that a completion under way carries the effect of one
operation on a new entity (`ControlInv`), and that the transaction of an
IN_PROGRESS record is still a new one (`OwnerInv` and the CHECK constraints, which
`SafeInService` shows to hold).

`PromiseMeansOneOutcome` (`ServiceProofs`) is proved of the abstract service alone:
`PromiseInv` records that claims are apart, that a call belongs to the owner of
its key, that a decision follows a call, and that a client was told the decision
about its own request. `ClientsAlwaysAgree` follows for `Platform` through
`ServiceKeepsPromise`, with no further reasoning about handlers or statements.

Three theorems have a hypothesis on the constants beside `Spec`:

* `NoSpuriousErrors` and `OnlyFaultsAbandon` assume `WellFormedAnswers`: the
  network's answers can be decoded and the codes of a 200, authorized or
  declined, fit their columns. The second finding and the note on long codes
  below show that without it they are false. Requests that cannot be stored or
  encoded are no hypothesis: the properties themselves name them as causes. The run `races`, which checks both, satisfies it.
* `TimeoutTokenStaysAmbiguous` assumes `DelayExceedsTimeout`, which the first
  finding shows to be needed. The run `scenarios` satisfies it.

Assumptions on the constants, all evaluated by TLC in the runs:
`NoneAssumption` (NULL is no value of another type), `MaxFaultsAssumption`,
`CompleteCallsAssumption` and its copy in `CallersAssumption` (arguments of the
port's types and entities that passed their constructor; finitely many handlers
share a pool), `PoolAssumption`, `GatewayAssumption` (the network contract),
`DelayAssumption`, `UnstorableAssumption` and `EncodingAssumption` (any subsets of
the identifiers, terms and tokens), `BigIntAssumption`, `EncoderAssumption`,
`RequestsAssumption` (the shape of a request's fields, whatever their content; the
emulator's own tokens are plain ASCII).

Only model-checked: liveness under fairness (`EveryRequestEnds`,
`ReservedIsCompleted`, `EveryCallEnds`) and `SomeoneProceeds` as stated with
`ENABLED`, which are outside the prover's reach.

## Findings

* `tok_test_timeout` with default settings (`default_delays`): the README's
  scenario table promises 202 PENDING_RECONCILIATION; the emulator's default
  delay (0.01 s, `emulator/settings.py:18`) is below the platform's default
  deadline (5.0 s, `api/app.py:91`), so the answer is 201 AUTHORIZED.

* A 200 with a broken content encoding (`undecodable`):
  `application/authorize_transaction.py:83` and the README's state diagram send a
  malformed 200 to PENDING_RECONCILIATION. `httpx.DecodingError` is neither a
  timeout nor a transport error, so nothing between `adapters/http_payment_network.py:86`
  and Starlette catches it: the client gets a plain 500, the transaction stays
  CREATED and the record IN_PROGRESS, whatever the network decided.
* A currency with a trailing newline (`currency`): `api/schemas.py:59` says "exactly
  three uppercase ASCII letters", but `$` in the pattern also matches before a
  final newline. The value fails in the INSERT, so the client gets a 500 instead of
  a 422; nothing is stored (`RefusedLeavesNothing`).

Noted while reading, without a run: the README's state diagram omits the edges
from AUTHORIZED and CAPTURED to PENDING_RECONCILIATION that the entity allows;
a comment in `tests/integration/api/test_idempotency_api.py:306` counts two
statements in a reservation, which runs three; an amount above BIGINT and a NUL
or a lone surrogate (`"\ud800"` in JSON) in an identifier are answered 500 too; a
lone surrogate in the token, with httpx from 0.28 on, is answered by a plain 500
after `reserve` has committed, so that its key stays IN_PROGRESS for a payment
that was never sent (`ErrorOnlyByGap` and `BlockedWasNeverSent` name all of these);
a code above 128 characters from the network fails in `complete` and leaves the
record IN_PROGRESS; the handlers for `DownstreamRateLimitExceededError` and
`DownstreamRejectedError` in `api/errors.py` are registered but not reached, since
the orchestrator catches both.

## Not modelled

* Application wiring, lifespan and settings, and the health endpoints: no state
  that a request can change.
* Wording of problems, their labels of invalid parameters, and the middleware that
  repeats the correlation header; timestamps; indexes; running and reverting the migration.
* A body that is not UTF-8, which FastAPI answers before any code of this
  repository runs, an integer literal
  of more digits than Python converts, and the sizes a server in front may limit.
* What the repository does not have yet: reconciliation worker, capture and refund
  endpoints, outbox. The entity rules they will use are in `TransactionLifecycle`.

## Plan

1. Done: entity, coordinator, service, its abstract specification, pool, request
   intake, the runs above, and the proofs above.
2. When the code gains a reconciliation worker: completions of a transaction by
   two owners, which `CoordinatorClients` already allows; `ReplyInv` and
   `PostedInv` are the invariants that will have to change.
3. When the code gains capture and refund endpoints: their calls over the same
   coordinator, with the entity's later phases.
