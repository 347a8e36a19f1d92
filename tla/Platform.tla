------------------------------- MODULE Platform -------------------------------
(***************************************************************************)
(* The transaction service: concurrent POST /v1/transactions handlers that *)
(* go through reserve, the payment network and complete, over the          *)
(* coordinator's database and a network that may be slow, answer with      *)
(* errors or still process a request nobody waits for any more.            *)
(*                                                                         *)
(* A slot is one handler task.  Its control state is handler[s]; the open  *)
(* database call is at[s] of module Coordinator.  A slot that answered or  *)
(* crashed is free for the next request.                                   *)
(***************************************************************************)
EXTENDS Coordinator, PaymentNetwork

CONSTANTS EmulatorDelay,      \* timeout_delay_seconds of the emulator, in ms
          NetworkTimeout,     \* network_timeout_seconds of the platform, in ms
          GatewayFailures,    \* responses that leave the outcome open
          GatewayRejections,  \* 4xx responses given instead of processing
          GarbledAnswers,     \* payloads of a 200 that the emulator never sends
          UnencodableTokens   \* tokens that the HTTP client cannot write as JSON

ASSUME DelayAssumption == EmulatorDelay \in Nat /\ NetworkTimeout \in Nat

\* The documented contract of the network: a 4xx other than 408 means that the
\* request was not processed, everything else but a valid 200 leaves it open.
Rejecting == (400..499) \ {408}

ASSUME GatewayAssumption ==
    /\ GatewayFailures \cup GatewayRejections \subseteq HttpResponse
    /\ \A r \in GatewayFailures :
          r.status_code \notin Rejecting /\ r.payload \notin {"AUTHORIZED", "DECLINED"}
    /\ \A r \in GatewayRejections : r.status_code \in Rejecting
    /\ GarbledAnswers \subseteq {"overlong", "overlongDecline", "undecodable"}

\* Tokens with a lone surrogate under httpx >= 0.28, none under older versions.
ASSUME EncodingAssumption == UnencodableTokens \subseteq Tokens

VARIABLES handler,   \* where handle_authorization is
          wire,      \* the HTTP exchange of the handler
          stray,     \* requests without a waiting handler, not yet processed
          posts,     \* how often <<key, transaction>> was posted to the network
          ledger,    \* what the network decided about each transaction
          reply      \* the last HTTP response of the slot

networkVars == <<wire, stray, posts, ledger>>
vars == <<txns, records, at, arg, ret, faults, handler, wire, stray, posts, ledger, reply>>

HandlerStates == {"idle", "reserving", "calling", "completing"}

\* An exchange: nothing, a request under way, a response under way, or a
\* request whose response will come after the deadline.
NoExchange == [phase |-> "none", response |-> Response(200, "unparseable")]
Request == [NoExchange EXCEPT !.phase = "request"]
Late == [NoExchange EXCEPT !.phase = "late"]
Answered(r) == [phase |-> "response", response |-> r]

NoReply == [key |-> None, command |-> None, envelope |-> NoEnvelope]

\* create_transaction answers with the envelope; PersistenceError, of which
\* OptimisticConcurrencyError is a subclass, is mapped to a 500 problem.
Answer(s, envelope) ==
    /\ handler' = [handler EXCEPT ![s] = "idle"]
    /\ reply' = [reply EXCEPT ![s].envelope = envelope]

\* What Starlette's ServerErrorMiddleware makes of an exception without handler.
InternalServerError ==
    [ProblemEnvelope(500, "internal-server-error", {}) EXCEPT !.media_type = "text/plain"]

PersistenceProblem == ProblemEnvelope(500, "internal-persistence-error", {})

-----------------------------------------------------------------------------
(* The handler.                                                            *)

Submit(s, k, c) ==
    /\ handler[s] = "idle"
    /\ handler' = [handler EXCEPT ![s] = "reserving"]
    /\ reply' = [reply EXCEPT ![s] = [NoReply EXCEPT !.key = k, !.command = c]]
    /\ CallReserve(s, k, c)
    /\ UNCHANGED networkVars

\* The 409 answers and the replay.
ReservationEnvelope(r) ==
    CASE r.status = "COMPLETED" -> r.envelope
      [] r.status = "IDEMPOTENCY_CONFLICT" -> ProblemEnvelope(409, "idempotency-conflict", {})
      [] r.status = "IN_PROGRESS" ->
            ProblemEnvelope(409, "idempotency-in-progress", {<<"Retry-After", 1>>})
      [] r.status = "TRANSACTION_ID_CONFLICT" ->
            ProblemEnvelope(409, "transaction-id-conflict", {})
      [] r.status = "PersistenceError" -> PersistenceProblem

NotAcquired(s) ==
    /\ handler[s] = "reserving" /\ at[s] = "free" /\ ret[s].status # "ACQUIRED"
    /\ Answer(s, ReservationEnvelope(ret[s]))
    /\ UNCHANGED <<coordVars, networkVars>>

\* Mutant: a request that finds its key in progress calls the network too.
PostUnlessConflict(s) ==
    /\ handler[s] = "reserving" /\ at[s] = "free"
    /\ ret[s].status \in {"ACQUIRED", "IN_PROGRESS"}
    /\ handler' = [handler EXCEPT ![s] = "calling"]
    /\ wire' = [wire EXCEPT ![s] = Request]
    /\ posts' = [posts EXCEPT ![<<arg[s].key, TxnOf(arg[s])>>] = @ + 1]
    /\ UNCHANGED <<coordVars, stray, ledger, reply>>

\* service.execute: the adapter posts the request.
Post(s) ==
    /\ handler[s] = "reserving" /\ at[s] = "free" /\ ret[s].status = "ACQUIRED"
    /\ arg[s].command.payment_token \notin UnencodableTokens
    /\ handler' = [handler EXCEPT ![s] = "calling"]
    /\ wire' = [wire EXCEPT ![s] = Request]
    /\ posts' = [posts EXCEPT ![<<arg[s].key, TxnOf(arg[s])>>] = @ + 1]
    /\ UNCHANGED <<coordVars, stray, ledger, reply>>

\* The client fails to encode the payload.  UnicodeEncodeError is no httpx error:
\* it passes every layer and nothing completes the reservation.
PostFails(s) ==
    /\ handler[s] = "reserving" /\ at[s] = "free" /\ ret[s].status = "ACQUIRED"
    /\ arg[s].command.payment_token \in UnencodableTokens
    /\ Answer(s, InternalServerError)
    /\ UNCHANGED <<coordVars, networkVars>>

\* authorize() returned or raised; the service, the mapping to an envelope and
\* the call of complete follow without another await.
Conclude(s, result) ==
    /\ handler' = [handler EXCEPT ![s] = "completing"]
    /\ wire' = [wire EXCEPT ![s] = NoExchange]
    /\ CallComplete(s, CompletionOf(arg[s].key, TxnOf(arg[s]), result))
    /\ UNCHANGED <<posts, ledger, reply>>

Receive(s) ==
    /\ handler[s] = "calling" /\ wire[s].phase = "response"
    /\ wire[s].response.payload # "undecodable"
    /\ Conclude(s, HandleResponse(wire[s].response))
    /\ UNCHANGED stray

\* httpx.DecodingError is no TransportError: it passes authorize, execute and
\* handle_authorization, and nothing completes the reservation.
Unhandled(s) ==
    /\ handler[s] = "calling" /\ wire[s].phase = "response"
    /\ wire[s].response.payload = "undecodable"
    /\ wire' = [wire EXCEPT ![s] = NoExchange]
    /\ Answer(s, InternalServerError)
    /\ UNCHANGED <<coordVars, stray, posts, ledger>>

\* The request of slot s, if the network has not seen it, may still arrive.
Detach(s) ==
    stray' = IF wire[s].phase = "request" THEN stray \cup {arg[s].command} ELSE stray

\* Mutant: the deadline counts only once a response has begun.
TimeoutAfterResponse(s) ==
    /\ handler[s] = "calling" /\ wire[s].phase = "response"
    /\ Detach(s)
    /\ Conclude(s, Outcome("Timeout"))

\* asyncio.timeout, or one of httpx's timeouts, fires first.
Timeout(s) ==
    /\ handler[s] = "calling"
    /\ Detach(s)
    /\ Conclude(s, Outcome("Timeout"))

\* httpx.TransportError: the connection fails before or after processing.
TransportFailure(s) ==
    /\ handler[s] = "calling"
    /\ Detach(s)
    /\ Conclude(s, Outcome("Unavailable"))

\* complete returned, and handle_authorization returns its envelope, or it
\* raised.  Mutant: the answer is sent before the completion is committed.
CompletedEarly(s) ==
    /\ handler[s] = "completing"
    /\ Answer(s, IF ret[s].status \in {"none", "DONE"} THEN arg[s].envelope
                                                       ELSE PersistenceProblem)
    /\ UNCHANGED <<coordVars, networkVars>>

Completed(s) ==
    /\ handler[s] = "completing" /\ at[s] = "free"
    /\ Answer(s, IF ret[s].status = "DONE" THEN arg[s].envelope ELSE PersistenceProblem)
    /\ UNCHANGED <<coordVars, networkVars>>

\* One statement of the open database call.
Sql(s) ==
    /\ Statement(s)
    /\ UNCHANGED <<handler, networkVars, reply>>

-----------------------------------------------------------------------------
(* The network.                                                            *)

Process(c) ==
    ledger' = IF ScenarioResponse(c.payment_token).payload \in {"AUTHORIZED", "DECLINED"}
              THEN [ledger EXCEPT ![c.transaction_id] =
                        ScenarioResponse(c.payment_token).payload]
              ELSE ledger

\* Mutant: every answer is in time.
NoDeadline(c) == TRUE

\* The emulator sleeps before it answers the timeout token; whether the answer
\* is in time depends on the two settings.
InTime(c) ==
    c.payment_token = "tok_test_timeout" => EmulatorDelay <= NetworkTimeout

\* The emulator handles the request and answers, perhaps too late.
Handle(s) ==
    /\ wire[s].phase = "request"
    /\ Process(arg[s].command)
    /\ wire' = [wire EXCEPT ![s] = IF InTime(arg[s].command)
                                   THEN Answered(ScenarioResponse(arg[s].command.payment_token))
                                   ELSE Late]
    /\ UNCHANGED <<coordVars, handler, stray, posts, reply>>

\* A network handles the request and its answer fits no column or no encoding.
HandleGarbled(s) ==
    /\ wire[s].phase = "request"
    /\ Process(arg[s].command)
    /\ \E p \in GarbledAnswers :
          /\ p = "overlong" => ScenarioResponse(arg[s].command.payment_token).payload = "AUTHORIZED"
          /\ p = "overlongDecline" =>
                ScenarioResponse(arg[s].command.payment_token).payload = "DECLINED"
          /\ wire' = [wire EXCEPT ![s] = Answered(Response(200, p))]
    /\ UNCHANGED <<coordVars, handler, stray, posts, reply>>

HandleStray(c) ==
    /\ Process(c)
    /\ stray' = stray \ {c}
    /\ UNCHANGED <<coordVars, handler, wire, posts, reply>>

\* An intermediary answers, before or after the emulator handled the request.
GatewayFails(s) ==
    /\ wire[s].phase # "none"
    /\ \E r \in GatewayFailures : wire' = [wire EXCEPT ![s] = Answered(r)]
    /\ Detach(s)
    /\ UNCHANGED <<coordVars, handler, posts, ledger, reply>>

GatewayRejects(s) ==
    /\ wire[s].phase = "request"
    /\ \E r \in GatewayRejections : wire' = [wire EXCEPT ![s] = Answered(r)]
    /\ UNCHANGED <<coordVars, handler, stray, posts, ledger, reply>>

-----------------------------------------------------------------------------
(* Faults.                                                                 *)

\* Mutant: the INSERT of the transaction row survives a failed reserve.
DatabaseFailsHalfway(s) ==
    /\ at[s] = "commitReserve"
    /\ Fault
    /\ txns' = [txns EXCEPT ![TxnOf(arg[s])] = ReservedTxnRow(arg[s].command)]
    /\ Finish(s, Return("PersistenceError"))
    /\ UNCHANGED <<records, handler, networkVars, reply>>

DatabaseFails(s) ==
    /\ DatabaseFault(s)
    /\ UNCHANGED <<handler, networkVars, reply>>

\* The handler's process dies or its task is cancelled; nothing recovers it.
Crash(s) ==
    /\ handler[s] # "idle"
    /\ Fault
    /\ Abandon(s)
    /\ handler' = [handler EXCEPT ![s] = "idle"]
    /\ reply' = [reply EXCEPT ![s] = NoReply]
    /\ Detach(s)
    /\ wire' = [wire EXCEPT ![s] = NoExchange]
    /\ UNCHANGED <<posts, ledger>>

-----------------------------------------------------------------------------
Init ==
    /\ CoordInit
    /\ handler = [s \in Slots |-> "idle"]
    /\ wire = [s \in Slots |-> NoExchange]
    /\ stray = {}
    /\ posts = [kt \in Keys \X Txns |-> 0]
    /\ ledger = [t \in Txns |-> "none"]
    /\ reply = [s \in Slots |-> NoReply]

Next ==
    \/ \E s \in Slots :
          \/ \E k \in Keys, c \in Command : Submit(s, k, c)
          \/ NotAcquired(s)
          \/ Post(s)
          \/ PostFails(s)
          \/ Receive(s)
          \/ Unhandled(s)
          \/ Timeout(s)
          \/ TransportFailure(s)
          \/ Completed(s)
          \/ Sql(s)
          \/ Handle(s)
          \/ HandleGarbled(s)
          \/ GatewayFails(s)
          \/ GatewayRejects(s)
          \/ DatabaseFails(s)
          \/ Crash(s)
    \/ \E c \in stray : HandleStray(c)

Spec == Init /\ [][Next]_vars

\* The event loop runs a handler that can go on, PostgreSQL answers a statement
\* that does not wait for a row, and asyncio.timeout ends the wait for the
\* network.  The network itself owes nothing.
HandlerStep(s) ==
    \/ NotAcquired(s) \/ Post(s) \/ PostFails(s) \/ Receive(s) \/ Unhandled(s)
    \/ Timeout(s) \/ Completed(s) \/ Sql(s)

FairSpec == Spec /\ \A s \in Slots : WF_vars(HandlerStep(s))

-----------------------------------------------------------------------------
\* The type of every variable.  Retry-After values that leave the adapter are
\* between 1 and 60 whatever header the network sent (parse_retry_after).
TypeOK ==
    /\ txns \in [Txns -> TxnRow]
    /\ records \in [Keys -> IdemRow]
    /\ at \in [Slots -> Steps]
    /\ \A s \in Slots : arg[s] \in ReserveArg \cup CompleteArg \cup {NoArg}
    /\ ret \in [Slots -> [status : Results, envelope : Envelope]]
    /\ faults \in 0..MaxFaults
    /\ handler \in [Slots -> HandlerStates]
    /\ \A s \in Slots : wire[s].phase \in {"none", "request", "late", "response"}
    /\ stray \subseteq Command
    /\ posts \in [Keys \X Txns -> Nat]
    /\ ledger \in [Txns -> {"none", "AUTHORIZED", "DECLINED"}]
    /\ \A s \in Slots : reply[s].envelope \in Envelope

\* The network is called at most once for a key and at most once for a
\* transaction, whatever requests race, retry, crash or lose their database:
\* "Two-phase reservation ... preventing duplicate downstream network
\* invocations" (README).
AtMostOneInvocation ==
    \A p, q \in Keys \X Txns :
        /\ posts[p] <= 1
        /\ p # q /\ posts[p] > 0 /\ posts[q] > 0 => p[1] # q[1] /\ p[2] # q[2]

\* A request that the network may still process.
InFlight(t) ==
    \/ \E c \in stray : c.transaction_id = t
    \/ \E s \in Slots : wire[s].phase = "request" /\ TxnOf(arg[s]) = t

\* A final status in the transactions table agrees with what the network
\* decided, and FAILED is stored only if the network has not decided and
\* never will: a late authorization can only hit a transaction that is
\* CREATED or PENDING_RECONCILIATION.
OutcomeIsTrue ==
    \A t \in Txns :
        /\ txns[t].status \in {"AUTHORIZED", "DECLINED"} => ledger[t] = txns[t].status
        /\ txns[t].status = "FAILED" => ledger[t] = "none" /\ ~InFlight(t)

\* A transaction row is born as a new entity and changes only as one of the
\* entity's operations would change it: no UPDATE looks at the transition
\* tables, so that rests on what the handlers were told before.
EntityOf(row) == [status |-> row.status, version |-> row.version,
                  pending_operation |-> row.pending_operation]

Follows(old, new) ==
    \/ \E target \in TransactionStatus :
          \/ TransitionVerdict(old, target) = "ok" /\ new = TransitionTo(old, target)
          \/ ResolveVerdict(old, target) = "ok" /\ new = ResolveReconciliation(old, target)
    \/ \E operation \in PendingOperation :
          /\ MarkPendingVerdict(old, operation) = "ok"
          /\ new = MarkPendingReconciliation(old, operation)

RowFollows(t) ==
    txns'[t] # txns[t] =>
        IF TxnStored(t)
        THEN Follows(EntityOf(txns[t]), EntityOf(txns'[t])) /\ txns'[t].terms = txns[t].terms
        ELSE EntityOf(txns'[t]) = NewEntity

RowsFollowLifecycle == [][\A t \in Txns : RowFollows(t)]_vars

\* A client that was told an outcome was told what is stored: a retry of the
\* same request gets the same status code, body, Retry-After and media type,
\* before and after any crash.  Only the replay marker may differ.
Outcomes == {"AUTHORIZED", "DECLINED", "PENDING_RECONCILIATION",
             "provider-rate-limited", "downstream-rejected"}

ReplayIsFaithful ==
    \A s \in Slots :
        LET r == reply[s]
        IN  handler[s] = "idle" /\ r.key \in Keys /\ r.envelope.body.document \in Outcomes =>
                /\ records[r.key].processing_status = "COMPLETED"
                /\ records[r.key].request_fingerprint = RequestFingerprint(r.command)
                /\ ReplayEnvelope(records[r.key]) = [r.envelope EXCEPT !.is_replay = TRUE]

\* Without a database fault or a crash a request ends in a 500 only because of
\* what it carries, a value that no column takes or a token that no client can
\* send, and never because of other requests: reserve can explain every conflict
\* and the version 0 that the orchestrator expects in complete is never stale.
NoSpuriousError ==
    \A s \in Slots : handler[s] = "idle" /\ reply[s].key \in Keys
                     /\ reply[s].envelope.status_code = 500 =>
        \/ faults > 0
        \/ ~Storable(reply[s].command)
        \/ reply[s].command.payment_token \in UnencodableTokens

\* A record is left IN_PROGRESS without a handler that will complete it only
\* by a fault, the crash window of the README, or because its token cannot be
\* sent.
AbandonedOnlyByFault ==
    faults = 0 =>
        \A k \in Keys : records[k].processing_status = "IN_PROGRESS" =>
            \/ records[k].request_fingerprint[2] \in UnencodableTokens
            \/ \E s \in Slots : handler[s] # "idle" /\ arg[s].key = k
                               /\ (handler[s] = "reserving" => ret[s].status = "ACQUIRED")

\* Every request is answered, or its handler crashed: no handler waits for
\* ever for the network, for a row lock or for another handler.
EveryRequestEnds == \A s \in Slots : handler[s] # "idle" ~> handler[s] = "idle"

\* A reserved key whose token can be sent is completed, unless a fault intervened.
ReservedIsCompleted ==
    \A k \in Keys :
        (/\ records[k].processing_status = "IN_PROGRESS"
         /\ records[k].request_fingerprint[2] \notin UnencodableTokens)
           ~> (records[k].processing_status = "COMPLETED" \/ faults > 0)

\* The coordinator's callers are exactly the ones CoordinatorClients allows.
NetworkResults ==
    {Outcome(kind) : kind \in AuthorizedKinds \cup DeclinedKinds \cup {"Rejected"} \cup Ambiguous}
    \cup {NetworkResult("RateLimit", n) : n \in 1..60}

OrchestratorCalls == {CompletionOf(k, t, r) : k \in Keys, t \in Txns, r \in NetworkResults}

Clients == INSTANCE CoordinatorClients WITH CompleteCalls <- OrchestratorCalls

UsesCoordinator == Clients!Spec

\* The service keeps its promise to the clients: what they see of keys, network
\* calls, stored responses and answers is a behaviour of IdempotentService,
\* whatever races, times out, fails or crashes underneath.
ClaimedBy(k) ==
    LET f == records[k].request_fingerprint
    IN  IF KeyStored(k)
        THEN [transaction_id |-> f[3], payment_token |-> f[2], terms |-> f[1]]
        ELSE None

DecidedFor(k) ==
    IF records[k].processing_status = "COMPLETED"
    THEN [ReplayEnvelope(records[k]) EXCEPT !.is_replay = FALSE]
    ELSE None

SeenBy(s) ==
    [waiting |-> handler[s] # "idle", key |-> reply[s].key, command |-> reply[s].command,
     answer |-> IF handler[s] # "idle" \/ reply[s].key = None
                THEN None
                ELSE [reply[s].envelope EXCEPT !.is_replay = FALSE]]

Service ==
    INSTANCE IdempotentService WITH
        owner    <- [k \in Keys |-> ClaimedBy(k)],
        calls    <- posts,
        decision <- [k \in Keys |-> DecidedFor(k)],
        client   <- [s \in Slots |-> SeenBy(s)]

KeepsPromise == Service!Spec

\* What the promise amounts to for the clients of the running service: an
\* outcome that a client was told stems from exactly one network call, and all
\* clients of a key that were told one were told the same.
ClientsAgree == Service!OneOutcomePerKey

\* "Malformed HTTP 200 -> PENDING_RECONCILIATION" (execute): a handler that
\* answered because it could not read a response has left its transaction
\* pending.
MalformedIsPending ==
    \A s \in Slots :
        handler[s] = "idle" /\ reply[s].envelope.body.document = "internal-server-error"
           => txns[reply[s].command.transaction_id].status = "PENDING_RECONCILIATION"

\* The README's table of tokens: the transaction of tok_test_timeout becomes
\* PENDING_RECONCILIATION and is never reported as authorized.
TimeoutTokenIsAmbiguous ==
    \A k \in Keys :
        (/\ records[k].processing_status = "COMPLETED"
         /\ records[k].request_fingerprint[2] = "tok_test_timeout")
           => txns[records[k].transaction_id].status # "AUTHORIZED"
=============================================================================
