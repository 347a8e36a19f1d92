-------------------------- MODULE IdempotentService --------------------------
(***************************************************************************)
(* What the transaction service promises its clients, without saying how:  *)
(* a key belongs to the first request that claims it, the network is       *)
(* called at most once for a key, one decision is made about it, and every *)
(* answer is true of the claims and the decisions.                         *)
(*                                                                         *)
(* A client that waits may be dropped, or told 500, at any time: the       *)
(* promise is about what it may be told, not about what happened.          *)
(***************************************************************************)
EXTENDS Idempotency

CONSTANT Slots   \* clients with a request under way

VARIABLES owner,      \* the command that claimed each key
          calls,      \* how often the network was called for <<key, transaction>>
          decision,   \* the response decided for each key
          client      \* what each client asked and was told

serviceVars == <<owner, calls, decision, client>>

\* A client that waits has no answer yet; a dropped one has no question either.
Idle == [waiting |-> FALSE, key |-> None, command |-> None, answer |-> None]
Waiting(k, c) == [waiting |-> TRUE, key |-> k, command |-> c, answer |-> None]

Outcome(code, document, c) ==
    [status_code |-> code,
     body |-> [document |-> document, transaction_id |-> c.transaction_id, version |-> 1],
     headers |-> {}, media_type |-> "application/json", is_replay |-> FALSE]

\* The responses that settle a request for good.
Decisions(c) ==
    {Outcome(201, "AUTHORIZED", c), Outcome(201, "DECLINED", c),
     Outcome(202, "PENDING_RECONCILIATION", c),
     ProblemEnvelope(502, "downstream-rejected", {})}
    \cup {ProblemEnvelope(503, "provider-rate-limited", {<<"Retry-After", n>>}) : n \in 1..60}

\* The responses that may be given to command c under key k.  The answer "in
\* progress" may be out of date: the decision may fall while it travels.
TrueAnswers(k, c) ==
    {a \in {decision[k]} : owner[k] = c /\ decision[k] # None}
    \cup {a \in {ProblemEnvelope(409, "idempotency-in-progress", {<<"Retry-After", 1>>})} :
             owner[k] = c}
    \cup {a \in {ProblemEnvelope(409, "idempotency-conflict", {})} : owner[k] \notin {None, c}}
    \cup {a \in {ProblemEnvelope(409, "transaction-id-conflict", {})} :
             \E j \in Keys \ {k} : owner[j] # None /\ owner[j].transaction_id = c.transaction_id}

-----------------------------------------------------------------------------
Ask(s, k, c) ==
    /\ ~client[s].waiting
    /\ client' = [client EXCEPT ![s] = Waiting(k, c)]
    /\ UNCHANGED <<owner, calls, decision>>

\* Some client's request becomes the owner of its key and its transaction.
Claim(k, c) ==
    /\ owner[k] = None
    /\ \E s \in Slots : client[s] = Waiting(k, c)
    /\ \A j \in Keys : owner[j] = None \/ owner[j].transaction_id # c.transaction_id
    /\ owner' = [owner EXCEPT ![k] = c]
    /\ UNCHANGED <<calls, decision, client>>

Call(k) ==
    /\ owner[k] # None /\ decision[k] = None
    /\ \A t \in Txns : calls[<<k, t>>] = 0
    /\ calls' = [calls EXCEPT ![<<k, owner[k].transaction_id>>] = 1]
    /\ UNCHANGED <<owner, decision, client>>

\* The decision follows the call and is never revised.
Decide(k) ==
    /\ owner[k] # None /\ decision[k] = None
    /\ calls[<<k, owner[k].transaction_id>>] = 1
    /\ \E d \in Decisions(owner[k]) : decision' = [decision EXCEPT ![k] = d]
    /\ UNCHANGED <<owner, calls, client>>

Tell(s, a) ==
    /\ client' = [client EXCEPT ![s].waiting = FALSE, ![s].answer = a]
    /\ UNCHANGED <<owner, calls, decision>>

Respond(s) ==
    /\ client[s].waiting
    /\ \E a \in TrueAnswers(client[s].key, client[s].command) : Tell(s, a)

\* A 500 says nothing about the request.
Apologise(s) ==
    /\ client[s].waiting
    /\ \E document \in {"internal-persistence-error", "internal-server-error"},
          media_type \in {"application/problem+json", "text/plain"} :
             Tell(s, [ProblemEnvelope(500, document, {}) EXCEPT !.media_type = media_type])

Drop(s) ==
    /\ client[s].waiting
    /\ client' = [client EXCEPT ![s] = Idle]
    /\ UNCHANGED <<owner, calls, decision>>

-----------------------------------------------------------------------------
Init ==
    /\ owner = [k \in Keys |-> None]
    /\ calls = [kt \in Keys \X Txns |-> 0]
    /\ decision = [k \in Keys |-> None]
    /\ client = [s \in Slots |-> Idle]

Next ==
    \/ \E s \in Slots :
          \/ \E k \in Keys, c \in Command : Ask(s, k, c)
          \/ Respond(s) \/ Apologise(s) \/ Drop(s)
    \/ \E k \in Keys :
          \/ \E c \in Command : Claim(k, c)
          \/ Call(k) \/ Decide(k)

Spec == Init /\ [][Next]_serviceVars

-----------------------------------------------------------------------------
\* A client that was told how its request ended.
Settled(s) == client[s].answer # None /\ client[s].answer \in Decisions(client[s].command)

\* What a client can rely on: the outcome it was told stems from exactly one
\* call of the network, no other request used that key or that transaction,
\* and everybody who was told an outcome under its key was told the same one
\* about the same request.
OneOutcomePerKey ==
    \A s \in Slots :
        Settled(s) =>
            LET k == client[s].key
                t == client[s].command.transaction_id
            IN  /\ calls[<<k, t>>] = 1
                /\ \A p \in Keys \X Txns :
                      p # <<k, t>> /\ calls[p] > 0 => p[1] # k /\ p[2] # t
                /\ \A r \in Slots : Settled(r) /\ client[r].key = k =>
                      client[r].command = client[s].command /\ client[r].answer = client[s].answer
=============================================================================
