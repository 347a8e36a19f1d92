---------------------------- MODULE ServiceProofs ----------------------------
(***************************************************************************)
(* What the promise of IdempotentService amounts to, for any keys,         *)
(* transactions and clients: one outcome per key, from one network call.   *)
(* Whatever implements the promise inherits this.                          *)
(***************************************************************************)
EXTENDS IdempotentService, TLAPS

\* Every variable has its type, and a client that waits has asked.
ClientRecords == [waiting : BOOLEAN, key : Keys \cup {None}, command : Command \cup {None},
                  answer : Envelope \cup {None}]

Types ==
    /\ owner \in [Keys -> Command \cup {None}]
    /\ calls \in [Keys \X Txns -> {0, 1}]
    /\ decision \in [Keys -> Envelope \cup {None}]
    /\ client \in [Slots -> ClientRecords]
    /\ \A s \in Slots : client[s].waiting =>
          client[s].key \in Keys /\ client[s].command \in Command /\ client[s].answer = None

\* The history behind an outcome: a transaction has one key, a call was made by
\* the owner of its key, a decision follows that call, and an outcome that a
\* client was told is the decision about its own request.
ClaimsApart ==
    \A j, k \in Keys :
        owner[j] # None /\ owner[k] # None /\ owner[j].transaction_id = owner[k].transaction_id
           => j = k

CallsOwned ==
    \A k \in Keys, t \in Txns :
        calls[<<k, t>>] # 0 => owner[k] # None /\ owner[k].transaction_id = t

DecisionsBacked ==
    \A k \in Keys :
        decision[k] # None => owner[k] # None /\ calls[<<k, owner[k].transaction_id>>] = 1

OutcomesTold ==
    \A s \in Slots :
        Settled(s) => /\ client[s].key \in Keys
                      /\ owner[client[s].key] = client[s].command
                      /\ decision[client[s].key] = client[s].answer

PromiseInv == Types /\ ClaimsApart /\ CallsOwned /\ DecisionsBacked /\ OutcomesTold

-----------------------------------------------------------------------------
\* The headers of the problems that the service knows.
LEMMA ProblemHeaders ==
    {} \in Headers /\ \A n \in 1..60 : {<<"Retry-After", n>>} \in Headers
  BY DEF Headers, HeaderNames

\* The documents of those problems, which mostly have no headers.
LEMMA ProblemDocuments ==
    /\ {} \in Headers
    /\ {"downstream-rejected", "provider-rate-limited", "idempotency-in-progress",
        "idempotency-conflict", "transaction-id-conflict", "internal-persistence-error",
        "internal-server-error"} \subseteq Documents
  BY DEF Headers, Documents

\* A problem is an envelope, and its status code can be read off.
LEMMA ProblemType ==
    ASSUME NEW code \in {409, 500, 502, 503}, NEW document \in Documents, NEW headers \in Headers,
           NEW e, e = ProblemEnvelope(code, document, headers)
    PROVE  e \in Envelope /\ e.status_code = code
  BY DEF ProblemEnvelope, Envelope, Body, MediaTypes

\* The same for an outcome.
LEMMA OutcomeType ==
    ASSUME NEW c \in Command, NEW code \in {201, 202},
           NEW document \in {"AUTHORIZED", "DECLINED", "PENDING_RECONCILIATION"}
    PROVE  Outcome(code, document, c) \in Envelope /\ Outcome(code, document, c).status_code = code
<1>1. c.transaction_id \in Txns /\ {} \in Headers /\ document \in Documents
  BY DEF Command, Headers, Documents
<1>2. [document |-> document, transaction_id |-> c.transaction_id, version |-> 1] \in Body
  BY <1>1 DEF Body
<1> QED
  BY <1>1, <1>2 DEF Outcome, Envelope, MediaTypes

\* A decision is an envelope whose status code no other answer has.
LEMMA DecisionType ==
    ASSUME NEW c \in Command, NEW d \in Decisions(c)
    PROVE  d \in Envelope /\ d.status_code \in {201, 202, 502, 503}
<1> DEFINE Limited(n) == ProblemEnvelope(503, "provider-rate-limited", {<<"Retry-After", n>>})
           rejected == ProblemEnvelope(502, "downstream-rejected", {})
           outcomes == {Outcome(201, "AUTHORIZED", c), Outcome(201, "DECLINED", c),
                        Outcome(202, "PENDING_RECONCILIATION", c), rejected}
<1>1. Decisions(c) = outcomes \cup {Limited(n) : n \in 1..60}
  BY Zenon DEF Decisions
<1>2. rejected \in Envelope /\ rejected.status_code = 502
  <2>1. {} \in Headers /\ "downstream-rejected" \in Documents
    BY ProblemDocuments
  <2> QED
    BY <2>1, ProblemType
<1>3. ASSUME NEW n \in 1..60
      PROVE  Limited(n) \in Envelope /\ Limited(n).status_code = 503
  <2>1. PICK h \in Headers : h = {<<"Retry-After", n>>}
    BY ProblemHeaders, Zenon
  <2>2. "provider-rate-limited" \in Documents
    BY ProblemDocuments
  <2> QED
    BY <2>1, <2>2, ProblemType
<1> HIDE DEF Limited, rejected
<1>4. \A e \in outcomes : e \in Envelope /\ e.status_code \in {201, 202, 502}
  BY <1>2, OutcomeType
<1> HIDE DEF outcomes
<1>5. d \in outcomes \/ \E n \in 1..60 : d = Limited(n)
  BY <1>1
<1> QED
  BY <1>3, <1>4, <1>5

\* A true answer is the decision, or a 409.
LEMMA AnswerType ==
    ASSUME Types, NEW k \in Keys, NEW c \in Command, NEW a \in TrueAnswers(k, c)
    PROVE  /\ a \in Envelope
           /\ \/ a = decision[k] /\ decision[k] # None /\ owner[k] = c
              \/ a.status_code = 409
<1>1. PICK h \in Headers : h = {<<"Retry-After", 1>>}
  <2>1. 1 \in 1..60
    OBVIOUS
  <2> QED
    BY <2>1, ProblemHeaders, Zenon
<1>2. CASE a = decision[k] /\ decision[k] # None /\ owner[k] = c
  BY <1>2 DEF Types
<1>3. ASSUME NEW document \in {"idempotency-in-progress", "idempotency-conflict",
                               "transaction-id-conflict"},
             NEW headers \in {{}, h}, a = ProblemEnvelope(409, document, headers)
      PROVE  a \in Envelope /\ a.status_code = 409
  <2>1. document \in Documents /\ headers \in Headers
    BY <1>1, ProblemDocuments
  <2> QED
    BY <1>3, <2>1, ProblemType
<1>4. \/ a = decision[k] /\ decision[k] # None /\ owner[k] = c
      \/ a = ProblemEnvelope(409, "idempotency-in-progress", h)
      \/ a = ProblemEnvelope(409, "idempotency-conflict", {})
      \/ a = ProblemEnvelope(409, "transaction-id-conflict", {})
  BY <1>1 DEF TrueAnswers
<1> QED
  BY <1>2, <1>3, <1>4

\* An apology is a 500.
LEMMA ApologyType ==
    ASSUME NEW document \in {"internal-persistence-error", "internal-server-error"},
           NEW media_type \in {"application/problem+json", "text/plain"},
           NEW a, a = [ProblemEnvelope(500, document, {}) EXCEPT !.media_type = media_type]
    PROVE  a \in Envelope /\ a.status_code = 500
<1>1. {} \in Headers /\ document \in Documents
  BY ProblemDocuments
<1>2. PICK e \in Envelope : e = ProblemEnvelope(500, document, {}) /\ e.status_code = 500
  BY <1>1, ProblemType
<1> QED
  BY <1>2 DEF Envelope, MediaTypes

-----------------------------------------------------------------------------
\* A step that changes only one client's record: what was told stays true.
LEMMA ClientStep ==
    ASSUME PromiseInv, NEW s \in Slots, NEW r \in ClientRecords,
           client' = [client EXCEPT ![s] = r], UNCHANGED <<owner, calls, decision>>,
           r.waiting => r.key \in Keys /\ r.command \in Command /\ r.answer = None,
           Settled(s)' => /\ r.key \in Keys
                          /\ owner[r.key] = r.command /\ decision[r.key] = r.answer
    PROVE  PromiseInv'
<1>1. client \in [Slots -> ClientRecords] /\ client'[s] = r
  BY DEF PromiseInv, Types
<1>2. \A q \in Slots \ {s} : client'[q] = client[q]
  BY <1>1
<1>3. Types'
  BY <1>1, <1>2 DEF PromiseInv, Types
<1>4. ClaimsApart' /\ CallsOwned' /\ DecisionsBacked'
  BY DEF PromiseInv, ClaimsApart, CallsOwned, DecisionsBacked
<1>5. OutcomesTold'
  BY <1>1, <1>2 DEF PromiseInv, OutcomesTold, Settled
<1> QED
  BY <1>3, <1>4, <1>5 DEF PromiseInv

\* A client is told something.
LEMMA TellStep ==
    ASSUME PromiseInv, NEW s \in Slots, client[s].waiting, NEW a \in Envelope, Tell(s, a),
           a.status_code \in {409, 500}
           \/ (owner[client[s].key] = client[s].command /\ decision[client[s].key] = a)
    PROVE  PromiseInv'
<1>1. /\ client[s] \in ClientRecords /\ client \in [Slots -> ClientRecords]
      /\ client[s].key \in Keys /\ client[s].command \in Command
  BY DEF PromiseInv, Types
<1>2. PICK r \in ClientRecords : /\ r = [client[s] EXCEPT !.waiting = FALSE, !.answer = a]
                                 /\ r.waiting = FALSE /\ r.answer = a
                                 /\ r.key = client[s].key /\ r.command = client[s].command
  <2>1. PICK old \in ClientRecords : old = client[s]
    BY <1>1
  <2>2. PICK r : r = [old EXCEPT !.waiting = FALSE, !.answer = a]
    OBVIOUS
  <2>3. /\ r \in ClientRecords /\ r.waiting = FALSE /\ r.answer = a
        /\ r.key = old.key /\ r.command = old.command
    BY <2>2 DEF ClientRecords
  <2> QED
    BY <2>1, <2>2, <2>3
<1>3. client' = [client EXCEPT ![s] = r] /\ UNCHANGED <<owner, calls, decision>>
  BY <1>1, <1>2 DEF Tell
<1>4. client'[s] = r
  BY <1>1, <1>3
<1>5. Settled(s)' => owner[r.key] = r.command /\ decision[r.key] = r.answer
  <2>1. Settled(s)' => a \in Decisions(r.command)
    BY <1>2, <1>4 DEF Settled
  <2>2. a \in Decisions(r.command) => a.status_code \in {201, 202, 502, 503}
    BY <1>1, <1>2, DecisionType
  <2> QED
    BY <1>2, <2>1, <2>2
<1> QED
  BY <1>1, <1>2, <1>3, <1>5, ClientStep

\* A claim, a call and a decision add to the history and revise nothing.
LEMMA ClaimStep ==
    ASSUME PromiseInv, NEW k \in Keys, NEW c \in Command, Claim(k, c)
    PROVE  PromiseInv'
<1>1. /\ owner \in [Keys -> Command \cup {None}] /\ owner[k] = None
      /\ owner' = [owner EXCEPT ![k] = c] /\ UNCHANGED <<calls, decision, client>>
      /\ \A j \in Keys : owner[j] = None \/ owner[j].transaction_id # c.transaction_id
  BY DEF Claim, PromiseInv, Types
<1>2. owner'[k] = c /\ \A j \in Keys \ {k} : owner'[j] = owner[j]
  BY <1>1
<1>3. c # None
  BY NoneAssumption
<1>4. Types'
  BY <1>1 DEF PromiseInv, Types
<1>5. ClaimsApart'
  BY <1>1, <1>2 DEF PromiseInv, ClaimsApart
<1>6. CallsOwned'
  BY <1>1, <1>2 DEF PromiseInv, CallsOwned
<1>7. DecisionsBacked'
  BY <1>1, <1>2 DEF PromiseInv, DecisionsBacked
<1>8. OutcomesTold'
  <2> SUFFICES ASSUME NEW s \in Slots, Settled(s)
               PROVE  /\ client[s].key \in Keys
                      /\ owner'[client[s].key] = client[s].command
                      /\ decision[client[s].key] = client[s].answer
    BY <1>1 DEF OutcomesTold, Settled
  <2>1. /\ client[s].key \in Keys /\ owner[client[s].key] = client[s].command
        /\ decision[client[s].key] = client[s].answer /\ client[s].answer # None
    BY DEF PromiseInv, OutcomesTold, Settled
  <2>2. client[s].key # k
    BY <1>1, <2>1 DEF PromiseInv, DecisionsBacked
  <2> QED
    BY <1>2, <2>1, <2>2
<1> QED
  BY <1>4, <1>5, <1>6, <1>7, <1>8 DEF PromiseInv

\* The call is the owner's.
LEMMA CallStep ==
    ASSUME PromiseInv, NEW k \in Keys, Call(k)
    PROVE  PromiseInv'
<1>1. /\ owner[k] # None /\ owner[k] \in Command /\ decision[k] = None
      /\ UNCHANGED <<owner, decision, client>>
      /\ calls' = [calls EXCEPT ![<<k, owner[k].transaction_id>>] = 1]
      /\ calls \in [Keys \X Txns -> {0, 1}]
  BY DEF Call, PromiseInv, Types
<1>2. PICK u \in Txns : u = owner[k].transaction_id
  BY <1>1 DEF Command
<1>3. calls' \in [Keys \X Txns -> {0, 1}]
  BY <1>1
<1>4. calls'[<<k, u>>] = 1
  BY <1>1, <1>2
<1>5. ASSUME NEW j \in Keys, NEW t \in Txns, j # k \/ t # u
      PROVE  calls'[<<j, t>>] = calls[<<j, t>>]
  BY <1>1, <1>2, <1>5
<1>6. Types'
  BY <1>1, <1>3 DEF PromiseInv, Types
<1>7. ClaimsApart' /\ OutcomesTold'
  BY <1>1 DEF PromiseInv, ClaimsApart, OutcomesTold, Settled
<1>8. CallsOwned'
  BY <1>1, <1>2, <1>5 DEF PromiseInv, CallsOwned
<1>9. DecisionsBacked'
  <2> SUFFICES ASSUME NEW j \in Keys, decision[j] # None
               PROVE  owner[j] # None /\ calls'[<<j, owner[j].transaction_id>>] = 1
    BY <1>1 DEF DecisionsBacked
  <2>1. owner[j] # None /\ calls[<<j, owner[j].transaction_id>>] = 1 /\ j # k
    BY <1>1 DEF PromiseInv, DecisionsBacked
  <2>2. owner[j].transaction_id \in Txns
    BY <2>1 DEF PromiseInv, Types, Command
  <2> QED
    BY <1>5, <2>1, <2>2
<1> QED
  BY <1>6, <1>7, <1>8, <1>9 DEF PromiseInv

\* The decision follows the call.
LEMMA DecideStep ==
    ASSUME PromiseInv, NEW k \in Keys, Decide(k)
    PROVE  PromiseInv'
<1>1. /\ owner[k] # None /\ owner[k] \in Command /\ decision[k] = None
      /\ calls[<<k, owner[k].transaction_id>>] = 1
      /\ UNCHANGED <<owner, calls, client>>
      /\ decision \in [Keys -> Envelope \cup {None}]
  BY DEF Decide, PromiseInv, Types
<1>2. PICK d \in Decisions(owner[k]) : decision' = [decision EXCEPT ![k] = d]
  BY DEF Decide
<1>3. d \in Envelope
  BY <1>1, DecisionType
<1>4. \A j \in Keys \ {k} : decision'[j] = decision[j]
  BY <1>1, <1>2
<1>5. Types'
  BY <1>1, <1>2, <1>3 DEF PromiseInv, Types
<1>6. ClaimsApart' /\ CallsOwned'
  BY <1>1 DEF PromiseInv, ClaimsApart, CallsOwned
<1>7. DecisionsBacked'
  BY <1>1, <1>4 DEF PromiseInv, DecisionsBacked
<1>8. OutcomesTold'
  <2> SUFFICES ASSUME NEW s \in Slots, Settled(s)
               PROVE  /\ client[s].key \in Keys
                      /\ owner[client[s].key] = client[s].command
                      /\ decision'[client[s].key] = client[s].answer
    BY <1>1 DEF OutcomesTold, Settled
  <2>1. /\ client[s].key \in Keys /\ owner[client[s].key] = client[s].command
        /\ decision[client[s].key] = client[s].answer /\ client[s].answer # None
    BY DEF PromiseInv, OutcomesTold, Settled
  <2> QED
    BY <1>1, <1>4, <2>1
<1> QED
  BY <1>5, <1>6, <1>7, <1>8 DEF PromiseInv

-----------------------------------------------------------------------------
\* Every step keeps the history straight.
LEMMA PromiseStep ==
    ASSUME PromiseInv, [Next]_serviceVars
    PROVE  PromiseInv'
<1>1. CASE UNCHANGED serviceVars
  BY <1>1
  DEF serviceVars, PromiseInv, Types, ClaimsApart, CallsOwned, DecisionsBacked, OutcomesTold, Settled
<1>2. ASSUME NEW s \in Slots, NEW k \in Keys, NEW c \in Command, Ask(s, k, c)
      PROVE  PromiseInv'
  <2>1. PICK r : r = Waiting(k, c)
    OBVIOUS
  <2>2. r \in ClientRecords /\ r.waiting /\ r.key = k /\ r.command = c /\ r.answer = None
    BY <2>1 DEF Waiting, ClientRecords
  <2>3. client' = [client EXCEPT ![s] = r] /\ UNCHANGED <<owner, calls, decision>>
    BY <1>2, <2>1 DEF Ask
  <2>4. ~Settled(s)'
    BY <2>2, <2>3 DEF PromiseInv, Types, Settled
  <2> QED
    BY <2>2, <2>3, <2>4, ClientStep
<1>3. ASSUME NEW s \in Slots, Respond(s)
      PROVE  PromiseInv'
  <2>1. client[s].waiting /\ client[s].key \in Keys /\ client[s].command \in Command
    BY <1>3 DEF Respond, PromiseInv, Types
  <2>2. PICK a \in TrueAnswers(client[s].key, client[s].command) : Tell(s, a)
    BY <1>3 DEF Respond
  <2>3. /\ a \in Envelope
        /\ \/ a = decision[client[s].key] /\ owner[client[s].key] = client[s].command
           \/ a.status_code = 409
    BY <2>1, <2>2, AnswerType DEF PromiseInv
  <2> QED
    BY <2>1, <2>2, <2>3, TellStep
<1>4. ASSUME NEW s \in Slots, Apologise(s)
      PROVE  PromiseInv'
  <2>1. PICK a \in Envelope : Tell(s, a) /\ a.status_code = 500
    BY <1>4, ApologyType DEF Apologise
  <2> QED
    BY <1>4, <2>1, TellStep DEF Apologise
<1>5. ASSUME NEW s \in Slots, Drop(s)
      PROVE  PromiseInv'
  <2>1. Idle \in ClientRecords /\ Idle.waiting = FALSE /\ Idle.answer = None
    BY DEF Idle, ClientRecords
  <2>2. client' = [client EXCEPT ![s] = Idle] /\ UNCHANGED <<owner, calls, decision>>
    BY <1>5 DEF Drop
  <2>3. ~Settled(s)'
    BY <2>1, <2>2 DEF PromiseInv, Types, Settled
  <2> QED
    BY <2>1, <2>2, <2>3, ClientStep
<1> QED
  BY <1>1, <1>2, <1>3, <1>4, <1>5, ClaimStep, CallStep, DecideStep DEF Next

\* Nothing is claimed, called, decided or told initially.
LEMMA PromiseStarts == Init => PromiseInv
<1> SUFFICES ASSUME Init PROVE PromiseInv
  OBVIOUS
<1>1. Idle \in ClientRecords /\ Idle.waiting = FALSE /\ Idle.answer = None
  BY DEF Idle, ClientRecords
<1>2. Types
  BY <1>1 DEF Init, Types
<1> QED
  BY <1>1, <1>2
  DEF Init, PromiseInv, ClaimsApart, CallsOwned, DecisionsBacked, OutcomesTold, Settled

\* Whoever implements IdempotentService gives its clients one outcome per key,
\* from exactly one network call and about one request, however often it is
\* asked, drops a client or apologises.
THEOREM PromiseMeansOneOutcome == Spec => []OneOutcomePerKey
<1>1. ASSUME PromiseInv, NEW s \in Slots, Settled(s),
             NEW k, k = client[s].key, NEW t, t = client[s].command.transaction_id
      PROVE  /\ calls[<<k, t>>] = 1
             /\ \A p \in Keys \X Txns : p # <<k, t>> /\ calls[p] > 0 => p[1] # k /\ p[2] # t
             /\ \A r \in Slots : Settled(r) /\ client[r].key = k =>
                   client[r].command = client[s].command /\ client[r].answer = client[s].answer
  <2>1. /\ k \in Keys /\ owner[k] = client[s].command /\ decision[k] = client[s].answer
        /\ decision[k] # None
    BY <1>1 DEF PromiseInv, OutcomesTold, Settled
  <2>2. owner[k] # None /\ owner[k].transaction_id = t /\ calls[<<k, t>>] = 1
    BY <1>1, <2>1 DEF PromiseInv, DecisionsBacked
  <2>3. ASSUME NEW j \in Keys, NEW u \in Txns, <<j, u>> # <<k, t>>, calls[<<j, u>>] > 0
        PROVE  j # k /\ u # t
    <3>1. owner[j] # None /\ owner[j].transaction_id = u
      BY <1>1, <2>3 DEF PromiseInv, CallsOwned
    <3> QED
      BY <1>1, <2>1, <2>2, <2>3, <3>1 DEF PromiseInv, ClaimsApart
  <2>4. ASSUME NEW p \in Keys \X Txns, p # <<k, t>>, calls[p] > 0
        PROVE  p[1] # k /\ p[2] # t
    <3>1. p[1] \in Keys /\ p[2] \in Txns /\ p = <<p[1], p[2]>>
      OBVIOUS
    <3> QED
      BY <2>3, <2>4, <3>1
  <2>5. ASSUME NEW r \in Slots, Settled(r), client[r].key = k
        PROVE  client[r].command = client[s].command /\ client[r].answer = client[s].answer
    BY <1>1, <2>1, <2>5 DEF PromiseInv, OutcomesTold
  <2> QED
    BY <2>2, <2>4, <2>5
<1>2. PromiseInv => OneOutcomePerKey
  BY <1>1 DEF OneOutcomePerKey
<1> QED
  BY <1>2, PromiseStarts, PromiseStep, PTL DEF Spec
=============================================================================
