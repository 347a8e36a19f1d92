----------------------------- MODULE PromiseProofs -----------------------------
(***************************************************************************)
(* The service keeps its promise: under the mapping of module Platform     *)
(* every step of a handler, of the database, of the network or of a fault  *)
(* is a step of IdempotentService or changes nothing that clients see.     *)
(***************************************************************************)
EXTENDS OutcomeProofs

-----------------------------------------------------------------------------
(* The claims.  The owner of a key is the request of its fingerprint.      *)

\* A stored fingerprint is the fingerprint of the command that claimed the key.
LEMMA ClaimOf ==
    ASSUME ServiceInv, NEW k \in Keys, KeyStored(k)
    PROVE  /\ ClaimedBy(k) \in Command /\ ClaimedBy(k) # None
           /\ ClaimedBy(k).transaction_id = records[k].transaction_id
           /\ RequestFingerprint(ClaimedBy(k)) = records[k].request_fingerprint
<1> DEFINE f == records[k].request_fingerprint
<1>1. f \in Fingerprint /\ f[3] = records[k].transaction_id
  BY DbFacts DEF ServiceInv, TableFacts, RecordFacts
<1>2. ClaimedBy(k) = [transaction_id |-> f[3], payment_token |-> f[2], terms |-> f[1]]
  BY DEF ClaimedBy
<1>3. f[1] \in Terms /\ f[2] \in Tokens /\ f[3] \in Txns /\ f = <<f[1], f[2], f[3]>>
  BY <1>1 DEF Fingerprint
<1> HIDE DEF f
<1>4. ClaimedBy(k) \in Command
  BY <1>2, <1>3 DEF Command
<1>5. RequestFingerprint(ClaimedBy(k)) = f
  BY <1>2, <1>3 DEF RequestFingerprint
<1> QED
  BY <1>1, <1>2, <1>4, <1>5, NoneAssumption DEF f

\* A key that is not stored is nobody's.
LEMMA Unclaimed ==
    ASSUME NEW k \in Keys, ~KeyStored(k)
    PROVE  ClaimedBy(k) = None
  BY DEF ClaimedBy

\* Two commands with one fingerprint are the same command.
LEMMA FingerprintsDiffer ==
    ASSUME NEW c \in Command, NEW d \in Command, RequestFingerprint(c) = RequestFingerprint(d)
    PROVE  c = d
<1>1. /\ c = [transaction_id |-> c.transaction_id, payment_token |-> c.payment_token, terms |-> c.terms]
      /\ d = [transaction_id |-> d.transaction_id, payment_token |-> d.payment_token, terms |-> d.terms]
  BY DEF Command
<1>2. /\ c.transaction_id = d.transaction_id /\ c.payment_token = d.payment_token
      /\ c.terms = d.terms
  BY DEF RequestFingerprint
<1> QED
  BY <1>1, <1>2

\* A key's owner is the command whose fingerprint the record has.
LEMMA OwnerByFingerprint ==
    ASSUME ServiceInv, NEW k \in Keys, KeyStored(k), NEW c \in Command
    PROVE  ClaimedBy(k) = c <=> records[k].request_fingerprint = RequestFingerprint(c)
  BY ClaimOf, FingerprintsDiffer

\* The claims stay while the table does.
LEMMA ClaimStays ==
    ASSUME NEW k \in Keys, records'[k] = records[k]
    PROVE  ClaimedBy(k)' = ClaimedBy(k) /\ DecidedFor(k)' = DecidedFor(k)
  BY DEF ClaimedBy, KeyStored, DecidedFor, ReplayEnvelope

-----------------------------------------------------------------------------
(* The decisions.                                                          *)

\* The replay marker removed again.
LEMMA Unmarked ==
    ASSUME NEW e \in Envelope, NEW x, x = [e EXCEPT !.is_replay = TRUE],
           NEW y, y = [x EXCEPT !.is_replay = FALSE], NEW z, z = [e EXCEPT !.is_replay = FALSE]
    PROVE  y = z /\ z \in Envelope
<1>1. x = [status_code |-> e.status_code, body |-> e.body, headers |-> e.headers,
           media_type |-> e.media_type, is_replay |-> TRUE]
  BY DEF Envelope
<1>2. y = [status_code |-> e.status_code, body |-> e.body, headers |-> e.headers,
           media_type |-> e.media_type, is_replay |-> FALSE]
  BY <1>1
<1>3. z = [status_code |-> e.status_code, body |-> e.body, headers |-> e.headers,
           media_type |-> e.media_type, is_replay |-> FALSE]
  BY DEF Envelope
<1> QED
  BY <1>2, <1>3, ZenonT(60) DEF Envelope

\* Removing the marker from an envelope that has none changes nothing.
LEMMA NeverMarked ==
    ASSUME NEW e \in Envelope, e.is_replay = FALSE, NEW x, x = [e EXCEPT !.is_replay = FALSE]
    PROVE  x = e
<1>1. /\ x = [status_code |-> e.status_code, body |-> e.body, headers |-> e.headers,
              media_type |-> e.media_type, is_replay |-> FALSE]
      /\ e = [status_code |-> e.status_code, body |-> e.body, headers |-> e.headers,
              media_type |-> e.media_type, is_replay |-> e.is_replay]
  BY DEF Envelope
<1> QED
  BY <1>1

\* A stored outcome is the decision about its key.
LEMMA DecisionOf ==
    ASSUME ServiceInv, NEW k \in Keys, NEW c \in Command, NEW e \in Envelope, HasOutcome(k, c, e),
           NEW z, z = [e EXCEPT !.is_replay = FALSE]
    PROVE  DecidedFor(k) = z /\ DecidedFor(k) # None /\ ClaimedBy(k) = c
<1>1. /\ KeyStored(k) /\ records[k].processing_status = "COMPLETED"
      /\ records[k].request_fingerprint = RequestFingerprint(c)
  BY DEF HasOutcome, KeyStored
<1>2. PICK x : x = ReplayEnvelope(records[k])
  OBVIOUS
<1>3. x = [e EXCEPT !.is_replay = TRUE]
  BY <1>2 DEF HasOutcome
<1>4. PICK y : y = [x EXCEPT !.is_replay = FALSE]
  OBVIOUS
<1>5. y = z /\ z \in Envelope
  BY <1>3, <1>4, Unmarked
<1>6. DecidedFor(k) = y
  BY <1>1, <1>2, <1>4 DEF DecidedFor
<1>7. ClaimedBy(k) = c
  BY <1>1, OwnerByFingerprint
<1> QED
  BY <1>5, <1>6, <1>7, NoneAssumption

-----------------------------------------------------------------------------
(* Who completes has called.                                               *)

PostedInv ==
    \A s \in Slots : handler[s] = "completing" =>
        posts[<<reply[s].key, reply[s].command.transaction_id>>] # 0

\* A handler that is completing was completing before, or calling.
LEMMA CompletersBefore ==
    ASSUME ControlInv, [Next]_vars, NEW s \in Slots, handler'[s] = "completing"
    PROVE  handler[s] \in {"calling", "completing"} /\ reply'[s] = reply[s]
<1>1. DOMAIN handler = Slots
  BY DEF ControlInv
<1>2. CASE ~ServiceStep(s)
  BY <1>2, IdleRests DEF Rests
<1>3. ASSUME NEW k \in Keys, NEW c \in Command, Submit(s, k, c) PROVE FALSE
  BY <1>1, <1>3 DEF Submit
<1>4. ASSUME \/ NotAcquired(s) \/ PostFails(s) \/ Unhandled(s) \/ Completed(s)
             \/ Crash(s) \/ Post(s)
      PROVE  FALSE
  BY <1>1, <1>4 DEF NotAcquired, PostFails, Unhandled, Completed, Crash, Answer, Post
<1>5. CASE Receive(s) \/ Timeout(s) \/ TransportFailure(s)
  BY <1>5 DEF Receive, Timeout, TransportFailure, Conclude
<1>6. CASE Handle(s) \/ HandleGarbled(s) \/ GatewayFails(s) \/ GatewayRejects(s)
  BY <1>6 DEF Handle, HandleGarbled, GatewayFails, GatewayRejects
<1>7. CASE Sql(s) \/ DatabaseFails(s)
  BY <1>7, DatabaseMoves
<1> QED
  BY <1>2, <1>3, <1>4, <1>5, <1>6, <1>7 DEF ServiceStep

\* Every step keeps it.
LEMMA PostedStep ==
    ASSUME ServiceInv, OutcomeInv, PostedInv, [Next]_vars
    PROVE  PostedInv'
<1>1. ControlInv
  BY DEF ServiceInv
<1>2. ASSUME NEW s \in Slots, handler'[s] = "completing"
      PROVE  posts'[<<reply'[s].key, reply'[s].command.transaction_id>>] # 0
  <2> DEFINE k == reply[s].key
             t == reply[s].command.transaction_id
  <2>1. handler[s] \in {"calling", "completing"} /\ reply'[s] = reply[s]
    BY <1>1, <1>2, CompletersBefore
  <2>2. k \in Keys /\ t \in Txns
    BY <1>1, <2>1, AskedWhileBusy
  <2>3. posts[<<k, t>>] # 0
    BY <2>1 DEF OutcomeInv, SlotExchange, PostedInv
  <2>4. posts'[<<k, t>>] # 0
    BY <2>2, <2>3, PostsGrow
  <2> QED
    BY <2>1, <2>4
<1> QED
  BY <1>2 DEF PostedInv

\* It holds in every reachable state.
LEMMA PostedHolds == Spec => []PostedInv
<1>1. Init => PostedInv
  BY DEF Init, PostedInv
<1> QED
  BY <1>1, ServiceHolds, OutcomeHolds, PostedStep, PTL DEF Spec

-----------------------------------------------------------------------------
(* The clients.                                                            *)

\* What a client sees stays while its handler neither starts nor ends.
LEMMA SeenStays ==
    ASSUME NEW s \in Slots, reply'[s] = reply[s], handler'[s] = "idle" <=> handler[s] = "idle"
    PROVE  SeenBy(s)' = SeenBy(s)
  BY DEF SeenBy

\* Nobody but the client of the moving handler sees a difference.
LEMMA OthersSee ==
    ASSUME ControlInv, NEW s \in Slots, ServiceStep(s), NEW r \in Slots \ {s}
    PROVE  SeenBy(r)' = SeenBy(r)
  BY OthersRest, SeenStays DEF Rests

\* A step that leaves records, calls and clients is a stutter of the promise.
LEMMA Unseen ==
    ASSUME records' = records, posts' = posts, \A s \in Slots : SeenBy(s)' = SeenBy(s)
    PROVE  UNCHANGED Service!serviceVars
<1>1. \A k \in Keys : ClaimedBy(k)' = ClaimedBy(k) /\ DecidedFor(k)' = DecidedFor(k)
  BY ClaimStays
<1> QED
  BY <1>1 DEF Service!serviceVars

\* The client whose handler works is waiting.
LEMMA SeenWaiting ==
    ASSUME NEW s \in Slots, handler[s] # "idle"
    PROVE  SeenBy(s) = [waiting |-> TRUE, key |-> reply[s].key, command |-> reply[s].command,
                        answer |-> None]
  BY DEF SeenBy

\* A client that is told envelope e.
LEMMA Told ==
    ASSUME ControlInv, NEW s \in Slots, ServiceStep(s), handler[s] # "idle", NEW e, Answer(s, e),
           records' = records, posts' = posts,
           NEW a, a = [e EXCEPT !.is_replay = FALSE]
    PROVE  Service!Tell(s, a)
<1>1. /\ handler \in [Slots -> HandlerStates] /\ reply \in [Slots -> Replies]
      /\ reply[s].key \in Keys
  BY AskedWhileBusy DEF ControlInv
<1>2. reply' = [reply EXCEPT ![s].envelope = e] /\ handler' = [handler EXCEPT ![s] = "idle"]
  BY DEF Answer
<1>3. /\ handler'[s] = "idle" /\ reply'[s] = [reply[s] EXCEPT !.envelope = e]
  BY <1>1, <1>2
<1>4. /\ reply'[s].key = reply[s].key /\ reply'[s].command = reply[s].command
      /\ reply'[s].envelope = e /\ reply[s].key # None
  BY <1>1, <1>3, NoneAssumption DEF Replies
<1>5. SeenBy(s)' = [waiting |-> FALSE, key |-> reply[s].key, command |-> reply[s].command, answer |-> a]
  BY <1>3, <1>4 DEF SeenBy
<1>6. SeenBy(s) = [waiting |-> TRUE, key |-> reply[s].key, command |-> reply[s].command, answer |-> None]
  BY SeenWaiting
<1>7. \A r \in Slots \ {s} : SeenBy(r)' = SeenBy(r)
  BY OthersSee
<1>8. \A k \in Keys : ClaimedBy(k)' = ClaimedBy(k) /\ DecidedFor(k)' = DecidedFor(k)
  BY ClaimStays
<1>9. SeenBy(s)' = [SeenBy(s) EXCEPT !.waiting = FALSE, !.answer = a]
  <2>1. PICK x : x = SeenBy(s)
    OBVIOUS
  <2>2. PICK y : y = [x EXCEPT !.waiting = FALSE, !.answer = a]
    OBVIOUS
  <2>3. x = [waiting |-> TRUE, key |-> reply[s].key, command |-> reply[s].command, answer |-> None]
    BY <1>6, <2>1
  <2>4. y = [waiting |-> FALSE, key |-> reply[s].key, command |-> reply[s].command, answer |-> a]
    BY <2>2, <2>3
  <2> QED
    BY <1>5, <2>1, <2>2, <2>4
<1> QED
  BY <1>7, <1>8, <1>9 DEF Service!Tell

-----------------------------------------------------------------------------
(* The steps of the promise.                                               *)

\* The two copies of the data types agree.
LEMMA SamePromise ==
    /\ Service!Command = Command
    /\ \A code, document, headers :
          Service!ProblemEnvelope(code, document, headers) = ProblemEnvelope(code, document, headers)
  BY DEF Service!Command, Command, Service!ProblemEnvelope, ProblemEnvelope

\* Initially no key is claimed, and nobody has asked.
LEMMA PromiseInit == Init => Service!Init
<1> SUFFICES ASSUME Init PROVE Service!Init
  OBVIOUS
<1>1. \A k \in Keys : ClaimedBy(k) = None /\ DecidedFor(k) = None
  BY DEF Init, CoordInit, NoIdemRow, ClaimedBy, KeyStored, DecidedFor
<1>2. \A s \in Slots : SeenBy(s) = Service!Idle
  BY DEF Init, NoReply, SeenBy, Service!Idle
<1>3. posts = [kt \in Keys \X Txns |-> 0]
  BY DEF Init
<1> QED
  BY <1>1, <1>2, <1>3 DEF Service!Init

\* A new request is a question.
LEMMA SubmitAsks ==
    ASSUME ControlInv, NEW s \in Slots, NEW k \in Keys, NEW c \in Command, Submit(s, k, c)
    PROVE  Service!Ask(s, k, c)
<1>1. /\ handler \in [Slots -> HandlerStates] /\ reply \in [Slots -> Replies]
  BY DEF ControlInv
<1>2. /\ handler[s] = "idle" /\ handler' = [handler EXCEPT ![s] = "reserving"]
      /\ reply' = [reply EXCEPT ![s] = [NoReply EXCEPT !.key = k, !.command = c]]
      /\ records' = records /\ posts' = posts
  BY DEF Submit, CallReserve, networkVars
<1>3. handler'[s] = "reserving" /\ reply'[s] = [NoReply EXCEPT !.key = k, !.command = c]
  BY <1>1, <1>2
<1>4. reply'[s].key = k /\ reply'[s].command = c
  BY <1>3 DEF NoReply
<1>5. SeenBy(s)' = Service!Waiting(k, c)
  BY <1>3, <1>4 DEF SeenBy, Service!Waiting
<1>6. ~SeenBy(s).waiting
  BY <1>2 DEF SeenBy
<1>7. ServiceStep(s)
  BY DEF ServiceStep
<1>8. \A r \in Slots \ {s} : SeenBy(r)' = SeenBy(r)
  BY <1>7, OthersSee
<1>9. \A j \in Keys : ClaimedBy(j)' = ClaimedBy(j) /\ DecidedFor(j)' = DecidedFor(j)
  BY <1>2, ClaimStays
<1> QED
  BY <1>2, <1>5, <1>6, <1>8, <1>9 DEF Service!Ask

\* A crash drops the client.
LEMMA CrashDrops ==
    ASSUME ControlInv, NEW s \in Slots, Crash(s)
    PROVE  Service!Drop(s)
<1>1. /\ handler \in [Slots -> HandlerStates] /\ reply \in [Slots -> Replies]
  BY DEF ControlInv
<1>2. /\ handler[s] # "idle" /\ handler' = [handler EXCEPT ![s] = "idle"]
      /\ reply' = [reply EXCEPT ![s] = NoReply]
      /\ records' = records /\ posts' = posts
  BY DEF Crash, Abandon, dbVars
<1>3. handler'[s] = "idle" /\ reply'[s] = NoReply
  BY <1>1, <1>2
<1>4. SeenBy(s)' = Service!Idle
  <2>1. reply'[s].key = None /\ reply'[s].command = None
    BY <1>3 DEF NoReply
  <2> QED
    BY <1>3, <2>1 DEF SeenBy, Service!Idle
<1>5. SeenBy(s).waiting
  BY <1>2, SeenWaiting
<1>6. ServiceStep(s)
  BY DEF ServiceStep
<1>7. \A r \in Slots \ {s} : SeenBy(r)' = SeenBy(r)
  BY <1>6, OthersSee
<1>8. \A j \in Keys : ClaimedBy(j)' = ClaimedBy(j) /\ DecidedFor(j)' = DecidedFor(j)
  BY <1>2, ClaimStays
<1> QED
  BY <1>2, <1>4, <1>5, <1>7, <1>8 DEF Service!Drop

\* A 500, as a problem document or as plain text, is an apology.
LEMMA ErrorApologises ==
    ASSUME ControlInv, NEW s \in Slots, ServiceStep(s), handler[s] # "idle",
           records' = records, posts' = posts,
           Answer(s, PersistenceProblem) \/ Answer(s, InternalServerError)
    PROVE  Service!Apologise(s)
<1>1. SeenBy(s).waiting
  BY SeenWaiting
<1>2. ASSUME Answer(s, PersistenceProblem) PROVE Service!Apologise(s)
  <2>1. PICK a : a = [PersistenceProblem EXCEPT !.is_replay = FALSE]
    OBVIOUS
  <2>2. a = [status_code |-> 500,
             body |-> [document |-> "internal-persistence-error", transaction_id |-> None, version |-> 0],
             headers |-> {}, media_type |-> "application/problem+json", is_replay |-> FALSE]
    BY <2>1 DEF PersistenceProblem, ProblemEnvelope
  <2>3. PICK b : b = [ProblemEnvelope(500, "internal-persistence-error", {})
                         EXCEPT !.media_type = "application/problem+json"]
    OBVIOUS
  <2>4. b = [status_code |-> 500,
             body |-> [document |-> "internal-persistence-error", transaction_id |-> None, version |-> 0],
             headers |-> {}, media_type |-> "application/problem+json", is_replay |-> FALSE]
    BY <2>3 DEF ProblemEnvelope
  <2>5. Service!Tell(s, a)
    BY <1>2, <2>1, Told
  <2>6. Service!Tell(s, [Service!ProblemEnvelope(500, "internal-persistence-error", {})
                            EXCEPT !.media_type = "application/problem+json"])
    BY <2>2, <2>3, <2>4, <2>5, SamePromise
  <2> QED
    BY <1>1, <2>6 DEF Service!Apologise
<1>3. ASSUME Answer(s, InternalServerError) PROVE Service!Apologise(s)
  <2>1. PICK a : a = [InternalServerError EXCEPT !.is_replay = FALSE]
    OBVIOUS
  <2>2. a = [status_code |-> 500,
             body |-> [document |-> "internal-server-error", transaction_id |-> None, version |-> 0],
             headers |-> {}, media_type |-> "text/plain", is_replay |-> FALSE]
    BY <2>1 DEF InternalServerError, ProblemEnvelope
  <2>3. PICK b : b = [ProblemEnvelope(500, "internal-server-error", {})
                         EXCEPT !.media_type = "text/plain"]
    OBVIOUS
  <2>4. b = [status_code |-> 500,
             body |-> [document |-> "internal-server-error", transaction_id |-> None, version |-> 0],
             headers |-> {}, media_type |-> "text/plain", is_replay |-> FALSE]
    BY <2>3 DEF ProblemEnvelope
  <2>5. Service!Tell(s, a)
    BY <1>3, <2>1, Told
  <2>6. Service!Tell(s, [Service!ProblemEnvelope(500, "internal-server-error", {})
                            EXCEPT !.media_type = "text/plain"])
    BY <2>2, <2>3, <2>4, <2>5, SamePromise
  <2> QED
    BY <1>1, <2>6 DEF Service!Apologise
<1> QED
  BY <1>2, <1>3

\* What reserve may be told, in the words of this module.
LEMMA Verdicts ==
    ASSUME ServiceInv, NEW s \in Slots, handler[s] = "reserving",
           NEW k, k = reply[s].key, NEW c, c = reply[s].command
    PROVE  /\ ret[s].status = "TRANSACTION_ID_CONFLICT" =>
                 \E j \in Keys \ {k} : KeyStored(j) /\ records[j].transaction_id = c.transaction_id
           /\ ret[s].status = "IDEMPOTENCY_CONFLICT" =>
                 KeyStored(k) /\ records[k].request_fingerprint # RequestFingerprint(c)
           /\ ret[s].status = "IN_PROGRESS" =>
                 KeyStored(k) /\ records[k].request_fingerprint = RequestFingerprint(c)
<1>1. /\ arg[s].op = "reserve" /\ arg[s].key = k /\ arg[s].command = c
      /\ TxnOf(arg[s]) = c.transaction_id
  BY ReservingCall DEF ServiceInv
<1>2. Db!ReserveVerdict(s)
  BY <1>1 DEF ServiceInv, DbInv, Db!VerdictInv, Db!SlotVerdict
<1> QED
  BY <1>1, <1>2
  DEF Db!ReserveVerdict, Db!OwnedElsewhere, Db!KeyStored, KeyStored, Db!TxnOf, TxnOf,
      Db!RequestFingerprint, RequestFingerprint

\* A problem without a replay marker reaches the client as it is.
LEMMA ProblemUnmarked ==
    ASSUME NEW code, NEW document, NEW headers,
           NEW a, a = [ProblemEnvelope(code, document, headers) EXCEPT !.is_replay = FALSE]
    PROVE  a = ProblemEnvelope(code, document, headers)
<1>1. a = [status_code |-> code,
           body |-> [document |-> document, transaction_id |-> None, version |-> 0],
           headers |-> headers, media_type |-> "application/problem+json", is_replay |-> FALSE]
  BY DEF ProblemEnvelope
<1> QED
  BY <1>1 DEF ProblemEnvelope

\* A handler that answers with something true of its key and its command
\* responds.
LEMMA TrueAnswer ==
    ASSUME ControlInv, NEW s \in Slots, ServiceStep(s), handler[s] # "idle", NEW e, Answer(s, e),
           records' = records, posts' = posts,
           NEW a, a = [e EXCEPT !.is_replay = FALSE],
           a \in Service!TrueAnswers(reply[s].key, reply[s].command)
    PROVE  Service!Respond(s)
<1>1. SeenBy(s).waiting /\ SeenBy(s).key = reply[s].key /\ SeenBy(s).command = reply[s].command
  BY SeenWaiting
<1>2. Service!Tell(s, a)
  BY Told
<1> DEFINE seen == [r \in Slots |-> SeenBy(r)]
<1>3. /\ seen[s].waiting /\ seen[s].key = reply[s].key /\ seen[s].command = reply[s].command
  BY <1>1
<1>4. /\ seen[s].waiting
      /\ \E b \in Service!TrueAnswers(seen[s].key, seen[s].command) : Service!Tell(s, b)
  BY <1>2, <1>3
<1> QED
  BY <1>4 DEF Service!Respond

\* A reservation that was not acquired is answered truthfully, or with a 500.
LEMMA LoserIsAnswered ==
    ASSUME ServiceInv, ReplyInv, NEW s \in Slots, NotAcquired(s)
    PROVE  Service!Respond(s) \/ Service!Apologise(s)
<1> DEFINE k == reply[s].key
           c == reply[s].command
           e == ReservationEnvelope(ret[s])
<1>1. ControlInv /\ ServiceStep(s)
  BY DEF ServiceInv, ServiceStep
<1>2. /\ handler[s] = "reserving" /\ at[s] = "free" /\ ret[s].status # "ACQUIRED"
      /\ Answer(s, e) /\ records' = records /\ posts' = posts
  BY DEF NotAcquired, coordVars, networkVars
<1>3. k \in Keys /\ c \in Command
  BY <1>1, <1>2, AskedWhileBusy
<1>4. ret[s].status \in ReserveResults
  BY <1>1, <1>2 DEF ControlInv, SlotControl, ReservingControl
<1>5. PICK a : a = [e EXCEPT !.is_replay = FALSE]
  OBVIOUS
<1>6. ASSUME a \in Service!TrueAnswers(k, c) PROVE Service!Respond(s)
  BY <1>1, <1>2, <1>5, <1>6, TrueAnswer
<1>7. CASE ret[s].status = "COMPLETED"
  <2>1. HasOutcome(k, c, ret[s].envelope) /\ e = ret[s].envelope
    BY <1>2, <1>7 DEF ReplyInv, SlotReply, ReservationEnvelope
  <2>2. ret[s].envelope \in Envelope
    BY DbFacts DEF ServiceInv, CoordTypes
  <2>3. DecidedFor(k) = a /\ DecidedFor(k) # None /\ ClaimedBy(k) = c
    BY <1>3, <1>5, <2>1, <2>2, DecisionOf
  <2>4. a \in Service!TrueAnswers(k, c)
    BY <1>3, <2>3 DEF Service!TrueAnswers
  <2> QED
    BY <1>6, <2>4
<1>8. CASE ret[s].status = "IN_PROGRESS"
  <2>1. KeyStored(k) /\ records[k].request_fingerprint = RequestFingerprint(c)
    BY <1>2, <1>8, Verdicts
  <2>2. ClaimedBy(k) = c
    BY <1>3, <2>1, OwnerByFingerprint
  <2>3. e = ProblemEnvelope(409, "idempotency-in-progress", {<<"Retry-After", 1>>})
    BY <1>8 DEF ReservationEnvelope
  <2>4. a = ProblemEnvelope(409, "idempotency-in-progress", {<<"Retry-After", 1>>})
    BY <1>5, <2>3, ProblemUnmarked
  <2>5. a \in Service!TrueAnswers(k, c)
    BY <1>3, <2>2, <2>4, SamePromise DEF Service!TrueAnswers
  <2> QED
    BY <1>6, <2>5
<1>9. CASE ret[s].status = "IDEMPOTENCY_CONFLICT"
  <2>1. KeyStored(k) /\ records[k].request_fingerprint # RequestFingerprint(c)
    BY <1>2, <1>9, Verdicts
  <2>2. ClaimedBy(k) # c /\ ClaimedBy(k) # None
    BY <1>3, <2>1, OwnerByFingerprint, ClaimOf
  <2>3. e = ProblemEnvelope(409, "idempotency-conflict", {})
    BY <1>9 DEF ReservationEnvelope
  <2>4. a = ProblemEnvelope(409, "idempotency-conflict", {})
    BY <1>5, <2>3, ProblemUnmarked
  <2>5. a \in Service!TrueAnswers(k, c)
    BY <1>3, <2>2, <2>4, SamePromise DEF Service!TrueAnswers
  <2> QED
    BY <1>6, <2>5
<1>10. CASE ret[s].status = "TRANSACTION_ID_CONFLICT"
  <2>1. PICK j \in Keys \ {k} : KeyStored(j) /\ records[j].transaction_id = c.transaction_id
    BY <1>2, <1>10, Verdicts
  <2>2. ClaimedBy(j) # None /\ ClaimedBy(j).transaction_id = c.transaction_id
    BY <2>1, ClaimOf
  <2>3. e = ProblemEnvelope(409, "transaction-id-conflict", {})
    BY <1>10 DEF ReservationEnvelope
  <2>4. a = ProblemEnvelope(409, "transaction-id-conflict", {})
    BY <1>5, <2>3, ProblemUnmarked
  <2>5. a \in Service!TrueAnswers(k, c)
    BY <1>3, <2>1, <2>2, <2>4, SamePromise DEF Service!TrueAnswers
  <2> QED
    BY <1>6, <2>5
<1>11. CASE ret[s].status = "PersistenceError"
  <2>1. e = PersistenceProblem
    BY <1>11 DEF ReservationEnvelope
  <2> QED
    BY <1>1, <1>2, <2>1, ErrorApologises
<1> QED
  BY <1>2, <1>4, <1>7, <1>8, <1>9, <1>10, <1>11 DEF ReserveResults

\* A handler that completed answers with the decision, or with a 500.
LEMMA WinnerIsAnswered ==
    ASSUME ServiceInv, ReplyInv, NEW s \in Slots, Completed(s)
    PROVE  Service!Respond(s) \/ Service!Apologise(s)
<1> DEFINE k == reply[s].key
           c == reply[s].command
<1>1. ControlInv /\ ServiceStep(s)
  BY DEF ServiceInv, ServiceStep
<1>2. /\ handler[s] = "completing" /\ at[s] = "free"
      /\ Answer(s, IF ret[s].status = "DONE" THEN arg[s].envelope ELSE PersistenceProblem)
      /\ records' = records /\ posts' = posts
  BY DEF Completed, coordVars, networkVars
<1>3. k \in Keys /\ c \in Command /\ c.transaction_id \in Txns
  BY <1>1, <1>2, AskedWhileBusy
<1>4. CASE ret[s].status = "DONE"
  <2>1. HasOutcome(k, c, arg[s].envelope) /\ Answer(s, arg[s].envelope)
    BY <1>2, <1>4 DEF ReplyInv, SlotReply
  <2>2. arg[s].envelope \in Envelope
    <3>1. PICK r \in NetworkResults : arg[s].envelope = OutcomeEnvelope(c.transaction_id, r)
      BY <1>1, <1>2, CompletingCall
    <3>2. PICK u \in Txns : u = c.transaction_id
      BY <1>3
    <3>3. OutcomeEnvelope(u, r) \in Envelope
      BY OutcomeEnvelopeType, ZenonT(60)
    <3> QED
      BY <3>1, <3>2, <3>3
  <2>3. PICK a : a = [arg[s].envelope EXCEPT !.is_replay = FALSE]
    OBVIOUS
  <2>4. DecidedFor(k) = a /\ DecidedFor(k) # None /\ ClaimedBy(k) = c
    BY <1>3, <2>1, <2>2, <2>3, DecisionOf
  <2>5. a \in Service!TrueAnswers(k, c)
    BY <1>3, <2>4 DEF Service!TrueAnswers
  <2> QED
    BY <1>1, <1>2, <2>1, <2>3, <2>5, TrueAnswer
<1>5. CASE ret[s].status # "DONE"
  BY <1>1, <1>2, <1>5, ErrorApologises
<1> QED
  BY <1>4, <1>5

\* The COMMIT of a reservation claims the key.
LEMMA ReservationClaims ==
    ASSUME ServiceInv, NEW s \in Slots, CommitsReservation(s)
    PROVE  \E k \in Keys, c \in Command : Service!Claim(k, c)
<1> DEFINE k == reply[s].key
           c == reply[s].command
           t == c.transaction_id
<1>1. ControlInv /\ DbInv /\ CoordTypes /\ TableFacts
  BY DbFacts DEF ServiceInv
<1>2. /\ k \in Keys /\ c \in Command /\ t \in Txns /\ ~KeyStored(k) /\ ~TxnStored(t)
      /\ records'[k].processing_status = "IN_PROGRESS"
      /\ records'[k].request_fingerprint = RequestFingerprint(c)
      /\ \A j \in Keys \ {k} : records'[j] = records[j]
  BY <1>1, ReservationEffect
<1>3. /\ handler[s] = "reserving" /\ handler' = handler /\ reply' = reply /\ posts' = posts
  BY DEF CommitsReservation
<1>4. ClaimedBy(k) = None
  BY <1>2, Unclaimed
<1>5. ClaimedBy(k)' = c
  <2> DEFINE f == records'[k].request_fingerprint
  <2>1. f = <<c.terms, c.payment_token, c.transaction_id>>
    BY <1>2 DEF RequestFingerprint
  <2>2. c = [transaction_id |-> c.transaction_id, payment_token |-> c.payment_token, terms |-> c.terms]
    BY <1>2 DEF Command
  <2>3. ClaimedBy(k)' = [transaction_id |-> f[3], payment_token |-> f[2], terms |-> f[1]]
    BY <1>2, <1>3 DEF ClaimedBy, KeyStored
  <2> QED
    BY <2>1, <2>2, <2>3
<1>6. DecidedFor(k) = None /\ DecidedFor(k)' = None
  BY <1>2, <1>3 DEF DecidedFor, KeyStored
<1>7. \A j \in Keys \ {k} : ClaimedBy(j)' = ClaimedBy(j) /\ DecidedFor(j)' = DecidedFor(j)
  BY <1>2, ClaimStays
<1>8. \A j \in Keys : ClaimedBy(j) = None \/ ClaimedBy(j).transaction_id # t
  <2>1. ASSUME NEW j \in Keys, KeyStored(j) PROVE ClaimedBy(j).transaction_id # t
    BY <1>1, <1>2, <2>1, ClaimOf DEF TableFacts, RecordFacts
  <2> QED
    BY <2>1, Unclaimed
<1>9. SeenBy(s) = Service!Waiting(k, c)
  BY <1>3, SeenWaiting DEF Service!Waiting
<1>10. \A r \in Slots : SeenBy(r)' = SeenBy(r)
  BY <1>3, SeenStays
<1>11. Service!Claim(k, c)
  BY <1>2, <1>3, <1>4, <1>5, <1>6, <1>7, <1>8, <1>9, <1>10 DEF Service!Claim
<1> QED
  BY <1>2, <1>11

\* The post to the network is the one call of its key.
LEMMA PostCalls ==
    ASSUME ServiceInv, NEW s \in Slots, Post(s)
    PROVE  \E k \in Keys : Service!Call(k)
<1> DEFINE k == reply[s].key
           c == reply[s].command
           t == c.transaction_id
<1>1. ControlInv /\ ServiceStep(s)
  BY DEF ServiceInv, ServiceStep
<1>2. /\ handler[s] = "reserving" /\ ret[s].status = "ACQUIRED"
      /\ handler' = [handler EXCEPT ![s] = "calling"]
      /\ posts' = [posts EXCEPT ![<<arg[s].key, TxnOf(arg[s])>>] = @ + 1]
      /\ records' = records /\ reply' = reply
  BY DEF Post, coordVars
<1>3. Owning(s)
  BY <1>2 DEF Owning
<1>4. /\ k \in Keys /\ c \in Command /\ t \in Txns /\ KeyStored(k)
      /\ records[k].request_fingerprint = RequestFingerprint(c)
      /\ records[k].transaction_id = t
  BY <1>3, OwnerFacts
<1>5. records[k].processing_status = "IN_PROGRESS"
  BY <1>3 DEF ServiceInv, OwnerInv, OwnsRecord
<1>6. arg[s].key = k /\ TxnOf(arg[s]) = t
  BY <1>1, <1>2, ReservingCall
<1>7. \A u \in Txns : posts[<<k, u>>] = 0
  BY <1>2, <1>4 DEF ServiceInv, PostsInv, PostsOwned, FirstPost
<1>8. posts' = [posts EXCEPT ![<<k, t>>] = 1]
  <2>1. posts[<<k, t>>] = 0 /\ <<k, t>> \in Keys \X Txns
    BY <1>4, <1>7
  <2>2. posts \in [Keys \X Txns -> Nat]
    BY DEF ServiceInv, NetworkTypes
  <2> QED
    BY <1>2, <1>6, <2>1, <2>2
<1>9. ClaimedBy(k) = c /\ ClaimedBy(k) # None /\ DecidedFor(k) = None
  BY <1>4, <1>5, OwnerByFingerprint, ClaimOf DEF DecidedFor
<1>10. \A j \in Keys : ClaimedBy(j)' = ClaimedBy(j) /\ DecidedFor(j)' = DecidedFor(j)
  BY <1>2, ClaimStays
<1>11. \A r \in Slots : SeenBy(r)' = SeenBy(r)
  <2>1. handler'[s] = "calling"
    BY <1>1, <1>2 DEF ControlInv
  <2>2. SeenBy(s)' = SeenBy(s)
    BY <1>2, <2>1, SeenStays
  <2> QED
    BY <1>1, <2>2, OthersSee
<1>12. Service!Call(k)
  BY <1>4, <1>7, <1>8, <1>9, <1>10, <1>11 DEF Service!Call
<1> QED
  BY <1>4, <1>12

\* The envelope of a completion is one of the decisions about its command.
LEMMA CompletionDecides ==
    ASSUME NEW c \in Command, NEW r \in NetworkResults, NEW t, t = c.transaction_id
    PROVE  OutcomeEnvelope(t, r) \in Service!Decisions(c)
<1> DEFINE e == OutcomeEnvelope(t, r)
<1>1. CASE r.kind = "RateLimit"
  <2>1. e = ProblemEnvelope(503, "provider-rate-limited", {<<"Retry-After", r.retry_after>>})
    BY <1>1 DEF OutcomeEnvelope
  <2>2. r.retry_after \in 1..60
    BY ResultKinds
  <2> QED
    BY <2>1, <2>2, SamePromise, ZenonT(60) DEF Service!Decisions
<1>2. CASE r.kind = "Rejected"
  <2>1. e = ProblemEnvelope(502, "downstream-rejected", {})
    BY <1>2 DEF OutcomeEnvelope
  <2> QED
    BY <2>1, SamePromise DEF Service!Decisions
<1>3. CASE r.kind \notin {"RateLimit", "Rejected"}
  <2>1. /\ Execute(r.kind).version = 1
        /\ Execute(r.kind).status \in {"AUTHORIZED", "DECLINED", "PENDING_RECONCILIATION"}
    BY <1>3, ResultKinds, ExecuteEntity DEF AuthorizedKinds, Ambiguous
  <2>2. e = ResultEnvelope(t, Execute(r.kind))
    BY <1>3 DEF OutcomeEnvelope
  <2>3. CASE Execute(r.kind).status = "AUTHORIZED"
    <3>1. e = Service!Outcome(201, "AUTHORIZED", c)
      BY <2>1, <2>2, <2>3 DEF ResultEnvelope, Service!Outcome
    <3> QED
      BY <3>1 DEF Service!Decisions
  <2>4. CASE Execute(r.kind).status = "DECLINED"
    <3>1. e = Service!Outcome(201, "DECLINED", c)
      BY <2>1, <2>2, <2>4 DEF ResultEnvelope, Service!Outcome
    <3> QED
      BY <3>1 DEF Service!Decisions
  <2>5. CASE Execute(r.kind).status = "PENDING_RECONCILIATION"
    <3>1. e = Service!Outcome(202, "PENDING_RECONCILIATION", c)
      BY <2>1, <2>2, <2>5 DEF ResultEnvelope, Service!Outcome
    <3> QED
      BY <3>1 DEF Service!Decisions
  <2> QED
    BY <2>1, <2>3, <2>4, <2>5
<1> QED
  BY <1>1, <1>2, <1>3

\* The COMMIT of a completion decides about the key.
LEMMA CompletionIsDecision ==
    ASSUME ServiceInv, PostedInv, NEW s \in Slots, CommitsCompletion(s)
    PROVE  \E k \in Keys : Service!Decide(k)
<1> DEFINE k == reply[s].key
           c == reply[s].command
           t == c.transaction_id
<1>1. ControlInv /\ DbInv
  BY DEF ServiceInv
<1>2. /\ k \in Keys /\ t \in Txns
      /\ records[k].processing_status = "IN_PROGRESS"
      /\ records'[k].processing_status = "COMPLETED"
      /\ records'[k].request_fingerprint = records[k].request_fingerprint
      /\ records'[k].stored_status_code = arg[s].envelope.status_code
      /\ records'[k].stored_response_body = arg[s].envelope.body
      /\ records'[k].stored_headers = AllowlistedHeaders(arg[s].envelope.headers)
      /\ \A j \in Keys \ {k} : records'[j] = records[j]
  BY <1>1, CompletionEffect
<1>3. /\ handler[s] = "completing" /\ at[s] = "commitComplete"
      /\ handler' = handler /\ reply' = reply /\ posts' = posts
  BY DEF CommitsCompletion
<1>4. Owning(s)
  BY <1>3 DEF Owning
<1>5. /\ c \in Command /\ KeyStored(k) /\ records[k].request_fingerprint = RequestFingerprint(c)
  BY <1>4, OwnerFacts
<1>6. ClaimedBy(k) = c /\ ClaimedBy(k) # None /\ DecidedFor(k) = None
  BY <1>2, <1>5, OwnerByFingerprint, ClaimOf DEF DecidedFor
<1>7. posts[<<k, t>>] = 1
  BY <1>2, <1>3 DEF ServiceInv, PostedInv, PostsInv, PostsOwned
<1>8. PICK r \in NetworkResults : arg[s].envelope = OutcomeEnvelope(t, r)
  BY <1>1, <1>3, CompletingCall
<1>9. PICK e : e = OutcomeEnvelope(t, r)
  OBVIOUS
<1>10. e \in Envelope /\ e.is_replay = FALSE /\ e \in Service!Decisions(c)
  <2>1. /\ OutcomeEnvelope(t, r) \in Envelope
        /\ OutcomeEnvelope(t, r).is_replay = FALSE
    <3>1. PICK u \in Txns : u = t
      BY <1>2
    <3>2. OutcomeEnvelope(u, r) \in Envelope
      BY OutcomeEnvelopeType, ZenonT(60)
    <3>3. OutcomeEnvelope(u, r).is_replay = FALSE
      BY OutcomeEnvelopeType, ZenonT(60)
    <3> QED
      BY <3>1, <3>2, <3>3
  <2>2. e \in Service!Decisions(c)
    BY <1>5, <1>9, CompletionDecides
  <2> QED
    BY <1>9, <2>1, <2>2
<1>11. DecidedFor(k)' = e
  <2>1. PICK row : row = records'[k]
    OBVIOUS
  <2>2. ReplayEnvelope(row) = [e EXCEPT !.is_replay = TRUE]
    <3>1. /\ row.stored_status_code = e.status_code /\ row.stored_response_body = e.body
          /\ row.stored_headers = AllowlistedHeaders(e.headers)
      BY <1>2, <1>8, <1>9, <2>1
    <3> QED
      BY <1>2, <1>9, <3>1, StoredOutcome
  <2>3. PICK x : x = ReplayEnvelope(row)
    OBVIOUS
  <2>4. PICK y : y = [x EXCEPT !.is_replay = FALSE]
    OBVIOUS
  <2>5. PICK z : z = [e EXCEPT !.is_replay = FALSE]
    OBVIOUS
  <2>6. y = z /\ z = e
    BY <1>10, <2>2, <2>3, <2>4, <2>5, Unmarked, NeverMarked
  <2>7. DecidedFor(k)' = [ReplayEnvelope(row) EXCEPT !.is_replay = FALSE]
    BY <1>2, <1>3, <2>1 DEF DecidedFor, ReplayEnvelope
  <2> QED
    BY <2>3, <2>4, <2>6, <2>7
<1>12. ClaimedBy(k)' = ClaimedBy(k)
  BY <1>2, <1>3, <1>5 DEF ClaimedBy, KeyStored
<1>13. \A j \in Keys \ {k} : ClaimedBy(j)' = ClaimedBy(j) /\ DecidedFor(j)' = DecidedFor(j)
  BY <1>2, ClaimStays
<1>14. \A q \in Slots : SeenBy(q)' = SeenBy(q)
  BY <1>3, SeenStays
<1>15. Service!Decide(k)
  BY <1>2, <1>3, <1>6, <1>7, <1>10, <1>11, <1>12, <1>13, <1>14 DEF Service!Decide
<1> QED
  BY <1>2, <1>15

-----------------------------------------------------------------------------
\* A step of the database is a claim, a decision or nothing that clients see.
LEMMA DatabaseKeepsPromise ==
    ASSUME ServiceInv, PostedInv, [Next]_vars, NEW s \in Slots, Sql(s) \/ DatabaseFails(s)
    PROVE  [Service!Next]_(Service!serviceVars)
<1>1. ControlInv
  BY DEF ServiceInv
<1>2. handler' = handler /\ reply' = reply /\ posts' = posts
  BY <1>1, DatabaseMoves
<1>3. CASE records' = records
  <2>1. \A r \in Slots : SeenBy(r)' = SeenBy(r)
    BY <1>2, SeenStays
  <2> QED
    BY <1>2, <1>3, <2>1, Unseen
<1>4. ASSUME NEW r \in Slots, CommitsReservation(r) PROVE Service!Next
  BY <1>4, ReservationClaims, SamePromise DEF Service!Next
<1>5. ASSUME NEW r \in Slots, CommitsCompletion(r) PROVE Service!Next
  BY <1>5, CompletionIsDecision DEF Service!Next
<1> QED
  BY <1>1, <1>3, <1>4, <1>5, TableWriters

\* The steps of the network and the way from its answer to complete are not
\* seen by any client.
LEMMA NetworkIsUnseen ==
    ASSUME ControlInv, NEW s \in Slots,
           \/ Receive(s) \/ Timeout(s) \/ TransportFailure(s)
           \/ Handle(s) \/ HandleGarbled(s) \/ GatewayFails(s) \/ GatewayRejects(s)
    PROVE  UNCHANGED Service!serviceVars
<1>1. ServiceStep(s)
  BY DEF ServiceStep
<1>2. \A r \in Slots \ {s} : SeenBy(r)' = SeenBy(r)
  BY <1>1, OthersSee
<1>3. /\ records' = records /\ posts' = posts /\ reply' = reply
      /\ handler'[s] = "idle" <=> handler[s] = "idle"
  <2>1. CASE Receive(s) \/ Timeout(s) \/ TransportFailure(s)
    <3>1. PICK result \in NetworkResults : Conclude(s, result)
      BY <2>1, ConcludedResult DEF ControlInv
    <3>2. handler[s] = "calling" /\ handler'[s] = "completing"
      BY <2>1, <3>1 DEF Receive, Timeout, TransportFailure, Conclude, ControlInv
    <3> QED
      BY <3>1, <3>2 DEF Conclude, CallComplete
  <2>2. CASE Handle(s) \/ HandleGarbled(s) \/ GatewayFails(s) \/ GatewayRejects(s)
    BY <2>2 DEF Handle, HandleGarbled, GatewayFails, GatewayRejects, coordVars
  <2> QED
    BY <2>1, <2>2
<1>4. SeenBy(s)' = SeenBy(s)
  BY <1>3, SeenStays
<1> QED
  BY <1>2, <1>3, <1>4, Unseen

\* Every step of the service is one of the promise, or is not seen.
LEMMA PromiseStep ==
    ASSUME ServiceInv, ReplyInv, PostedInv, [Next]_vars
    PROVE  [Service!Next]_(Service!serviceVars)
<1>1. ControlInv
  BY DEF ServiceInv
<1>2. ASSUME UNCHANGED vars PROVE UNCHANGED Service!serviceVars
  <2>1. \A r \in Slots : SeenBy(r)' = SeenBy(r)
    BY <1>2, SeenStays DEF vars
  <2> QED
    BY <1>2, <2>1, Unseen DEF vars
<1>3. ASSUME NEW c \in stray, HandleStray(c) PROVE UNCHANGED Service!serviceVars
  <2>1. \A r \in Slots : SeenBy(r)' = SeenBy(r)
    BY <1>3, SeenStays DEF HandleStray
  <2> QED
    BY <1>3, <2>1, Unseen DEF HandleStray, coordVars
<1>4. ASSUME NEW s \in Slots, ServiceStep(s) PROVE [Service!Next]_(Service!serviceVars)
  <2>1. ASSUME NEW k \in Keys, NEW c \in Command, Submit(s, k, c) PROVE Service!Next
    BY <1>1, <2>1, SubmitAsks, SamePromise DEF Service!Next
  <2>2. CASE NotAcquired(s)
    BY <2>2, LoserIsAnswered DEF Service!Next
  <2>3. CASE Completed(s)
    BY <2>3, WinnerIsAnswered DEF Service!Next
  <2>4. CASE Unhandled(s) \/ PostFails(s)
    <3>1. /\ handler[s] # "idle" /\ Answer(s, InternalServerError)
          /\ records' = records /\ posts' = posts
      BY <2>4 DEF Unhandled, PostFails, coordVars, networkVars
    <3> QED
      BY <1>1, <1>4, <3>1, ErrorApologises DEF Service!Next
  <2>5. CASE Post(s)
    BY <2>5, PostCalls DEF Service!Next
  <2>6. CASE Crash(s)
    BY <1>1, <2>6, CrashDrops DEF Service!Next
  <2>7. CASE Sql(s) \/ DatabaseFails(s)
    BY <2>7, DatabaseKeepsPromise
  <2>8. CASE \/ Receive(s) \/ Timeout(s) \/ TransportFailure(s)
             \/ Handle(s) \/ HandleGarbled(s) \/ GatewayFails(s) \/ GatewayRejects(s)
    BY <1>1, <2>8, NetworkIsUnseen
  <2> QED
    BY <1>4, <2>1, <2>2, <2>3, <2>4, <2>5, <2>6, <2>7, <2>8 DEF ServiceStep
<1> QED
  BY <1>2, <1>3, <1>4, StepCases

\* The service implements IdempotentService: whatever requests race, retry,
\* time out, fail or crash, a key is claimed once, the network is called at
\* most once for it, one decision is made after that call and never revised,
\* and every answer but a 500 is true of the claims and the decisions.
THEOREM ServiceKeepsPromise == Spec => KeepsPromise
  BY PromiseInit, PromiseStep, ServiceHolds, ReplyHolds, PostedHolds, PTL
  DEF Spec, KeepsPromise, Service!Spec
-----------------------------------------------------------------------------
(* What the promise amounts to holds of the service: the theorem about     *)
(* IdempotentService is used under the same mapping.                       *)

Promise ==
    INSTANCE ServiceProofs WITH
        owner    <- [k \in Keys |-> ClaimedBy(k)],
        calls    <- posts,
        decision <- [k \in Keys |-> DecidedFor(k)],
        client   <- [s \in Slots |-> SeenBy(s)]

\* The two instances of the promise are one.
LEMMA SameService == Service!Spec => Promise!Spec
  BY PTL
  DEF Service!Spec, Promise!Spec, Service!Init, Promise!Init, Service!Next, Promise!Next,
      Service!serviceVars, Promise!serviceVars, Service!Ask, Promise!Ask, Service!Claim,
      Promise!Claim, Service!Call, Promise!Call, Service!Decide, Promise!Decide,
      Service!Tell, Promise!Tell, Service!Respond, Promise!Respond, Service!Apologise,
      Promise!Apologise, Service!Drop, Promise!Drop, Service!Idle, Promise!Idle,
      Service!Waiting, Promise!Waiting, Service!Outcome, Promise!Outcome,
      Service!Decisions, Promise!Decisions, Service!TrueAnswers, Promise!TrueAnswers,
      Service!Command, Promise!Command, Service!ProblemEnvelope, Promise!ProblemEnvelope

\* The assumption of the promise's theorem is one of this module.
LEMMA PromiseAssumption ==
    /\ None \notin Keys /\ None \notin Txns /\ None \notin Promise!Command
    /\ None \notin Promise!Body /\ None \notin Promise!Envelope
<1>1. Command = Promise!Command /\ Body = Promise!Body /\ Envelope = Promise!Envelope
  BY DEF Command, Promise!Command, Body, Promise!Body, Envelope, Promise!Envelope, Documents,
         Promise!Documents, Headers, Promise!Headers, HeaderNames, Promise!HeaderNames,
         MediaTypes, Promise!MediaTypes
<1> QED
  BY <1>1, NoneAssumption

\* Whatever requests race, retry, time out, fail or crash, an outcome that a
\* client of the running service was told stems from exactly one network call,
\* nobody else used its key or its transaction, and all clients of the key
\* that were told an outcome were told that one, about the same request.
THEOREM ClientsAlwaysAgree == Spec => []ClientsAgree
<1>1. Promise!Spec => []Promise!OneOutcomePerKey
  BY PromiseAssumption, Promise!PromiseMeansOneOutcome
<1>2. Promise!OneOutcomePerKey => ClientsAgree
  BY Zenon
  DEF ClientsAgree, Service!OneOutcomePerKey, Promise!OneOutcomePerKey, Service!Settled,
      Promise!Settled, Service!Decisions, Promise!Decisions, Service!Outcome, Promise!Outcome,
      Service!ProblemEnvelope, Promise!ProblemEnvelope
<1> QED
  BY <1>1, <1>2, ServiceKeepsPromise, SameService, PTL DEF KeepsPromise
=============================================================================
