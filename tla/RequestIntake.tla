---------------------------- MODULE RequestIntake ----------------------------
(***************************************************************************)
(* The way of one POST /v1/transactions through FastAPI: JSON parsing, the *)
(* two header dependencies, the request schema, the INSERT under the       *)
(* columns and CHECK constraints of the schema, and the emulator with its  *)
(* own header and schema checks.  Requests follow each other under one     *)
(* idempotency key; what happens when they overlap is the subject of       *)
(* module Platform.                                                        *)
(*                                                                         *)
(* A text is what the code tells apart: its length without surrounding     *)
(* white space, whether it has some, whether it contains NUL, which JSON   *)
(* carries and PostgreSQL does not, and whether it contains a lone         *)
(* surrogate, which a JSON escape can write and UTF-8 cannot.  A header is *)
(* its length and whether all its characters are allowed ones; it has no   *)
(* newline, so "$" in the header patterns means the end.                   *)
(***************************************************************************)
EXTENDS Integers, FiniteSets

CONSTANTS Requests,     \* the requests that clients send
          BigIntMax,    \* stands for 2^63 - 1, the largest BIGINT
          EnsureAscii   \* httpx before 0.28 escapes what is not ASCII in JSON

ASSUME BigIntAssumption == BigIntMax \in Nat \ {0}
ASSUME EncoderAssumption == EnsureAscii \in BOOLEAN

\* What a request consists of, well-formed or not.  A token is one that the
\* emulator has a scenario for, one without, or one without the prefix.
HeaderValues == [present : BOOLEAN, length : Nat, clean : BOOLEAN]
TextValues == [form : STRING, length : Nat, padded : BOOLEAN, nul : BOOLEAN,
               surrogate : BOOLEAN]
TokenValues == [form : STRING, length : Nat, padded : BOOLEAN, nul : BOOLEAN,
                surrogate : BOOLEAN, name : {"supported", "unsupported", "foreign"}]
AmountValues == [form : STRING, value : Int]
CurrencyValues == [form : STRING, upper : BOOLEAN, length : Nat, newline : BOOLEAN]

ASSUME RequestsAssumption ==
    /\ Requests \subseteq [json : STRING, correlation : HeaderValues, key : HeaderValues,
                           transaction_id : TextValues, merchant_id : TextValues,
                           payment_token : TokenValues, amount : AmountValues,
                           currency : CurrencyValues, extra : BOOLEAN]
    /\ \A r \in Requests : r.payment_token.name = "supported" =>
          ~r.payment_token.nul /\ ~r.payment_token.surrogate

VARIABLES stage,        \* how far the current request has come
          request,      \* the request as it was received
          stored,       \* the rows of the key: at most one command with its response
          calls,        \* the payloads posted to the network
          downstream,   \* the document of the network's last answer
          response,     \* the last response
          before        \* stored and calls when the request arrived

vars == <<stage, request, stored, calls, downstream, response, before>>

-----------------------------------------------------------------------------
(* Values and their validators.                                            *)

TextFields == {"transaction_id", "merchant_id"}
Fields == TextFields \cup {"payment_token", "amount", "currency"}

\* validate_stripped_nonblank_string; the length is the one after strip().
\* Mutant: an off-by-one in the limit.
ValidTextUpTo129(v) == v.form = "text" /\ v.length \in 1..129

ValidText(v) == v.form = "text" /\ v.length \in 1..128

\* validate_payment_token, which has the same conditions and the prefix.
ValidToken(v) == ValidText(v) /\ v.name # "foreign"

\* validate_currency_format: "$" also matches before a final newline.
ValidCurrency(v) == v.form = "text" /\ v.upper /\ v.length = 3

\* validate_amount: a bool is an int in Python and is refused; no upper bound.
ValidAmount(v) == v.form = "integer" /\ v.value > 0

ValidField(r, f) ==
    CASE f \in TextFields      -> ValidText(r[f])
      [] f = "payment_token"   -> ValidToken(r[f])
      [] f = "amount"          -> ValidAmount(r[f])
      [] f = "currency"        -> ValidCurrency(r[f])

\* What the validators return: strip() for texts, the rest as it is.
\* Mutant: the texts are kept as they came.
Unstripped(r) == [f \in Fields |-> r[f]]

Command(r) ==
    [f \in Fields |-> IF f \in TextFields \cup {"payment_token"}
                      THEN [r[f] EXCEPT !.padded = FALSE]
                      ELSE r[f]]

\* require_correlation_id and require_idempotency_key, with a pattern each.
ValidCorrelation(h) == h.present /\ h.clean /\ h.length \in 1..128

ValidKey(h) == h.present /\ h.clean /\ h.length \in 1..128

-----------------------------------------------------------------------------
(* Responses.                                                              *)

Problem(code, document) == [status |-> code, document |-> document]

NoAnswer == Problem(0, "none")

Respond(answer) ==
    /\ stage' = "idle"
    /\ response' = answer
    /\ UNCHANGED <<request, before>>

Proceed(next) ==
    /\ stage' = next
    /\ UNCHANGED <<request, stored, calls, downstream, response, before>>

-----------------------------------------------------------------------------
(* The pipeline.                                                           *)

Receive(r) ==
    /\ stage = "idle"
    /\ stage' = "received"
    /\ request' = r
    /\ before' = [stored |-> stored, calls |-> calls]
    /\ UNCHANGED <<stored, calls, downstream, response>>

Refuse(answer) == Respond(answer) /\ UNCHANGED <<stored, calls, downstream>>

\* The body is parsed before any dependency is resolved.
ParseJson ==
    /\ stage = "received"
    /\ IF request.json = "malformed"
       THEN Refuse(Problem(400, "malformed-request"))
       ELSE Proceed("parsed")

\* The dependencies run in the order of the parameters.
CheckHeaders ==
    /\ stage = "parsed"
    /\ CASE ~ValidCorrelation(request.correlation) ->
               Refuse(Problem(400, "missing-correlation-id"))
         [] ValidCorrelation(request.correlation) /\ ~ValidKey(request.key) ->
               Refuse(Problem(400, "missing-idempotency-key"))
         [] ValidCorrelation(request.correlation) /\ ValidKey(request.key) ->
               Proceed("identified")

\* The model forbids extra fields.
ValidBody(r) == r.json = "object" /\ ~r.extra /\ \A f \in Fields : ValidField(r, f)

ValidateBody ==
    /\ stage = "identified"
    /\ IF ValidBody(request)
       THEN Proceed("accepted")
       ELSE Refuse(Problem(422, "validation-error"))

\* What the columns and the CHECK constraints of transactions admit, and asyncpg
\* can write in UTF-8.  The token is in no column.
Storable(c) ==
    /\ \A f \in TextFields : c[f].length \in 1..128 /\ ~c[f].nul /\ ~c[f].surrogate
    /\ c.amount.value \in 1..BigIntMax
    /\ c.currency.upper /\ c.currency.length = 3 /\ ~c.currency.newline

\* compute_request_fingerprint: every field of the command.
Fingerprint(c) == [f \in Fields |-> c[f]]

\* reserve, without concurrency: the record of the key decides, and an INSERT
\* that fails on a value is a DataError, which leaves nothing behind.
\* Mutant: the record of the key is committed on its own, before the INSERT.
ReserveKeyFirst ==
    /\ stage = "accepted" /\ stored = {}
    /\ stored' = {[command |-> Command(request), answer |-> NoAnswer]}
    /\ Respond(Problem(500, "internal-persistence-error"))
    /\ UNCHANGED <<calls, downstream>>

Reserve ==
    LET c == Command(request)
    IN  /\ stage = "accepted"
        /\ \/ /\ stored = {} /\ Storable(c)
              /\ stored' = {[command |-> c, answer |-> NoAnswer]}
              /\ stage' = "reserved"
              /\ UNCHANGED <<request, calls, downstream, response, before>>
           \/ /\ stored = {} /\ ~Storable(c)
              /\ Refuse(Problem(500, "internal-persistence-error"))
           \/ \E row \in stored :
                 /\ Fingerprint(row.command) = Fingerprint(c)
                 /\ Refuse(IF row.answer = NoAnswer
                           THEN Problem(409, "idempotency-in-progress")
                           ELSE row.answer)
           \/ \E row \in stored :
                 /\ Fingerprint(row.command) # Fingerprint(c)
                 /\ Refuse(Problem(409, "idempotency-conflict"))

-----------------------------------------------------------------------------
(* The network: the payload that authorize() builds, and the emulator's    *)
(* own copy of the checks.                                                 *)

Payload(c) ==
    [request_id |-> c.transaction_id, merchant_id |-> c.merchant_id,
     payment_token |-> c.payment_token, amount |-> c.amount, currency |-> c.currency]

EmulatorTexts == {"request_id", "merchant_id", "payment_token"}

\* httpx writes the payload as JSON, with escapes or in UTF-8.
Encodable(p) == EnsureAscii \/ \A f \in EmulatorTexts : ~p[f].surrogate

\* validate_stripped_nonblank_string of the emulator, for the token too.
\* Mutant: its limit has drifted from the API's.
EmulatorTextBelow128(v) == v.form = "text" /\ v.length \in 1..127

EmulatorText(v) == v.form = "text" /\ v.length \in 1..128

EmulatorAmount(v) == v.form = "integer" /\ v.value > 0

EmulatorCurrency(v) == v.form = "text" /\ v.upper /\ v.length = 3

\* AuthorizationRequest, which forbids extra fields.
EmulatorValid(p) ==
    /\ DOMAIN p = EmulatorTexts \cup {"amount", "currency"}
    /\ \A f \in EmulatorTexts : EmulatorText(p[f])
    /\ EmulatorAmount(p.amount) /\ EmulatorCurrency(p.currency)

\* require_correlation_id of the emulator; the pattern is imported.
EmulatorCorrelation(h) == h.present /\ h.clean /\ h.length \in 1..128

EmulatorDocument(correlation, p) ==
    CASE ~EmulatorCorrelation(correlation) -> "missing-correlation-id"
      [] EmulatorCorrelation(correlation) /\ ~EmulatorValid(p) -> "validation-error"
      [] EmulatorCorrelation(correlation) /\ EmulatorValid(p) ->
            IF p.payment_token.name = "supported" THEN "outcome" ELSE "unsupported-token"

NetworkAnswer(document) ==
    IF document = "outcome" THEN Problem(201, "outcome") ELSE Problem(502, "downstream-rejected")

\* Mutant: the answer goes out without complete.
AuthorizeOnly ==
    LET p == Payload(Command(request))
    IN  /\ stage = "reserved"
        /\ calls' = calls \cup {p}
        /\ downstream' = EmulatorDocument(request.correlation, p)
        /\ Respond(NetworkAnswer(downstream'))
        /\ UNCHANGED stored

\* The network call and complete: an outcome, or FAILED for a rejection.  A
\* payload that cannot be written is an exception nobody handles: the row stays
\* as reserve left it.
Authorize ==
    LET p == Payload(Command(request))
    IN  /\ stage = "reserved"
        /\ \/ /\ Encodable(p)
              /\ calls' = calls \cup {p}
              /\ downstream' = EmulatorDocument(request.correlation, p)
              /\ stored' = {[row EXCEPT !.answer = NetworkAnswer(downstream')] : row \in stored}
              /\ Respond(NetworkAnswer(downstream'))
           \/ /\ ~Encodable(p)
              /\ Refuse(Problem(500, "internal-server-error"))

-----------------------------------------------------------------------------
Init ==
    /\ stage = "idle"
    /\ request = [json |-> "none"]
    /\ stored = {} /\ calls = {} /\ downstream = "none"
    /\ response = NoAnswer
    /\ before = [stored |-> {}, calls |-> {}]

Next ==
    \/ \E r \in Requests : Receive(r)
    \/ ParseJson \/ CheckHeaders \/ ValidateBody \/ Reserve \/ Authorize

Spec == Init /\ [][Next]_vars

-----------------------------------------------------------------------------
\* What the API accepts the emulator accepts: the two copies of the schema, of
\* the limits and of the header check agree on every payload that is sent, so a
\* 502 only ever means that the token has no scenario.
AcceptedIsUnderstood ==
    /\ downstream \in {"none", "outcome", "unsupported-token"}
    /\ \A row \in stored : row.answer.status = 502 => row.command.payment_token.name = "unsupported"

\* A 500 without a fault means a value that the validators let through and a
\* later layer cannot take: an amount above BIGINT, a NUL or a lone surrogate in
\* an identifier, a newline after the currency, or, if the HTTP client writes
\* UTF-8, a lone surrogate in the token.  On every other request the validators,
\* the CHECK constraints and the two encoders agree.
ErrorOnlyByGap ==
    stage = "idle" /\ response.status = 500 =>
        \/ request.amount.value > BigIntMax
        \/ \E f \in TextFields : request[f].nul \/ request[f].surrogate
        \/ request.currency.newline
        \/ request.payment_token.surrogate /\ ~EnsureAscii

\* A request that ends in an error of the API reaches no network, and unless it
\* is the unhandled exception after reserve it leaves no row, so the client may
\* correct it and reuse its key.
RefusedLeavesNothing ==
    stage = "idle" /\ response.status \in {400, 409, 422, 500} =>
        /\ calls = before.calls
        /\ response.document # "internal-server-error" => stored = before.stored

\* Between requests a key is blocked, in progress for ever, only by a request
\* that could not be written to the network and was never sent: what was sent
\* is completed, and what is completed was sent.
BlockedWasNeverSent ==
    stage = "idle" =>
        \A row \in stored :
            /\ row.answer = NoAnswer => row.command.payment_token.surrogate /\ ~EnsureAscii
            /\ row.answer = NoAnswer <=> Payload(row.command) \notin calls

\* A retry is recognised by its meaning: once a command is stored, a later
\* request with the key is taken for the same exactly if it differs at most in
\* white space around its texts, and is a conflict otherwise.
SameMeaning(r, c) ==
    \A f \in Fields : IF f \in TextFields \cup {"payment_token"}
                      THEN /\ r[f].length = c[f].length
                           /\ r[f].nul = c[f].nul /\ r[f].surrogate = c[f].surrogate
                           /\ f = "payment_token" => r[f].name = c[f].name
                      ELSE r[f] = c[f]

RetryIsRecognised ==
    stage = "idle" /\ response.status \in {201, 409, 502} =>
        \A row \in stored :
            response.document = "idempotency-conflict" <=> ~SameMeaning(request, row.command)

\* "currency must be exactly three uppercase ASCII letters" (the validator's
\* message): what ValidateBody accepted has such a currency.
AcceptedCurrencyIsExact ==
    stage = "accepted" =>
        request.currency.upper /\ request.currency.length = 3 /\ ~request.currency.newline
=============================================================================
