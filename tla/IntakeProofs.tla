----------------------------- MODULE IntakeProofs -----------------------------
(***************************************************************************)
(* The request pipeline on every sequence of requests of any content, not  *)
(* only the boundary values that TLC enumerates, for every BigIntMax and   *)
(* either way of writing JSON.                                             *)
(*                                                                         *)
(* The inductive invariant says how much of a request has been checked at  *)
(* each stage, that what is stored under the key is one command of a       *)
(* request that passed all the checks, and that it has an answer exactly   *)
(* if it was sent.                                                         *)
(***************************************************************************)
EXTENDS RequestIntake, TLAPS

StrippedFields == TextFields \cup {"payment_token"}

\* A request that ValidateBody let through.
Valid(r) == \A f \in Fields : ValidField(r, f)

Answers == {NoAnswer, Problem(201, "outcome"), Problem(502, "downstream-rejected")}

\* The row of a command, and what its answer says about it.
RowOf(r, answer) == [command |-> Command(r), answer |-> answer]

StoredRow(row) ==
    \E r \in Requests, answer \in Answers :
        /\ Valid(r)
        /\ row = RowOf(r, answer)
        /\ answer.status = 502 => r.payment_token.name = "unsupported"

StageInv ==
    /\ stage \in {"idle", "received", "parsed", "identified", "accepted", "reserved"}
    /\ stage # "idle" => request \in Requests
    /\ stage \in {"identified", "accepted", "reserved"} => ValidCorrelation(request.correlation)
    /\ stage \in {"accepted", "reserved"} => Valid(request)
    /\ stage = "reserved" =>
          /\ stored = {RowOf(request, NoAnswer)} /\ calls = before.calls
          /\ Storable(Command(request))
    /\ stage \in {"received", "parsed", "identified", "accepted"} =>
          stored = before.stored /\ calls = before.calls

StoredInv ==
    /\ \A p, q \in stored : p = q
    /\ \A row \in stored : StoredRow(row)

\* BlockedWasNeverSent at every stage: only the row being reserved may still be
\* sent.
SentInv ==
    /\ stored = {} => calls = {}
    /\ \A row \in stored :
          /\ stage # "reserved" /\ row.answer = NoAnswer =>
                row.command.payment_token.surrogate /\ ~EnsureAscii
          /\ row.answer = NoAnswer <=> Payload(row.command) \notin calls

IndInv ==
    /\ StageInv /\ StoredInv /\ SentInv
    /\ AcceptedIsUnderstood /\ ErrorOnlyByGap /\ RefusedLeavesNothing /\ RetryIsRecognised

-----------------------------------------------------------------------------
(* Facts about the operators.                                              *)

\* The parts of a request.
LEMMA RequestParts ==
    ASSUME NEW r \in Requests
    PROVE  /\ r["transaction_id"] \in TextValues /\ r["merchant_id"] \in TextValues
           /\ r["payment_token"] \in TokenValues /\ r["amount"] \in AmountValues
           /\ r["currency"] \in CurrencyValues
  BY RequestsAssumption

\* The validity of the single fields.
LEMMA ValidParts ==
    ASSUME NEW r, Valid(r)
    PROVE  /\ ValidText(r["transaction_id"]) /\ ValidText(r["merchant_id"])
           /\ ValidToken(r["payment_token"]) /\ ValidAmount(r["amount"])
           /\ ValidCurrency(r["currency"])
<1>1. \A f \in Fields : ValidField(r, f)
  BY DEF Valid
<1>2. {"transaction_id", "merchant_id", "payment_token", "amount", "currency"} \subseteq Fields
  BY DEF Fields, TextFields
<1>3. /\ ValidField(r, "transaction_id") /\ ValidField(r, "merchant_id")
      /\ ValidField(r, "payment_token") /\ ValidField(r, "amount") /\ ValidField(r, "currency")
  BY <1>1, <1>2
<1> QED
  BY <1>3 DEF ValidField, TextFields

\* What the command keeps of the request.
LEMMA CommandParts ==
    ASSUME NEW r \in Requests
    PROVE  /\ \A f \in StrippedFields :
                 /\ f \in Fields
                 /\ Command(r)[f] = [r[f] EXCEPT !.padded = FALSE]
                 /\ Command(r)[f].form = r[f].form
                 /\ Command(r)[f].length = r[f].length
                 /\ Command(r)[f].nul = r[f].nul
                 /\ Command(r)[f].surrogate = r[f].surrogate
           /\ Command(r)["payment_token"].name = r["payment_token"].name
           /\ Command(r)["amount"] = r["amount"]
           /\ Command(r)["currency"] = r["currency"]
<1>1. ASSUME NEW f \in StrippedFields
      PROVE  f \in Fields /\ Command(r)[f] = [r[f] EXCEPT !.padded = FALSE]
  BY DEF Command, StrippedFields, Fields
<1>2. ASSUME NEW v \in TextValues \cup TokenValues
      PROVE  /\ [v EXCEPT !.padded = FALSE].form = v.form
             /\ [v EXCEPT !.padded = FALSE].length = v.length
             /\ [v EXCEPT !.padded = FALSE].nul = v.nul
             /\ [v EXCEPT !.padded = FALSE].surrogate = v.surrogate
  BY DEF TextValues, TokenValues
<1>3. \A f \in StrippedFields : r[f] \in TextValues \cup TokenValues
  BY RequestParts DEF StrippedFields, TextFields
<1>4. Command(r)["payment_token"].name = r["payment_token"].name
  <2>1. Command(r)["payment_token"] = [r["payment_token"] EXCEPT !.padded = FALSE]
    BY <1>1 DEF StrippedFields
  <2> QED
    BY <2>1, RequestParts DEF TokenValues
<1>5. Command(r)["amount"] = r["amount"] /\ Command(r)["currency"] = r["currency"]
  BY DEF Command, Fields, TextFields
<1> QED
  BY <1>1, <1>2, <1>3, <1>4, <1>5

\* The payload holds the parts of the command under the emulator's names.
LEMMA PayloadParts ==
    ASSUME NEW c
    PROVE  /\ DOMAIN Payload(c) = EmulatorTexts \cup {"amount", "currency"}
           /\ Payload(c)["request_id"] = c["transaction_id"]
           /\ Payload(c)["merchant_id"] = c["merchant_id"]
           /\ Payload(c)["payment_token"] = c["payment_token"]
           /\ Payload(c)["amount"] = c["amount"]
           /\ Payload(c)["currency"] = c["currency"]
  BY DEF Payload, EmulatorTexts

\* What the API's validators let through, the emulator's let through.
LEMMA CopiesAgree ==
    /\ \A v : ValidText(v) => EmulatorText(v)
    /\ \A v : ValidAmount(v) => EmulatorAmount(v)
    /\ \A v : ValidCurrency(v) => EmulatorCurrency(v)
    /\ \A h : ValidCorrelation(h) => EmulatorCorrelation(h)
  BY DEF ValidText, EmulatorText, ValidAmount, EmulatorAmount, ValidCurrency, EmulatorCurrency,
         ValidCorrelation, EmulatorCorrelation

\* The emulator accepts the payload of a valid request: what it does not
\* understand is a token without a scenario.
LEMMA EmulatorAgrees ==
    ASSUME NEW r \in Requests, Valid(r), ValidCorrelation(r.correlation)
    PROVE  LET document == EmulatorDocument(r.correlation, Payload(Command(r)))
           IN  /\ document \in {"outcome", "unsupported-token"}
               /\ document # "outcome" => r.payment_token.name = "unsupported"
<1> DEFINE c == Command(r)
           p == Payload(c)
<1>1. \A f \in StrippedFields : ValidText(r[f])
  BY ValidParts DEF StrippedFields, TextFields, ValidToken
<1>2. \A f \in StrippedFields : ValidText(c[f])
  BY <1>1, CommandParts DEF ValidText
<1>3. ValidAmount(c["amount"]) /\ ValidCurrency(c["currency"])
  BY ValidParts, CommandParts
<1>4. r["payment_token"].name \in {"supported", "unsupported"}
  BY ValidParts, RequestParts DEF ValidToken, TokenValues
<1>5. c["payment_token"].name = r["payment_token"].name
  BY CommandParts
<1> HIDE DEF c
<1>6. \A f \in EmulatorTexts : EmulatorText(p[f])
  BY <1>2, CopiesAgree, PayloadParts DEF EmulatorTexts, StrippedFields, TextFields
<1>7. EmulatorAmount(p["amount"]) /\ EmulatorCurrency(p["currency"])
  BY <1>3, CopiesAgree, PayloadParts
<1>8. /\ DOMAIN p = EmulatorTexts \cup {"amount", "currency"}
      /\ p["payment_token"].name = r["payment_token"].name
  BY <1>5, PayloadParts
<1> HIDE DEF p
<1>9. EmulatorValid(p)
  BY <1>6, <1>7, <1>8 DEF EmulatorValid
<1>10. EmulatorDocument(r.correlation, p) =
          IF p.payment_token.name = "supported" THEN "outcome" ELSE "unsupported-token"
  BY <1>9, CopiesAgree DEF EmulatorDocument
<1> QED
  BY <1>4, <1>8, <1>10 DEF p, c

\* Why a valid request cannot be stored or cannot be sent.
Gap(r) ==
    \/ r.amount.value > BigIntMax
    \/ \E f \in TextFields : r[f].nul \/ r[f].surrogate
    \/ r.currency.newline
    \/ r.payment_token.surrogate /\ ~EnsureAscii

\* Where the validators and the schema disagree.
LEMMA GapsKnown ==
    ASSUME NEW r \in Requests, Valid(r), ~Storable(Command(r))
    PROVE  Gap(r)
<1> SUFFICES ASSUME ~(r.amount.value > BigIntMax),
                    \A f \in TextFields : ~r[f].nul /\ ~r[f].surrogate,
                    ~r.currency.newline
             PROVE  FALSE
  BY DEF Gap
<1>1. \A f \in TextFields : /\ Command(r)[f].length \in 1..128
                            /\ ~Command(r)[f].nul /\ ~Command(r)[f].surrogate
  <2>1. \A f \in TextFields : f \in StrippedFields /\ ValidText(r[f])
    BY ValidParts DEF StrippedFields, TextFields
  <2> QED
    BY <2>1, CommandParts DEF ValidText
<1>2. Command(r).amount.value \in 1..BigIntMax
  <2>1. r["amount"].value \in Int /\ r["amount"].value > 0
    BY ValidParts, RequestParts DEF ValidAmount, AmountValues
  <2> QED
    BY <2>1, CommandParts, BigIntAssumption
<1>3. Command(r).currency.upper /\ Command(r).currency.length = 3 /\ ~Command(r).currency.newline
  BY ValidParts, CommandParts DEF ValidCurrency
<1> QED
  BY <1>1, <1>2, <1>3 DEF Storable

\* A command that is stored and cannot be sent has a lone surrogate in its token.
LEMMA UnsendableKnown ==
    ASSUME NEW r \in Requests, Storable(Command(r)), ~Encodable(Payload(Command(r)))
    PROVE  ~EnsureAscii /\ r.payment_token.surrogate /\ Command(r).payment_token.surrogate
<1> DEFINE c == Command(r)
<1>1. ~c["transaction_id"].surrogate /\ ~c["merchant_id"].surrogate
  BY DEF Storable, TextFields
<1>2. c["payment_token"].surrogate = r["payment_token"].surrogate
  BY CommandParts DEF StrippedFields
<1> HIDE DEF c
<1>3. ~EnsureAscii /\ \E f \in EmulatorTexts : Payload(c)[f].surrogate
  BY DEF Encodable, c
<1>4. c["payment_token"].surrogate
  BY <1>1, <1>3, PayloadParts DEF EmulatorTexts
<1> QED
  BY <1>2, <1>3, <1>4 DEF c

\* Two stripped texts, or tokens, are equal if the validators' view of them is.
LEMMA EqualTexts ==
    ASSUME NEW f \in StrippedFields, NEW q \in Requests, NEW r \in Requests,
           Valid(q), Valid(r),
           r[f].length = q[f].length, r[f].nul = q[f].nul, r[f].surrogate = q[f].surrogate,
           f = "payment_token" => r[f].name = q[f].name
    PROVE  Command(q)[f] = Command(r)[f]
<1>1. q[f].form = "text" /\ r[f].form = "text"
  BY ValidParts DEF StrippedFields, TextFields, ValidToken, ValidText
<1>2. CASE f = "payment_token"
  <2>1. q[f] \in TokenValues /\ r[f] \in TokenValues
    BY <1>2, RequestParts
  <2>2. [q[f] EXCEPT !.padded = FALSE] = [r[f] EXCEPT !.padded = FALSE]
    BY <1>1, <1>2, <2>1, ZenonT(60) DEF TokenValues
  <2> QED
    BY <2>2, CommandParts
<1>3. CASE f \in TextFields
  <2>1. q[f] \in TextValues /\ r[f] \in TextValues
    BY <1>3, RequestParts DEF TextFields
  <2>2. [q[f] EXCEPT !.padded = FALSE] = [r[f] EXCEPT !.padded = FALSE]
    BY <1>1, <2>1 DEF TextValues
  <2> QED
    BY <2>2, CommandParts
<1> QED
  BY <1>2, <1>3 DEF StrippedFields

\* The fingerprints of two valid requests agree exactly if they mean the same.
LEMMA FingerprintIsMeaning ==
    ASSUME NEW q \in Requests, NEW r \in Requests, Valid(q), Valid(r)
    PROVE  Fingerprint(Command(q)) = Fingerprint(Command(r)) <=> SameMeaning(r, Command(q))
<1>1. ASSUME Fingerprint(Command(q)) = Fingerprint(Command(r))
      PROVE  SameMeaning(r, Command(q))
  <2>1. \A f \in Fields : Command(q)[f] = Command(r)[f]
    BY <1>1 DEF Fingerprint
  <2>2. ASSUME NEW f \in StrippedFields
        PROVE  /\ r[f].length = Command(q)[f].length
               /\ r[f].nul = Command(q)[f].nul
               /\ r[f].surrogate = Command(q)[f].surrogate
               /\ f = "payment_token" => r[f].name = Command(q)[f].name
    <3>1. /\ f \in Fields /\ Command(r)[f].length = r[f].length /\ Command(r)[f].nul = r[f].nul
          /\ Command(r)[f].surrogate = r[f].surrogate
      BY CommandParts
    <3>2. Command(r)["payment_token"].name = r["payment_token"].name
      BY CommandParts
    <3>3. Command(q)[f] = Command(r)[f]
      BY <2>1, <3>1
    <3> QED
      BY <3>1, <3>2, <3>3
  <2>3. \A f \in Fields \ StrippedFields : r[f] = Command(q)[f]
    BY <2>1, CommandParts DEF Fields, StrippedFields
  <2> QED
    BY <2>2, <2>3 DEF SameMeaning, StrippedFields
<1>2. ASSUME SameMeaning(r, Command(q))
      PROVE  Fingerprint(Command(q)) = Fingerprint(Command(r))
  <2>1. ASSUME NEW f \in Fields
        PROVE  Command(q)[f] = Command(r)[f]
    <3>1. CASE f \in StrippedFields
      <4>1. /\ r[f].length = Command(q)[f].length /\ r[f].nul = Command(q)[f].nul
            /\ r[f].surrogate = Command(q)[f].surrogate
            /\ f = "payment_token" => r[f].name = Command(q)[f].name
        BY <1>2, <3>1 DEF SameMeaning, StrippedFields
      <4>2. /\ r[f].length = q[f].length /\ r[f].nul = q[f].nul
            /\ r[f].surrogate = q[f].surrogate
            /\ f = "payment_token" => r[f].name = q[f].name
        BY <3>1, <4>1, CommandParts
      <4> QED
        BY <3>1, <4>2, EqualTexts
    <3>2. CASE f \notin StrippedFields
      <4>1. f \in {"amount", "currency"}
        BY <3>2 DEF Fields, StrippedFields
      <4>2. r[f] = Command(q)[f]
        BY <1>2, <3>2 DEF SameMeaning, StrippedFields
      <4> QED
        BY <4>1, <4>2, CommandParts
    <3> QED
      BY <3>1, <3>2
  <2> QED
    BY <2>1 DEF Fingerprint
<1> QED
  BY <1>1, <1>2

-----------------------------------------------------------------------------
(* The steps.                                                              *)

\* A request that goes on has no answer yet.
LEMMA ProceedKeeps ==
    ASSUME IndInv, NEW next, next \notin {"idle", "reserved"}, stage # "reserved", Proceed(next),
           StageInv'
    PROVE  IndInv'
<1>1. /\ stage' \notin {"idle", "reserved"} /\ stored' = stored /\ calls' = calls
      /\ downstream' = downstream /\ response' = response
  BY DEF Proceed
<1>2. StoredInv' /\ AcceptedIsUnderstood'
  BY <1>1 DEF IndInv, StoredInv, StoredRow, AcceptedIsUnderstood
<1>3. SentInv'
  BY <1>1 DEF IndInv, SentInv
<1>4. ErrorOnlyByGap' /\ RefusedLeavesNothing' /\ RetryIsRecognised'
  BY <1>1 DEF ErrorOnlyByGap, RefusedLeavesNothing, RetryIsRecognised
<1> QED
  BY <1>2, <1>3, <1>4 DEF IndInv

\* What an answer must satisfy that ends a request without changing anything.
Justified(answer) ==
    /\ stage = "reserved" =>
          \A row \in stored : row.command.payment_token.surrogate /\ ~EnsureAscii
    /\ answer.status = 500 => Gap(request)
    /\ answer.status \in {400, 409, 422, 500} =>
          /\ calls = before.calls
          /\ answer.document # "internal-server-error" => stored = before.stored
    /\ answer.status \in {201, 409, 502} =>
          \A row \in stored :
              answer.document = "idempotency-conflict" <=> ~SameMeaning(request, row.command)

\* Such an answer keeps the invariant.
LEMMA RefuseKeeps ==
    ASSUME IndInv, NEW answer, Refuse(answer), Justified(answer)
    PROVE  IndInv'
<1>1. /\ stage' = "idle" /\ request' = request /\ before' = before
      /\ stored' = stored /\ calls' = calls /\ downstream' = downstream
      /\ response' = answer
  BY DEF Refuse, Respond
<1>2. StoredInv' /\ AcceptedIsUnderstood'
  BY <1>1 DEF IndInv, StoredInv, StoredRow, AcceptedIsUnderstood
<1>3. SentInv'
  BY <1>1 DEF IndInv, SentInv, Justified
<1>4. StageInv'
  BY <1>1 DEF StageInv
<1>5. ErrorOnlyByGap'
  BY <1>1 DEF ErrorOnlyByGap, Justified, Gap
<1>6. RefusedLeavesNothing'
  BY <1>1 DEF RefusedLeavesNothing, Justified
<1>7. RetryIsRecognised'
  BY <1>1 DEF RetryIsRecognised, Justified, SameMeaning
<1> QED
  BY <1>2, <1>3, <1>4, <1>5, <1>6, <1>7 DEF IndInv

\* The answers of the checks before reserve.
LEMMA RefusalJustified ==
    ASSUME IndInv, stage \in {"received", "parsed", "identified"},
           NEW answer, answer.status \in {400, 422}
    PROVE  Justified(answer)
  BY DEF IndInv, StageInv, Justified

\* Receiving, parsing and the checks of headers and body keep the invariant.
LEMMA ReceiveKeeps ==
    ASSUME IndInv, NEW r \in Requests, Receive(r)
    PROVE  IndInv'
<1>1. /\ stage = "idle"
      /\ stage' = "received" /\ request' = r /\ before' = [stored |-> stored, calls |-> calls]
      /\ stored' = stored /\ calls' = calls /\ downstream' = downstream /\ response' = response
  BY DEF Receive
<1>2. StageInv'
  BY <1>1 DEF StageInv
<1>3. StoredInv' /\ AcceptedIsUnderstood'
  BY <1>1 DEF IndInv, StoredInv, StoredRow, AcceptedIsUnderstood
<1>4. SentInv'
  BY <1>1 DEF IndInv, SentInv
<1>5. ErrorOnlyByGap' /\ RefusedLeavesNothing' /\ RetryIsRecognised'
  BY <1>1 DEF ErrorOnlyByGap, RefusedLeavesNothing, RetryIsRecognised
<1> QED
  BY <1>2, <1>3, <1>4, <1>5 DEF IndInv

\* A body that is no JSON is refused.
LEMMA ParseKeeps ==
    ASSUME IndInv, ParseJson
    PROVE  IndInv'
<1>1. CASE Refuse(Problem(400, "malformed-request"))
  <2>1. Justified(Problem(400, "malformed-request"))
    BY RefusalJustified DEF ParseJson, Problem
  <2> QED
    BY <1>1, <2>1, RefuseKeeps
<1>2. CASE Proceed("parsed")
  <2>1. StageInv' /\ stage = "received"
    BY <1>2 DEF IndInv, StageInv, Proceed, ParseJson
  <2> QED
    BY <1>2, <2>1, ProceedKeeps
<1> QED
  BY <1>1, <1>2 DEF ParseJson

\* A request without valid headers is refused.
LEMMA HeadersKeep ==
    ASSUME IndInv, CheckHeaders
    PROVE  IndInv'
<1>1. ASSUME NEW document, Refuse(Problem(400, document))
      PROVE  IndInv'
  <2>1. Justified(Problem(400, document))
    BY RefusalJustified DEF CheckHeaders, Problem
  <2> QED
    BY <1>1, <2>1, RefuseKeeps
<1>2. CASE ValidCorrelation(request.correlation) /\ Proceed("identified")
  <2>1. StageInv' /\ stage = "parsed"
    BY <1>2 DEF IndInv, StageInv, Proceed, CheckHeaders
  <2> QED
    BY <1>2, <2>1, ProceedKeeps
<1> QED
  BY <1>1, <1>2 DEF CheckHeaders

\* A body that the schema does not admit is refused.
LEMMA BodyKeeps ==
    ASSUME IndInv, ValidateBody
    PROVE  IndInv'
<1>1. CASE Refuse(Problem(422, "validation-error"))
  <2>1. Justified(Problem(422, "validation-error"))
    BY RefusalJustified DEF ValidateBody, Problem
  <2> QED
    BY <1>1, <2>1, RefuseKeeps
<1>2. CASE ValidBody(request) /\ Proceed("accepted")
  <2>1. Valid(request)
    BY <1>2 DEF ValidBody, Valid
  <2>2. StageInv' /\ stage = "identified"
    BY <1>2, <2>1 DEF IndInv, StageInv, Proceed, ValidateBody, Valid
  <2> QED
    BY <1>2, <2>2, ProceedKeeps
<1> QED
  BY <1>1, <1>2 DEF ValidateBody

\* reserve stores the command, replays, finds a conflict, or fails on a value.
LEMMA ReserveKeeps ==
    ASSUME IndInv, Reserve
    PROVE  IndInv'
<1> DEFINE c == Command(request)
<1>1. /\ stage = "accepted" /\ request \in Requests /\ Valid(request)
      /\ ValidCorrelation(request.correlation)
      /\ stored = before.stored /\ calls = before.calls
  BY DEF Reserve, IndInv, StageInv
<1>2. CASE /\ stored = {} /\ Storable(c)
           /\ stored' = {[command |-> c, answer |-> NoAnswer]}
           /\ stage' = "reserved"
           /\ UNCHANGED <<request, calls, downstream, response, before>>
  <2>1. stored' = {RowOf(request, NoAnswer)} /\ request' = request
    BY <1>2 DEF RowOf
  <2>2. StageInv'
    BY <1>1, <1>2, <2>1 DEF StageInv, RowOf, Command, Valid, Storable, ValidCorrelation
  <2>3. StoredRow(RowOf(request, NoAnswer))
    BY <1>1 DEF StoredRow, Answers, NoAnswer, Problem
  <2>4. StoredInv'
    BY <2>1, <2>3 DEF StoredInv
  <2>5. AcceptedIsUnderstood'
    BY <1>2 DEF IndInv, AcceptedIsUnderstood, NoAnswer, Problem
  <2>6. SentInv'
    BY <1>2 DEF IndInv, SentInv
  <2>7. ErrorOnlyByGap' /\ RefusedLeavesNothing' /\ RetryIsRecognised'
    BY <1>2 DEF IndInv, ErrorOnlyByGap, RefusedLeavesNothing, RetryIsRecognised
  <2> QED
    BY <2>2, <2>4, <2>5, <2>6, <2>7 DEF IndInv
<1>3. CASE /\ stored = {} /\ ~Storable(c)
           /\ Refuse(Problem(500, "internal-persistence-error"))
  <2>1. Justified(Problem(500, "internal-persistence-error"))
    BY <1>1, <1>3, GapsKnown DEF Justified, Problem
  <2> QED
    BY <1>3, <2>1, RefuseKeeps
<1>4. ASSUME NEW row \in stored
      PROVE  /\ \A other \in stored : other = row
             /\ Fingerprint(row.command) = Fingerprint(c) <=> SameMeaning(request, row.command)
             /\ row.answer \in Answers
  <2>1. PICK r \in Requests, answer \in Answers : Valid(r) /\ row = RowOf(r, answer)
    BY DEF IndInv, StoredInv, StoredRow
  <2>2. row.command = Command(r) /\ row.answer = answer
    BY <2>1 DEF RowOf
  <2> QED
    BY <1>1, <2>1, <2>2, FingerprintIsMeaning DEF IndInv, StoredInv
<1>5. ASSUME NEW row \in stored, Fingerprint(row.command) = Fingerprint(c),
             Refuse(IF row.answer = NoAnswer
                    THEN Problem(409, "idempotency-in-progress")
                    ELSE row.answer)
      PROVE  IndInv'
  <2> DEFINE answer == IF row.answer = NoAnswer
                       THEN Problem(409, "idempotency-in-progress") ELSE row.answer
  <2>1. /\ answer.status \in {201, 409, 502}
        /\ answer.document # "idempotency-conflict"
    BY <1>4 DEF Answers, NoAnswer, Problem
  <2> HIDE DEF answer
  <2>2. \A other \in stored : SameMeaning(request, other.command)
    BY <1>4, <1>5
  <2>3. Justified(answer)
    BY <1>1, <2>1, <2>2 DEF Justified
  <2>4. Refuse(answer)
    BY <1>5 DEF answer
  <2> QED
    BY <2>3, <2>4, RefuseKeeps
<1>6. ASSUME NEW row \in stored, Fingerprint(row.command) # Fingerprint(c),
             Refuse(Problem(409, "idempotency-conflict"))
      PROVE  IndInv'
  <2>1. \A other \in stored : ~SameMeaning(request, other.command)
    BY <1>4, <1>6
  <2>2. Justified(Problem(409, "idempotency-conflict"))
    BY <1>1, <2>1 DEF Justified, Problem
  <2> QED
    BY <1>6, <2>2, RefuseKeeps
<1> QED
  BY <1>2, <1>3, <1>5, <1>6 DEF Reserve

\* The network call and complete leave the command with its answer; a payload
\* that cannot be written leaves it without.
LEMMA AuthorizeKeeps ==
    ASSUME IndInv, Authorize
    PROVE  IndInv'
<1> DEFINE p == Payload(Command(request))
           document == EmulatorDocument(request.correlation, p)
           answer == NetworkAnswer(document)
<1>1. /\ stage = "reserved" /\ request \in Requests /\ Valid(request)
      /\ ValidCorrelation(request.correlation)
      /\ stored = {RowOf(request, NoAnswer)} /\ calls = before.calls
      /\ Storable(Command(request))
  BY DEF Authorize, IndInv, StageInv
<1>2. \A a : RowOf(request, a).command = Command(request) /\ RowOf(request, a).answer = a
  BY DEF RowOf
<1>3. CASE ~Encodable(p) /\ Refuse(Problem(500, "internal-server-error"))
  <2>1. /\ ~EnsureAscii /\ request.payment_token.surrogate
        /\ Command(request).payment_token.surrogate
    BY <1>1, <1>3, UnsendableKnown
  <2>2. \A row \in stored : row.command = Command(request)
    BY <1>1, <1>2
  <2>3. Gap(request)
    BY <2>1 DEF Gap
  <2>4. Justified(Problem(500, "internal-server-error"))
    BY <1>1, <2>1, <2>2, <2>3 DEF Justified, Problem
  <2> QED
    BY <1>3, <2>4, RefuseKeeps
<1>4. CASE /\ calls' = calls \cup {p} /\ downstream' = document
           /\ stored' = {[row EXCEPT !.answer = answer] : row \in stored}
           /\ Respond(answer)
  <2>1. /\ document \in {"outcome", "unsupported-token"}
        /\ document # "outcome" => request.payment_token.name = "unsupported"
    BY <1>1, EmulatorAgrees
  <2>2. /\ stage' = "idle" /\ request' = request /\ before' = before /\ response' = answer
        /\ downstream' = document
    BY <1>4 DEF Respond
  <2> HIDE DEF document
  <2>3. /\ answer \in Answers /\ answer.status \in {201, 502} /\ answer # NoAnswer
        /\ answer.document # "idempotency-conflict"
        /\ answer.status = 502 => request.payment_token.name = "unsupported"
    BY <2>1 DEF Answers, NetworkAnswer, Problem, NoAnswer
  <2> HIDE DEF answer
  <2>4. stored' = {RowOf(request, answer)}
    BY <1>1, <1>4 DEF RowOf
  <2>5. StoredRow(RowOf(request, answer))
    BY <1>1, <2>3 DEF StoredRow
  <2>6. StoredInv'
    BY <2>4, <2>5 DEF StoredInv
  <2>7. AcceptedIsUnderstood'
    <3>1. Command(request)["payment_token"].name = request["payment_token"].name
      BY <1>1, CommandParts
    <3> QED
      BY <1>2, <2>1, <2>2, <2>3, <2>4, <3>1 DEF AcceptedIsUnderstood
  <2>8. StageInv'
    BY <2>2 DEF StageInv
  <2>9. ErrorOnlyByGap' /\ RefusedLeavesNothing'
    BY <2>2, <2>3 DEF ErrorOnlyByGap, RefusedLeavesNothing
  <2>10. SentInv'
    <3>1. \A row \in stored' : row.command = Command(request) /\ row.answer = answer
      BY <1>2, <2>4
    <3>2. \A row \in stored' : Payload(row.command) \in calls'
      BY <1>4, <3>1
    <3> QED
      BY <2>3, <2>4, <3>1, <3>2 DEF SentInv, Payload
  <2>11. RetryIsRecognised'
    <3>1. SameMeaning(request, Command(request))
      BY <1>1, FingerprintIsMeaning
    <3>2. \A row \in stored' : row.command = Command(request)
      BY <1>2, <2>4
    <3>3. \A row \in stored' : SameMeaning(request', row.command)
      BY <2>2, <3>1, <3>2
    <3>4. response'.document # "idempotency-conflict"
      BY <2>2, <2>3
    <3> QED
      BY <3>3, <3>4 DEF RetryIsRecognised, SameMeaning
  <2> QED
    BY <2>6, <2>7, <2>8, <2>9, <2>10, <2>11 DEF IndInv
<1> QED
  BY <1>3, <1>4 DEF Authorize

\* Initially nothing is stored and nobody was answered.
LEMMA IndInit == Init => IndInv
<1> SUFFICES ASSUME Init PROVE IndInv
  OBVIOUS
<1>1. /\ stage = "idle" /\ stored = {} /\ calls = {} /\ downstream = "none"
      /\ response.status = 0
  BY DEF Init, NoAnswer, Problem
<1>2. StageInv /\ StoredInv /\ SentInv /\ AcceptedIsUnderstood
  BY <1>1 DEF StageInv, StoredInv, SentInv, AcceptedIsUnderstood
<1>3. ErrorOnlyByGap /\ RefusedLeavesNothing /\ RetryIsRecognised
  BY <1>1 DEF ErrorOnlyByGap, RefusedLeavesNothing, RetryIsRecognised
<1> QED
  BY <1>2, <1>3 DEF IndInv

\* Every step keeps the invariant.
LEMMA IndStep ==
    ASSUME IndInv, [Next]_vars
    PROVE  IndInv'
<1>1. CASE UNCHANGED vars
  <2>1. StageInv'
    BY <1>1 DEF vars, IndInv, StageInv, ValidCorrelation, Valid, ValidField, RowOf, Command,
                Storable
  <2>2. StoredInv' /\ AcceptedIsUnderstood' /\ SentInv'
    BY <1>1 DEF vars, IndInv, StoredInv, AcceptedIsUnderstood, SentInv, Payload
  <2>3. ErrorOnlyByGap' /\ RefusedLeavesNothing'
    BY <1>1 DEF vars, IndInv, ErrorOnlyByGap, RefusedLeavesNothing
  <2>4. RetryIsRecognised'
    BY <1>1 DEF vars, IndInv, RetryIsRecognised, SameMeaning
  <2> QED
    BY <2>1, <2>2, <2>3, <2>4 DEF IndInv
<1> QED
  BY <1>1, ReceiveKeeps, ParseKeeps, HeadersKeep, BodyKeeps, ReserveKeeps, AuthorizeKeeps DEF Next

-----------------------------------------------------------------------------
\* What the API accepts the emulator accepts, for requests of any content: the
\* payload passes the emulator's own copies of the validators and of the header
\* check, and a 502 means a token without a scenario.
THEOREM AcceptedAlwaysUnderstood == Spec => []AcceptedIsUnderstood
  BY IndInit, IndStep, PTL DEF Spec, IndInv

\* A 500 has one of the known causes: the validators, the constraints of the
\* schema and the encoders agree on every other request.
THEOREM ErrorsOnlyByGap == Spec => []ErrorOnlyByGap
  BY IndInit, IndStep, PTL DEF Spec, IndInv

\* A request that ends in an error of the API reaches no network and, but for
\* the exception that nobody handles, leaves no row.
THEOREM RefusalLeavesNothing == Spec => []RefusedLeavesNothing
  BY IndInit, IndStep, PTL DEF Spec, IndInv

\* A key that stays in progress belongs to a request that was never sent.
THEOREM BlockedNeverSent == Spec => []BlockedWasNeverSent
<1>1. IndInv => BlockedWasNeverSent
  BY DEF IndInv, SentInv, BlockedWasNeverSent
<1> QED
  BY <1>1, IndInit, IndStep, PTL DEF Spec

\* A retry is recognised by its meaning, whatever white space it adds or drops.
THEOREM RetriesAreRecognised == Spec => []RetryIsRecognised
  BY IndInit, IndStep, PTL DEF Spec, IndInv
=============================================================================
