--------------------------- MODULE MCRequestIntake ---------------------------
(* RequestIntake on requests that differ from an ordinary one in at most   *)
(* two places, at the boundaries of the validators.                        *)
EXTENDS RequestIntake

Header(n) == [present |-> TRUE, length |-> n, clean |-> TRUE]
Text(n) == [form |-> "text", length |-> n, padded |-> FALSE, nul |-> FALSE, surrogate |-> FALSE]
Token(name, n) ==
    [form |-> "text", length |-> n, padded |-> FALSE, nul |-> FALSE, surrogate |-> FALSE,
     name |-> name]
Amount(n) == [form |-> "integer", value |-> n]
Currency == [form |-> "text", upper |-> TRUE, length |-> 3, newline |-> FALSE]

Ordinary ==
    [json |-> "object", correlation |-> Header(36), key |-> Header(36),
     transaction_id |-> Text(8), merchant_id |-> Text(8),
     payment_token |-> Token("supported", 17), amount |-> Amount(1),
     currency |-> Currency, extra |-> FALSE]

BadHeaders == {[Header(36) EXCEPT !.present = FALSE], [Header(36) EXCEPT !.clean = FALSE],
               Header(0), Header(129)}

Alternatives ==
    [json |-> {"malformed", "array"},
     correlation |-> BadHeaders \cup {Header(1), Header(128)},
     key |-> BadHeaders \cup {Header(128)},
     transaction_id |->
        {[Text(8) EXCEPT !.form = "missing"], Text(0), Text(128), Text(129),
         [Text(8) EXCEPT !.padded = TRUE], [Text(128) EXCEPT !.padded = TRUE],
         [Text(8) EXCEPT !.nul = TRUE], [Text(8) EXCEPT !.surrogate = TRUE]},
     merchant_id |-> {Text(128), Text(129), [Text(8) EXCEPT !.padded = TRUE],
                      [Text(8) EXCEPT !.surrogate = TRUE]},
     payment_token |->
        {Token("unsupported", 128), Token("unsupported", 129), Token("foreign", 8),
         [Token("supported", 17) EXCEPT !.padded = TRUE],
         [Token("unsupported", 20) EXCEPT !.nul = TRUE],
         [Token("unsupported", 20) EXCEPT !.surrogate = TRUE]},
     amount |-> {[form |-> "boolean", value |-> 1], Amount(0), Amount(BigIntMax),
                 Amount(BigIntMax + 1)},
     currency |-> {[Currency EXCEPT !.newline = TRUE], [Currency EXCEPT !.upper = FALSE],
                   [Currency EXCEPT !.length = 4]},
     extra |-> {TRUE}]

MCRequests ==
    UNION {{[Ordinary EXCEPT ![f] = v, ![g] = w] : v \in Alternatives[f], w \in Alternatives[g]} :
              f, g \in DOMAIN Ordinary}
    \cup {Ordinary}
=============================================================================
