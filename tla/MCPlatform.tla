------------------------------ MODULE MCPlatform ------------------------------
(* Platform on small sets.                                                 *)
EXTENDS Platform, TLC

MCGatewayFailures == {Response(408, "problem"), Response(503, "problem"),
                      Response(302, "unparseable"), Response(200, "incomplete")}

MCGatewayRejections ==
    {[Response(429, "problem") EXCEPT !.retry_after = h] :
        h \in {RetryAfter(0), RetryAfter(-5), RetryAfter(3600),
               [form |-> "text", value |-> 0]}}
    \cup {Response(400, "problem")}

OneGatewayFailure == {Response(503, "problem")}

Symmetry == Permutations(Keys) \cup Permutations(Txns) \cup Permutations(Slots)
=============================================================================
