--------------------------- MODULE MCConnectionPool ---------------------------
(* ConnectionPool on small sets: more callers than connections.            *)
EXTENDS ConnectionPool, PaymentNetwork, TLC

MCCompleteCalls == {CompletionOf(k, t, Outcome("Authorized")) : k \in Keys, t \in Txns}

Symmetry == Permutations(Keys) \cup Permutations(Txns) \cup Permutations(Slots)
=============================================================================
