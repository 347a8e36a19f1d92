---------------------------- MODULE ConnectionPool ----------------------------
(***************************************************************************)
(* The engine's connection pool between the handlers and the coordinator's *)
(* statements.  A session takes a connection at its first statement and    *)
(* returns it when it is closed; a handler has no session during its       *)
(* network call.  pool_size + max_overflow connections exist; a caller     *)
(* that finds none waits, and after pool_timeout gets SQLAlchemy's         *)
(* TimeoutError, which the coordinator turns into PersistenceError.        *)
(*                                                                         *)
(* The callers follow the orchestrator: complete is called once, for a     *)
(* reservation that was acquired, whenever the network answers, if ever.   *)
(***************************************************************************)
EXTENDS Coordinator, FiniteSets

CONSTANTS PoolLimit,       \* pool_size + max_overflow
          CompleteCalls    \* the arguments with which complete may be called

\* With pool_size = 0 the engine uses NullPool, which has no limit.
ASSUME PoolAssumption == PoolLimit \in Nat \ {0}

\* At any time finitely many handlers run; they call complete as the port allows.
ASSUME CallersAssumption ==
    /\ IsFiniteSet(Slots)
    /\ CompleteCalls \subseteq {a \in CompleteArg : ValidEntity(a.entity)}

VARIABLES idle,        \* connections in the pool, or not yet opened
          connected    \* whether the slot's open session has its connection

poolVars == <<idle, connected>>
vars == <<txns, records, at, arg, ret, faults, idle, connected>>

-----------------------------------------------------------------------------
\* The reservation was acquired and the network has not answered.
InNetworkCall(s) ==
    at[s] = "free" /\ arg[s].op = "reserve" /\ ret[s].status = "ACQUIRED"

Reserve(s) ==
    /\ ~InNetworkCall(s)
    /\ \E k \in Keys, c \in Command : CallReserve(s, k, c)
    /\ UNCHANGED poolVars

Complete(s) ==
    /\ InNetworkCall(s)
    /\ \E a \in CompleteCalls :
          /\ a.key = arg[s].key /\ a.transaction_id = TxnOf(arg[s])
          /\ CallComplete(s, a)
    /\ UNCHANGED poolVars

\* AsyncSession connects when it executes its first statement.
Checkout(s) ==
    /\ at[s] \in {"select", "requery", "updateTxn"} /\ ~connected[s]
    /\ idle > 0
    /\ idle' = idle - 1
    /\ connected' = [connected EXCEPT ![s] = TRUE]
    /\ UNCHANGED coordVars

\* "async with self._session_factory()" closes the session on every way out:
\* at the end of the call, and before the re-query, which has its own session.
\* Mutants: one session spans reserve, network call and complete; a failed call
\* keeps its connection.
SessionSpansNetworkCall(s) ==
    \/ at'[s] = "free" /\ ret'[s].status # "ACQUIRED"
    \/ at[s] # "requery" /\ at'[s] = "requery"

SessionLeaksOnError(s) ==
    \/ at'[s] = "free" /\ ret'[s].status # "PersistenceError"
    \/ at[s] # "requery" /\ at'[s] = "requery"

SessionCloses(s) ==
    \/ at'[s] = "free"
    \/ at[s] # "requery" /\ at'[s] = "requery"

\* Mutant: the re-query runs inside the first session and needs a second
\* connection.
ReleaseAfterRequery(s) ==
    /\ connected' = [connected EXCEPT ![s] = connected[s] /\ ~SessionCloses(s)]
    /\ idle' = CASE at'[s] = "requery" -> idle
                 [] at'[s] = "free" /\ at[s] \in {"requery", "requeryTxn"} ->
                       idle + (IF connected[s] THEN 2 ELSE 1)
                 [] OTHER -> IF SessionCloses(s) /\ connected[s] THEN idle + 1 ELSE idle

Release(s) ==
    /\ connected' = [connected EXCEPT ![s] = connected[s] /\ ~SessionCloses(s)]
    /\ idle' = IF SessionCloses(s) /\ connected[s] THEN idle + 1 ELSE idle

Sql(s) ==
    /\ connected[s]
    /\ Statement(s)
    /\ Release(s)

\* A statement or a COMMIT fails, or the wait for a connection times out.
Fails(s) ==
    /\ DatabaseFault(s)
    /\ Release(s)

\* The handler's task is cancelled; the session's context manager still runs.
\* Mutant: closing the session commits what it has written.
CancelledCommits(s) ==
    /\ at[s] = "insertRecord"
    /\ Fault
    /\ txns' = [txns EXCEPT ![TxnOf(arg[s])] = ReservedTxnRow(arg[s].command)]
    /\ at' = [at EXCEPT ![s] = "free"]
    /\ arg' = [arg EXCEPT ![s] = NoArg]
    /\ ret' = [ret EXCEPT ![s] = Return("none")]
    /\ UNCHANGED records
    /\ Release(s)

Cancelled(s) ==
    /\ Fault
    /\ Abandon(s)
    /\ Release(s)

-----------------------------------------------------------------------------
Init ==
    /\ CoordInit
    /\ idle = PoolLimit
    /\ connected = [s \in Slots |-> FALSE]

Next ==
    \E s \in Slots :
        \/ Reserve(s) \/ Complete(s)
        \/ Checkout(s) \/ Sql(s)
        \/ Fails(s) \/ Cancelled(s)

Spec == Init /\ [][Next]_vars

\* PostgreSQL answers a statement that need not wait for a row, and a waiter is
\* not passed over for ever: asyncio.Queue wakes its getters in order.  Nothing
\* makes the network answer, and no timeout is needed.
FairSpec ==
    Spec /\ \A s \in Slots : WF_vars(Sql(s)) /\ SF_vars(Checkout(s))

-----------------------------------------------------------------------------
\* No connection is lost or counted twice, on any way out of reserve and
\* complete, and none is held during the network call: "without holding an
\* open database transaction" (README, execution flow).
ConnectionsBalance ==
    /\ idle + Cardinality({s \in Slots : connected[s]}) = PoolLimit
    /\ \A s \in Slots : connected[s] => at[s] # "free"

\* When the pool is exhausted, somebody who holds a connection can go on without
\* another one: callers that wait for rows or for the re-query's connection
\* never wait in a circle with callers that wait for the pool.
SomeoneProceeds ==
    idle = 0 => \E s \in Slots : connected[s] /\ ENABLED Statement(s)

\* Every call of reserve and complete ends, however small the pool and however
\* long other handlers wait for the network.
EveryCallEnds == \A s \in Slots : at[s] # "free" ~> at[s] = "free"

\* The pool only delays statements: with it the coordinator does nothing that
\* it could not do without.
Clients == INSTANCE CoordinatorClients

PoolOnlyDelays == Clients!Spec
=============================================================================
