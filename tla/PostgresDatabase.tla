-------------------------- MODULE PostgresDatabase --------------------------
(***************************************************************************)
(* packages/postgresql/src/database.ts: transactions and plain queries    *)
(* over the connection pool, and disconnect() with its timer.             *)
(*                                                                         *)
(* The pool (node-postgres) and the server are external: a pool slot is a  *)
(* connection with an owner, the server's transaction state and the        *)
(* callers whose writes that transaction holds.  A step is the code        *)
(* between two awaits.  A callback may swallow the error of a statement,   *)
(* may return while statements of it are under way, and may leave one      *)
(* behind that starts after it has returned.  A client sends its           *)
(* statements in order, and the server answers them in order.              *)
(***************************************************************************)
EXTENDS Naturals, FiniteSets, Sequences

CONSTANTS Tx,        \* calls of withTransaction
          Query,     \* calls of executeQuery outside a transaction
          Slot,      \* connections the pool may open (PoolConfig.max)
          MaxSent,   \* bound on the statements of a transaction that are under way at once
          Nobody

Caller == Tx \cup Query

\* Nobody stands for no caller and for no connection.
ASSUME DatabaseAssumption == Nobody \notin Caller \cup Slot

VARIABLES pc,            \* where each call is, between two awaits
          result,        \* how each call ended for its caller
          context,       \* transactionContext: the client of an active transaction, or Nobody's
          owner,         \* who holds each pool slot
          alive,         \* FALSE: the connection of the slot was closed under its owner
          server,        \* the server's transaction state on each slot
          pipeline,      \* who sent the statements each slot has under way, in their order
          writes,        \* callers whose statements the open transaction of the slot holds
          committed,     \* calls whose writes are durable
          doubtful,      \* calls whose COMMIT was in flight when the connection closed
          poisoned,      \* transactions that a failed statement has aborted
          isShuttingDown, ending, timer, disconnects

callVars == <<pc, result, context>>
poolVars == <<owner, alive>>
serverVars == <<server, pipeline, writes, committed, doubtful, poisoned>>
closeVars == <<isShuttingDown, ending, timer, disconnects>>
dbVars == <<callVars, poolVars, serverVars, closeVars>>

NoClient == [slot |-> Nobody, active |-> FALSE]

DbInit ==
    /\ pc = [t \in Caller |-> "idle"]
    /\ result = [t \in Caller |-> "none"]
    /\ context = [t \in Caller |-> NoClient]
    /\ owner = [c \in Slot |-> Nobody]
    /\ alive = [c \in Slot |-> TRUE]
    /\ server = [c \in Slot |-> "none"]
    /\ pipeline = [c \in Slot |-> <<>>] /\ writes = [c \in Slot |-> {}]
    /\ committed = {} /\ doubtful = {} /\ poisoned = {}
    /\ isShuttingDown = FALSE /\ ending = FALSE /\ timer = "off" /\ disconnects = 0

Held(t) == {c \in Slot : owner[c] = t}
SlotOf(t) == CHOOSE c \in Slot : owner[c] = t
At(t, p) == pc[t] = p /\ Held(t) # {}
Goto(t, p) == pc' = [pc EXCEPT ![t] = p]

\* client.release(): the slot is free again, with a new connection if this one was destroyed.
Settle(t, r) ==
    /\ pc' = [pc EXCEPT ![t] = "done"]
    /\ result' = [result EXCEPT ![t] = r]
    /\ owner' = [c \in Slot |-> IF owner[c] = t THEN Nobody ELSE owner[c]]
    /\ alive' = [c \in Slot |-> IF owner[c] = t THEN TRUE ELSE alive[c]]

\* What the server does to the open transaction of a slot when it ends it without keeping it.
Discard(c) ==
    /\ server' = [server EXCEPT ![c] = "none"]
    /\ writes' = [writes EXCEPT ![c] = {}]

-----------------------------------------------------------------------------
(* Acquiring a client.                                                     *)

Call(t) ==
    /\ pc[t] = "idle"
    /\ IF isShuttingDown
       THEN Goto(t, "done") /\ result' = [result EXCEPT ![t] = "error"]
       ELSE Goto(t, "connecting") /\ UNCHANGED result
    /\ UNCHANGED <<context, poolVars, serverVars, closeVars>>

\* The pool gives a connection to a call in its line, and opens it first if it is a new one.  It
\* serves nobody that still waits once end() has begun.
Connect(t) ==
    /\ pc[t] = "connecting" /\ ~ending
    /\ \E c \in Slot :
        /\ owner[c] = Nobody
        /\ owner' = [owner EXCEPT ![c] = t]
    /\ Goto(t, "opening")
    /\ UNCHANGED <<result, context, alive, serverVars, closeVars>>

\* The call gets a connection that was being opened also after end() has begun.
Connected(t) ==
    /\ At(t, "opening")
    /\ Goto(t, IF t \in Tx THEN "begin" ELSE "query")
    /\ UNCHANGED <<result, context, poolVars, serverVars, closeVars>>

OpeningFails(t) ==
    /\ At(t, "opening")
    /\ Settle(t, "error")
    /\ UNCHANGED <<context, serverVars, closeVars>>

\* connectionTimeoutMillis of a call in the line.
ConnectFails(t) ==
    /\ pc[t] = "connecting"
    /\ Goto(t, "done")
    /\ result' = [result EXCEPT ![t] = "error"]
    /\ UNCHANGED <<context, poolVars, serverVars, closeVars>>

\* executeQuery without a transaction context: one statement, committed by itself.
RunQuery(t) ==
    /\ At(t, "query")
    /\ \/ alive[SlotOf(t)] /\ committed' = committed \cup {t} /\ Settle(t, "ok")
       \/ UNCHANGED committed /\ Settle(t, "error")
    /\ UNCHANGED <<context, server, pipeline, writes, doubtful, poisoned, closeVars>>

-----------------------------------------------------------------------------
(* withTransaction.                                                        *)

Begin(t) ==
    /\ At(t, "begin") /\ alive[SlotOf(t)]
    /\ server' = [server EXCEPT ![SlotOf(t)] = "open"]
    /\ context' = [context EXCEPT ![t] = [slot |-> SlotOf(t), active |-> TRUE]]
    /\ Goto(t, "body")
    /\ UNCHANGED <<result, poolVars, pipeline, writes, committed, doubtful, poisoned, closeVars>>

\* begun is FALSE: no ROLLBACK, the client is destroyed.
BeginFails(t) ==
    /\ At(t, "begin")
    /\ Settle(t, "error")
    /\ UNCHANGED <<context, serverVars, closeVars>>

\* The code of the callback can run while it is awaited, and after it, if it left something behind.
CallbackRuns(t) == t \in Tx /\ pc[t] \in {"body", "commit", "rollback", "done"}

ClientOf(t) == IF context[t].active THEN context[t].slot ELSE Nobody

\* A statement on the handle of the transaction is sent, and the callback may await it or not.
Statement(t) ==
    /\ CallbackRuns(t) /\ ~isShuttingDown
    /\ LET c == ClientOf(t) IN
        /\ c # Nobody
        /\ alive[c] /\ Len(pipeline[c]) < MaxSent
        /\ pipeline' = [pipeline EXCEPT ![c] = Append(@, t)]
    /\ UNCHANGED <<callVars, poolVars, server, writes, committed, doubtful, poisoned, closeVars>>

\* The server carries it out.
StatementRuns(c) ==
    /\ alive[c] /\ pipeline[c] # <<>> /\ server[c] = "open"
    /\ pipeline' = [pipeline EXCEPT ![c] = Tail(@)]
    /\ writes' = [writes EXCEPT ![c] = @ \cup {Head(pipeline[c])}]
    /\ UNCHANGED <<callVars, poolVars, server, committed, doubtful, poisoned, closeVars>>

\* Or refuses it, and aborts the transaction, or refuses it because it has been aborted.  The
\* callback may go on, and COMMIT may be on its way.
StatementFails(c) ==
    /\ alive[c] /\ pipeline[c] # <<>> /\ server[c] # "none"
    /\ pipeline' = [pipeline EXCEPT ![c] = Tail(@)]
    /\ server' = [server EXCEPT ![c] = "failed"]
    /\ poisoned' = poisoned \cup {Head(pipeline[c])}
    /\ UNCHANGED <<callVars, poolVars, writes, committed, doubtful, closeVars>>

\* What COMMIT and ROLLBACK are answered after.
Answered(c) == pipeline[c] = <<>>

EndContext(t) == context' = [context EXCEPT ![t] = NoClient]

CallbackReturns(t) ==
    /\ At(t, "body")
    /\ EndContext(t)
    /\ Goto(t, "commit")
    /\ UNCHANGED <<result, poolVars, serverVars, closeVars>>

\* The callback throws: its own error, a refused nested transaction, or a statement that was
\* refused because the database shuts down.
CallbackThrows(t) ==
    /\ At(t, "body")
    /\ EndContext(t)
    /\ Goto(t, "rollback")
    /\ UNCHANGED <<result, poolVars, serverVars, closeVars>>

\* COMMIT of an aborted transaction is answered without an error and rolls back.
CommitReply(t) ==
    /\ At(t, "commit") /\ alive[SlotOf(t)] /\ Answered(SlotOf(t))
    /\ committed' = IF server[SlotOf(t)] = "open" THEN committed \cup {t} ELSE committed
    /\ Discard(SlotOf(t))
    /\ Settle(t, "ok")
    /\ UNCHANGED <<context, pipeline, doubtful, poisoned, closeVars>>

\* Mutant of CommitFails: the failed COMMIT is swallowed.
CommitFailsSwallowed(t) ==
    /\ At(t, "commit") /\ Answered(SlotOf(t))
    /\ Discard(SlotOf(t))
    /\ Settle(t, "ok")
    /\ UNCHANGED <<context, pipeline, committed, doubtful, poisoned, closeVars>>

\* A deferred constraint, or a connection that is closed.
CommitFails(t) ==
    /\ At(t, "commit") /\ Answered(SlotOf(t))
    /\ IF alive[SlotOf(t)] THEN Discard(SlotOf(t)) ELSE UNCHANGED <<server, writes>>
    /\ Goto(t, "rollback")
    /\ UNCHANGED <<result, context, poolVars, pipeline, committed, doubtful, poisoned, closeVars>>

\* Mutant of Rollback: the client is not released.
RollbackKeepsClient(t) ==
    /\ At(t, "rollback") /\ Answered(SlotOf(t))
    /\ Discard(SlotOf(t))
    /\ Goto(t, "done") /\ result' = [result EXCEPT ![t] = "error"]
    /\ UNCHANGED <<context, poolVars, pipeline, committed, doubtful, poisoned, closeVars>>

\* ROLLBACK succeeds, or fails on a closed connection and the client is destroyed.
Rollback(t) ==
    /\ At(t, "rollback") /\ Answered(SlotOf(t))
    /\ Discard(SlotOf(t))
    /\ Settle(t, "error")
    /\ UNCHANGED <<context, pipeline, committed, doubtful, poisoned, closeVars>>

-----------------------------------------------------------------------------
(* Closed connections and disconnect().                                    *)

\* The connections in S are closed: the server rolls their transactions back, but it may have
\* carried out a COMMIT that was on its way.
Close(S) ==
    LET inFlight == {owner[c] : c \in {d \in S : owner[d] # Nobody /\ pc[owner[d]] = "commit"
                                                  /\ server[d] = "open"}}
    IN /\ alive' = [c \in Slot |-> alive[c] /\ c \notin S]
       /\ server' = [c \in Slot |-> IF c \in S THEN "none" ELSE server[c]]
       /\ pipeline' = [c \in Slot |-> IF c \in S THEN <<>> ELSE pipeline[c]]
       /\ writes' = [c \in Slot |-> IF c \in S THEN {} ELSE writes[c]]
       /\ \E K \in SUBSET inFlight : committed' = committed \cup K
       /\ doubtful' = doubtful \cup inFlight

\* The connections that calls hold; the pool has not yet given away one that it opens.
InUse == {c \in Slot : owner[c] # Nobody /\ pc[owner[c]] # "opening" /\ alive[c]}

ConnectionLost(c) ==
    /\ c \in InUse
    /\ Close({c})
    /\ UNCHANGED <<callVars, owner, poisoned, closeVars>>

\* A second call makes the pool throw: it changes the flag only, and its timer is modelled by
\* the first one's.
Disconnect ==
    /\ disconnects < 2
    /\ isShuttingDown' = TRUE /\ ending' = TRUE
    /\ disconnects' = disconnects + 1
    /\ timer' = IF disconnects = 0 THEN "armed" ELSE timer
    /\ UNCHANGED <<callVars, poolVars, serverVars>>

PoolEnds ==
    /\ ending /\ timer = "armed"
    /\ \A c \in Slot : owner[c] = Nobody
    /\ timer' = "cleared"
    /\ UNCHANGED <<callVars, poolVars, serverVars, isShuttingDown, ending, disconnects>>

\* forceDisconnect: release(true) on every client that was given away, the ones inside a
\* transaction included.
TimerFires ==
    /\ timer = "armed"
    /\ timer' = "fired"
    /\ Close(InUse)
    /\ UNCHANGED <<callVars, owner, poisoned, isShuttingDown, ending, disconnects>>

CallerStep(t) ==
    \/ Call(t) \/ Connect(t) \/ ConnectFails(t) \/ Connected(t) \/ OpeningFails(t) \/ RunQuery(t)
    \/ Begin(t) \/ BeginFails(t) \/ Statement(t)
    \/ CallbackReturns(t) \/ CallbackThrows(t)
    \/ CommitReply(t) \/ CommitFails(t) \/ Rollback(t)

DbNext ==
    \/ \E t \in Caller : CallerStep(t)
    \/ \E c \in Slot : StatementRuns(c) \/ StatementFails(c) \/ ConnectionLost(c)
    \/ Disconnect \/ PoolEnds \/ TimerFires

\* The awaits of a call that holds a client end: the driver answers or fails, the callback returns
\* or throws, the event loop runs the timer; the server answers the statements it is sent.  Nothing
\* is assumed of the pool's waiting line.
Progress(t) == \/ Connected(t) \/ OpeningFails(t) \/ RunQuery(t) \/ Begin(t) \/ BeginFails(t)
               \/ CallbackReturns(t) \/ CallbackThrows(t)
               \/ CommitReply(t) \/ CommitFails(t) \/ Rollback(t)
DbFairness == /\ \A t \in Caller : WF_dbVars(Progress(t))
              /\ \A c \in Slot : WF_dbVars(StatementRuns(c) \/ StatementFails(c))
              /\ WF_dbVars(PoolEnds) /\ WF_dbVars(TimerFires)

-----------------------------------------------------------------------------

DbTypeOK ==
    /\ pc \in [Caller -> {"idle", "connecting", "opening", "query", "begin", "body", "commit",
                        "rollback", "done"}]
    /\ result \in [Caller -> {"none", "ok", "error"}]
    /\ owner \in [Slot -> Caller \cup {Nobody}]
    /\ server \in [Slot -> {"none", "open", "failed"}]
    /\ \A c \in Slot : Len(pipeline[c]) <= MaxSent

\* What the caller of withTransaction is told is what happened to its writes: an error means that
\* nothing was kept, unless the connection closed while COMMIT was under way, and success means
\* that everything was, unless the callback had swallowed the error of a statement or had left one
\* under way that failed before COMMIT.
TransactionIsTruthful ==
    \A t \in Tx :
        /\ result[t] = "ok" => t \in committed \/ t \in poisoned
        /\ result[t] = "error" => t \notin committed \/ t \in doubtful

\* A transaction's client serves that transaction alone, and a slot nobody owns holds no open
\* transaction and no statement: one left behind by a callback, under way or yet to start, never
\* joins somebody else's.
ClientIsExclusive ==
    \A c \in Slot : /\ writes[c] \subseteq {owner[c]}
                    /\ owner[c] = Nobody => server[c] = "none" /\ pipeline[c] = <<>>

\* Both, for transactions that fail, lose their connection or are closed by disconnect() while
\* others use the pool.
TransactionsAreSound == TransactionIsTruthful /\ ClientIsExclusive

\* packages/dbcore/src/database.ts: "If the function completes successfully, the transaction is
\* committed."  A callback that swallows a statement's error completes, and COMMIT rolls back.
SuccessMeansCommitted == \A t \in Tx : result[t] = "ok" => t \in committed

\* disconnect() ends although transactions still run, and then every client is given back: the
\* calls that held one settle, whether or not the timer closed the connection under them.
DisconnectSettles ==
    disconnects > 0 ~> timer \in {"cleared", "fired"} /\ \A c \in Slot : owner[c] = Nobody
=============================================================================
