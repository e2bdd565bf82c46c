------------------------ MODULE BlockchainSynchronizer ------------------------
(***************************************************************************)
(* The wallet side of synchronisation: BlockchainSynchronizer and           *)
(* SynchronizationState (lib/Transfers).  One working thread follows a node *)
(* on behalf of several consumers, each with its own list of known blocks;  *)
(* the node's callbacks, the thread that starts and stops the synchronizer  *)
(* and threads that add tasks or ask for a consumer's state run beside it.  *)
(*                                                                         *)
(* A critical section is one step, unless it waits for a second mutex: the  *)
(* holders of m_stateMutex and m_consumersMutex are explicit.  The node     *)
(* (INode) and the consumers are external; either may fail.                 *)
(***************************************************************************)
EXTENDS Integers, Sequences, FiniteSets, TLC

CONSTANTS
    Block, Genesis,
    NoBlock,          \* lastBlockId before it is first assigned
    Path,             \* Path[b]: the chain from Genesis to b
    Work,             \* the node only moves to a chain with more work
    Consumer,         \* m_consumers is ordered by address: 1, 2, ...
    PoolTx,           \* transactions the node's pool may hold
    Dense,            \* blocks getShortHistory lists one by one (10)
    Batch,            \* blocks in an answer of queryBlocks
    MaxDisturbances,  \* bound on failures, calls of stop and removeConsumer, tasks and
                      \* changes of the node's pool together
    AskWhileRunning   \* whether getConsumerState is called between start and stop

ASSUME SynchronizerAssumption ==
    /\ Genesis \in Block /\ NoBlock \notin Block
    /\ Path \in [Block -> Seq(Block)]
    /\ \A b \in Block : /\ Path[b] # <<>> /\ Path[b][1] = Genesis /\ Path[b][Len(Path[b])] = b
                        /\ \A i \in 1..Len(Path[b]) : Path[Path[b][i]] = SubSeq(Path[b], 1, i)
    /\ Work \in [Block -> Nat]
    /\ IsFiniteSet(Consumer) /\ Consumer = 1..Cardinality(Consumer)
    /\ Dense \in Nat /\ Batch \in Nat \ {0}
    /\ MaxDisturbances \in Nat
    /\ AskWhileRunning \in BOOLEAN

VARIABLES
    m_currentState, m_futureState,
    m_consumers,      \* consumer -> m_blockchain of its SynchronizationState
    known,            \* consumer -> its getKnownPoolTxIds()
    lastBlockId,
    tasks,            \* m_addTransactionTasks and m_removeTransactionTasks: number waiting
    m_stateMutex, m_consumersMutex,    \* their holders
    worker,           \* where the working thread is
    job,              \* what it holds there: a request, a response, the consumer it is at
    control,          \* the thread that calls start and stop
    asker,            \* a thread in getConsumerState
    node,             \* [tail, pool, behind]: the node's chain and pool
    observing,        \* the synchronizer is an observer of the node
    events,           \* notifications of the node that are on their way
    owed,             \* start or an announcement of blocks was taken, and nothing failed since
    budget,           \* of MaxDisturbances, what is left
    fault             \* an assert of SynchronizationState does not hold

stateVars == <<m_currentState, m_futureState>>
nodeVars == <<node, events>>
clientVars == <<control, asker>>
vars == <<stateVars, m_consumers, known, lastBlockId, tasks, m_stateMutex, m_consumersMutex,
          worker, job, clientVars, nodeVars, observing, owed, budget, fault>>

-----------------------------------------------------------------------------
(* enum class State: the order is the priority. *)

Rank(s) == CASE s = "idle" -> 0 [] s = "poolSync" -> 1 [] s = "blockchainSync" -> 2
             [] s = "deleteOldTxs" -> 3 [] s = "stopped" -> 4

State == {"idle", "poolSync", "blockchainSync", "deleteOldTxs", "stopped"}

\* setFutureState: a request only replaces one of lower priority.
Raised(s) == IF Rank(s) > Rank(m_futureState) THEN s ELSE m_futureState

\* Mutant: a failure withdraws the request to stop.
Idled_Always == "idle"

\* setFutureStateIf(idle, not stopped): what every failure does.
Idled == IF m_futureState = "stopped" THEN "stopped" ELSE "idle"

FreeState == m_stateMutex = "free"

FreeConsumers == m_consumersMutex = "free"

Disturb == budget > 0 /\ budget' = budget - 1

-----------------------------------------------------------------------------
(* SynchronizationState. *)

LastOf(s) == s[Len(s)]

MinOf(a, b) == IF a <= b THEN a ELSE b

\* The distances from the end that getShortHistory lists: Dense + 1 of them one by one,
\* then twice as far each time.
BackOffsets == 1..(Dense + 1) \cup {Dense - 1 + 2 ^ k : k \in 2..20}

getShortHistory(chain, localHeight) ==
    LET sz == MinOf(Len(chain), localHeight + 1)
    IN  {chain[1]} \cup {chain[sz - o + 1] : o \in {p \in BackOffsets : p < sz}}

\* The heights at which chain and the interval differ.
Mismatches(chain, interval) ==
    {i \in (interval.start + 1)..MinOf(Len(chain), interval.start + Len(interval.blocks)) :
        chain[i] # interval.blocks[i - interval.start]}

FirstOf(S) == CHOOSE i \in S : \A j \in S : i <= j

\* Mutant: one block too many is kept.
Kept_OneMore(chain, interval) ==
    LET M == Mismatches(chain, interval)
    IN  IF M = {} THEN chain ELSE SubSeq(chain, 1, FirstOf(M))

\* checkInterval and detach: what is left of chain when the interval is attached to it.
Kept(chain, interval) ==
    LET M == Mismatches(chain, interval)
    IN  IF M = {} THEN chain ELSE SubSeq(chain, 1, FirstOf(M) - 1)

hasNewBlocks(chain, interval) ==
    \/ Mismatches(chain, interval) # {}
    \/ interval.start + Len(interval.blocks) > Len(chain)

\* addBlocks after checkInterval
Extended(chain, interval) ==
    IF hasNewBlocks(chain, interval)
    THEN LET kept == Kept(chain, interval)
         IN  kept \o SubSeq(interval.blocks, Len(kept) - interval.start + 1, Len(interval.blocks))
    ELSE chain

\* The assert of checkInterval, and with it those of detach and addBlocks.
Fits(chain, interval) == interval.start <= Len(chain)

-----------------------------------------------------------------------------
(* Threads that use the synchronizer. *)

Present == DOMAIN m_consumers

NoJob == <<>>

\* Only the thread that starts and stops the synchronizer asks it, unless AskWhileRunning.
SameThread == AskWhileRunning \/ asker = "idle"

Init ==
    /\ m_currentState = "stopped" /\ m_futureState = "stopped"
    /\ m_consumers = <<>> /\ known = <<>>
    /\ lastBlockId = NoBlock
    /\ tasks = 0
    /\ m_stateMutex = "free" /\ m_consumersMutex = "free"
    /\ worker = "none" /\ job = NoJob
    /\ control = "idle" /\ asker = "idle"
    /\ node = [tail |-> Genesis, pool |-> {}, behind |-> FALSE]
    /\ observing = FALSE /\ events = {}
    /\ owed = FALSE
    /\ budget = MaxDisturbances
    /\ fault = FALSE

\* addConsumer and removeConsumer throw unless the synchronizer is stopped.
AddConsumer(c) ==
    /\ control = "idle" /\ SameThread /\ FreeState
    /\ m_currentState = "stopped" /\ m_futureState = "stopped"
    /\ c \notin Present
    /\ m_consumers' = (c :> <<Genesis>>) @@ m_consumers
    /\ known' = (c :> {}) @@ known
    /\ UNCHANGED <<stateVars, lastBlockId, tasks, m_stateMutex, m_consumersMutex, worker, job,
                   clientVars, nodeVars, observing, owed, budget, fault>>

RemoveConsumer(c) ==
    /\ control = "idle" /\ SameThread /\ FreeState
    /\ m_currentState = "stopped" /\ m_futureState = "stopped"
    /\ c \in Present
    /\ Disturb
    /\ m_consumers' = [d \in Present \ {c} |-> m_consumers[d]]
    /\ known' = [d \in Present \ {c} |-> known[d]]
    /\ UNCHANGED <<stateVars, lastBlockId, tasks, m_stateMutex, m_consumersMutex, worker, job,
                   clientVars, nodeVars, observing, owed, fault>>

Start ==
    /\ control = "idle" /\ SameThread /\ FreeState
    /\ m_currentState = "stopped" /\ m_futureState = "stopped"
    /\ Present # {}
    /\ m_futureState' = "deleteOldTxs"
    /\ worker' = "check" /\ job' = NoJob
    /\ control' = "running"
    /\ owed' = TRUE
    /\ UNCHANGED <<m_currentState, m_consumers, known, lastBlockId, tasks, m_stateMutex,
                   m_consumersMutex, asker, nodeVars, observing, budget, fault>>

\* stop: the request, and then the wait for the thread to end.
Stop ==
    /\ control = "running" /\ FreeState
    /\ Disturb
    /\ m_futureState' = Raised("stopped")
    /\ control' = "joining"
    /\ owed' = FALSE
    /\ UNCHANGED <<m_currentState, m_consumers, known, lastBlockId, tasks, m_stateMutex,
                   m_consumersMutex, worker, job, asker, nodeVars, observing, fault>>

Join ==
    /\ control = "joining" /\ worker = "done"
    /\ worker' = "none" /\ control' = "idle"
    /\ UNCHANGED <<stateVars, m_consumers, known, lastBlockId, tasks, m_stateMutex,
                   m_consumersMutex, job, asker, nodeVars, observing, owed, budget, fault>>

\* addUnconfirmedTransaction, removeUnconfirmedTransaction: accepted, unless the
\* synchronizer is stopped or about to be.
AddTask ==
    /\ FreeState
    /\ m_currentState # "stopped" /\ m_futureState # "stopped"
    /\ Disturb
    /\ tasks' = tasks + 1
    /\ UNCHANGED <<stateVars, m_consumers, known, lastBlockId, m_stateMutex, m_consumersMutex,
                   worker, job, clientVars, nodeVars, observing, owed, fault>>

\* getConsumerState, getConsumerKnownBlocks: m_consumersMutex, and inside it m_stateMutex.
AskState ==
    /\ asker = "idle" /\ FreeConsumers
    /\ AskWhileRunning \/ control = "idle"
    /\ asker' = "asking" /\ m_consumersMutex' = "asker"
    /\ UNCHANGED <<stateVars, m_consumers, known, lastBlockId, tasks, m_stateMutex, worker, job,
                   control, nodeVars, observing, owed, budget, fault>>

\* It returns the state, or throws because the synchronizer is not stopped.
GotState ==
    /\ asker = "asking" /\ FreeState
    /\ asker' = "idle" /\ m_consumersMutex' = "free"
    /\ UNCHANGED <<stateVars, m_consumers, known, lastBlockId, tasks, m_stateMutex, worker, job,
                   control, nodeVars, observing, owed, budget, fault>>

-----------------------------------------------------------------------------
(* The node. *)

Announced(e) == events' = IF observing THEN events \cup {e} ELSE events

NodeMoves(b) ==
    /\ Work[b] > Work[node.tail]
    /\ \E behind \in BOOLEAN : node' = [node EXCEPT !.tail = b, !.behind = behind]
    /\ Announced("blocks")
    /\ UNCHANGED <<stateVars, m_consumers, known, lastBlockId, tasks, m_stateMutex,
                   m_consumersMutex, worker, job, clientVars, observing, owed, budget, fault>>

\* The node has all the blocks it knows of.
NodeCatchesUp ==
    /\ node.behind
    /\ node' = [node EXCEPT !.behind = FALSE]
    /\ Announced("blocks")
    /\ UNCHANGED <<stateVars, m_consumers, known, lastBlockId, tasks, m_stateMutex,
                   m_consumersMutex, worker, job, clientVars, observing, owed, budget, fault>>

NodePoolChanges(t) ==
    /\ Disturb
    /\ node' = [node EXCEPT !.pool = IF t \in @ THEN @ \ {t} ELSE @ \cup {t}]
    /\ Announced("pool")
    /\ UNCHANGED <<stateVars, m_consumers, known, lastBlockId, tasks, m_stateMutex,
                   m_consumersMutex, worker, job, clientVars, observing, owed, fault>>

\* localBlockchainUpdated, lastKnownBlockHeightUpdated, poolChanged
Notify(e) ==
    /\ e \in events /\ FreeState
    /\ events' = events \ {e}
    /\ m_futureState' = Raised(IF e = "blocks" THEN "blockchainSync" ELSE "poolSync")
    /\ owed' = (owed \/ (e = "blocks" /\ m_futureState # "stopped"))
    /\ UNCHANGED <<m_currentState, m_consumers, known, lastBlockId, tasks, m_stateMutex,
                   m_consumersMutex, worker, job, clientVars, node, observing, budget, fault>>

\* What queryBlocks answers: the chain from the newest block it knows of the request on.
Answer(request) ==
    LET chain == Path[node.tail]
        start == CHOOSE i \in 1..Len(chain) :
                    /\ chain[i] \in request
                    /\ \A j \in (i + 1)..Len(chain) : chain[j] \notin request
    IN  [start |-> start - 1, blocks |-> SubSeq(chain, start, MinOf(Len(chain), start + Batch - 1))]

-----------------------------------------------------------------------------
(* The working thread: workingProcedure and actualizeFutureState. *)

\* Mutant: the thread ends without the last actualizeFutureState.
CheckIfShouldStop_NoLast ==
    /\ worker = "check" /\ FreeState
    /\ worker' = IF m_futureState = "stopped" THEN "done" ELSE "actualize"
    /\ UNCHANGED <<stateVars, m_consumers, known, lastBlockId, tasks, m_stateMutex,
                   m_consumersMutex, job, clientVars, nodeVars, observing, owed, budget, fault>>

CheckIfShouldStop ==
    /\ worker = "check" /\ FreeState
    /\ worker' = IF m_futureState = "stopped" THEN "last" ELSE "actualize"
    /\ UNCHANGED <<stateVars, m_consumers, known, lastBlockId, tasks, m_stateMutex,
                   m_consumersMutex, job, clientVars, nodeVars, observing, owed, budget, fault>>

\* actualizeFutureState: attach to or detach from the node, then turn to the tasks.
Actualize ==
    /\ worker \in {"actualize", "last"} /\ FreeState
    /\ m_stateMutex' = "worker"
    /\ observing' = CASE m_currentState = "stopped" /\ m_futureState = "deleteOldTxs" -> TRUE
                      [] m_currentState # "stopped" /\ m_futureState = "stopped" -> FALSE
                      [] OTHER -> observing
    /\ worker' = IF worker = "last" THEN "lastTasks" ELSE "tasks"
    /\ UNCHANGED <<stateVars, m_consumers, known, lastBlockId, tasks, m_consumersMutex, job,
                   clientVars, nodeVars, owed, budget, fault>>

\* doAddUnconfirmedTransaction, doRemoveUnconfirmedTransaction: with m_stateMutex held, the
\* thread waits for m_consumersMutex.
DoTask ==
    /\ worker \in {"tasks", "lastTasks"} /\ tasks > 0
    /\ FreeConsumers
    /\ tasks' = tasks - 1
    /\ UNCHANGED <<stateVars, m_consumers, known, lastBlockId, m_stateMutex, m_consumersMutex,
                   worker, job, clientVars, nodeVars, observing, owed, budget, fault>>

Waiting == m_futureState = "idle" /\ tasks = 0

\* The switch on m_futureState.
Dispatch ==
    /\ worker \in {"tasks", "lastTasks"} /\ tasks = 0
    /\ m_stateMutex' = "free"
    /\ m_currentState' = m_futureState
    /\ m_futureState' = CASE m_futureState = "deleteOldTxs" -> "blockchainSync"
                          [] m_futureState = "blockchainSync" -> "poolSync"
                          [] m_futureState = "poolSync" -> "idle"
                          [] OTHER -> m_futureState
    /\ worker' = CASE m_futureState = "deleteOldTxs" -> "outdated"
                   [] m_futureState = "blockchainSync" -> "sync"
                   [] m_futureState = "poolSync" -> "pool"
                   [] m_futureState = "idle" -> "wait"
                   [] OTHER -> IF worker = "lastTasks" THEN "done" ELSE "check"
    /\ job' = NoJob
    /\ UNCHANGED <<m_consumers, known, lastBlockId, tasks, m_consumersMutex, clientVars,
                   nodeVars, observing, owed, budget, fault>>

\* m_hasWork.wait
WakeUp ==
    /\ worker = "wait" /\ FreeState
    /\ ~Waiting
    /\ worker' = "check"
    /\ UNCHANGED <<stateVars, m_consumers, known, lastBlockId, tasks, m_stateMutex,
                   m_consumersMutex, job, clientVars, nodeVars, observing, owed, budget, fault>>

-----------------------------------------------------------------------------
(* startBlockchainSync. *)

FirstConsumer(S) == CHOOSE c \in S : \A d \in S : c <= d

\* Mutant: the longest chain.
RequestFrom_Longest ==
    FirstConsumer({c \in Present : \A d \in Present : Len(m_consumers[c]) >= Len(m_consumers[d])})

\* The first of the consumers with the shortest chain.
RequestFrom ==
    FirstConsumer({c \in Present : \A d \in Present : Len(m_consumers[c]) <= Len(m_consumers[d])})

\* getCommonHistory and the call of queryBlocks
GetCommonHistory ==
    /\ worker = "sync" /\ FreeConsumers
    /\ job' = [request |-> getShortHistory(m_consumers[RequestFrom],
                                           Len(Path[node.tail]) - 1)]
    /\ worker' = "queried"
    /\ UNCHANGED <<stateVars, m_consumers, known, lastBlockId, tasks, m_stateMutex,
                   m_consumersMutex, clientVars, nodeVars, observing, owed, budget, fault>>

QueryAnswered ==
    /\ worker = "queried"
    /\ job' = Answer(job.request)
    /\ worker' = "process"
    /\ UNCHANGED <<stateVars, m_consumers, known, lastBlockId, tasks, m_stateMutex,
                   m_consumersMutex, clientVars, nodeVars, observing, owed, budget, fault>>

\* An error from the node, or an answer that cannot be decoded (processBlocks): whatever was
\* requested meanwhile, the next state is idle.
QueryFails ==
    /\ worker \in {"queried", "process", "pool", "pool2"} /\ FreeState
    /\ Disturb
    /\ m_futureState' = Idled
    /\ worker' = "check" /\ job' = NoJob
    /\ owed' = FALSE
    /\ UNCHANGED <<m_currentState, m_consumers, known, lastBlockId, tasks, m_stateMutex,
                   m_consumersMutex, clientVars, nodeVars, observing, fault>>

\* processBlocks sees the request to stop before it touches a consumer.
ProcessInterrupted ==
    /\ worker = "process" /\ FreeState
    /\ m_futureState = "stopped"
    /\ worker' = "check" /\ job' = NoJob
    /\ UNCHANGED <<stateVars, m_consumers, known, lastBlockId, tasks, m_stateMutex,
                   m_consumersMutex, clientVars, nodeVars, observing, owed, budget, fault>>

AllFit(C) == \A c \in C : Fits(m_consumers[c], job)

Updated(c) == hasNewBlocks(m_consumers[c], job)

\* updateConsumers, when onNewBlocks of the consumer "failing" fails (0: none does).
UpdateConsumers(failing) ==
    [c \in Present |->
        CASE failing = 0 \/ c < failing -> Extended(m_consumers[c], job)
          [] c = failing -> Kept(m_consumers[c], job)
          [] OTHER -> m_consumers[c]]

\* The rest of processBlocks, with every consumer updated.  A stop that comes after its check
\* is not overruled: Raised.  An assert that does not hold ends the process: fault.
ProcessBlocks ==
    /\ worker = "process" /\ FreeState /\ FreeConsumers
    /\ m_consumers' = IF AllFit(Present) THEN UpdateConsumers(0) ELSE m_consumers
    /\ fault' = (fault \/ ~AllFit(Present))
    /\ m_futureState' = IF node.behind \/ \E c \in Present : Updated(c)
                        THEN Raised("blockchainSync") ELSE m_futureState
    /\ lastBlockId' = LastOf(job.blocks)
    /\ worker' = "check" /\ job' = NoJob
    /\ UNCHANGED <<m_currentState, known, tasks, m_stateMutex, m_consumersMutex, clientVars,
                   nodeVars, observing, owed, budget>>

\* onNewBlocks of a consumer returns false, or throws; then lastBlockId is not set.
ConsumerFails(c) ==
    /\ worker = "process" /\ FreeState /\ FreeConsumers
    /\ AllFit({d \in Present : d <= c}) /\ Updated(c)
    /\ Disturb
    /\ m_consumers' = UpdateConsumers(c)
    /\ m_futureState' = Idled
    /\ lastBlockId' \in {lastBlockId, LastOf(job.blocks)}
    /\ worker' = "check" /\ job' = NoJob
    /\ owed' = FALSE
    /\ UNCHANGED <<m_currentState, known, tasks, m_stateMutex, m_consumersMutex, clientVars,
                   nodeVars, observing, fault>>

-----------------------------------------------------------------------------
(* removeOutdatedTransactions and startPoolSync. *)

PoolUnion == UNION {known[c] : c \in Present}

PoolIntersection == {t \in PoolUnion : \A c \in Present : t \in known[c]}

\* All consumers are to forget what has left the node's pool by now.
QueryOutdated ==
    /\ worker = "outdated" /\ FreeConsumers
    /\ job' = [deleted |-> PoolUnion \ node.pool]
    /\ worker' = "outdatedApply"
    /\ UNCHANGED <<stateVars, m_consumers, known, lastBlockId, tasks, m_stateMutex,
                   m_consumersMutex, clientVars, nodeVars, observing, owed, budget, fault>>

RemoveOutdated ==
    /\ worker = "outdatedApply" /\ FreeConsumers
    /\ known' = [c \in Present |-> known[c] \ job.deleted]
    /\ worker' = "check" /\ job' = NoJob
    /\ UNCHANGED <<stateVars, m_consumers, lastBlockId, tasks, m_stateMutex, m_consumersMutex,
                   clientVars, nodeVars, observing, owed, budget, fault>>

\* The node fails, or consumer c does after those before it were updated.
OutdatedFails(c) ==
    /\ worker = "outdatedApply" /\ FreeConsumers
    /\ Disturb
    /\ known' = [d \in Present |-> IF d < c THEN known[d] \ job.deleted ELSE known[d]]
    /\ worker' = "retry" /\ job' = NoJob
    /\ UNCHANGED <<stateVars, m_consumers, lastBlockId, tasks, m_stateMutex, m_consumersMutex,
                   clientVars, nodeVars, observing, owed, fault>>

\* RETRY_TIMEOUT has passed, or stop was called.
Retry ==
    /\ worker = "retry" /\ FreeState
    /\ m_futureState' = IF m_futureState = "stopped" THEN "stopped" ELSE "deleteOldTxs"
    /\ worker' = "check"
    /\ UNCHANGED <<m_currentState, m_consumers, known, lastBlockId, tasks, m_stateMutex,
                   m_consumersMutex, job, clientVars, nodeVars, observing, owed, budget, fault>>

LastBlockIsActual == lastBlockId = node.tail

\* The blockchain has moved on: back to startBlockchainSync.
PoolOutdated ==
    /\ worker \in {"pool", "pool2"} /\ FreeState /\ FreeConsumers
    /\ ~LastBlockIsActual
    /\ m_futureState' = Raised("blockchainSync")
    /\ worker' = "check" /\ job' = NoJob
    /\ UNCHANGED <<m_currentState, m_consumers, known, lastBlockId, tasks, m_stateMutex,
                   m_consumersMutex, clientVars, nodeVars, observing, owed, budget, fault>>

\* Mutant: what the consumers know is not asked for separately.
PoolQueried_UnionOnly ==
    /\ worker = "pool" /\ FreeConsumers
    /\ LastBlockIsActual
    /\ worker' = "poolApply" /\ m_consumersMutex' = "worker"
    /\ job' = [left |-> Present, new |-> node.pool \ PoolUnion, deleted |-> PoolUnion \ node.pool]
    /\ UNCHANGED <<stateVars, m_consumers, known, lastBlockId, tasks, m_stateMutex,
                   clientVars, nodeVars, observing, owed, budget, fault>>

\* getPoolSymmetricDifference for the union; a second one when the consumers differ.
PoolQueried ==
    /\ worker = "pool" /\ FreeConsumers
    /\ LastBlockIsActual
    /\ IF PoolUnion = PoolIntersection
       THEN worker' = "poolApply" /\ m_consumersMutex' = "worker"
       ELSE worker' = "pool2" /\ UNCHANGED m_consumersMutex
    /\ job' = [left |-> Present, new |-> node.pool \ PoolUnion, deleted |-> PoolUnion \ node.pool]
    /\ UNCHANGED <<stateVars, m_consumers, known, lastBlockId, tasks, m_stateMutex,
                   clientVars, nodeVars, observing, owed, budget, fault>>

\* The second answer brings the new transactions, the first one the deleted ones.
PoolQueriedAgain ==
    /\ worker = "pool2" /\ FreeConsumers
    /\ LastBlockIsActual
    /\ worker' = "poolApply" /\ m_consumersMutex' = "worker"
    /\ job' = [job EXCEPT !.new = node.pool \ PoolIntersection]
    /\ UNCHANGED <<stateVars, m_consumers, known, lastBlockId, tasks, m_stateMutex,
                   clientVars, nodeVars, observing, owed, budget, fault>>

\* processPoolTxs: consumer by consumer, with a look at m_futureState before each.
ProcessPoolTxs ==
    /\ worker = "poolApply" /\ FreeState
    /\ job.left # {} /\ m_futureState # "stopped"
    /\ LET c == FirstConsumer(job.left)
       IN  /\ known' = [known EXCEPT ![c] = (@ \cup job.new) \ job.deleted]
           /\ job' = [job EXCEPT !.left = @ \ {c}]
    /\ UNCHANGED <<stateVars, m_consumers, lastBlockId, tasks, m_stateMutex, m_consumersMutex,
                   worker, clientVars, nodeVars, observing, owed, budget, fault>>

\* onPoolUpdated fails at one of the new transactions, which is known from then on; the
\* deleted ones are not forgotten.
PoolUpdateFails ==
    /\ worker = "poolApply" /\ FreeState
    /\ job.left # {} /\ m_futureState # "stopped"
    /\ Disturb
    /\ \E seen \in SUBSET job.new \ {{}} :
          known' = [known EXCEPT ![FirstConsumer(job.left)] = @ \cup seen]
    /\ worker' = "check" /\ m_consumersMutex' = "free" /\ job' = NoJob
    /\ owed' = FALSE
    /\ UNCHANGED <<stateVars, m_consumers, lastBlockId, tasks, m_stateMutex, clientVars,
                   nodeVars, observing, fault>>

\* All consumers done, or interrupted.
EndPoolSync ==
    /\ worker = "poolApply" /\ FreeState
    /\ job.left = {} \/ m_futureState = "stopped"
    /\ worker' = "check" /\ m_consumersMutex' = "free" /\ job' = NoJob
    /\ UNCHANGED <<stateVars, m_consumers, known, lastBlockId, tasks, m_stateMutex, clientVars,
                   nodeVars, observing, owed, budget, fault>>

-----------------------------------------------------------------------------
Working ==
    \/ CheckIfShouldStop \/ Actualize \/ DoTask \/ Dispatch \/ WakeUp
    \/ GetCommonHistory \/ ProcessInterrupted \/ ProcessBlocks
    \/ QueryOutdated \/ RemoveOutdated \/ Retry \/ PoolOutdated \/ PoolQueried \/ PoolQueriedAgain
    \/ ProcessPoolTxs \/ EndPoolSync
    \/ QueryAnswered

Failing ==
    \/ QueryFails \/ PoolUpdateFails
    \/ \E c \in Present : ConsumerFails(c) \/ OutdatedFails(c)

Next ==
    \/ \E c \in Consumer : AddConsumer(c) \/ RemoveConsumer(c)
    \/ Start \/ Stop \/ Join \/ AddTask \/ AskState \/ GotState
    \/ \E b \in Block : NodeMoves(b)
    \/ NodeCatchesUp
    \/ \E t \in PoolTx : NodePoolChanges(t)
    \/ \E e \in {"blocks", "pool"} : Notify(e)
    \/ Working \/ Failing

\* The working thread runs, the node answers and delivers its notifications, a thread that
\* waits for another one goes on when it may.
Fairness ==
    /\ WF_vars(Working) /\ WF_vars(Join) /\ WF_vars(GotState) /\ WF_vars(NodeCatchesUp)
    /\ \A e \in {"blocks", "pool"} : WF_vars(Notify(e))

Spec == Init /\ [][Next]_vars /\ Fairness

-----------------------------------------------------------------------------
(* Properties. *)

\* What a consumer is told about is always a chain: after any mix of reorganisations and of
\* consumers that fail half way, so that the chains differ, no consumer keeps blocks of one
\* branch under blocks of another (getCommonHistory, checkInterval, updateConsumers).
ConsumersOnOneBranch ==
    \A c \in Present : m_consumers[c] = Path[LastOf(m_consumers[c])]

\* checkInterval asserts "interval.startHeight <= m_blockchain.size()": the answer for the
\* shortest chain attaches to every consumer's.
IntervalsFit == ~fault

CaughtUp ==
    \A c \in Present : m_consumers[c] = Path[node.tail] /\ known[c] = node.pool

\* An announcement of the node that was taken, with no failure or stop after it, brings all
\* consumers to the node's chain and pool, whatever else is announced in between.
AnnouncementsArrive == owed ~> (CaughtUp \/ ~owed)

\* stop returns, wherever the working thread was.
StopReturns == (control = "joining") ~> (control = "idle")

\* A task that addUnconfirmedTransaction or removeUnconfirmedTransaction accepted is answered:
\* nobody waits for its future forever, even when stop comes at once.
TasksAnswered == (tasks > 0) ~> (tasks = 0)

\* getConsumerState returns or throws while the synchronizer runs (getConsumerStateStartThrow).
AskReturns == (asker = "asking") ~> (asker = "idle")
=============================================================================
