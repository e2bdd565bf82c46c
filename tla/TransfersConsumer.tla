--------------------------- MODULE TransfersConsumer ---------------------------
(***************************************************************************)
(* What a wallet knows of its money: TransfersConsumer with one             *)
(* TransfersSubscription and its TransfersContainer (lib/Transfers), as     *)
(* the working thread of BlockchainSynchronizer drives them.  Only the      *)
(* wallet's own key outputs matter here; unlock times and multisignature    *)
(* outputs are left out.                                                    *)
(*                                                                         *)
(* The container is a record:                                              *)
(*   txs    m_transactions in the order of its height index                *)
(*   unc    m_unconfirmedTransfers                                         *)
(*   avail  m_availableTransfers: output -> where it is in the chain       *)
(*   spent  m_spentTransfers: output -> [info: as above, by: who spends it] *)
(*   shown  the outputs whose flag "visible" is set                        *)
(*   cur    m_currentHeight                                                *)
(* A place in the chain is a TransactionBlockInfo: [height, index].        *)
(***************************************************************************)
EXTENDS Integers, SequencesExt

CONSTANTS
    Block, Genesis,
    Path,          \* Path[b]: the chain from Genesis to b
    Work,          \* the node only moves to a chain with more work
    Tx, Output,
    BlockTxs,      \* the transactions of a block, in order
    Inputs,        \* the key images a transaction spends -> the amounts
    Outputs,       \* the wallet's outputs in a transaction, in order
    Key,           \* the key image of an output, one for each output key
    Amount,        \* the amount of an output
    Coinbase,      \* transactions that never are in a pool
    Unconfirmed,   \* WALLET_UNCONFIRMED_TRANSACTION_HEIGHT: above every height
    MaxSteps       \* bound on failures, restarts, payments and pool changes together

ASSUME ConsumerAssumption ==
    /\ Genesis \in Block /\ Coinbase \subseteq Tx
    /\ Path \in [Block -> Seq(Block)] /\ Work \in [Block -> Nat]
    /\ BlockTxs \in [Block -> Seq(Tx)]
    /\ DOMAIN Inputs = Tx /\ Outputs \in [Tx -> Seq(Output)]
    /\ DOMAIN Key = Output /\ Amount \in [Output -> Nat]
    /\ Unconfirmed \in Nat /\ \A b \in Block : Len(Path[b]) < Unconfirmed
    /\ MaxSteps \in Nat

VARIABLES
    container,
    m_poolTxs,
    seen,       \* transactions_hash_seen and public_keys_seen: [txs, keys]
    chain,      \* SynchronizationState::m_blockchain of this consumer
    node,       \* [tail, pool]
    task,       \* what the working thread is at
    paying,     \* the payment that is on its way to the node
    stranded,   \* what a batch had processed when an exception ended it, until it is
                \* detached or processed again at its height
    early,      \* pool transactions taken before the outputs they spend were known
    budget

vars == <<container, m_poolTxs, seen, chain, node, task, paying, stranded, early, budget>>

-----------------------------------------------------------------------------
(* Small helpers. *)

OwnerOf(o) == CHOOSE t \in Tx : o \in ToSet(Outputs[t])

OfKey(S, k) == {o \in S : Key[o] = k}

Spends(t) == DOMAIN Inputs[t]

\* Its transactionIndex is not set, and nothing compares it.
unconfirmedBlockInfo == [height |-> Unconfirmed, index |-> 0]

Without(f, S) == [x \in DOMAIN f \ S |-> f[x]]

With(f, S, v) == [x \in DOMAIN f \cup S |-> IF x \in S THEN v ELSE f[x]]

Held(c) == {r.tx : r \in ToSet(c.txs)}

HeightOf(c, t) == (CHOOSE r \in ToSet(c.txs) : r.tx = t).height

Transfers(c) == c.unc \cup DOMAIN c.avail \cup DOMAIN c.spent

\* emplace and replace in the height index: behind the transactions of the same height.
Indexed(txs, t, h) ==
    LET others == SelectSeq(txs, LAMBDA r : r.tx # t)
    IN  SelectSeq(others, LAMBDA r : r.height <= h) \o <<[tx |-> t, height |-> h]>>
        \o SelectSeq(others, LAMBDA r : r.height > h)

-----------------------------------------------------------------------------
(* TransfersContainer. *)

\* lessTIterator
Before(i, j) == i.height < j.height \/ (i.height = j.height /\ i.index < j.index)

\* minElement
Earliest(c, S) == CHOOSE o \in S : \A p \in S : ~Before(c.avail[p], c.avail[o])

\* What updateTransfersVisibility shows of a key image.
ShownOf(c, k) ==
    LET spent == OfKey(DOMAIN c.spent, k)
        avail == OfKey(DOMAIN c.avail, k)
        unc == OfKey(c.unc, k)
    IN  CASE spent # {} -> spent
          [] spent = {} /\ avail # {} -> {Earliest(c, avail)}
          [] OTHER -> IF Cardinality(unc) = 1 THEN unc ELSE {}

\* Mutant: an output that is seen again is shown beside the one that was spent.
updateTransfersVisibility_Spent(c, K) ==
    LET Shown(k) == IF OfKey(DOMAIN c.avail, k) # {}
                    THEN {Earliest(c, OfKey(DOMAIN c.avail, k))} \cup OfKey(DOMAIN c.spent, k)
                    ELSE ShownOf(c, k)
    IN  [c EXCEPT !.shown = {o \in @ : Key[o] \notin K} \cup UNION {Shown(k) : k \in K}]

\* updateTransfersVisibility, for each of the key images K
updateTransfersVisibility(c, K) ==
    [c EXCEPT !.shown = {o \in @ : Key[o] \notin K} \cup UNION {ShownOf(c, k) : k \in K}]

\* Mutant: what the transaction spent is erased instead of made available.
deleteTransactionTransfers_DropsSpent(c, t) ==
    LET back == {o \in DOMAIN c.spent : c.spent[o].by = t}
        own == (c.unc \cup DOMAIN c.avail) \cap ToSet(Outputs[t])
    IN  updateTransfersVisibility(
            [c EXCEPT !.unc = @ \ own, !.avail = Without(@, own), !.spent = Without(@, back)],
            {Key[o] : o \in back \cup own})

\* What the transaction spent is available again, and its own outputs are gone.
deleteTransactionTransfers(c, t) ==
    LET back == {o \in DOMAIN c.spent : c.spent[o].by = t}
        own == (c.unc \cup DOMAIN c.avail \cup back) \cap ToSet(Outputs[t])
        avail == [o \in DOMAIN c.avail \cup back |->
                    IF o \in back THEN c.spent[o].info ELSE c.avail[o]]
    IN  updateTransfersVisibility(
            [c EXCEPT !.unc = @ \ own, !.avail = Without(avail, own), !.spent = Without(@, back)],
            {Key[o] : o \in back \cup own})

Deleted(c, t) ==
    [deleteTransactionTransfers(c, t) EXCEPT !.txs = SelectSeq(@, LAMBDA r : r.tx # t)]

\* addTransactionOutputs
WithOutputs(c, info, outs) ==
    updateTransfersVisibility(
        IF info.height = Unconfirmed THEN [c EXCEPT !.unc = @ \cup outs]
                                     ELSE [c EXCEPT !.avail = With(@, outs, info)],
        {Key[o] : o \in outs})

\* findFirstByAmount: the outputs an input may mean.
Fitting(c, t, k) == {o \in OfKey(DOMAIN c.avail, k) : Amount[o] = Inputs[t][k]}

\* The outputs that addTransactionInputs finds spent by the transaction.
SpentBy(c, t) ==
    {Earliest(c, Fitting(c, t, k)) : k \in {l \in Spends(t) : Fitting(c, t, l) # {}}}

\* addTransactionInputs with copyToSpent
WithInputs(c, t) ==
    LET S == SpentBy(c, t)
        spent == [o \in DOMAIN c.spent \cup S |->
                    IF o \in S THEN [info |-> c.avail[o], by |-> t] ELSE c.spent[o]]
    IN  updateTransfersVisibility([c EXCEPT !.avail = Without(@, S), !.spent = spent],
                                  {Key[o] : o \in S})

\* The conditions under which addTransaction throws.  The last one is an input of an output
\* that is not confirmed, or of another amount.
addTransactionThrows(c, t, info, outs) ==
    LET d == WithOutputs(c, info, outs)
    IN  \/ info.height < c.cur
        \/ info.height # Unconfirmed /\ outs \cap (DOMAIN c.avail \cup DOMAIN c.spent) # {}
        \/ \E k \in Spends(t) :
              \/ OfKey(DOMAIN c.spent, k) # {}
              \/ Fitting(d, t, k) = {} /\ OfKey(DOMAIN d.avail \cup d.unc, k) # {}

\* addTransaction of a transaction the container does not hold.  A transaction that concerns
\* no output of the wallet only moves m_currentHeight.
addTransaction(c, t, info, outs) ==
    LET d == WithOutputs(c, info, outs)
        added == outs # {} \/ SpentBy(d, t) # {}
        e == WithInputs(d, t)
    IN  [e EXCEPT !.txs = IF added THEN Indexed(@, t, info.height) ELSE @,
                  !.cur = IF info.height # Unconfirmed THEN info.height ELSE @]

markTransactionConfirmed(c, t, info) ==
    LET own == c.unc \cap ToSet(Outputs[t])
    IN  updateTransfersVisibility(
            [c EXCEPT !.txs = Indexed(@, t, info.height),
                      !.unc = @ \ own, !.avail = With(@, own, info)],
            {Key[o] : o \in own})

\* One round of the loop of detach.
DetachOne(c, r, h) ==
    IF \/ r.height # Unconfirmed
       \/ \E o \in DOMAIN c.spent : c.spent[o].by = r.tx /\ c.spent[o].info.height >= h
    THEN Deleted(c, r.tx) ELSE c

\* Mutant: from the lowest transaction to the highest.
detach_Ascending(c, h) ==
    LET after == SelectSeq(c.txs, LAMBDA r : r.height >= h)
        d == FoldLeft(LAMBDA e, r : DetachOne(e, r, h), c, after)
    IN  [d EXCEPT !.cur = IF h = 0 THEN 0 ELSE h - 1]

\* Mutant: the transactions of the first block that goes are kept.
detach_Above(c, h) ==
    LET after == SelectSeq(c.txs, LAMBDA r : r.height > h)
        d == FoldLeft(LAMBDA e, r : DetachOne(e, r, h), c, Reverse(after))
    IN  [d EXCEPT !.cur = IF h = 0 THEN 0 ELSE h - 1]

\* detach: from the highest transaction down, the unconfirmed ones first.
detach(c, h) ==
    LET after == SelectSeq(c.txs, LAMBDA r : r.height >= h)
        d == FoldLeft(LAMBDA e, r : DetachOne(e, r, h), c, Reverse(after))
    IN  [d EXCEPT !.cur = IF h = 0 THEN 0 ELSE h - 1]

advanceHeight(c, h) == IF c.cur <= h THEN [c EXCEPT !.cur = h] ELSE c

-----------------------------------------------------------------------------
(* TransfersConsumer: finding the outputs, and handing them to the container. *)

\* The outputs whose key another transaction had, or an earlier output of this one.
Repeated(t) ==
    LET outs == Outputs[t]
    IN  {i \in DOMAIN outs : \/ Key[outs[i]] \in seen.keys
                             \/ \E j \in 1..(i - 1) : Key[outs[j]] = Key[outs[i]]}

\* createTransfers stops without an error at the first of them ...
Found(t) ==
    IF t \in seen.txs THEN ToSet(Outputs[t])
    ELSE {Outputs[t][i] : i \in {j \in DOMAIN Outputs[t] : \A l \in Repeated(t) : j < l}}

\* ... and then remembers nothing.
SeenWith(t) ==
    IF t \in seen.txs \/ Repeated(t) # {} \/ Outputs[t] = <<>> THEN seen
    ELSE [txs |-> seen.txs \cup {t}, keys |-> seen.keys \cup {Key[o] : o \in ToSet(Outputs[t])}]

\* processOutputs: [c: the container afterwards, throws]
processOutputs(c, t, info, outs) ==
    CASE t \in Held(c) /\ HeightOf(c, t) = Unconfirmed /\ info.height # Unconfirmed ->
            [c |-> markTransactionConfirmed(c, t, info), throws |-> FALSE]
      [] t \in Held(c) /\ (HeightOf(c, t) # Unconfirmed \/ info.height = Unconfirmed) ->
            [c |-> c, throws |-> FALSE]
      [] t \notin Held(c) /\ addTransactionThrows(c, t, info, outs) ->
            [c |-> deleteTransactionTransfers(c, t), throws |-> TRUE]
      [] OTHER ->
            [c |-> addTransaction(c, t, info, outs), throws |-> FALSE]

\* The assert of processOutputs on a transaction it meets again.
SameHeight(t, h) ==
    t \in Held(container) /\ ~(HeightOf(container, t) = Unconfirmed /\ h # Unconfirmed)
        => HeightOf(container, t) = h

-----------------------------------------------------------------------------
(* The node. *)

ChainTxs(c) == UNION {ToSet(BlockTxs[c[i]]) : i \in DOMAIN c}

SpentKeys(T) == UNION {Spends(t) : t \in T}

Step == budget > 0 /\ budget' = budget - 1

\* The pool takes the transactions of the blocks that are left.
NodeMoves(b) ==
    /\ Work[b] > Work[node.tail]
    /\ node' = [tail |-> b,
                pool |-> (node.pool \cup (ChainTxs(Path[node.tail]) \ Coinbase))
                         \ ChainTxs(Path[b])]
    /\ UNCHANGED <<container, m_poolTxs, seen, chain, task, paying, stranded, early, budget>>

\* What the pool of a node accepts.
Acceptable(t) ==
    /\ t \notin Coinbase /\ t \notin node.pool \cup ChainTxs(Path[node.tail])
    /\ \A k \in Spends(t) :
          /\ k \notin SpentKeys(node.pool \cup ChainTxs(Path[node.tail]))
          /\ \E u \in ChainTxs(Path[node.tail]) : \E o \in ToSet(Outputs[u]) :
                Key[o] = k /\ Amount[o] = Inputs[t][k]

NodeAccepts(t) ==
    /\ Acceptable(t) /\ Step
    /\ node' = [node EXCEPT !.pool = @ \cup {t}]
    /\ UNCHANGED <<container, m_poolTxs, seen, chain, task, paying, stranded, early>>

\* A transaction expires.
NodeDrops(t) ==
    /\ t \in node.pool /\ Step
    /\ node' = [node EXCEPT !.pool = @ \ {t}]
    /\ UNCHANGED <<container, m_poolTxs, seen, chain, task, paying, stranded, early>>

-----------------------------------------------------------------------------
(* The working thread of the synchronizer. *)

Idle == [at |-> "idle"]

Init ==
    /\ container = [txs |-> <<>>, unc |-> {}, avail |-> <<>>, spent |-> <<>>, shown |-> {},
                    cur |-> 0]
    /\ m_poolTxs = {} /\ seen = [txs |-> {}, keys |-> {}]
    /\ chain = <<Genesis>>
    /\ node = [tail |-> Genesis, pool |-> {}]
    /\ task = Idle /\ paying = {}
    /\ stranded = {} /\ early = {}
    /\ budget = MaxSteps

\* The length of the part the two chains share.
Common(c, d) ==
    LET same == {i \in DOMAIN c \cap DOMAIN d : SubSeq(c, 1, i) = SubSeq(d, 1, i)}
    IN  CHOOSE i \in same : \A j \in same : j <= i

\* The transactions of the blocks from position i on, with their places.
TxsFrom(c, i) ==
    FlattenSeq([j \in 1..(Len(c) - i + 1) |->
        [n \in DOMAIN BlockTxs[c[i + j - 1]] |->
            [tx |-> BlockTxs[c[i + j - 1]][n],
             info |-> [height |-> i + j - 2, index |-> n - 1]]]])

\* updateConsumers: onBlockchainDetach, and then onNewBlocks with what is new.
NewBlocks ==
    /\ task = Idle /\ chain # Path[node.tail]
    /\ LET common == Common(chain, Path[node.tail])
           todo == TxsFrom(Path[node.tail], common + 1)
       IN  /\ container' = IF common < Len(chain) THEN detach(container, common) ELSE container
           /\ chain' = SubSeq(chain, 1, common)
           /\ task' = [at |-> "preprocess", target |-> Path[node.tail], todo |-> todo,
                       left |-> {r.tx : r \in ToSet(todo)}, found |-> <<>>]
           /\ stranded' = IF common < Len(chain) THEN stranded \cap Held(container') ELSE stranded
    /\ UNCHANGED <<m_poolTxs, seen, node, paying, early, budget>>

\* preprocessOutputs: by several threads, in any order.
Preprocess(t) ==
    /\ task.at = "preprocess" /\ t \in task.left
    /\ seen' = SeenWith(t)
    /\ task' = [task EXCEPT !.left = @ \ {t}, !.found = With(@, {t}, Found(t))]
    /\ UNCHANGED <<container, m_poolTxs, chain, node, paying, stranded, early, budget>>

\* getGlobalIndices fails: onError, and the blocks are not taken.
PreprocessFails ==
    /\ task.at = "preprocess" /\ task.left # {}
    /\ Step
    /\ container' = detach(container, Len(chain))
    /\ stranded' = stranded \cap Held(container')
    /\ task' = Idle
    /\ UNCHANGED <<m_poolTxs, seen, chain, node, paying, early>>

\* processTransaction, for the first transaction in the order of the chain.  An exception
\* leaves onNewBlocks: the ones before it stay in the container, and m_currentHeight where
\* they took it, while SynchronizationState does not advance.
ProcessTransaction ==
    /\ task.at = "preprocess" /\ task.left = {} /\ task.todo # <<>>
    /\ LET r == Head(task.todo)
           p == processOutputs(container, r.tx, r.info, task.found[r.tx])
           done == DOMAIN task.found \ {q.tx : q \in ToSet(task.todo)}
       IN  /\ container' = p.c
           /\ stranded' = CASE p.throws -> stranded \cup done
                            [] ~p.throws /\ SameHeight(r.tx, r.info.height) -> stranded \ {r.tx}
                            [] OTHER -> stranded
           /\ task' = IF p.throws THEN Idle ELSE [task EXCEPT !.todo = Tail(@)]
    /\ UNCHANGED <<m_poolTxs, seen, chain, node, paying, early, budget>>

EndNewBlocks ==
    /\ task.at = "preprocess" /\ task.left = {} /\ task.todo = <<>>
    /\ container' = advanceHeight(container, Len(task.target) - 1)
    /\ chain' = task.target
    /\ task' = Idle
    /\ UNCHANGED <<m_poolTxs, seen, node, paying, stranded, early, budget>>

\* startPoolSync: only when the chain is the node's.
PoolDifference ==
    /\ task = Idle /\ chain = Path[node.tail]
    /\ node.pool # m_poolTxs
    /\ task' = [at |-> "pool", new |-> node.pool \ m_poolTxs, old |-> m_poolTxs \ node.pool]
    /\ UNCHANGED <<container, m_poolTxs, seen, chain, node, paying, stranded, early, budget>>

\* onPoolUpdated, first loop.  Nothing in startPoolSync catches an exception: the thread, and
\* with it the wallet, ends.
PoolTxAdded(t) ==
    /\ task.at = "pool" /\ t \in task.new
    /\ m_poolTxs' = m_poolTxs \cup {t}
    /\ seen' = SeenWith(t)
    /\ early' = IF \E k \in Spends(t) : OfKey(Transfers(container), k) = {}
                THEN early \cup {t} ELSE early
    /\ LET p == processOutputs(container, t, unconfirmedBlockInfo, Found(t))
       IN  /\ container' = p.c
           /\ task' = IF p.throws THEN [at |-> "terminated"]
                                  ELSE [task EXCEPT !.new = @ \ {t}]
    /\ UNCHANGED <<chain, node, paying, stranded, budget>>

deleteUnconfirmedTransaction(c, t) ==
    IF t \in Held(c) /\ HeightOf(c, t) = Unconfirmed THEN Deleted(c, t) ELSE c

\* ... and the second loop.
PoolTxsDeleted ==
    /\ task.at = "pool" /\ task.new = {}
    /\ m_poolTxs' = m_poolTxs \ task.old
    /\ container' = FoldLeft(deleteUnconfirmedTransaction, container, SetToSeq(task.old))
    /\ task' = Idle
    /\ UNCHANGED <<seen, chain, node, paying, stranded, early, budget>>

\* A payment: addUnconfirmedTransaction, before the transaction goes to the node.
Pay(t) ==
    /\ task = Idle /\ paying = {} /\ Step
    /\ t \notin Coinbase \cup Held(container) /\ Spends(t) # {}
    /\ \A k \in Spends(t) : \E o \in DOMAIN container.avail \cap container.shown :
          Key[o] = k /\ Amount[o] = Inputs[t][k]
    /\ seen' = SeenWith(t)
    /\ container' = processOutputs(container, t, unconfirmedBlockInfo, Found(t)).c
    /\ paying' = {t}
    /\ UNCHANGED <<m_poolTxs, chain, node, task, stranded, early>>

PaymentRelayed(t) ==
    /\ t \in paying /\ Acceptable(t)
    /\ node' = [node EXCEPT !.pool = @ \cup {t}]
    /\ paying' = {}
    /\ UNCHANGED <<container, m_poolTxs, seen, chain, task, stranded, early, budget>>

\* The node refuses it, or cannot be reached: removeUnconfirmedTransaction.
PaymentFailed(t) ==
    /\ task = Idle /\ t \in paying
    /\ container' = deleteUnconfirmedTransaction(container, t)
    /\ paying' = {}
    /\ UNCHANGED <<m_poolTxs, seen, chain, node, task, stranded, early, budget>>

\* The wallet is closed and opened again: initTransactionPool and addPublicKeysSeen.  Spent
\* outputs are not among those whose keys count as seen.
Restart ==
    /\ task = Idle /\ paying = {} /\ Step
    /\ m_poolTxs' = {t \in Held(container) : HeightOf(container, t) = Unconfirmed}
    /\ LET outs == container.shown \ DOMAIN container.spent
       IN  seen' = [txs |-> {OwnerOf(o) : o \in outs}, keys |-> {Key[o] : o \in outs}]
    /\ task' = [at |-> "pool", new |-> {}, old |-> m_poolTxs' \ node.pool]
    /\ UNCHANGED <<container, chain, node, paying, stranded, early>>

Next ==
    \/ \E b \in Block : NodeMoves(b)
    \/ \E t \in Tx : NodeAccepts(t) \/ NodeDrops(t) \/ Preprocess(t) \/ PoolTxAdded(t)
                     \/ Pay(t) \/ PaymentRelayed(t) \/ PaymentFailed(t)
    \/ NewBlocks \/ PreprocessFails \/ ProcessTransaction \/ EndNewBlocks
    \/ PoolDifference \/ PoolTxsDeleted \/ Restart

Spec == Init /\ [][Next]_vars

-----------------------------------------------------------------------------
(* Properties. *)

\* The three sets of transfers and m_transactions stay one picture through confirmations,
\* reorganisations, failures half way and restarts: a transfer is in one set only, belongs to
\* a transaction the container holds at the same height, and what is spent is spent by one.
TransfersOwned ==
    /\ container.unc \cap DOMAIN container.avail = {}
    /\ container.unc \cap DOMAIN container.spent = {}
    /\ DOMAIN container.avail \cap DOMAIN container.spent = {}
    /\ Transfers(container) \subseteq UNION {ToSet(Outputs[t]) : t \in Held(container)}
    /\ \A o \in container.unc : HeightOf(container, OwnerOf(o)) = Unconfirmed
    /\ \A o \in DOMAIN container.avail :
          HeightOf(container, OwnerOf(o)) = container.avail[o].height
    /\ \A o \in DOMAIN container.spent :
          /\ HeightOf(container, OwnerOf(o)) = container.spent[o].info.height
          /\ container.spent[o].by \in Held(container)
          /\ Inputs[container.spent[o].by][Key[o]] = Amount[o]

\* Money is counted once: of the transfers with one key image, of which only one can ever be
\* spent, at most one is visible, and only the spent one when there is one.
CountedOnce ==
    \A o \in container.shown : \A p \in container.shown \cup DOMAIN container.spent :
        Key[o] = Key[p] => o = p

\* After any number of reorganisations, failed rounds and restarts the container holds of the
\* chain what a wallet that reads the chain for the first time would hold: each confirmed
\* transaction is on the chain where the container has it, every output the wallet can find
\* is held, nothing the chain spends counts as available, and m_currentHeight is the height of
\* the chain.  Three cases the code does not cover are left out.  What was processed before an
\* exception ended a batch stays as it is, on the next branch too (stranded).  Of two outputs
\* of one key the order of the threads of preprocessOutputs decides which is found, and
\* createTransfers drops the outputs behind the other one (Sole).  markTransactionConfirmed does
\* not look again for the inputs of a transaction that came from the pool before the outputs
\* it spends were known (early).
LikeARescan ==
    (task = Idle /\ chain = Path[node.tail]) =>
        LET reached == ChainTxs(chain)
            Sole(o) == OfKey(Output, Key[o]) = {o}
        IN  /\ \A t \in Held(container) \ stranded :
                  HeightOf(container, t) # Unconfirmed =>
                      \E i \in DOMAIN chain : /\ t \in ToSet(BlockTxs[chain[i]])
                                              /\ HeightOf(container, t) = i - 1
            /\ \A t \in reached : \A i \in DOMAIN Outputs[t] :
                  (\A j \in 1..i : Sole(Outputs[t][j])) => Outputs[t][i] \in Transfers(container)
            /\ \A o \in DOMAIN container.avail :
                  Sole(o) => Key[o] \notin SpentKeys(reached \ early)
            /\ stranded = {} => container.cur = Len(chain) - 1

\* processOutputs asserts that a transaction it meets again has the height it had: whatever
\* detach, a failed preparation or a restart left in the container, no block brings a
\* transaction that is still held for another block, and the pool none that is held as
\* confirmed.  The exception is what a batch had processed when an exception ended it: the
\* next branch may bring that at another height, and no detach comes before.
HeightsAgree ==
    /\ (task.at = "preprocess" /\ task.left = {} /\ task.todo # <<>>) =>
          LET r == Head(task.todo) IN r.tx \in stranded \/ SameHeight(r.tx, r.info.height)
    /\ task.at = "pool" => \A t \in task.new \ stranded : SameHeight(t, Unconfirmed)
=============================================================================
