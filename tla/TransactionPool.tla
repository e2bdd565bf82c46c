--------------------------- MODULE TransactionPool ---------------------------
(***************************************************************************)
(* tx_memory_pool (lib/CryptoNoteCore/TransactionPool.cpp) next to a chain  *)
(* that grows and reorganises: admission of relayed and of block            *)
(* transactions, the input indices, expiry, the cached verdicts of the      *)
(* validator, block templates, the pool file.                               *)
(*                                                                         *)
(* Every operation holds the pool's mutex throughout, so it is one step;    *)
(* Blockchain::addNewBlock holds it for a whole reorganisation, in which    *)
(* blocks are popped and pushed one by one ("adding").  Filling a template  *)
(* holds it for the loop over the pool, one step per transaction here.      *)
(***************************************************************************)
EXTENDS Integers, Sequences, FiniteSets

CONSTANTS
    Tx, Block, KeyImage,
    Output,           \* multisignature outputs
    Genesis, Prev,    \* the block tree: Prev[b] is previousBlockHash
    Work,             \* Work[b]: cumulative difficulty of the chain that ends in b
    BlockTxs,         \* BlockTxs[b]: sequence of transactionHashes
    Images,           \* Images[t]: key images of t's inputs
    Spends,           \* Spends[t]: multisignature outputs t spends
    Ring,             \* Ring[t]: blocks that hold the outputs t refers to
    Fee, Size,        \* of each transaction
    TTL,              \* TTL[t]: expiry time from the extra field, 0 for none
    Live,             \* mempoolTxLiveTime()
    LiveAlt,          \* mempoolTxFromAltBlockLiveTime()
    Forget,           \* numberOfPeriodsToForgetTxDeletedFromPool() * Live
    Future,           \* blockFutureTimeLimit()
    CheckInterval,    \* of m_txCheckInterval
    Median, MaxCumulative, Reserved, FusionMax,    \* block and template sizes
    WordSize,         \* 2^64: times and sizes are unsigned words
    MaxTime,          \* bound on the clock
    NullHash

ASSUME PoolAssumption ==
    /\ Genesis \in Block /\ NullHash \notin Block
    /\ KeyImage \cap Output = {}
    /\ Prev \in [Block -> Block]
    /\ BlockTxs \in [Block -> Seq(Tx)]
    /\ Images \in [Tx -> SUBSET KeyImage] /\ Spends \in [Tx -> SUBSET Output]
    /\ Ring \in [Tx -> SUBSET Block]
    /\ Fee \in [Tx -> Nat] /\ Size \in [Tx -> Nat] /\ TTL \in [Tx -> Nat]
    /\ {Live, LiveAlt, Forget, Future, CheckInterval, Median, MaxCumulative,
        Reserved, FusionMax, MaxTime} \subseteq Nat
    /\ WordSize \in Nat \ {0}

VARIABLES
    m_blocks,             \* the main chain
    adding,               \* tail at the start of addNewBlock, NullHash outside of it
    m_transactions,       \* pool entries by transaction
    m_spent_key_images,   \* KeyImage -> transactions of the pool that spend it
    m_spentOutputs,
    m_ttlIndex,
    m_recentlyDeleted,    \* m_recentlyDeletedTransactions: time of the deletion
    m_validated,          \* m_validated_transactions
    now,
    m_lastWorkedTime,
    template,             \* the block template under construction
    fault                 \* an "internal error" branch or an assert was reached

poolVars == <<m_transactions, m_spent_key_images, m_spentOutputs, m_ttlIndex,
              m_recentlyDeleted, m_validated, fault>>
chainVars == <<m_blocks, adding>>
timeVars == <<now, m_lastWorkedTime>>
vars == <<poolVars, chainVars, timeVars, template>>

-----------------------------------------------------------------------------
(* The chain, as the validator sees it. *)

Range(s) == {s[i] : i \in DOMAIN s}

getTailId == m_blocks[Len(m_blocks)]

\* m_transactionMap: the transactions of the main chain.
OnChain == UNION {Range(BlockTxs[b]) : b \in Range(m_blocks)}

haveTransaction(t) == t \in OnChain

\* the inputs of the transactions T, of both kinds
InputsOf(T) == (UNION {Images[t] : t \in T}) \cup (UNION {Spends[t] : t \in T})

Conflict(t, u) == InputsOf({t}) \cap InputsOf({u}) # {}

\* checkTransactionInputs above the checkpoint zone: nothing spent yet, every output that
\* the inputs refer to on the chain.
InputsValid(t) ==
    /\ InputsOf({t}) \cap InputsOf(OnChain) = {}
    /\ Ring[t] \subseteq Range(m_blocks)

\* struct BlockInfo
NoBlock == [height |-> 0, id |-> NullHash]

BlockInfo == [height: Nat, id: Block \cup {NullHash}]

TailInfo == [height |-> Len(m_blocks) - 1, id |-> getTailId]

HeightsOf(B) == {i - 1 : i \in {j \in DOMAIN m_blocks : m_blocks[j] \in B}}

\* max_used_block_height after the rings that refer to B were looked up.
MaxUsedHeight(B) ==
    CHOOSE h \in HeightsOf(B) \cup {0} : \A g \in HeightsOf(B) : g <= h

MaxUsedBlock(t) ==
    LET h == MaxUsedHeight(Ring[t]) IN [height |-> h, id |-> m_blocks[h + 1]]

OnHeight(info) == info.height < Len(m_blocks) /\ m_blocks[info.height + 1] = info.id

CheckInfo == [maxUsed: BlockInfo, lastFailed: BlockInfo]

Skipped(info) == {[ok |-> FALSE, info |-> info]}

\* The check proper.  A failing one has looked up the rings of some of the inputs, in
\* an order the model leaves open; the height of an empty maxUsedBlock is never read.
Rechecked(t, info) ==
    IF InputsValid(t)
    THEN {[ok |-> TRUE, info |-> [info EXCEPT !.maxUsed = MaxUsedBlock(t)]]}
    ELSE {[ok |-> FALSE,
           info |-> [maxUsed |-> IF info.maxUsed.id = NullHash THEN NoBlock
                                 ELSE [info.maxUsed EXCEPT !.height = h],
                     lastFailed |-> TailInfo]] : h \in HeightsOf(Ring[t]) \cup {0}}

\* getBlockIdByHeight(lastFailed.height) is evaluated with no check of the height:
\* beyond the chain a release build may read anything.
LooksUpLastFailed(info) ==
    /\ info.maxUsed.id # NullHash
    /\ info.maxUsed.height < Len(m_blocks)
    /\ ~OnHeight(info.maxUsed)

CheckedBefore(t, info) ==
    CASE ~LooksUpLastFailed(info) -> Rechecked(t, info)
      [] OnHeight(info.lastFailed) -> Skipped(info)
      [] info.lastFailed.height >= Len(m_blocks) -> Skipped(info) \cup Rechecked(t, info)
      [] OTHER -> Rechecked(t, info)

\* Blockchain::checkTransactionInputs(tx, maxUsedBlock, lastFailed): its possible
\* results.
checkTransactionInputs(t, info) ==
    IF info.maxUsed.id = NullHash
    THEN IF info.lastFailed.id # NullHash /\ OnHeight(info.lastFailed)
         THEN Skipped(info) ELSE Rechecked(t, info)
    ELSE IF info.maxUsed.height >= Len(m_blocks)
         THEN Skipped(info) ELSE CheckedBefore(t, info)

-----------------------------------------------------------------------------
(* Pool entries and their indices. *)

\* struct TransactionDetails, without what is fixed per transaction
Entry == [kept: BOOLEAN, received: Nat, info: CheckInfo]

Pool == DOMAIN m_transactions

NewEntry(t, kept) ==
    [kept |-> kept, received |-> now,
     info |-> [maxUsed |-> IF InputsValid(t) THEN MaxUsedBlock(t) ELSE NoBlock,
               lastFailed |-> NoBlock]]

WithEntries(T, kept) ==
    [t \in Pool \cup T |-> IF t \in T THEN NewEntry(t, kept) ELSE m_transactions[t]]

SpentBy(k, T) == {t \in T : k \in Images[t]}

\* addTransactionInputs, for transactions that are not in the pool.  A relayed one must
\* find its key images and outputs free ("should not fail").
addTransactionInputs(T, kept) ==
    /\ m_spent_key_images' = [k \in KeyImage |-> m_spent_key_images[k] \cup SpentBy(k, T)]
    /\ m_spentOutputs' =
          m_spentOutputs \cup (IF kept THEN {} ELSE UNION {Spends[t] : t \in T})
    /\ fault' = (fault \/ \E t \in T : ~kept /\
                    \/ \E k \in Images[t] : m_spent_key_images[k] # {}
                    \/ Spends[t] \cap m_spentOutputs # {})

\* The insertion at the end of add_tx.
AddEntries(T, kept) ==
    /\ m_transactions' = WithEntries(T, kept)
    /\ m_ttlIndex' = m_ttlIndex \cup {t \in T : TTL[t] # 0}
    /\ addTransactionInputs(T, kept)

\* What the pool consists of, apart from the cached verdicts: also what its file holds.
Snapshot == [transactions |-> m_transactions, images |-> m_spent_key_images,
             outputs |-> m_spentOutputs, deleted |-> m_recentlyDeleted]

RelayedIn(entries, T) == {t \in T : ~entries[t].kept}

\* removeTransactionInputs: every input must be where addTransactionInputs put it.
RemovalFails(p, T) ==
    \E t \in T : \/ \E k \in Images[t] : t \notin p.images[k]
                 \/ ~p.transactions[t].kept /\ ~(Spends[t] \subseteq p.outputs)

\* removeTransaction for every member of T, from a pool p.
RemoveFrom(p, T) ==
    /\ m_transactions' = [t \in DOMAIN p.transactions \ T |-> p.transactions[t]]
    /\ m_spent_key_images' = [k \in KeyImage |-> p.images[k] \ SpentBy(k, T)]
    /\ m_spentOutputs' = p.outputs \ UNION {Spends[t] : t \in RelayedIn(p.transactions, T)}
    /\ fault' = (fault \/ RemovalFails(p, T))

\* Mutant: the cached verdict of a removed transaction stays.
RemoveEntries_KeepsVerdicts(T) ==
    /\ RemoveFrom(Snapshot, T)
    /\ m_ttlIndex' = m_ttlIndex \ T
    /\ UNCHANGED m_validated

RemoveEntries(T) ==
    /\ RemoveFrom(Snapshot, T)
    /\ m_ttlIndex' = m_ttlIndex \ T
    /\ m_validated' = m_validated \ T

\* Mutant: the transactions come back with keptByBlock = false.
TakeAndReturn_AsRelayed(T) ==
    /\ m_transactions' = WithEntries(T, FALSE)
    /\ m_spentOutputs' =
          m_spentOutputs \ UNION {Spends[t] : t \in RelayedIn(m_transactions, T)}
    /\ m_validated' = m_validated \ T
    /\ fault' = (fault \/ RemovalFails(Snapshot, T))
    /\ UNCHANGED <<m_spent_key_images, m_ttlIndex, m_recentlyDeleted>>

\* take_tx and add_tx(keptByBlock) for every member of T: what loadTransactions and
\* saveTransactions do to the transactions of a block that is refused.
TakeAndReturn(T) ==
    /\ m_transactions' = WithEntries(T, TRUE)
    /\ m_spentOutputs' =
          m_spentOutputs \ UNION {Spends[t] : t \in RelayedIn(m_transactions, T)}
    /\ m_validated' = m_validated \ T
    /\ fault' = (fault \/ RemovalFails(Snapshot, T))
    /\ UNCHANGED <<m_spent_key_images, m_ttlIndex, m_recentlyDeleted>>

haveSpentInputs(t) ==
    \/ \E k \in Images[t] : m_spent_key_images[k] # {}
    \/ Spends[t] \cap m_spentOutputs # {}

\* The TTL of a relayed transaction: in the future, not too far, and no fee paid.
TTLAccepted(t) ==
    \/ TTL[t] = 0
    \/ /\ TTL[t] > now
       /\ TTL[t] - now <= Live + Future
       /\ Fee[t] = 0

\* Mutant: no look at m_spent_key_images.
RelayAccepted_AnyInputs(t) ==
    /\ TTLAccepted(t)
    /\ InputsValid(t)
    /\ Size[t] <= (2 * Median - Reserved) % WordSize
    /\ t \notin DOMAIN m_recentlyDeleted

\* The early returns of add_tx for a transaction that no block brought.
RelayAccepted(t) ==
    /\ TTLAccepted(t)
    /\ ~haveSpentInputs(t)
    /\ InputsValid(t)
    /\ Size[t] <= (2 * Median - Reserved) % WordSize
    /\ t \notin DOMAIN m_recentlyDeleted

Unlocked == adding = NullHash /\ template.pc = "none"

\* core::add_new_tx and tx_memory_pool::add_tx
AddTx(t, kept) ==
    /\ Unlocked
    /\ ~haveTransaction(t)
    /\ t \notin Pool
    /\ kept \/ RelayAccepted(t)
    /\ AddEntries({t}, kept)
    /\ UNCHANGED <<m_recentlyDeleted, m_validated, chainVars, timeVars, template>>

-----------------------------------------------------------------------------
(* Blocks: addNewBlock with the switch to another branch. *)

BeginBlock ==
    /\ Unlocked
    /\ adding' = getTailId
    /\ UNCHANGED <<m_blocks, poolVars, timeVars, template>>

\* The transactions of b that loadTransactions takes: all up to the first that the
\* pool lacks.
Taken(b) ==
    {BlockTxs[b][i] : i \in {j \in DOMAIN BlockTxs[b] :
                                \A l \in 1..j : BlockTxs[b][l] \in Pool}}

AllTaken(b) == Range(BlockTxs[b]) \subseteq Pool

\* pushBlock: every transaction valid, given the ones before it in the block.
BlockInputsValid(b) ==
    \A i \in DOMAIN BlockTxs[b] :
        /\ InputsValid(BlockTxs[b][i])
        /\ \A j \in 1..(i - 1) : ~Conflict(BlockTxs[b][i], BlockTxs[b][j])

PushBlock(b) ==
    /\ adding # NullHash
    /\ b # Genesis /\ Prev[b] = getTailId
    /\ AllTaken(b) /\ BlockInputsValid(b)
    /\ m_blocks' = Append(m_blocks, b)
    /\ RemoveEntries(Range(BlockTxs[b]))
    /\ UNCHANGED <<adding, m_recentlyDeleted, timeVars, template>>

\* Mutant: what loadTransactions has taken before a missing one is not put back.
RefuseBlock_Drops(b) ==
    /\ adding # NullHash
    /\ b # Genesis /\ Prev[b] = getTailId
    /\ IF AllTaken(b) THEN TakeAndReturn(Taken(b))
       ELSE RemoveEntries(Taken(b)) /\ UNCHANGED m_recentlyDeleted
    /\ UNCHANGED <<chainVars, timeVars, template>>

\* A transaction is missing, an input is not valid, or any other check fails.
RefuseBlock(b) ==
    /\ adding # NullHash
    /\ b # Genesis /\ Prev[b] = getTailId
    /\ TakeAndReturn(Taken(b))
    /\ UNCHANGED <<chainVars, timeVars, template>>

\* popBlock: saveTransactions runs while the block is still on the chain; add_tx fails
\* for a transaction that is in the pool already.
PopBlock ==
    /\ adding # NullHash
    /\ getTailId # Genesis
    /\ AddEntries(Range(BlockTxs[getTailId]) \ Pool, TRUE)
    /\ m_blocks' = SubSeq(m_blocks, 1, Len(m_blocks) - 1)
    /\ UNCHANGED <<adding, m_recentlyDeleted, m_validated, timeVars, template>>

\* addNewBlock ends on the old chain or on a heavier one.
EndBlock ==
    /\ adding # NullHash
    /\ getTailId = adding \/ Work[getTailId] > Work[adding]
    /\ adding' = NullHash
    /\ UNCHANGED <<m_blocks, poolVars, timeVars, template>>

-----------------------------------------------------------------------------
(* Time and expiry. *)

\* The system clock advances or is set back.
Clock ==
    /\ now' \in {now + 1, now - 1} \cap 0..MaxTime
    /\ UNCHANGED <<m_lastWorkedTime, poolVars, chainVars, template>>

Since(time) == (now - time) % WordSize

Outlived(entries, ttl) ==
    {t \in DOMAIN entries :
        \/ Since(entries[t].received) > (IF entries[t].kept THEN LiveAlt ELSE Live)
        \/ t \in ttl /\ TTL[t] <= now}

\* The deletions still remembered, and those of T unless remembered already (emplace).
Deletions(deleted, T) ==
    LET remembered == {t \in DOMAIN deleted : Since(deleted[t]) <= Forget}
    IN  [t \in remembered \cup T |-> IF t \in remembered THEN deleted[t] ELSE now]

\* on_idle with removeExpiredTransactions; the interval is a signed difference.
Idle ==
    /\ Unlocked
    /\ now - m_lastWorkedTime > CheckInterval
    /\ LET T == Outlived(m_transactions, m_ttlIndex) IN
          /\ RemoveEntries(T)
          /\ m_recentlyDeleted' = Deletions(m_recentlyDeleted, T)
    /\ m_lastWorkedTime' = now
    /\ UNCHANGED <<now, chainVars, template>>


-----------------------------------------------------------------------------
(* Block templates: fill_block_template. *)

NoTemplate == [pc |-> "none", todo |-> {}, txs |-> {}, size |-> 0]

BeginFill ==
    /\ Unlocked
    /\ template' = [NoTemplate EXCEPT !.pc = "fusion", !.todo = {t \in Pool : Fee[t] = 0}]
    /\ UNCHANGED <<poolVars, chainVars, timeVars>>

\* TransactionPriorityComparator; between equals the order is left open.
Before(t, u) ==
    \/ Fee[t] * Size[u] > Fee[u] * Size[t]
    \/ Fee[t] * Size[u] = Fee[u] * Size[t] /\ Size[t] < Size[u]
    \/ /\ Fee[t] * Size[u] = Fee[u] * Size[t] /\ Size[t] = Size[u]
       /\ m_transactions[t].received < m_transactions[u].received

\* BlockTemplate::addTransaction, when the transaction is ready.
Offer(t, ready) ==
    IF ready /\ \A u \in template.txs : ~Conflict(t, u)
    THEN [template EXCEPT !.todo = @ \ {t}, !.txs = @ \cup {t}, !.size = @ + Size[t]]
    ELSE [template EXCEPT !.todo = @ \ {t}]

FitsFusion(t) == t \notin m_ttlIndex /\ template.size + Size[t] <= FusionMax

\* The first loop: transactions without a fee, from the end of the fee index.  What the
\* check finds out is not kept.
FillFusion(t) ==
    /\ template.pc = "fusion"
    /\ t \in template.todo /\ \A u \in template.todo : ~Before(t, u)
    /\ IF FitsFusion(t)
       THEN \E r \in checkTransactionInputs(t, m_transactions[t].info) :
                template' = Offer(t, r.ok)
       ELSE template' = Offer(t, FALSE)
    /\ UNCHANGED <<poolVars, chainVars, timeVars>>

EndFusion ==
    /\ template.pc = "fusion" /\ template.todo = {}
    /\ template' = [template EXCEPT !.pc = "fees", !.todo = Pool]
    /\ UNCHANGED <<poolVars, chainVars, timeVars>>

MinOf(a, b) == IF a <= b THEN a ELSE b

SizeLimit(t) ==
    IF Fee[t] = 0 THEN Median
    ELSE (MinOf((125 * Median) \div 100, MaxCumulative) - Reserved) % WordSize

Fits(t) == t \notin m_ttlIndex /\ template.size + Size[t] <= SizeLimit(t)

\* A cached verdict is taken as it is.
Verdicts(t) ==
    LET info == m_transactions[t].info
    IN  IF t \in m_validated THEN {[ok |-> TRUE, info |-> info]}
        ELSE checkTransactionInputs(t, info)

\* The second loop: all transactions, from the beginning of the fee index.
FillFees(t) ==
    /\ template.pc = "fees"
    /\ t \in template.todo /\ \A u \in template.todo : ~Before(u, t)
    /\ IF Fits(t)
       THEN \E r \in Verdicts(t) :
                /\ template' = Offer(t, r.ok)
                /\ m_transactions' = [m_transactions EXCEPT ![t].info = r.info]
                /\ m_validated' = IF r.ok THEN m_validated \cup {t} ELSE m_validated
       ELSE /\ template' = Offer(t, FALSE)
            /\ UNCHANGED <<m_transactions, m_validated>>
    /\ UNCHANGED <<m_spent_key_images, m_spentOutputs, m_ttlIndex, m_recentlyDeleted, fault,
                   chainVars, timeVars>>

EndFill ==
    /\ template.pc = "fees" /\ template.todo = {}
    /\ template' = NoTemplate
    /\ UNCHANGED <<poolVars, chainVars, timeVars>>

\* get_difference: caches the verdicts of the transactions that are ready.
GetDifference ==
    /\ Unlocked
    /\ \E ready \in SUBSET Pool :
          /\ \A t \in ready : \E r \in Verdicts(t) : r.ok
          /\ \A t \in Pool \ ready : \E r \in Verdicts(t) : ~r.ok
          /\ m_validated' = m_validated \cup ready
    /\ UNCHANGED <<m_transactions, m_spent_key_images, m_spentOutputs, m_ttlIndex,
                   m_recentlyDeleted, fault, chainVars, timeVars, template>>

-----------------------------------------------------------------------------
(* The pool file. *)

EmptyFile == [transactions |-> [t \in {} |-> 0], images |-> [k \in KeyImage |-> {}],
              outputs |-> {}, deleted |-> [t \in {} |-> 0]]

\* init: the file, or an empty pool when it cannot be read, less what has expired.
Load(file) ==
    LET ttl == {t \in DOMAIN file.transactions : TTL[t] # 0}
        T == Outlived(file.transactions, ttl)
    IN  /\ RemoveFrom(file, T)
        /\ m_ttlIndex' = ttl \ T
        /\ m_recentlyDeleted' = Deletions(file.deleted, T)

\* The process ends and starts again, with the file that deinit has written, or with none
\* that can be read.  (A file older than the chain is a case of module Blockchain.)
Restart(file) ==
    /\ Unlocked
    /\ Load(file)
    /\ m_validated' = {}
    /\ m_lastWorkedTime' = 0
    /\ UNCHANGED <<now, chainVars, template>>

-----------------------------------------------------------------------------
Init ==
    /\ m_blocks = <<Genesis>>
    /\ adding = NullHash
    /\ m_transactions = EmptyFile.transactions
    /\ m_spent_key_images = EmptyFile.images
    /\ m_spentOutputs = {} /\ m_ttlIndex = {} /\ m_validated = {}
    /\ m_recentlyDeleted = EmptyFile.deleted
    /\ now = 0 /\ m_lastWorkedTime = 0
    /\ template = NoTemplate
    /\ fault = FALSE

Next ==
    \/ \E t \in Tx, kept \in BOOLEAN : AddTx(t, kept)
    \/ BeginBlock
    \/ \E b \in Block : PushBlock(b) \/ RefuseBlock(b)
    \/ PopBlock \/ EndBlock
    \/ Clock \/ Idle
    \/ BeginFill \/ EndFusion \/ EndFill
    \/ \E t \in Tx : FillFusion(t) \/ FillFees(t)
    \/ GetDifference
    \/ \E file \in {Snapshot, EmptyFile} : Restart(file)

Spec == Init /\ [][Next]_vars

-----------------------------------------------------------------------------
(* Properties. *)

\* The members of tx_memory_pool and of the chain have the types of TransactionPool.h.
TypeOK ==
    /\ m_blocks \in Seq(Block) /\ m_blocks # <<>>
    /\ adding \in Block \cup {NullHash}
    /\ Pool \subseteq Tx /\ m_transactions \in [Pool -> Entry]
    /\ m_spent_key_images \in [KeyImage -> SUBSET Tx]
    /\ m_spentOutputs \subseteq Output
    /\ DOMAIN m_recentlyDeleted \subseteq Tx
    /\ m_recentlyDeleted \in [DOMAIN m_recentlyDeleted -> Nat]
    /\ m_ttlIndex \subseteq Tx /\ m_validated \subseteq Tx
    /\ now \in Nat /\ m_lastWorkedTime \in Nat
    /\ template \in [pc: {"none", "fusion", "fees"}, todo: SUBSET Tx,
                     txs: SUBSET Tx, size: Nat]
    /\ fault \in BOOLEAN

\* The indices that decide whether an input is free agree with the entries: addTransaction-
\* Inputs and removeTransactionInputs match, whatever mix of relayed and block transactions
\* came, was taken, given back, expired or reloaded; and no verdict outlives its entry.
IndicesExact ==
    /\ \A k \in KeyImage : m_spent_key_images[k] = {t \in Pool : k \in Images[t]}
    /\ m_spentOutputs = UNION {Spends[t] : t \in {u \in Pool : ~m_transactions[u].kept}}
    /\ m_ttlIndex = {t \in Pool : TTL[t] # 0}
    /\ m_validated \subseteq Pool

\* Two transactions that peers relayed never spend the same input, although transactions
\* kept by blocks may conflict with both: haveSpentInputs, with add_tx in between.
RelayedNeverConflict ==
    \A t, u \in Pool :
        t # u /\ ~m_transactions[t].kept /\ ~m_transactions[u].kept => ~Conflict(t, u)

\* addTransactionInputs "should not fail" and the asserts of both index functions hold.
BookkeepingNeverFails == ~fault

\* A transaction leaves pool and chain only because it outlived its time (or with a pool
\* file that cannot be read): a block that is refused at any of its transactions, or popped
\* by a reorganisation, gives them all back (loadTransactions, saveTransactions).
OnlyAgeLosesTransactions ==
    [][\/ (Pool \cup OnChain) \ (Pool \cup OnChain)' \subseteq Outlived(m_transactions, m_ttlIndex)
       \/ Restart(EmptyFile)]_vars

\* A template that fill_block_template hands out holds only transactions that are valid on
\* the chain of that moment ("check for key_images collisions with blockchain, just to be
\* sure").
TemplateIsValid ==
    [][EndFill => \A t \in template.txs : InputsValid(t)]_vars
=============================================================================
