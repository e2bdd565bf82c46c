----------------------------- MODULE Blockchain -----------------------------
(***************************************************************************)
(* The main chain of a node, its alternative chains and the part of the    *)
(* transaction pool that block processing moves transactions in and out   *)
(* of: lib/CryptoNoteCore/Blockchain.cpp with Checkpoints.cpp, the pool     *)
(* operations of TransactionPool.cpp that it calls, core::add_new_tx, and   *)
(* what a stop, a crash and a start of the daemon do to all of it.          *)
(*                                                                         *)
(* Blockchain::addNewBlock holds the pool's and the chain's mutex from its  *)
(* first check to its last assignment.  A reorganisation is still modelled  *)
(* step by step (one block popped or pushed per step), because a crash can  *)
(* strike between two of them; "phase" says where the thread that holds the *)
(* mutexes is, and every other operation waits for phase = "idle".          *)
(***************************************************************************)
EXTENDS Integers, Sequences, FiniteSets

CONSTANTS
    Block,            \* ids (hashes) of the blocks that may ever be delivered
    Genesis,          \* m_currency.genesisBlock()
    Path,             \* Path[b]: ids from Genesis to b; a hash pins its ancestry
    Work,             \* Work[b]: cumulative_difficulty of the chain that ends in b
    Tx,               \* ids of the non-coinbase transactions
    KeyImage,
    BlockTxs,         \* BlockTxs[b]: transactionHashes of b
    KeyImages,        \* KeyImages[t]: the key images of t's inputs
    Ring,             \* Ring[t]: blocks that hold the outputs t's rings refer to
    BadBlocks,        \* blocks failing the version, parent size, merge mining tag,
                      \* timestamp or coinbase prevalidation checks
    WeakPow,          \* blocks whose hash misses their difficulty
    Oversize,         \* blocks above maxBlockCumulativeSize with all transactions
    BadReward,        \* blocks failing validate_miner_transaction
    Improbable,       \* alternative heads failing the Poisson check
    PoissonTrigger,   \* POISSON_CHECK_TRIGGER
    UnlockWindow,     \* CRYPTONOTE_MINED_MONEY_UNLOCK_WINDOW
    WordSize,         \* size_t arithmetic is modulo this
    HardCheckpoints,  \* the checkpoints compiled in
    DnsCheckpoints,   \* the checkpoints a DNS lookup may return
    MaxStops,         \* bound: stops and crashes of the daemon in a behaviour
    NoCache           \* "there is no usable blockchain cache file"

Height(b) == Len(Path[b]) - 1

Prev(b) == Path[b][Len(Path[b]) - 1]

LastOf(s) == s[Len(s)]

Elems(s) == {s[i] : i \in DOMAIN s}

TxsOf(s) == UNION {BlockTxs[s[i]] : i \in DOMAIN s}

ImagesOf(txs) == UNION {KeyImages[t] : t \in txs}

\* A block hash covers previousBlockHash, so it determines the whole path: the path to
\* an ancestor is a prefix.
ASSUME PathAssumption ==
    /\ Genesis \in Block
    /\ Path \in [Block -> Seq(Block)]
    /\ Path[Genesis] = <<Genesis>>
    /\ \A b \in Block : Len(Path[b]) > 0 /\ LastOf(Path[b]) = b
    /\ \A b \in Block \ {Genesis} : Len(Path[b]) > 1
    /\ \A b \in Block : \A i \in 1..Len(Path[b]) : Path[Path[b][i]] = SubSeq(Path[b], 1, i)

\* check_tx_semantic refuses a transaction without inputs.
ASSUME TxAssumption ==
    /\ BlockTxs \in [Block -> SUBSET Tx]
    /\ BlockTxs[Genesis] = {}
    /\ KeyImages \in [Tx -> SUBSET KeyImage]
    /\ \A t \in Tx : KeyImages[t] # {}
    /\ Ring \in [Tx -> SUBSET Block]

\* Two checkpoints never name the same height: Checkpoints::m_points is a map.
OnePerHeight(points) ==
    \A p, q \in points : Height(p) = Height(q) => p = q

ASSUME CheckpointAssumption ==
    /\ HardCheckpoints \subseteq Block /\ OnePerHeight(HardCheckpoints)
    /\ DnsCheckpoints \subseteq Block /\ OnePerHeight(DnsCheckpoints)

ASSUME LimitAssumption ==
    /\ Work \in [Block -> Nat]
    /\ BadBlocks \subseteq Block /\ WeakPow \subseteq Block /\ Oversize \subseteq Block
    /\ BadReward \subseteq Block /\ Improbable \subseteq Block
    /\ PoissonTrigger \in Nat /\ UnlockWindow \in Nat
    /\ WordSize \in Nat \ {0} /\ MaxStops \in Nat

VARIABLES
    m_blocks,              \* the main chain, a SwappedVector; m_blockIndex equals it
    stored,                \* m_blocks before its last change: the count that change
                           \* wrote may still be in the index file's stream buffer
    m_transactionMap,      \* transactions the chain indexes as its own
    m_spent_keys,          \* key images the chain indexes as spent
    m_alternative_chains,  \* blocks known outside the main chain
    m_points,              \* Checkpoints::m_points, as the set of named blocks
    m_transactions,        \* the transaction pool
    phase,                 \* where the thread holding the mutexes is
    altChain,              \* alt_chain of switch_to_alternative_blockchain
    oldChain,              \* its disconnected_chain
    pos,                   \* the next block of altChain or oldChain to handle
    failedAt,              \* index in altChain of the block that failed to connect
    discard,               \* its discard_disconnected_chain
    callers,               \* the switches that wait for a switch they started to return
    poolFile,              \* the pool as stored by the last tx_memory_pool::deinit
    cacheFile,             \* the indices as stored by the last storeCache
    stops,                 \* stops and crashes so far
    origin                 \* history: the main chain when the switch began

chainVars == <<m_blocks, stored, m_transactionMap, m_spent_keys, m_transactions>>
switchVars == <<phase, altChain, oldChain, pos, failedAt, discard, callers, origin>>
diskVars == <<poolFile, cacheFile, stops>>
vars == <<chainVars, m_alternative_chains, m_points, switchVars, diskVars>>

Size == Len(m_blocks)

TailId == LastOf(m_blocks)

Reorganising ==
    {"disconnect", "connect", "rollbackPop", "rollbackPush", "requeue", "finish"}

Phases == {"idle", "deinit", "down"} \cup Reorganising

\* What a switch that waits keeps on the stack; its discard is FALSE.
Frame == [altChain : Seq(Block), oldChain : Seq(Block), origin : Seq(Block), pos : Nat]

TypeOK ==
    /\ m_blocks \in Seq(Block) /\ Size > 0
    /\ stored \in Seq(Block) /\ Len(stored) > 0
    /\ m_transactionMap \subseteq Tx
    /\ m_spent_keys \subseteq KeyImage
    /\ m_alternative_chains \subseteq Block
    /\ m_points \subseteq Block
    /\ m_transactions \subseteq Tx
    /\ phase \in Phases
    /\ altChain \in Seq(Block) /\ oldChain \in Seq(Block) /\ origin \in Seq(Block)
    /\ pos \in Nat /\ failedAt \in Nat
    /\ discard \in BOOLEAN /\ callers \in Seq(Frame)
    /\ poolFile \subseteq Tx
    /\ cacheFile \in [tail : Block, txs : SUBSET Tx, keys : SUBSET KeyImage] \cup {NoCache}
    /\ stops \in Nat

-----------------------------------------------------------------------------
(* Checkpoints.cpp *)

is_in_checkpoint_zone(points, h) == \E p \in points : h <= Height(p)

check_block(points, b) == \A p \in points : Height(p) = Height(b) => p = b

is_a_checkpoint(points, b) == \E p \in points : Height(p) = Height(b)

\* The subtraction is unsigned: it wraps while the chain is shorter than the window.
TooDeep(size, h) == h < (size - UnlockWindow) % WordSize

is_alternative_block_allowed(points, size, h) ==
    /\ h # 0
    /\ TooDeep(size, h) => is_in_checkpoint_zone(points, h)
    /\ \A p \in points : Height(p) <= size => Height(p) < h

\* A record for a height that already has a checkpoint is ignored.
load_checkpoints_from_dns(points, records) ==
    points \cup {r \in records : ~is_a_checkpoint(points, r)}

-----------------------------------------------------------------------------
(* Transactions: the input checks, and the pool operations blocks use *)

\* Mutant: the spent key images are not looked up.
checkTransactionInputs_IgnoresSpentKeys(t) ==
    is_in_checkpoint_zone(m_points, Size) \/ Ring[t] \subseteq Elems(m_blocks)

\* Inside the checkpoint zone only the key images are checked.
checkTransactionInputs(t) ==
    /\ KeyImages[t] \cap m_spent_keys = {}
    /\ is_in_checkpoint_zone(m_points, Size) \/ Ring[t] \subseteq Elems(m_blocks)

haveSpentInputs(t) == KeyImages[t] \cap ImagesOf(m_transactions) # {}

\* A transaction from the network (keptByBlock = FALSE) or delivered with a block.
add_new_tx(t, keptByBlock) ==
    /\ phase = "idle"
    /\ t \notin m_transactionMap /\ t \notin m_transactions
    /\ keptByBlock \/ (~haveSpentInputs(t) /\ checkTransactionInputs(t))
    /\ m_transactions' = m_transactions \cup {t}
    /\ UNCHANGED <<m_blocks, stored, m_transactionMap, m_spent_keys,
                   m_alternative_chains, m_points, switchVars, diskVars>>

\* Age and TTL are abstracted: any transaction may be the one that is outdated.
removeExpiredTransactions(t) ==
    /\ phase = "idle"
    /\ t \in m_transactions
    /\ m_transactions' = m_transactions \ {t}
    /\ UNCHANGED <<m_blocks, stored, m_transactionMap, m_spent_keys,
                   m_alternative_chains, m_points, switchVars, diskVars>>

-----------------------------------------------------------------------------
(* pushBlock and popBlock *)

\* loadTransactions: every transaction of the block is in the pool.
Loadable(b) == BlockTxs[b] \subseteq m_transactions

\* Mutant: a block is never compared with the checkpoints.
HeaderAccepted_IgnoresCheckpoints(b) ==
    /\ b \notin BadBlocks
    /\ b \notin Elems(m_blocks)
    /\ b # Genesis /\ Prev(b) = TailId
    /\ is_in_checkpoint_zone(m_points, Size) \/ b \notin WeakPow

\* Proof of work counts only above the last checkpoint.
HeaderAccepted(b) ==
    /\ b \notin BadBlocks
    /\ b \notin Elems(m_blocks)
    /\ b # Genesis /\ Prev(b) = TailId
    /\ IF is_in_checkpoint_zone(m_points, Size) THEN check_block(m_points, b)
                                               ELSE b \notin WeakPow

\* The loop over the transactions: each is checked after the earlier ones are pushed.
TransactionsAccepted(b) ==
    /\ \A t \in BlockTxs[b] : checkTransactionInputs(t)
    /\ \A t, u \in BlockTxs[b] : t # u => KeyImages[t] \cap KeyImages[u] = {}

CanPush(b) ==
    /\ Loadable(b) /\ HeaderAccepted(b) /\ TransactionsAccepted(b)
    /\ b \notin Oversize /\ b \notin BadReward

\* checkCumulativeBlockSize fails after the transactions were pushed, and that
\* return is the only one that does not call popTransactions.
Leaks(b) ==
    /\ Loadable(b) /\ HeaderAccepted(b) /\ TransactionsAccepted(b)
    /\ b \in Oversize

IndexTransactions(b) ==
    /\ m_transactionMap' = m_transactionMap \cup BlockTxs[b]
    /\ m_spent_keys' = m_spent_keys \cup ImagesOf(BlockTxs[b])

\* Mutant: the transactions are copied out of the pool, not taken.
pushBlock_KeepsPool(b) ==
    /\ CanPush(b)
    /\ m_blocks' = Append(m_blocks, b)
    /\ stored' = m_blocks
    /\ IndexTransactions(b)
    /\ UNCHANGED m_transactions

pushBlock(b) ==
    /\ CanPush(b)
    /\ m_blocks' = Append(m_blocks, b)
    /\ stored' = m_blocks
    /\ IndexTransactions(b)
    /\ m_transactions' = m_transactions \ BlockTxs[b]

\* Mutant: a refused block pops transactions it never pushed.
pushBlockFails_PopsAll(b) ==
    /\ ~CanPush(b)
    /\ m_transactionMap' = m_transactionMap \ BlockTxs[b]
    /\ m_spent_keys' = m_spent_keys \ ImagesOf(BlockTxs[b])
    /\ UNCHANGED <<m_blocks, stored, m_transactions>>

\* A refused block gives its transactions back to the pool; only a leak shows.
pushBlockFails(b) ==
    /\ ~CanPush(b)
    /\ IF Leaks(b) THEN IndexTransactions(b)
                   ELSE UNCHANGED <<m_transactionMap, m_spent_keys>>
    /\ UNCHANGED <<m_blocks, stored, m_transactions>>

\* Mutant: the key images stay spent.
popTransactions_KeepsKeyImages(b) ==
    /\ m_transactionMap' = m_transactionMap \ BlockTxs[b]
    /\ UNCHANGED m_spent_keys

popTransactions(b) ==
    /\ m_transactionMap' = m_transactionMap \ BlockTxs[b]
    /\ m_spent_keys' = m_spent_keys \ ImagesOf(BlockTxs[b])

\* Mutant: saveTransactions is forgotten.
popBlock_DropsTransactions ==
    /\ popTransactions(TailId)
    /\ m_blocks' = SubSeq(m_blocks, 1, Size - 1)
    /\ stored' = m_blocks
    /\ UNCHANGED m_transactions

popBlock ==
    /\ m_transactions' = m_transactions \cup BlockTxs[TailId]
    /\ popTransactions(TailId)
    /\ m_blocks' = SubSeq(m_blocks, 1, Size - 1)
    /\ stored' = m_blocks

\* addNewBlock for a block that extends the tail.
AddToMainChain(b) ==
    /\ phase = "idle"
    /\ b \notin m_alternative_chains
    /\ pushBlock(b)
    /\ UNCHANGED <<m_alternative_chains, m_points, switchVars, diskVars>>

RefuseOversizeBlock(b) ==
    /\ phase = "idle"
    /\ b \notin m_alternative_chains
    /\ Leaks(b)
    /\ pushBlockFails(b)
    /\ UNCHANGED <<m_alternative_chains, m_points, switchVars, diskVars>>

-----------------------------------------------------------------------------
(* handle_alternative_block *)

\* Index in Path[b] of the front of the alternative chain that b completes: the
\* walk back from b stops at the first block not in m_alternative_chains.
FrontIndex(b) ==
    CHOOSE k \in 1..Len(Path[b]) :
        /\ \A i \in k..(Len(Path[b]) - 1) : Path[b][i] \in m_alternative_chains
        /\ k = 1 \/ Path[b][k - 1] \notin m_alternative_chains

AltChainTo(b) == SubSeq(Path[b], FrontIndex(b), Len(Path[b]))

SplitHeight(b) == FrontIndex(b) - 1

\* An alternative chain below b hangs off the main chain, below its tail.  (That the
\* front is never the genesis block, the code takes for granted.)
ConnectsToMainChain(b) ==
    /\ SplitHeight(b) > 0
    /\ Prev(b) \in m_alternative_chains =>
           /\ Size > SplitHeight(b)
           /\ m_blocks[SplitHeight(b)] = Path[b][SplitHeight(b)]

\* getBlockCumulativeSize counts only the transactions it can find.
SeenOversize(b) ==
    b \in Oversize /\ BlockTxs[b] \subseteq m_transactionMap \cup m_transactions

AcceptedAsAlternative(b, points) ==
    /\ is_alternative_block_allowed(points, Size, Height(b))
    /\ b \notin BadBlocks /\ b \notin WeakPow
    /\ ~SeenOversize(b)
    /\ Prev(b) \in m_alternative_chains \cup Elems(m_blocks)
    /\ ConnectsToMainChain(b)
    /\ check_block(points, b)
    /\ b \notin m_alternative_chains

\* Mutant: heights are compared instead of cumulative difficulties.
ReorganisationDue_ByHeight(b, points) ==
    is_a_checkpoint(points, b) \/ Size - 1 <= Height(b)

ReorganisationDue(b, points) ==
    is_a_checkpoint(points, b) \/ Work[TailId] < Work[b]

\* Mutant: the new chain may drop transactions.
SwitchPermitted_AnyTransactions(b) ==
    /\ Size > SplitHeight(b)
    /\ ~(Len(AltChainTo(b)) >= PoissonTrigger /\ b \in Improbable)

\* The checks of switch_to_alternative_blockchain that precede any change: the
\* Poisson check, and no main chain transaction may be missing from the new chain.
SwitchPermitted(b) ==
    /\ Size > SplitHeight(b)
    /\ ~(Len(AltChainTo(b)) >= PoissonTrigger /\ b \in Improbable)
    /\ TxsOf(SubSeq(m_blocks, SplitHeight(b) + 1, Size)) \subseteq TxsOf(AltChainTo(b))

IsAlternative(b) ==
    /\ phase = "idle"
    /\ b \notin Elems(m_blocks) /\ b \notin m_alternative_chains
    /\ Prev(b) # TailId

\* The block is refused or orphaned; checkpoints fetched on the way stay.
RefuseAlternative(b, records) ==
    LET points == load_checkpoints_from_dns(m_points, records)
    IN  /\ IsAlternative(b)
        /\ ~AcceptedAsAlternative(b, points)
        /\ m_points' = points
        /\ UNCHANGED <<chainVars, m_alternative_chains, switchVars, diskVars>>

\* The block is kept as an alternative, without a (permitted) reorganisation.
StoreAlternative(b, records) ==
    LET points == load_checkpoints_from_dns(m_points, records)
    IN  /\ IsAlternative(b)
        /\ AcceptedAsAlternative(b, points)
        /\ ~(ReorganisationDue(b, points) /\ SwitchPermitted(b))
        /\ m_points' = points
        /\ m_alternative_chains' = m_alternative_chains \cup {b}
        /\ UNCHANGED <<chainVars, switchVars, diskVars>>

\* The call of switch_to_alternative_blockchain.
EnterSwitch(b, points) ==
    /\ m_alternative_chains' = m_alternative_chains \cup {b}
    /\ phase' = "disconnect"
    /\ altChain' = AltChainTo(b)
    /\ oldChain' = << >> /\ pos' = 1 /\ failedAt' = 0
    /\ discard' = is_a_checkpoint(points, b)
    /\ origin' = m_blocks

BeginSwitch(b, records) ==
    LET points == load_checkpoints_from_dns(m_points, records)
    IN  /\ IsAlternative(b)
        /\ AcceptedAsAlternative(b, points)
        /\ ReorganisationDue(b, points) /\ SwitchPermitted(b)
        /\ m_points' = points
        /\ EnterSwitch(b, points)
        /\ UNCHANGED <<chainVars, callers, diskVars>>

-----------------------------------------------------------------------------
(* switch_to_alternative_blockchain, once its checks have passed *)

\* Mutant: BlockEntry::height of the front was left at zero.
split_height_Unset == 0

split_height == Height(altChain[1])

\* Mutant: push_back for push_front.
Disconnect_Reversed ==
    /\ phase = "disconnect"
    /\ popBlock
    /\ oldChain' = Append(oldChain, TailId)
    /\ phase' = IF Size - 1 > split_height THEN "disconnect" ELSE "connect"
    /\ UNCHANGED <<altChain, pos, failedAt, discard, callers, origin,
                   m_alternative_chains, m_points, diskVars>>

\* One step of "disconnecting old chain".
Disconnect ==
    /\ phase = "disconnect"
    /\ popBlock
    /\ oldChain' = <<TailId>> \o oldChain
    /\ phase' = IF Size - 1 > split_height THEN "disconnect" ELSE "connect"
    /\ UNCHANGED <<altChain, pos, failedAt, discard, callers, origin,
                   m_alternative_chains, m_points, diskVars>>

\* switch_to_alternative_blockchain returns, to the node or to the loop of the switch
\* that started it, which goes on after a success and is left after a failure.
Return(ok) ==
    \/ /\ callers = << >>
       /\ phase' = "idle" /\ pos' = 1
       /\ UNCHANGED <<altChain, oldChain, failedAt, discard, callers, origin>>
    \/ /\ callers # << >>
       /\ LET c == Head(callers)
              more == ok /\ c.pos < Len(c.oldChain)
          IN  /\ altChain' = c.altChain /\ oldChain' = c.oldChain /\ origin' = c.origin
              /\ pos' = IF more THEN c.pos + 1 ELSE 1
              /\ phase' = IF more THEN "requeue" ELSE "finish"
       /\ failedAt' = 0 /\ discard' = FALSE
       /\ callers' = Tail(callers)

\* One step of "connecting new alternative chain".
Connect ==
    /\ phase = "connect"
    /\ pushBlock(altChain[pos])
    /\ \/ /\ pos < Len(altChain)
          /\ pos' = pos + 1
          /\ UNCHANGED phase
       \/ /\ pos = Len(altChain)
          /\ pos' = 1
          /\ phase' = IF discard THEN "finish" ELSE "requeue"
    /\ UNCHANGED <<altChain, oldChain, failedAt, discard, callers, origin,
                   m_alternative_chains, m_points, diskVars>>

\* The failing block and the ones above it are no longer known as alternatives.
ForgetFailed(failed) ==
    m_alternative_chains' =
        m_alternative_chains \ {altChain[i] : i \in failed..Len(altChain)}

\* Mutant: the failed block is tried again and again.
ConnectFails_Retries ==
    /\ phase = "connect"
    /\ pushBlockFails(altChain[pos])
    /\ failedAt' = pos
    /\ UNCHANGED <<phase, pos, altChain, oldChain, discard, callers, origin,
                   m_alternative_chains, m_points, diskVars>>

\* Mutant: the old chain is not returned when nothing of the new one was connected.
ConnectFails_NoReturn ==
    /\ phase = "connect"
    /\ pushBlockFails(altChain[pos])
    /\ failedAt' = pos
    /\ pos' = 1
    /\ phase' = IF Size > split_height THEN "rollbackPop" ELSE "idle"
    /\ UNCHANGED <<altChain, oldChain, discard, callers, origin,
                   m_alternative_chains, m_points, diskVars>>

\* A block of the alternative chain does not connect: rollback_blockchain_switching.
ConnectFails ==
    /\ phase = "connect"
    /\ pushBlockFails(altChain[pos])
    /\ failedAt' = pos
    /\ pos' = 1
    /\ phase' = IF Size > split_height THEN "rollbackPop" ELSE "rollbackPush"
    /\ UNCHANGED <<altChain, oldChain, discard, callers, origin,
                   m_alternative_chains, m_points, diskVars>>

\* One step of "remove failed subchain".
RollbackPop ==
    /\ phase = "rollbackPop"
    /\ popBlock
    /\ phase' = IF Size - 1 > split_height THEN "rollbackPop" ELSE "rollbackPush"
    /\ UNCHANGED <<altChain, oldChain, pos, failedAt, discard, callers, origin,
                   m_alternative_chains, m_points, diskVars>>

\* One step of "return back original chain".
RollbackPush ==
    /\ phase = "rollbackPush"
    /\ pushBlock(oldChain[pos])
    /\ \/ /\ pos < Len(oldChain)
          /\ pos' = pos + 1
          /\ UNCHANGED <<phase, altChain, oldChain, failedAt, discard, callers, origin,
                         m_alternative_chains>>
       \/ /\ pos = Len(oldChain)
          /\ ForgetFailed(failedAt)
          /\ Return(FALSE)
    /\ UNCHANGED <<m_points, diskVars>>

\* "PANIC!!! failed to add (again) block": the rest of the old chain is dropped,
\* and the caller ignores the result.
RollbackPanics ==
    /\ phase = "rollbackPush"
    /\ pushBlockFails(oldChain[pos])
    /\ ForgetFailed(failedAt)
    /\ Return(FALSE)
    /\ UNCHANGED <<m_points, diskVars>>

\* One step of "pushing old chain as alternative chain": handle_alternative_block
\* for an ex-main block, with fresh checkpoints from DNS.
Requeue(records) ==
    LET points == load_checkpoints_from_dns(m_points, records)
    IN  /\ phase = "requeue"
        /\ AcceptedAsAlternative(oldChain[pos], points)
        /\ ~ReorganisationDue(oldChain[pos], points)
        /\ m_points' = points
        /\ m_alternative_chains' = m_alternative_chains \cup {oldChain[pos]}
        /\ \/ /\ pos < Len(oldChain)
              /\ pos' = pos + 1
              /\ UNCHANGED phase
           \/ /\ pos = Len(oldChain)
              /\ pos' = 1
              /\ phase' = "finish"
        /\ UNCHANGED <<chainVars, altChain, oldChain, failedAt, discard, callers, origin,
                       diskVars>>

\* The first ex-main block that is refused, or kept although a switch to it was due
\* and not permitted, ends the loop.
RequeueStops(records) ==
    LET points == load_checkpoints_from_dns(m_points, records)
    IN  /\ phase = "requeue"
        /\ \/ /\ ~AcceptedAsAlternative(oldChain[pos], points)
              /\ UNCHANGED m_alternative_chains
           \/ /\ AcceptedAsAlternative(oldChain[pos], points)
              /\ ReorganisationDue(oldChain[pos], points) /\ ~SwitchPermitted(oldChain[pos])
              /\ m_alternative_chains' = m_alternative_chains \cup {oldChain[pos]}
        /\ m_points' = points
        /\ pos' = 1
        /\ phase' = "finish"
        /\ UNCHANGED <<chainVars, altChain, oldChain, failedAt, discard, callers, origin,
                       diskVars>>

\* A checkpoint that has just arrived makes an ex-main block start a switch of its own.
RequeueSwitches(records) ==
    LET points == load_checkpoints_from_dns(m_points, records)
    IN  /\ phase = "requeue"
        /\ AcceptedAsAlternative(oldChain[pos], points)
        /\ ReorganisationDue(oldChain[pos], points) /\ SwitchPermitted(oldChain[pos])
        /\ m_points' = points
        /\ callers' = <<[altChain |-> altChain, oldChain |-> oldChain,
                         origin |-> origin, pos |-> pos]>> \o callers
        /\ EnterSwitch(oldChain[pos], points)
        /\ UNCHANGED <<chainVars, diskVars>>

\* Mutant: the new main chain stays listed as an alternative.
Finish_KeepsEntries ==
    /\ phase = "finish"
    /\ Return(TRUE)
    /\ UNCHANGED <<chainVars, m_alternative_chains, m_points, diskVars>>

\* "removing all_chain entries from alternative chain", and the return.
Finish ==
    /\ phase = "finish"
    /\ m_alternative_chains' = m_alternative_chains \ Elems(altChain)
    /\ Return(TRUE)
    /\ UNCHANGED <<chainVars, m_points, diskVars>>

-----------------------------------------------------------------------------
(* Stop, crash and start of the daemon *)

\* core::deinit, first half: tx_memory_pool::deinit writes the pool.
StorePool ==
    /\ phase = "idle" /\ stops < MaxStops
    /\ poolFile' = m_transactions
    /\ phase' = "deinit"
    /\ UNCHANGED <<chainVars, m_alternative_chains, m_points, altChain, oldChain, pos,
                   failedAt, discard, callers, origin, cacheFile, stops>>

\* What is only in memory is gone.
LoseMemory ==
    /\ phase' = "down"
    /\ m_transactionMap' = {} /\ m_spent_keys' = {} /\ m_transactions' = {}
    /\ m_alternative_chains' = {} /\ m_points' = {}
    /\ altChain' = << >> /\ oldChain' = << >> /\ origin' = << >>
    /\ pos' = 1 /\ failedAt' = 0 /\ discard' = FALSE /\ callers' = << >>
    /\ stops' = stops + 1

\* core::deinit, second half: storeCache, with the tail it was taken at.
StoreCache ==
    /\ phase = "deinit"
    /\ cacheFile' = [tail |-> TailId, txs |-> m_transactionMap, keys |-> m_spent_keys]
    /\ stored' = m_blocks
    /\ LoseMemory
    /\ UNCHANGED <<m_blocks, poolFile>>

\* The last push or pop may be lost, and a file that deinit is writing is unreadable.
Crash ==
    /\ phase # "down" /\ stops < MaxStops
    /\ m_blocks' \in {m_blocks, stored}
    /\ stored' = m_blocks'
    /\ poolFile' \in {poolFile} \cup (IF phase = "deinit" THEN {{}} ELSE {})
    /\ cacheFile' \in {cacheFile} \cup (IF phase = "deinit" THEN {NoCache} ELSE {})
    /\ LoseMemory

\* Mutant: the contradicted checkpoint itself counts as the last valid one.
lastValidCheckpointHeight_Inclusive(points) ==
    LET wrong == {p \in points : Height(p) < Size /\ m_blocks[Height(p) + 1] # p}
        valid == {Height(p) : p \in {q \in points : \A w \in wrong : Height(q) <= Height(w)}}
    IN  IF wrong = {} THEN Size - 1
        ELSE CHOOSE h \in valid \cup {0} : \A k \in valid \cup {0} : k <= h

\* checkCheckpoints: the height of the last checkpoint below the first one the
\* stored chain contradicts, or the whole chain when it contradicts none.
lastValidCheckpointHeight(points) ==
    LET wrong == {p \in points : Height(p) < Size /\ m_blocks[Height(p) + 1] # p}
        valid == {Height(p) : p \in {q \in points : \A w \in wrong : Height(q) < Height(w)}}
    IN  IF wrong = {} THEN Size - 1
        ELSE CHOOSE h \in valid \cup {0} : \A k \in valid \cup {0} : k <= h

\* Mutant: any cache file is taken.
CacheUsable_AnyTail == cacheFile # NoCache

\* BlockCacheSerializer: the cache counts only if it was taken at the stored tail.
CacheUsable == cacheFile # NoCache /\ cacheFile.tail = TailId

\* rollbackBlockchainTo: the transactions of the blocks above top, which are lost.
RemovedTxs(top) == TxsOf(SubSeq(m_blocks, top + 2, Size))

\* core::init and the daemon's --rollback option: the pool is read (less what has
\* expired), the indices come from the cache if it was taken at the stored tail and
\* are rebuilt otherwise, and rollbackBlockchainTo removes the blocks above "top".
Start(records, expired, rollback) ==
    LET points == load_checkpoints_from_dns(HardCheckpoints, records)
        valid == lastValidCheckpointHeight(points)
        top == IF rollback < valid THEN rollback ELSE valid
    IN  /\ phase = "down"
        /\ m_transactions' = poolFile \ expired
        /\ m_blocks' = SubSeq(m_blocks, 1, top + 1)
        /\ stored' = IF top + 1 < Size THEN SubSeq(m_blocks, 1, top + 2) ELSE m_blocks
        /\ m_transactionMap' =
               (IF CacheUsable THEN cacheFile.txs ELSE TxsOf(m_blocks)) \ RemovedTxs(top)
        /\ m_spent_keys' =
               (IF CacheUsable THEN cacheFile.keys ELSE ImagesOf(TxsOf(m_blocks)))
                   \ ImagesOf(RemovedTxs(top))
        /\ m_points' = points
        /\ phase' = "idle"
        /\ UNCHANGED <<m_alternative_chains, altChain, oldChain, pos, failedAt, discard,
                       callers, origin, diskVars>>

-----------------------------------------------------------------------------
Init ==
    /\ m_blocks = <<Genesis>> /\ stored = <<Genesis>>
    /\ m_transactionMap = {} /\ m_spent_keys = {} /\ m_transactions = {}
    /\ m_alternative_chains = {}
    /\ \E records \in SUBSET DnsCheckpoints :
          m_points = load_checkpoints_from_dns(HardCheckpoints, records)
    /\ phase = "idle" /\ altChain = << >> /\ oldChain = << >> /\ origin = << >>
    /\ pos = 1 /\ failedAt = 0 /\ discard = FALSE /\ callers = << >>
    /\ poolFile = {} /\ cacheFile = NoCache /\ stops = 0

SwitchStep ==
    \/ Disconnect \/ Connect \/ ConnectFails
    \/ RollbackPop \/ RollbackPush \/ RollbackPanics
    \/ \E records \in SUBSET DnsCheckpoints :
          Requeue(records) \/ RequeueStops(records) \/ RequeueSwitches(records)
    \/ Finish

Next ==
    \/ \E t \in Tx, keptByBlock \in BOOLEAN : add_new_tx(t, keptByBlock)
    \/ \E t \in Tx : removeExpiredTransactions(t)
    \/ \E b \in Block : AddToMainChain(b) \/ RefuseOversizeBlock(b)
    \/ \E b \in Block, records \in SUBSET DnsCheckpoints :
          \/ RefuseAlternative(b, records)
          \/ StoreAlternative(b, records)
          \/ BeginSwitch(b, records)
    \/ SwitchStep
    \/ StorePool \/ StoreCache \/ Crash
    \/ \E records \in SUBSET DnsCheckpoints, expired \in SUBSET poolFile,
          rollback \in 0..(Size - 1) : Start(records, expired, rollback)

\* The thread that reorganises the chain is not blocked by anything: it holds the
\* mutexes it needs.  Deliveries, stops and starts happen or not.
Spec == Init /\ [][Next]_vars /\ WF_vars(SwitchStep)

-----------------------------------------------------------------------------
(* Properties *)

InMemory == phase # "down"

SpendsOnce(chain) ==
    \A i, j \in DOMAIN chain : \A t \in BlockTxs[chain[i]], u \in BlockTxs[chain[j]] :
        (i # j \/ t # u) => KeyImages[t] \cap KeyImages[u] = {}

\* No key image is spent twice on the main chain, not even across a reorganisation,
\* a failed one, a crash or a start from the cache (pushBlock, popBlock, init).
NoDoubleSpend == SpendsOnce(m_blocks)

\* m_transactionMap and m_spent_keys are what rebuildCache would compute from
\* m_blocks, at every step of a reorganisation and after every start.
IndexConsistency ==
    InMemory => /\ m_transactionMap = TxsOf(m_blocks)
                /\ m_spent_keys = ImagesOf(TxsOf(m_blocks))

\* The indices never miss what the main chain holds, whatever a refused block left in
\* them: a spent key image is always found (checkTransactionInputs relies on it).
IndexCoversChain ==
    InMemory => /\ TxsOf(m_blocks) \subseteq m_transactionMap
                /\ ImagesOf(TxsOf(m_blocks)) \subseteq m_spent_keys

\* core::add_new_tx calls what haveTransaction finds "already in blockchain".
IndexedMeansOnChain ==
    InMemory => m_transactionMap \subseteq TxsOf(m_blocks)

\* core::add_new_tx: "Locking on m_mempool and m_blockchain closes possibility to add
\* tx to memory pool which is already in blockchain".
PoolChainDisjoint ==
    InMemory => m_transactions \cap m_transactionMap = {}

\* rollback_blockchain_switching can always push the old chain back.
RollbackNeverPanics ==
    phase = "rollbackPush" => CanPush(oldChain[pos])

\* handle_alternative_block called for an ex-main block never starts a second switch
\* inside the first one, which still holds iterators into m_alternative_chains, as
\* long as no checkpoint arrives.
NoNestedSwitch == callers = << >>

\* Between two blocks, no block is both on the main chain and an alternative
\* (haveBlock would hide one of them).
AlternativesOffMainChain ==
    phase = "idle" => m_alternative_chains \cap Elems(m_blocks) = {}

\* "make sure alt chain doesn't somehow start past the end of the main chain": no
\* known alternative hangs off the tail, where addNewBlock would call it known.
NoAlternativeOnTail ==
    phase = "idle" => \A b \in m_alternative_chains : Prev(b) # TailId

\* The main chain a switch found is replaced, restored or (a panic) cut short.
SwitchSettles ==
    phase \in {"connect", "rollbackPush"} /\ phase' \in {"requeue", "finish", "idle"}

\* A reorganisation that fails leaves the chain it started from.
RollbackRestores ==
    [][SwitchSettles /\ phase = "rollbackPush" => m_blocks' = origin]_vars

\* A reorganisation, completed or failed, takes no transaction off the main chain.
ReorganisationKeepsTransactions ==
    [][SwitchSettles => TxsOf(origin) \subseteq m_transactionMap']_vars

\* Only a checkpoint can move the main chain to a chain with less work.
WorkNeverDecreases ==
    [][SwitchSettles /\ ~discard => Work[LastOf(m_blocks')] >= Work[LastOf(origin)]]_vars

\* A block the main chain holds at a checkpoint is never reorganised away, even when
\* the checkpoint arrived from DNS after the competing chain was stored.
CheckpointsAreFinal ==
    [][SwitchSettles =>
          \A i \in DOMAIN origin : origin[i] \in m_points => origin[i] \in Elems(m_blocks')]_vars

\* Whatever was stored, the chain that init settles on obeys every checkpoint known.
StartObeysCheckpoints ==
    [][(phase = "down" /\ phase' = "idle")
          => \A p \in m_points' : Height(p) < Len(m_blocks') => m_blocks'[Height(p) + 1] = p]_vars

\* The chain that callers see: during a switch, which holds the mutexes, the one that
\* the outermost switch began with.
Visible ==
    IF callers # << >> THEN LastOf(callers).origin
    ELSE IF phase \in Reorganising THEN origin ELSE m_blocks

\* A checkpoint that arrives, or the leak of an oversize block, may stop a rollback.
L == INSTANCE Ledger WITH
         ledger <- Visible, running <- InMemory,
         Disturbed <- DnsCheckpoints # {} \/ Oversize # {}

\* With all its pops, pushes, rollbacks and requeued blocks a reorganisation is, for those
\* who wait for the mutex, one step that loses no confirmed transaction; so is every other
\* operation (addNewBlock, add_new_tx, init), and every chain seen is free of double spends.
ImplementsLedger == L!Spec

\* A reorganisation ends, one way or the other (or with the process).
ReorganisationEnds == phase \in Reorganising ~> phase \notin Reorganising
=============================================================================
