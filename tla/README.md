# A formal model of the Qwertycoin node and wallet

TLA+ modules beside the C++ sources in `src/`. TLC model-checks them on small
instances; TLAPS proves the central results for every instance. Definitions keep
the names of the code; `PROJECT.json` maps each one to its lines.

## 1. The system and its parts

A node keeps one **main chain** of blocks, side branches that may overtake it, and a
**pool** of transactions that no block holds yet. Nodes exchange both over **connections**.
A **wallet** follows a node's chain and pool and keeps the outputs it owns.

| Part | State | Operations | Module |
|---|---|---|---|
| Blockchain, checkpoints, block file (`lib/CryptoNoteCore`) | `m_blocks`, indices, `m_alternative_chains`, `m_points`, files | addNewBlock, switch and rollback, init, deinit | `Blockchain`, `Ledger` |
| Transaction pool (`TransactionPool.cpp`) | entries, key image sets, TTL, recently deleted, validated | add_tx, take_tx, expiry, templates, files | `TransactionPool` |
| Protocol handler and P2P (`CryptoNoteProtocolHandler.cpp`, `NetNode.cpp`) | per connection: state, needed and requested objects, heights | handshake, timed sync, nine notifications | `CryptoNoteProtocol` |
| Synchronizer (`lib/Transfers/BlockchainSynchronizer.cpp`) | current and future state, consumers, tasks, two mutexes | start, stop, sync blocks, sync pool | `BlockchainSynchronizer` |
| Transfers (`TransfersConsumer.cpp`, `TransfersContainer.cpp`) | transactions, available, unconfirmed and spent outputs | new blocks, detach, pool updates, own payments | `TransfersConsumer` |

How they meet: the protocol handler gives blocks to the Blockchain, which takes
transactions out of the pool and puts them back; the synchronizer asks a node for blocks
and pool changes, and hands them to the consumers; the consumer keeps the containers of
the wallet. Each module models the neighbours it needs by what they do to it:
`TransactionPool` has a chain that pushes, refuses and pops blocks, `CryptoNoteProtocol`
a core that accepts valid blocks, `TransfersConsumer` the node and the part of the
synchronizer that calls it.

## 2. The modules

`MC...` modules hold the instances, `...Proofs` and `BlockchainRefinement` the theorems.

**Blockchain.** A block or transaction is an identity. `Path[b]` is the chain of ids from
the genesis block to `b` (a hash fixes its ancestry), `Work[b]` its cumulative difficulty,
`BlockTxs`, `KeyImages` and `Ring` what blocks and transactions refer to. What a single
check decides about a block is a set: `BadBlocks`, `WeakPow`, `Oversize`, `BadReward`,
`Improbable`.
`addNewBlock` and `add_new_tx` hold both mutexes, so each is one action when it does not
reorganise (`AddToMainChain`, `RefuseOversizeBlock`, `RefuseAlternative`,
`StoreAlternative`, `add_new_tx`). A reorganisation is cut into one step per block,
because the process may die between two of them: `BeginSwitch`, `Disconnect`, `Connect`,
`ConnectFails`, `RollbackPop`, `RollbackPush`, `RollbackPanics`, `Requeue`,
`RequeueStops`, `RequeueSwitches`, `Finish`. Meanwhile `phase` keeps every other operation
out, as the mutexes do. Requeueing an ex-main block is a call of
`handle_alternative_block`, which fetches DNS checkpoints and may start a second switch
inside the first; `callers` is the stack of switches that wait, `Return` resumes the top.
`StorePool` and `StoreCache` are the two halves of `core::deinit`. `Crash` may strike in
any phase: `SwappedVector` writes its count last, into a stream buffer that only the next
write flushes, so a crash leaves `m_blocks` or `stored`, the chain before its last
change. `Start` is `core::init` with the daemon's `--rollback`.

**Ledger** is what the Blockchain promises: one valid chain that changes in single steps,
each of them to a chain that confirms at least the same transactions. The refinement
mapping shows the outside world, during a switch, the chain that the outermost switch
began with (`Visible`): the mutexes hide the rest.

**TransactionPool.** An entry has `kept` (keptByBlock), its arrival time and the two
cached blocks `maxUsedBlock` and `lastFailedBlock`. `AddTx` is `core::add_new_tx`;
`BeginBlock`, `PushBlock`, `RefuseBlock`, `PopBlock`, `EndBlock` are what addNewBlock does
to the pool, with the chain lock held from first to last; `Idle` is the timer;
`BeginFill`, `FillFusion`, `EndFusion`, `FillFees`, `EndFill` are `fill_block_template`, which
holds the pool's lock but not the chain's; `GetDifference` answers wallets; `Restart` is deinit and
init with the pool file as written, or none. A lookup beyond the end of the chain in
`checkTransactionInputs` (line 428, a failed assert in debug builds) is a nondeterministic
choice. Ages are differences modulo `WordSize`.

**CryptoNoteProtocol.** Every node runs the same code. A connection has a context at
either end (`state`, `remote`, `last`, `needed`, `requested`) and a queue of messages in
either direction. One handler reads one message at a time and gives up the dispatcher only
where the code does: during the ping of `handle_handshake`, and at the `yield` between two blocks
of `processObjects` (`ContinueProcessing`). `Finish` is the rest of the round of
`connectionHandler`: answers, shutdown, and the start of a synchronisation. Other threads
hand relays to the dispatcher (`FindBlock`, `SendTransaction`, then `Relay`). `Break` is
a lost connection: what was not written is lost, the other end reads the rest.

**BlockchainSynchronizer.** The working thread, the thread that calls start and stop, the
node's callbacks, and a thread in `getConsumerState`. A critical section is one step
unless it waits for a second mutex; the holders of `m_stateMutex` and `m_consumersMutex`
are variables. Each request to the node and each call of a consumer may fail.

**TransfersConsumer.** One container, with outputs available, unconfirmed and spent,
which output of several with one key is shown, and the transactions by height. A batch
of blocks is `NewBlocks` (with detach), `Preprocess` in any order (the worker threads) or
`PreprocessFails`, `ProcessTransaction` in the order of the chain, `EndNewBlocks`. `PoolTxAdded`
and `PoolTxsDeleted` are the pool synchronisation; `Pay`, `PaymentRelayed` and `PaymentFailed` the
wallet's own transactions, which enter the container before the node has them. `Restart`
forgets what is not stored. `stranded` is a history variable: what a batch had processed
when an exception of `processTransaction` ended it (see the end of section 4), until it
is detached or processed again at its height.

**Abstractions.** Difficulty is a function of the block, validity of a block is fixed.
Coinbase and output indices are part of the block identity. In `Blockchain`, age and TTL
are "any transaction may expire"; `TransactionPool` has the clock. The records DNS returns
may differ at every fetch. Signatures and keys are identities, and so are
amounts except in `TransfersConsumer`, where an input finds its output by key image and amount.

## 3. Runs

| Run | Instance | Shows |
|---|---|---|
| `fork` | two branches, double spends, a wrong reward, one stop or crash | consistency of chain, indices and pool at every step of a reorganisation; it restores the old chain or completes; it ends; no switch is nested while no checkpoint arrives; the whole implements `Ledger` |
| `zone` | DNS checkpoints on and against the main chain, also in mid-switch | a checkpointed block is never reorganised away; indices and alternatives stay consistent and every switch ends, nested ones included |
| `restart` | size, proof of work, Poisson check, unlock window; two stops or crashes; a DNS checkpoint against the stored chain | what refused blocks leave behind never hides a spent key image; indices from cache or rebuilt cover the chain; the chain obeys the checkpoints |
| `mempool` | a branch of two blocks replaces one, two transactions with one key image, one with a multisignature input and a TTL | the pool's indices are exact, relayed transactions do not conflict, its internal checks never fail, only age loses a transaction |
| `sync` | two consumers, a node that goes to a shorter branch and back, two disturbances | consumers see one chain; announcements lead to caught-up consumers; `stop` returns; tasks are answered |
| `transfers` | seven transactions, two of them spend one output, three pay to one key in two amounts; three branches; a batch with a transaction of the wallet before the one that throws | outputs belong to transactions held, each is counted once; the result is that of a rescan and heights agree, except for what an interrupted batch left |
| `protocol` | five networks of two or three nodes: behind two peers, between two, behind one with a break, a reorganisation or a transaction | the asserts of `start_sync`; one answer outstanding; batches connect; all nodes end with one chain and one pool |
| `panic_dns`, `leak`, `mempool_cache`, `ask_state`, `protocol_stall` | as above | the five disagreements of section 4 |

**Bounds.** `Blockchain`: eleven or twelve blocks give two or three branches long enough
for each to overtake another once, to fail at its first, a middle or its last block, and to be
checkpointed below, at and above the split; `MaxStops` bounds stops and crashes (two are needed
for a file that is older than the chain). `zone`, where a panic is reachable, checks only
properties that survive one. `TransactionPool`: `MaxTime = 1` with lifetimes 0 and 1 makes
a relayed transaction and one with a TTL expire, and a kept one not. Synchronizer:
`Dense` and `Batch` make histories sparse and answers partial on chains of four blocks;
`MaxDisturbances` counts failures, stops, removals, tasks and pool changes together, two
being enough for one to meet the consequences of another. Transfers: `MaxSteps` bounds
payments, pool changes, failures and restarts together; the node moves only to more work.
Four steps are enough for every exclusion of `LikeARescan` and `HeightsAgree` to be needed but one:
no instance is long enough for `m_currentHeight` to stay above a shorter branch. Protocol: `IdsCount` and
`BatchCount` make chain entries and batches shorter than the chains; a connection breaks,
or a timed sync crosses other messages, once per network.
The synchronizer and the transfers runs switch TLC's deadlock check off: a stopped synchronizer
and a wallet whose bounded steps are used up have nothing left to do.

**Fairness.** `Blockchain`: only `WF(SwitchStep)`, as the thread in a reorganisation holds
every mutex it needs. Synchronizer: the working thread, the join in `stop`, a caller
that waits, the node's callbacks and a node that ends its own catching up; failures and
calls need not happen. Protocol: each connection's handler, the connection maker, the timed sync loop and
the dispatcher's queue, which are loops of the program; blocks, transactions and breaks
need not happen. `AnnouncementsArrive` is about announcements after which nothing failed:
an error leaves the synchronizer idle until the next one. `Converges` and
`TransactionsSpread` hold because the disturbances are finite in number.

## 4. Where the code disagrees with itself

* `panic_dns`: a DNS checkpoint that contradicts the main chain arrives with the block
  that starts a switch; the switch fails; the rollback is refused by that checkpoint
  ("PANIC!!! failed to add (again) block"), and the caller ignores it. Alternatives may
  then follow the tail: known to addNewBlock, their children refused until a restart.
* `leak`: a block refused for its size leaves its transactions indexed; the next
  delivery of one is answered "is already in blockchain".
* `mempool_cache`: `m_validated_transactions` is never cleared, so a template may offer a
  transaction whose key image the chain has spent since it was validated.
* `ask_state`: `getConsumerState` and the working thread take the two mutexes of the
  synchronizer in opposite orders; with a task waiting both wait for ever, where a test
  expects an exception.
* `protocol_stall`: when a peer's chain is replaced by a heavier one that is exactly one
  block shorter, while another peer delivers the blocks still needed,
  `request_missing_objects` meets its "final condition failed!", its result is ignored, and
  the connection never leaves `state_synchronizing`.

One more is not a run of its own but an exclusion that two properties of `transfers` state.
When `processTransaction` throws (TransfersConsumer.cpp:336-338; for example on an input that an
unconfirmed payment has spent already), the transactions before it in the batch stay in the
container, and `m_currentHeight` where they took it, but `SynchronizationState` does not advance.
If the node then goes to another branch nothing is detached, and that branch may have one
of these transactions at another height, or the pool may have it again: the assert of
`processOutputs` (line 670) fails, and without asserts the container keeps the old height.
`HeightsAgree` and `LikeARescan` hold for all transactions but these (`stranded`); without the
exclusion the same instance violates both. `LikeARescan` leaves out two more cases: of several
outputs with one key the order of the preparing threads decides which is found, and
`createTransfers` drops the ones behind a repeated key; and `markTransactionConfirmed` does not
look again for inputs whose outputs were unknown when the transaction came from the pool (`early`).

## 5. What is proved

All for arbitrary constants, from the named assumptions of `Blockchain` (paths are
prefix-closed, every transaction has a key image, one checkpoint per height, limits
have their types) and of `TransactionPool` (types, and key images are not outputs).

`BlockchainProofs`, with no further condition: `TypeCorrect`, `DoubleSpendSafety`
(`NoDoubleSpend`), `IndexCoverage` (`IndexCoversChain`), `StartCheckpointSafety`
(`StartObeysCheckpoints`). `NoDoubleSpend` is not inductive: a push consults
`m_spent_keys`, so the indices must cover the chain (`Covers`); a pop erases by block, so
two positions must share nothing (`PositionsDisjoint`); a start may take the indices from
the cache, so the cache must cover the path to the tail it names (`CacheCovers`), which
needs the chain to be the path to its last block (`GoodChain`); a crash may bring back
`stored`, which must be good too; and a popped chain must not become empty, in a nested
switch or in the one it returns to (`SwitchInv`). `IInv` is their conjunction
(`Invariance`), shown action by action on lemmas for pushBlock (`PushStep`), a refused
block (`FailStep`), popBlock (`PopStep`) and the return from a switch (`ReturnStep`).

`BlockchainRefinement`: `Refinement` is `Spec => ImplementsLedger`. Steps inside a switch
are stutters of `Ledger`, the last one is its `Advance`; that needs the chains switches
began with to be good (`OriginsInvariance`), and, where nothing disturbs a rollback, the
exact outcome of a failed switch. The theorems `Calm...` assume `Calm`: no DNS checkpoints
and no oversize blocks, the two causes of section 4. Then `IndexConsistency`,
`RollbackNeverPanics`, `RollbackRestores` and `ReorganisationKeepsTransactions` hold.
Their invariant `CalmInv` says that the indices are exact and every block passed the checks of pushBlock
that depend on what is below it (`ChainCalm`); how far a switch has come, that the old
chain is in place below the split, and that what it popped is in the pool or on the new chain
(`SwitchCalm`); and that no nested switch began with fewer transactions than the one that
waits for it (`StackCalm`). Outside `Calm`, `Ledger` allows `Lose`, a step to any valid chain.

`TransactionPoolProofs`: `PoolIndicesExact`, `PoolRelayedNeverConflict`,
`PoolBookkeepingNeverFails`. A removal finds what it erases only if the indices are exact,
and an addition keeps them exact only if no relayed transaction conflicts, so the three
are proved together (`PoolInvariance`), with the validated set inside the pool and with
no block processed while a template is filled.

Only model-checked: everything under fairness (`ReorganisationEnds`, `AnnouncementsArrive`,
`StopReturns`, `TasksAnswered`, `Converges`, `TransactionsSpread`), `CheckpointsAreFinal`,
`WorkNeverDecreases`, `PoolChainDisjoint`, the properties of alternatives,
`OnlyAgeLosesTransactions`, and all of `BlockchainSynchronizer`, `TransfersConsumer`
and `CryptoNoteProtocol`.

## 6. Not modelled

* **Blockchain**: checkpoint files, the rollback to an upgrade height in `init`, output
  indices and multisignature outputs, optional explorer indices,
  `resetAndSetGenesisBlock`. A pool file older than the chain brings a confirmed transaction
  back into the pool: `Blockchain` has this behaviour, and only `NoDoubleSpend` is checked of it.
* **SwappedVector**: its item cache and offsets. What a crash leaves is an assumption of
  `Blockchain` (`stored`), read off push_back and pop_back.
* **Pool**: payment id and timestamp indices; fee and fusion rules (numbers of the instance);
  a clock that is set back.
* **Protocol**: refused blocks and transactions, transactions carried by blocks, bans and
  fail scores, a second connection between two nodes, peer lists, the peer count and its observers, version checks, message sizes, time-outs,
  the write queue's limit, shutdown of the server. Forks deeper than one chain entry.
* **Wallet side**: several containers, unlock times, multisignature outputs, stored
  formats, balances, delayed transactions, readers of a container on other threads.
* **Miner, upgrade detector, message queue, node proxies, explorer**: control of their
  own, each meeting the modelled parts in one call only; the upgrade votes need windows of
  blocks too long to explore.
* **Dispatcher**: platform code; its effect, one context until it yields, is built in.
* **Currency, difficulty, cryptography, serialization, RPC, HTTP, JSON, consoles,
  logging**: arithmetic, data formats and I/O without control. They are most of the
  lines of the repository.
