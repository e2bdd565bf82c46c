-------------------------- MODULE BlockchainProofs --------------------------
EXTENDS Blockchain, TLAPS, SequenceTheorems, NaturalsInduction, WellFoundedInduction

\* The chain is the path to its last block, and spends no key image twice.
GoodChain(chain) ==
    /\ chain \in Seq(Block) /\ Len(chain) > 0
    /\ chain = Path[LastOf(chain)]
    /\ SpendsOnce(chain)

\* The two indices hold at least what the chain holds.
Covers(txs, keys, chain) ==
    TxsOf(chain) \subseteq txs /\ ImagesOf(TxsOf(chain)) \subseteq keys

CacheCovers ==
    cacheFile # NoCache => Covers(cacheFile.txs, cacheFile.keys, Path[cacheFile.tail])

\* A switch that waits has both its lists.
Suspended(c) ==
    /\ Len(c.altChain) > 0 /\ Height(c.altChain[1]) > 0
    /\ Len(c.oldChain) > 0 /\ c.pos > 0

\* Where the thread that reorganises the chain is in its two lists.
SwitchInv ==
    /\ \A i \in DOMAIN callers : Suspended(callers[i])
    /\ phase \in Reorganising => Len(altChain) > 0 /\ split_height > 0
    /\ phase \in {"disconnect", "rollbackPop"} => Size > split_height /\ pos = 1
    /\ phase \in Reorganising \ {"disconnect"} => Len(oldChain) > 0
    /\ phase = "connect" => pos <= Len(altChain)
    /\ phase \in {"rollbackPush", "requeue"} => pos <= Len(oldChain)
    /\ phase \in Reorganising => pos > 0

IInv ==
    /\ TypeOK
    /\ GoodChain(m_blocks) /\ GoodChain(stored)
    /\ InMemory => Covers(m_transactionMap, m_spent_keys, m_blocks)
    /\ CacheCovers
    /\ SwitchInv

-----------------------------------------------------------------------------
(* Sequences of blocks and what they hold *)

\* What TxsOf collects.
LEMMA TxsOfMember ==
    ASSUME NEW s, NEW t
    PROVE  t \in TxsOf(s) <=> \E i \in DOMAIN s : t \in BlockTxs[s[i]]
BY DEF TxsOf

\* What ImagesOf collects.
LEMMA ImagesOfMember ==
    ASSUME NEW txs, NEW k
    PROVE  k \in ImagesOf(txs) <=> \E t \in txs : k \in KeyImages[t]
BY DEF ImagesOf

\* SubSeq(s, 1, n) is s cut off after n.
LEMMA PrefixProperties ==
    ASSUME NEW s \in Seq(Block), NEW n \in 1..Len(s)
    PROVE  /\ SubSeq(s, 1, n) \in Seq(Block)
           /\ Len(SubSeq(s, 1, n)) = n
           /\ DOMAIN SubSeq(s, 1, n) = 1..n
           /\ \A i \in 1..n : SubSeq(s, 1, n)[i] = s[i]
           /\ LastOf(SubSeq(s, 1, n)) = s[n]
BY DEF LastOf

\* A prefix of a good chain is a good chain (popBlock, removeLastBlock).
LEMMA GoodPrefix ==
    ASSUME NEW c, GoodChain(c), NEW n \in 1..Len(c)
    PROVE  GoodChain(SubSeq(c, 1, n))
<1>1. c \in Seq(Block) /\ LastOf(c) \in Block
  BY DEF GoodChain, LastOf
<1>2. SubSeq(c, 1, n) = Path[LastOf(SubSeq(c, 1, n))]
  <2>1. Path[LastOf(c)] = c
    BY DEF GoodChain
  <2>2. Path[Path[LastOf(c)][n]] = SubSeq(Path[LastOf(c)], 1, n)
    BY <1>1, <2>1, PathAssumption, Zenon
  <2> QED
    BY <1>1, <2>1, <2>2, PrefixProperties
<1>3. SpendsOnce(SubSeq(c, 1, n))
  <2>1. DOMAIN c = 1..Len(c) /\ DOMAIN SubSeq(c, 1, n) = 1..n
    BY <1>1, PrefixProperties
  <2>2. \A i \in 1..n : i \in DOMAIN c /\ SubSeq(c, 1, n)[i] = c[i]
    BY <1>1, <2>1, PrefixProperties
  <2> QED
    BY <2>1, <2>2 DEF GoodChain, SpendsOnce
<1> QED
  BY <1>1, <1>2, <1>3, PrefixProperties DEF GoodChain

\* Two positions of a good chain share neither transactions nor key images.
LEMMA PositionsDisjoint ==
    ASSUME NEW c, GoodChain(c), NEW i \in DOMAIN c, NEW j \in DOMAIN c, i # j
    PROVE  /\ BlockTxs[c[i]] \cap BlockTxs[c[j]] = {}
           /\ ImagesOf(BlockTxs[c[i]]) \cap ImagesOf(BlockTxs[c[j]]) = {}
<1>1. c[i] \in Block /\ c[j] \in Block
  BY DEF GoodChain
<1>2. \A t \in BlockTxs[c[i]], u \in BlockTxs[c[j]] : KeyImages[t] \cap KeyImages[u] = {}
  BY DEF GoodChain, SpendsOnce
<1>3. \A t \in BlockTxs[c[i]] : t \in Tx /\ KeyImages[t] # {}
  BY <1>1, TxAssumption
<1> QED
  BY <1>2, <1>3, ImagesOfMember

\* Cutting a good chain after n and erasing what the rest held loses nothing else.
LEMMA CutCovers ==
    ASSUME NEW c, GoodChain(c), NEW n \in 1..Len(c), NEW txs, NEW keys,
           Covers(txs, keys, c),
           NEW rest, \A t \in rest : \E j \in (n + 1)..Len(c) : t \in BlockTxs[c[j]]
    PROVE  Covers(txs \ rest, keys \ ImagesOf(rest), SubSeq(c, 1, n))
<1> DEFINE p == SubSeq(c, 1, n)
<1>1. c \in Seq(Block) /\ DOMAIN c = 1..Len(c) /\ DOMAIN p = 1..n
  BY PrefixProperties DEF GoodChain
<1>2. \A i \in 1..n : i \in DOMAIN c /\ p[i] = c[i]
  BY <1>1, PrefixProperties
<1> HIDE DEF p
<1>3. \A i \in 1..n, t \in rest :
         t \notin BlockTxs[c[i]] /\ KeyImages[t] \cap ImagesOf(BlockTxs[c[i]]) = {}
  <2> SUFFICES ASSUME NEW i \in 1..n, NEW t \in rest
               PROVE  t \notin BlockTxs[c[i]] /\ KeyImages[t] \cap ImagesOf(BlockTxs[c[i]]) = {}
    OBVIOUS
  <2>1. PICK j \in (n + 1)..Len(c) : t \in BlockTxs[c[j]]
    OBVIOUS
  <2>2. i \in DOMAIN c /\ j \in DOMAIN c /\ i # j
    BY <1>1, <2>1
  <2> QED
    BY <2>1, <2>2, PositionsDisjoint, ImagesOfMember, Zenon
<1>4. TxsOf(p) \subseteq TxsOf(c)
  <2> SUFFICES ASSUME NEW t \in TxsOf(p)
               PROVE  t \in TxsOf(c)
    OBVIOUS
  <2>1. PICK i \in DOMAIN p : t \in BlockTxs[p[i]]
    BY TxsOfMember
  <2>2. i \in DOMAIN c /\ t \in BlockTxs[c[i]]
    BY <1>1, <1>2, <2>1
  <2> QED
    BY <2>2, TxsOfMember
<1>5. TxsOf(p) \subseteq txs \ rest
  <2> SUFFICES ASSUME NEW t \in TxsOf(p)
               PROVE  t \in txs /\ t \notin rest
    OBVIOUS
  <2>1. PICK i \in DOMAIN p : t \in BlockTxs[p[i]]
    BY TxsOfMember
  <2> QED
    BY <1>1, <1>2, <1>3, <1>4, <2>1 DEF Covers
<1>6. ImagesOf(TxsOf(p)) \subseteq keys \ ImagesOf(rest)
  <2> SUFFICES ASSUME NEW k \in ImagesOf(TxsOf(p))
               PROVE  k \in keys /\ k \notin ImagesOf(rest)
    OBVIOUS
  <2>1. PICK t \in TxsOf(p) : k \in KeyImages[t]
    BY ImagesOfMember
  <2>2. PICK i \in DOMAIN p : t \in BlockTxs[p[i]]
    BY TxsOfMember
  <2>3. i \in 1..n /\ k \in ImagesOf(BlockTxs[c[i]])
    BY <1>1, <1>2, <2>1, <2>2, ImagesOfMember
  <2>4. k \in ImagesOf(TxsOf(c))
    BY <1>4, <2>1, ImagesOfMember
  <2> QED
    BY <1>3, <2>3, <2>4, ImagesOfMember DEF Covers
<1> QED
  BY <1>5, <1>6 DEF Covers, p

\* A block on top of a good chain, spending only unspent key images, keeps it good.
LEMMA AppendGood ==
    ASSUME NEW c, GoodChain(c), NEW b \in Block, b # Genesis, Prev(b) = LastOf(c),
           NEW keys, ImagesOf(TxsOf(c)) \subseteq keys,
           \A t \in BlockTxs[b] : KeyImages[t] \cap keys = {},
           \A t, u \in BlockTxs[b] : t # u => KeyImages[t] \cap KeyImages[u] = {}
    PROVE  GoodChain(Append(c, b))
<1> DEFINE d == Append(c, b)
<1>1. /\ c \in Seq(Block) /\ Len(c) \in Nat /\ Len(c) > 0
      /\ d \in Seq(Block) /\ Len(d) = Len(c) + 1
      /\ DOMAIN c = 1..Len(c) /\ DOMAIN d = 1..(Len(c) + 1)
      /\ \A i \in 1..Len(c) : d[i] = c[i]
      /\ d[Len(c) + 1] = b
      /\ LastOf(d) = b
  BY DEF GoodChain, LastOf
<1>2. d = Path[b]
  <2>1. /\ Path[b] \in Seq(Block) /\ Len(Path[b]) \in Nat /\ Len(Path[b]) > 1
        /\ Path[b][Len(Path[b])] = b
    BY PathAssumption DEF LastOf
  <2>2. Path[Prev(b)] = SubSeq(Path[b], 1, Len(Path[b]) - 1)
    <3> DEFINE n == Len(Path[b]) - 1
    <3>1. n \in 1..Len(Path[b])
      BY <2>1
    <3> HIDE DEF n
    <3>2. Path[Path[b][n]] = SubSeq(Path[b], 1, n)
      BY <3>1, PathAssumption
    <3> QED
      BY <3>2 DEF Prev, n
  <2>3. c = SubSeq(Path[b], 1, Len(Path[b]) - 1)
    BY <2>2 DEF GoodChain
  <2>4. /\ Len(c) = Len(Path[b]) - 1
        /\ \A i \in 1..Len(c) : c[i] = Path[b][i]
    BY <2>1, <2>3, PrefixProperties
  <2> HIDE DEF d
  <2>5. \A i \in 1..Len(d) : d[i] = Path[b][i]
    BY <1>1, <2>1, <2>4
  <2> QED
    BY <1>1, <2>1, <2>4, <2>5, SeqEqual
<1> HIDE DEF d
<1>3. ASSUME NEW i \in DOMAIN c, NEW t \in BlockTxs[c[i]], NEW u \in BlockTxs[b]
      PROVE  KeyImages[t] \cap KeyImages[u] = {}
  <2>1. t \in TxsOf(c)
    BY TxsOfMember
  <2>2. KeyImages[t] \subseteq keys
    BY <2>1, ImagesOfMember
  <2> QED
    BY <2>2
<1>4. SpendsOnce(d)
  <2> SUFFICES ASSUME NEW i \in DOMAIN d, NEW j \in DOMAIN d,
                      NEW t \in BlockTxs[d[i]], NEW u \in BlockTxs[d[j]],
                      i # j \/ t # u
               PROVE  KeyImages[t] \cap KeyImages[u] = {}
    BY DEF SpendsOnce
  <2>1. CASE i \in DOMAIN c /\ j \in DOMAIN c
    BY <1>1, <2>1 DEF GoodChain, SpendsOnce
  <2>2. CASE i \in DOMAIN c /\ j \notin DOMAIN c
    BY <1>1, <1>3, <2>2
  <2>3. CASE i \notin DOMAIN c /\ j \in DOMAIN c
    BY <1>1, <1>3, <2>3
  <2>4. CASE i \notin DOMAIN c /\ j \notin DOMAIN c
    BY <1>1, <2>4
  <2> QED
    BY <2>1, <2>2, <2>3, <2>4
<1> QED
  BY <1>1, <1>2, <1>4 DEF GoodChain, d

\* Indexing the transactions of the block keeps the indices complete.
LEMMA AppendCovers ==
    ASSUME NEW c \in Seq(Block), NEW b \in Block, NEW txs, NEW keys, Covers(txs, keys, c)
    PROVE  Covers(txs \cup BlockTxs[b], keys \cup ImagesOf(BlockTxs[b]), Append(c, b))
<1> DEFINE d == Append(c, b)
<1>1. /\ Len(c) \in Nat
      /\ DOMAIN c = 1..Len(c) /\ DOMAIN d = 1..(Len(c) + 1)
      /\ \A i \in 1..Len(c) : d[i] = c[i]
      /\ d[Len(c) + 1] = b
  OBVIOUS
<1> HIDE DEF d
<1>2. TxsOf(d) \subseteq TxsOf(c) \cup BlockTxs[b]
  <2> SUFFICES ASSUME NEW t \in TxsOf(d)
               PROVE  t \in TxsOf(c) \/ t \in BlockTxs[b]
    OBVIOUS
  <2>1. PICK i \in DOMAIN d : t \in BlockTxs[d[i]]
    BY TxsOfMember
  <2>2. i = Len(c) + 1 \/ (i \in DOMAIN c /\ d[i] = c[i])
    BY <1>1
  <2> QED
    BY <1>1, <2>1, <2>2, TxsOfMember
<1>3. ImagesOf(TxsOf(d)) \subseteq ImagesOf(TxsOf(c)) \cup ImagesOf(BlockTxs[b])
  <2> SUFFICES ASSUME NEW k \in ImagesOf(TxsOf(d))
               PROVE  k \in ImagesOf(TxsOf(c)) \/ k \in ImagesOf(BlockTxs[b])
    OBVIOUS
  <2>1. PICK t \in TxsOf(d) : k \in KeyImages[t]
    BY ImagesOfMember
  <2> QED
    BY <1>2, <2>1, ImagesOfMember
<1> QED
  BY <1>2, <1>3 DEF Covers, d

\* The transactions of a block are transactions, and their key images key images.
LEMMA BlockTypes ==
    ASSUME NEW b \in Block
    PROVE  BlockTxs[b] \subseteq Tx /\ ImagesOf(BlockTxs[b]) \subseteq KeyImage
<1>1. BlockTxs[b] \subseteq Tx
  BY TxAssumption
<1>2. \A t \in Tx : KeyImages[t] \subseteq KeyImage
  BY TxAssumption
<1> QED
  BY <1>1, <1>2, ImagesOfMember

-----------------------------------------------------------------------------
(* One block pushed, refused or popped *)

\* What pushBlock and popBlock rely on and keep.
ChainOK ==
    /\ GoodChain(m_blocks) /\ GoodChain(stored)
    /\ Covers(m_transactionMap, m_spent_keys, m_blocks)
    /\ m_transactionMap \subseteq Tx /\ m_spent_keys \subseteq KeyImage
    /\ m_transactions \subseteq Tx

\* pushBlock keeps the chain good and the indices complete.
LEMMA PushStep ==
    ASSUME ChainOK, NEW b \in Block, pushBlock(b)
    PROVE  ChainOK' /\ Size' = Size + 1
<1>1. m_blocks \in Seq(Block) /\ m_blocks' = Append(m_blocks, b) /\ stored' = m_blocks
  BY DEF ChainOK, GoodChain, pushBlock
<1>2. GoodChain(Append(m_blocks, b))
  <2>1. b # Genesis /\ Prev(b) = LastOf(m_blocks)
    BY DEF pushBlock, CanPush, HeaderAccepted, TailId
  <2>2. /\ \A t \in BlockTxs[b] : KeyImages[t] \cap m_spent_keys = {}
        /\ \A t, u \in BlockTxs[b] : t # u => KeyImages[t] \cap KeyImages[u] = {}
    BY DEF pushBlock, CanPush, TransactionsAccepted, checkTransactionInputs
  <2>3. ImagesOf(TxsOf(m_blocks)) \subseteq m_spent_keys
    BY DEF ChainOK, Covers
  <2> QED
    BY <2>1, <2>2, <2>3, AppendGood DEF ChainOK
<1>3. Covers(m_transactionMap', m_spent_keys', m_blocks')
  BY <1>1, AppendCovers DEF ChainOK, pushBlock, IndexTransactions
<1>4. /\ m_transactionMap' \subseteq Tx /\ m_spent_keys' \subseteq KeyImage
      /\ m_transactions' \subseteq Tx
  BY BlockTypes DEF ChainOK, pushBlock, IndexTransactions
<1>5. Size' = Size + 1
  BY <1>1 DEF Size
<1> QED
  BY <1>1, <1>2, <1>3, <1>4, <1>5 DEF ChainOK

\* A refused block leaves the chain alone, and the indices complete even if it leaks.
LEMMA FailStep ==
    ASSUME ChainOK, NEW b \in Block, pushBlockFails(b)
    PROVE  ChainOK' /\ Size' = Size
<1>1. UNCHANGED <<m_blocks, stored, m_transactions>>
  BY DEF pushBlockFails
<1>2. /\ m_transactionMap \subseteq m_transactionMap' /\ m_spent_keys \subseteq m_spent_keys'
      /\ m_transactionMap' \subseteq Tx /\ m_spent_keys' \subseteq KeyImage
  BY BlockTypes DEF ChainOK, pushBlockFails, IndexTransactions
<1> QED
  BY <1>1, <1>2 DEF ChainOK, Covers, Size

\* popBlock keeps the chain good and the indices complete.
LEMMA PopStep ==
    ASSUME ChainOK, Size > 1, popBlock
    PROVE  ChainOK' /\ Size' = Size - 1
<1>1. /\ m_blocks \in Seq(Block) /\ Size \in Nat /\ Size - 1 \in 1..Len(m_blocks)
      /\ TailId \in Block /\ TailId = m_blocks[Size]
      /\ m_blocks' = SubSeq(m_blocks, 1, Size - 1) /\ stored' = m_blocks
  BY DEF ChainOK, GoodChain, popBlock, Size, TailId, LastOf
<1>2. GoodChain(SubSeq(m_blocks, 1, Size - 1))
  BY <1>1, GoodPrefix DEF ChainOK
<1>3. \A t \in BlockTxs[TailId] : \E j \in ((Size - 1) + 1)..Len(m_blocks) : t \in BlockTxs[m_blocks[j]]
  BY <1>1 DEF Size
<1>4. Covers(m_transactionMap \ BlockTxs[TailId], m_spent_keys \ ImagesOf(BlockTxs[TailId]),
             SubSeq(m_blocks, 1, Size - 1))
  BY <1>1, <1>3, CutCovers, Zenon DEF ChainOK
<1>5. /\ m_transactionMap' \subseteq Tx /\ m_spent_keys' \subseteq KeyImage
      /\ m_transactions' \subseteq Tx
  BY <1>1, BlockTypes DEF ChainOK, popBlock, popTransactions
<1>6. Size' = Size - 1
  BY <1>1, PrefixProperties DEF Size
<1> QED
  BY <1>1, <1>2, <1>4, <1>5, <1>6 DEF ChainOK, popBlock, popTransactions

-----------------------------------------------------------------------------
(* The alternative chain a block completes *)

\* The walk back from b through m_alternative_chains has a first block.
LEMMA FrontIndexType ==
    ASSUME NEW b \in Block
    PROVE  FrontIndex(b) \in 1..Len(Path[b])
<1> DEFINE n == Len(Path[b])
           T == {k \in 1..n : \A i \in k..(n - 1) : Path[b][i] \in m_alternative_chains}
<1>1. n \in Nat /\ n > 0
  BY PathAssumption
<1> HIDE DEF n
<1>2. n \in T /\ T \subseteq Nat
  BY <1>1
<1>3. PICK x \in T : \A y \in T : ~(<<y, x>> \in OpToRel(<, Nat))
  <2> HIDE DEF T
  <2> QED
    BY <1>2, WFMin, NatLessThanWellFounded, Zenon
<1>4. \A y \in T : ~(y < x)
  BY <1>2, <1>3, Zenon DEF OpToRel
<1>5. x = 1 \/ Path[b][x - 1] \notin m_alternative_chains
  <2> SUFFICES ASSUME x # 1, Path[b][x - 1] \in m_alternative_chains
               PROVE  FALSE
    OBVIOUS
  <2>1. x - 1 \in 1..n
    BY <1>1
  <2>2. \A i \in (x - 1)..(n - 1) : Path[b][i] \in m_alternative_chains
    BY <1>1
  <2> QED
    BY <1>4, <2>1, <2>2
<1>6. \E k \in 1..n :
         /\ \A i \in k..(n - 1) : Path[b][i] \in m_alternative_chains
         /\ k = 1 \/ Path[b][k - 1] \notin m_alternative_chains
  BY <1>3, <1>5, Zenon
<1> QED
  BY <1>6, Zenon DEF FrontIndex, n

\* The chain switched to starts right above the split.
LEMMA AltChainProperties ==
    ASSUME NEW b \in Block
    PROVE  /\ AltChainTo(b) \in Seq(Block) /\ Len(AltChainTo(b)) > 0
           /\ SplitHeight(b) \in Nat
           /\ Height(AltChainTo(b)[1]) = SplitHeight(b)
<1> DEFINE p == Path[b]
           f == FrontIndex(b)
<1>1. p \in Seq(Block) /\ Len(p) \in Nat
  BY PathAssumption
<1>2. f \in 1..Len(p)
  BY FrontIndexType
<1>3. Path[p[f]] = SubSeq(p, 1, f)
  BY <1>2, PathAssumption, Zenon
<1> HIDE DEF p, f
<1>4. /\ SubSeq(p, f, Len(p)) \in Seq(Block)
      /\ Len(SubSeq(p, f, Len(p))) > 0
      /\ SubSeq(p, f, Len(p))[1] = p[f]
  BY <1>1, <1>2
<1>5. Height(p[f]) = f - 1
  BY <1>1, <1>2, <1>3, PrefixProperties DEF Height
<1> QED
  BY <1>1, <1>2, <1>4, <1>5 DEF AltChainTo, SplitHeight, p, f

-----------------------------------------------------------------------------
(* The inductive invariant, action by action *)

\* The conjuncts of TypeOK that ChainOK does not give.
OtherTypes ==
    /\ m_alternative_chains \subseteq Block /\ m_points \subseteq Block
    /\ phase \in Phases
    /\ altChain \in Seq(Block) /\ oldChain \in Seq(Block) /\ origin \in Seq(Block)
    /\ pos \in Nat /\ failedAt \in Nat /\ discard \in BOOLEAN /\ callers \in Seq(Frame)
    /\ poolFile \subseteq Tx
    /\ cacheFile \in [tail : Block, txs : SUBSET Tx, keys : SUBSET KeyImage] \cup {NoCache}
    /\ stops \in Nat

\* The invariant of a running daemon, taken apart.
LEMMA Running ==
    phase # "down" => (IInv <=> ChainOK /\ OtherTypes /\ CacheCovers /\ SwitchInv)
BY DEF IInv, TypeOK, ChainOK, OtherTypes, GoodChain, InMemory, Size

\* The same in the next state.
LEMMA RunningNext ==
    phase' # "down" => (IInv' <=> ChainOK' /\ OtherTypes' /\ CacheCovers' /\ SwitchInv')
BY DEF IInv, TypeOK, ChainOK, OtherTypes, GoodChain, InMemory, Size

\* The pool, and blocks that are refused or stored, do not touch the chain.
LEMMA PoolSteps ==
    ASSUME IInv, NEW t \in Tx, NEW keptByBlock \in BOOLEAN,
           add_new_tx(t, keptByBlock) \/ removeExpiredTransactions(t)
    PROVE  IInv'
<1>1. /\ UNCHANGED <<m_blocks, stored, m_transactionMap, m_spent_keys,
                     m_alternative_chains, m_points, switchVars, diskVars>>
      /\ m_transactions' \subseteq m_transactions \cup {t}
      /\ phase = "idle"
  BY DEF add_new_tx, removeExpiredTransactions
<1>2. ChainOK /\ OtherTypes /\ CacheCovers /\ SwitchInv
  BY <1>1, Running
<1>3. ChainOK'
  BY <1>1, <1>2 DEF ChainOK
<1>4. OtherTypes' /\ CacheCovers' /\ SwitchInv'
  BY <1>1, <1>2 DEF OtherTypes, CacheCovers, SwitchInv, switchVars, diskVars, split_height, Reorganising
<1> QED
  BY <1>1, <1>3, <1>4, RunningNext DEF switchVars

\* addNewBlock for a block on the tail, accepted or refused with a leak.
LEMMA MainChainSteps ==
    ASSUME IInv, NEW b \in Block, AddToMainChain(b) \/ RefuseOversizeBlock(b)
    PROVE  IInv'
<1>1. /\ UNCHANGED <<m_alternative_chains, m_points, switchVars, diskVars>>
      /\ phase = "idle"
      /\ pushBlock(b) \/ pushBlockFails(b)
  BY DEF AddToMainChain, RefuseOversizeBlock
<1>2. ChainOK /\ OtherTypes /\ CacheCovers /\ SwitchInv
  BY <1>1, Running
<1>3. ChainOK'
  BY <1>1, <1>2, PushStep, FailStep
<1>4. OtherTypes' /\ CacheCovers' /\ SwitchInv'
  BY <1>1, <1>2 DEF OtherTypes, CacheCovers, SwitchInv, switchVars, diskVars, Reorganising
<1> QED
  BY <1>1, <1>3, <1>4, RunningNext DEF switchVars

\* Checkpoints fetched from DNS are blocks.
LEMMA PointsType ==
    ASSUME NEW points \in SUBSET Block, NEW records \in SUBSET DnsCheckpoints
    PROVE  load_checkpoints_from_dns(points, records) \subseteq Block
BY CheckpointAssumption DEF load_checkpoints_from_dns

\* handle_alternative_block without a reorganisation.
LEMMA AlternativeSteps ==
    ASSUME IInv, NEW b \in Block, NEW records \in SUBSET DnsCheckpoints,
           RefuseAlternative(b, records) \/ StoreAlternative(b, records)
    PROVE  IInv'
<1>1. /\ UNCHANGED <<chainVars, switchVars, diskVars>>
      /\ m_points' = load_checkpoints_from_dns(m_points, records)
      /\ m_alternative_chains' \subseteq m_alternative_chains \cup {b}
      /\ phase = "idle"
  BY DEF RefuseAlternative, StoreAlternative, IsAlternative
<1>2. ChainOK /\ OtherTypes /\ CacheCovers /\ SwitchInv
  BY <1>1, Running
<1>3. ChainOK'
  BY <1>1, <1>2 DEF ChainOK, chainVars
<1>4. m_points' \subseteq Block
  BY <1>1, <1>2, PointsType DEF OtherTypes
<1>5. OtherTypes' /\ CacheCovers' /\ SwitchInv'
  BY <1>1, <1>2, <1>4
     DEF OtherTypes, CacheCovers, SwitchInv, chainVars, switchVars, diskVars, Reorganising
<1> QED
  BY <1>1, <1>3, <1>5, RunningNext DEF switchVars

\* handle_alternative_block with a reorganisation that is allowed to start.
LEMMA BeginStep ==
    ASSUME IInv, NEW b \in Block, NEW records \in SUBSET DnsCheckpoints,
           BeginSwitch(b, records)
    PROVE  IInv'
<1>1. /\ UNCHANGED <<chainVars, diskVars>>
      /\ m_points' = load_checkpoints_from_dns(m_points, records)
      /\ m_alternative_chains' = m_alternative_chains \cup {b}
      /\ phase = "idle" /\ phase' = "disconnect"
      /\ altChain' = AltChainTo(b) /\ oldChain' = << >> /\ pos' = 1 /\ failedAt' = 0
      /\ origin' = m_blocks /\ callers' = callers
      /\ Size > SplitHeight(b) /\ SplitHeight(b) > 0
  BY DEF BeginSwitch, EnterSwitch, IsAlternative, AcceptedAsAlternative,
         ConnectsToMainChain, SwitchPermitted
<1>2. discard' \in BOOLEAN
  BY DEF BeginSwitch, EnterSwitch, is_a_checkpoint
<1>3. ChainOK /\ OtherTypes /\ CacheCovers /\ SwitchInv
  BY <1>1, Running
<1>4. ChainOK'
  BY <1>1, <1>3 DEF ChainOK, chainVars
<1>5. m_points' \subseteq Block
  BY <1>1, <1>3, PointsType DEF OtherTypes
<1>6. m_blocks \in Seq(Block) /\ altChain' \in Seq(Block) /\ << >> \in Seq(Block)
  BY <1>1, <1>3, AltChainProperties DEF ChainOK, GoodChain
<1>7. OtherTypes' /\ CacheCovers'
  BY <1>1, <1>2, <1>3, <1>5, <1>6
     DEF OtherTypes, CacheCovers, diskVars, Phases, Reorganising
<1>8. SwitchInv'
  <2>1. Len(altChain') > 0 /\ split_height' = SplitHeight(b)
    BY <1>1, AltChainProperties DEF split_height
  <2>2. Size' = Size
    BY <1>1 DEF Size, chainVars
  <2> QED
    BY <1>1, <1>3, <2>1, <2>2 DEF SwitchInv, Reorganising
<1> QED
  BY <1>1, <1>4, <1>7, <1>8, RunningNext, SMTT(30)

\* What every step of a reorganisation starts from.
LEMMA Switching ==
    ASSUME IInv, phase \in Reorganising
    PROVE  /\ ChainOK /\ OtherTypes /\ CacheCovers /\ SwitchInv
           /\ Size \in Nat /\ Size > 0
           /\ split_height \in Nat /\ split_height > 0
           /\ Len(altChain) \in Nat /\ Len(altChain) > 0
           /\ Len(oldChain) \in Nat /\ pos \in Nat
<1>1. ChainOK /\ OtherTypes /\ CacheCovers /\ SwitchInv
  BY Running DEF Reorganising
<1>2. Size \in Nat /\ Size > 0
  BY <1>1 DEF ChainOK, GoodChain, Size
<1>3. /\ Len(altChain) \in Nat /\ Len(oldChain) \in Nat /\ pos \in Nat
      /\ Len(altChain) > 0 /\ split_height > 0
  BY <1>1 DEF OtherTypes, SwitchInv
<1>4. altChain[1] \in Block
  BY <1>1, <1>3 DEF OtherTypes
<1>5. Len(Path[altChain[1]]) \in Nat
  BY <1>4, PathAssumption
<1>6. split_height \in Int
  BY <1>5 DEF split_height, Height
<1> QED
  BY <1>1, <1>2, <1>3, <1>6

\* "disconnecting old chain".
LEMMA DisconnectStep ==
    ASSUME IInv, Disconnect
    PROVE  IInv'
<1>1. /\ phase = "disconnect" /\ popBlock
      /\ oldChain' = <<TailId>> \o oldChain
      /\ phase' = IF Size - 1 > split_height THEN "disconnect" ELSE "connect"
      /\ UNCHANGED <<altChain, pos, failedAt, discard, callers, origin,
                     m_alternative_chains, m_points, diskVars>>
  BY DEF Disconnect
<1>2. ChainOK /\ OtherTypes /\ CacheCovers /\ SwitchInv
  BY <1>1, Switching DEF Reorganising
<1>3. /\ split_height \in Nat /\ split_height > 0 /\ Size \in Nat /\ Size > split_height
      /\ Len(altChain) > 0 /\ pos = 1
  BY <1>1, Switching DEF SwitchInv, Reorganising
<1>4. ChainOK' /\ Size' = Size - 1
  BY <1>1, <1>2, <1>3, PopStep
<1>5. TailId \in Block
  BY <1>2 DEF ChainOK, GoodChain, TailId, LastOf
<1>6. oldChain' \in Seq(Block) /\ Len(oldChain') > 0
  BY <1>1, <1>2, <1>5 DEF OtherTypes
<1>7. OtherTypes' /\ CacheCovers'
  BY <1>1, <1>2, <1>6 DEF OtherTypes, CacheCovers, diskVars, Phases, Reorganising
<1>8. SwitchInv'
  <2>1. split_height' = split_height
    BY <1>1 DEF split_height
  <2>2. altChain \in Seq(Block)
    BY <1>2 DEF OtherTypes
  <2> QED
    BY <1>1, <1>2, <1>3, <1>4, <1>6, <2>1, <2>2 DEF SwitchInv, Reorganising
<1> QED
  BY <1>1, <1>4, <1>7, <1>8, RunningNext

\* "connecting new alternative chain".
LEMMA ConnectStep ==
    ASSUME IInv, Connect
    PROVE  IInv'
<1> USE DEF Reorganising
<1>1. /\ phase = "connect" /\ pushBlock(altChain[pos])
      /\ UNCHANGED <<altChain, oldChain, failedAt, discard, callers, origin,
                     m_alternative_chains, m_points, diskVars>>
      /\ \/ pos < Len(altChain) /\ pos' = pos + 1 /\ phase' = phase
         \/ pos' = 1 /\ phase' \in {"requeue", "finish"}
  BY DEF Connect
<1>2. /\ ChainOK /\ OtherTypes /\ CacheCovers /\ SwitchInv
      /\ split_height \in Nat /\ split_height > 0
      /\ Len(altChain) \in Nat /\ Len(altChain) > 0 /\ Len(oldChain) \in Nat /\ pos \in Nat
  BY <1>1, Switching
<1>3. altChain[pos] \in Block /\ pos > 0 /\ pos <= Len(altChain) /\ Len(oldChain) > 0
  BY <1>1, <1>2 DEF OtherTypes, SwitchInv
<1>4. ChainOK'
  BY <1>1, <1>2, <1>3, PushStep
<1>5. OtherTypes' /\ CacheCovers'
  BY <1>1, <1>2 DEF OtherTypes, CacheCovers, diskVars, Phases
<1>6. SwitchInv'
  <2>1. split_height' = split_height
    BY <1>1 DEF split_height
  <2> QED
    BY <1>1, <1>2, <1>3, <2>1 DEF SwitchInv
<1> QED
  BY <1>1, <1>4, <1>5, <1>6, RunningNext

\* A block of the alternative chain fails, and the rollback starts.
LEMMA ConnectFailsStep ==
    ASSUME IInv, ConnectFails
    PROVE  IInv'
<1> USE DEF Reorganising
<1>1. /\ phase = "connect" /\ pushBlockFails(altChain[pos])
      /\ failedAt' = pos /\ pos' = 1
      /\ phase' = IF Size > split_height THEN "rollbackPop" ELSE "rollbackPush"
      /\ UNCHANGED <<altChain, oldChain, discard, callers, origin,
                     m_alternative_chains, m_points, diskVars>>
  BY DEF ConnectFails
<1>2. /\ ChainOK /\ OtherTypes /\ CacheCovers /\ SwitchInv
      /\ Size \in Nat /\ split_height \in Nat /\ split_height > 0
      /\ Len(altChain) \in Nat /\ Len(altChain) > 0 /\ Len(oldChain) \in Nat /\ pos \in Nat
  BY <1>1, Switching
<1>3. altChain[pos] \in Block /\ Len(oldChain) > 0
  BY <1>1, <1>2 DEF OtherTypes, SwitchInv
<1>4. ChainOK' /\ Size' = Size
  BY <1>1, <1>2, <1>3, FailStep
<1>5. OtherTypes' /\ CacheCovers'
  BY <1>1, <1>2 DEF OtherTypes, CacheCovers, diskVars, Phases
<1>6. SwitchInv'
  <2>1. split_height' = split_height
    BY <1>1 DEF split_height
  <2> QED
    BY <1>1, <1>2, <1>3, <1>4, <2>1 DEF SwitchInv
<1> QED
  BY <1>1, <1>4, <1>5, <1>6, RunningNext

\* "remove failed subchain".
LEMMA RollbackPopStep ==
    ASSUME IInv, RollbackPop
    PROVE  IInv'
<1> USE DEF Reorganising
<1>1. /\ phase = "rollbackPop" /\ popBlock
      /\ phase' = IF Size - 1 > split_height THEN "rollbackPop" ELSE "rollbackPush"
      /\ UNCHANGED <<altChain, oldChain, pos, failedAt, discard, callers, origin,
                     m_alternative_chains, m_points, diskVars>>
  BY DEF RollbackPop
<1>2. /\ ChainOK /\ OtherTypes /\ CacheCovers /\ SwitchInv
      /\ Size \in Nat /\ split_height \in Nat /\ split_height > 0
      /\ Len(altChain) \in Nat /\ Len(altChain) > 0 /\ Len(oldChain) \in Nat /\ pos \in Nat
  BY <1>1, Switching
<1>3. Size > split_height /\ pos = 1 /\ Len(oldChain) > 0
  BY <1>1, <1>2 DEF SwitchInv
<1>4. ChainOK' /\ Size' = Size - 1
  BY <1>1, <1>2, <1>3, PopStep
<1>5. OtherTypes' /\ CacheCovers'
  BY <1>1, <1>2 DEF OtherTypes, CacheCovers, diskVars, Phases
<1>6. SwitchInv'
  <2>1. split_height' = split_height
    BY <1>1 DEF split_height
  <2> QED
    BY <1>1, <1>2, <1>3, <1>4, <2>1 DEF SwitchInv
<1> QED
  BY <1>1, <1>4, <1>5, <1>6, RunningNext

\* switch_to_alternative_blockchain returns to the node, or to the switch that waits.
LEMMA ReturnStep ==
    ASSUME OtherTypes, SwitchInv, NEW ok \in BOOLEAN, Return(ok)
    PROVE  /\ altChain' \in Seq(Block) /\ oldChain' \in Seq(Block) /\ origin' \in Seq(Block)
           /\ pos' \in Nat /\ failedAt' \in Nat
           /\ discard' \in BOOLEAN /\ callers' \in Seq(Frame)
           /\ phase' \in {"idle", "requeue", "finish"}
           /\ SwitchInv'
<1>1. CASE callers = << >>
  <2>1. /\ phase' = "idle" /\ pos' = 1
        /\ UNCHANGED <<altChain, oldChain, failedAt, discard, callers, origin>>
    BY <1>1 DEF Return
  <2>2. SwitchInv'
    BY <2>1 DEF SwitchInv, Reorganising
  <2> QED
    BY <2>1, <2>2 DEF OtherTypes
<1>2. CASE callers # << >>
  <2> DEFINE c == Head(callers)
             more == ok /\ c.pos < Len(c.oldChain)
  <2>1. /\ altChain' = c.altChain /\ oldChain' = c.oldChain /\ origin' = c.origin
        /\ pos' = IF more THEN c.pos + 1 ELSE 1
        /\ phase' = IF more THEN "requeue" ELSE "finish"
        /\ failedAt' = 0 /\ discard' = FALSE /\ callers' = Tail(callers)
    BY <1>2 DEF Return
  <2>2. callers \in Seq(Frame) /\ Len(callers) > 0
    BY <1>2 DEF OtherTypes
  <2>3. c \in Frame /\ c = callers[1] /\ 1 \in DOMAIN callers /\ callers' \in Seq(Frame)
    BY <2>1, <2>2
  <2>4. Suspended(c)
    BY <2>3 DEF SwitchInv
  <2>5. \A i \in DOMAIN callers' : Suspended(callers'[i])
    <3> SUFFICES ASSUME NEW i \in DOMAIN callers' PROVE Suspended(callers'[i])
      OBVIOUS
    <3>1. i + 1 \in DOMAIN callers /\ callers'[i] = callers[i + 1]
      BY <2>1, <2>2
    <3> QED
      BY <3>1 DEF SwitchInv
  <2> HIDE DEF c
  <2>6. /\ c.altChain \in Seq(Block) /\ c.oldChain \in Seq(Block)
        /\ c.origin \in Seq(Block) /\ c.pos \in Nat
    BY <2>3 DEF Frame
  <2>7. /\ Len(altChain') > 0 /\ split_height' > 0 /\ Len(oldChain') > 0
        /\ pos' > 0 /\ pos' \in Nat
        /\ phase' \in {"requeue", "finish"}
        /\ phase' = "requeue" => pos' <= Len(oldChain')
    BY <2>1, <2>4, <2>6 DEF Suspended, split_height
  <2>8. SwitchInv'
    BY <2>5, <2>7 DEF SwitchInv
  <2> QED
    BY <2>1, <2>3, <2>6, <2>7, <2>8, Zenon
<1> QED
  BY <1>1, <1>2

\* "return back original chain", and the panic when a block of it is refused.
LEMMA RollbackPushSteps ==
    ASSUME IInv, RollbackPush \/ RollbackPanics
    PROVE  IInv'
<1> USE DEF Reorganising
<1>1. /\ phase = "rollbackPush"
      /\ pushBlock(oldChain[pos]) \/ pushBlockFails(oldChain[pos])
      /\ UNCHANGED <<m_points, diskVars>>
      /\ m_alternative_chains' \subseteq m_alternative_chains
      /\ \/ /\ pos < Len(oldChain) /\ pos' = pos + 1 /\ phase' = phase
            /\ UNCHANGED <<altChain, oldChain, failedAt, discard, callers, origin>>
         \/ Return(FALSE)
  BY Zenon DEF RollbackPush, RollbackPanics, ForgetFailed
<1>2. /\ ChainOK /\ OtherTypes /\ CacheCovers /\ SwitchInv
      /\ split_height \in Nat /\ split_height > 0
      /\ Len(altChain) \in Nat /\ Len(altChain) > 0 /\ Len(oldChain) \in Nat /\ pos \in Nat
  BY <1>1, Switching
<1>3. oldChain[pos] \in Block /\ pos > 0 /\ pos <= Len(oldChain)
  BY <1>1, <1>2 DEF OtherTypes, SwitchInv
<1>4. ChainOK'
  BY <1>1, <1>2, <1>3, PushStep, FailStep
<1>5. CASE Return(FALSE)
  <2>1. OtherTypes' /\ CacheCovers' /\ SwitchInv' /\ phase' # "down"
    BY <1>1, <1>2, <1>5, ReturnStep, Zenon DEF OtherTypes, CacheCovers, diskVars, Phases
  <2> QED
    BY <1>4, <2>1, RunningNext
<1>6. CASE /\ pos < Len(oldChain) /\ pos' = pos + 1 /\ phase' = phase
           /\ UNCHANGED <<altChain, oldChain, failedAt, discard, callers, origin>>
  <2>1. OtherTypes' /\ CacheCovers'
    BY <1>1, <1>2, <1>6 DEF OtherTypes, CacheCovers, diskVars, Phases
  <2>2. split_height' = split_height
    BY <1>6 DEF split_height
  <2>3. SwitchInv'
    BY <1>1, <1>2, <1>3, <1>6, <2>2 DEF SwitchInv
  <2> QED
    BY <1>1, <1>4, <1>6, <2>1, <2>3, RunningNext, SMTT(30)
<1> QED
  BY <1>1, <1>5, <1>6, Zenon

\* "removing all_chain entries from alternative chain", and the return.
LEMMA FinishStep ==
    ASSUME IInv, Finish
    PROVE  IInv'
<1>1. /\ phase = "finish" /\ Return(TRUE)
      /\ m_alternative_chains' \subseteq m_alternative_chains
      /\ UNCHANGED <<chainVars, m_points, diskVars>>
  BY Zenon DEF Finish
<1>2. ChainOK /\ OtherTypes /\ CacheCovers /\ SwitchInv
  BY <1>1, Switching DEF Reorganising
<1>3. ChainOK'
  BY <1>1, <1>2 DEF ChainOK, chainVars
<1>4. OtherTypes' /\ CacheCovers' /\ SwitchInv' /\ phase' # "down"
  BY <1>1, <1>2, ReturnStep, Zenon DEF OtherTypes, CacheCovers, diskVars, Phases, Reorganising
<1> QED
  BY <1>3, <1>4, RunningNext

\* "pushing old chain as alternative chain", without a further switch.
LEMMA RequeueSteps ==
    ASSUME IInv, NEW records \in SUBSET DnsCheckpoints,
           Requeue(records) \/ RequeueStops(records)
    PROVE  IInv'
<1> USE DEF Reorganising
<1>1. /\ phase = "requeue"
      /\ UNCHANGED <<chainVars, altChain, oldChain, failedAt, discard, callers, origin,
                     diskVars>>
      /\ m_points' = load_checkpoints_from_dns(m_points, records)
      /\ m_alternative_chains' \subseteq m_alternative_chains \cup {oldChain[pos]}
      /\ \/ pos < Len(oldChain) /\ pos' = pos + 1 /\ phase' = phase
         \/ pos' = 1 /\ phase' = "finish"
  BY DEF Requeue, RequeueStops
<1>2. /\ ChainOK /\ OtherTypes /\ CacheCovers /\ SwitchInv
      /\ split_height \in Nat /\ split_height > 0
      /\ Len(altChain) \in Nat /\ Len(altChain) > 0 /\ Len(oldChain) \in Nat /\ pos \in Nat
  BY <1>1, Switching
<1>3. oldChain[pos] \in Block /\ pos > 0 /\ pos <= Len(oldChain)
  BY <1>1, <1>2 DEF OtherTypes, SwitchInv
<1>4. ChainOK'
  BY <1>1, <1>2 DEF ChainOK, chainVars
<1>5. m_points' \subseteq Block
  BY <1>1, <1>2, PointsType, SMTT(30) DEF OtherTypes
<1>6. OtherTypes' /\ CacheCovers'
  BY <1>1, <1>2, <1>3, <1>5 DEF OtherTypes, CacheCovers, diskVars, Phases
<1>7. SwitchInv'
  <2>1. split_height' = split_height
    BY <1>1 DEF split_height
  <2> QED
    BY <1>1, <1>2, <1>3, <2>1 DEF SwitchInv
<1> QED
  BY <1>1, <1>4, <1>6, <1>7, RunningNext

\* A switch started from inside a switch, which waits for it.
LEMMA NestedStep ==
    ASSUME IInv, NEW records \in SUBSET DnsCheckpoints, RequeueSwitches(records)
    PROVE  IInv'
<1> DEFINE b == oldChain[pos]
           c == [altChain |-> altChain, oldChain |-> oldChain, origin |-> origin, pos |-> pos]
<1>1. /\ UNCHANGED <<chainVars, diskVars>>
      /\ m_points' = load_checkpoints_from_dns(m_points, records)
      /\ m_alternative_chains' = m_alternative_chains \cup {b}
      /\ phase = "requeue" /\ phase' = "disconnect"
      /\ altChain' = AltChainTo(b) /\ oldChain' = << >> /\ pos' = 1 /\ failedAt' = 0
      /\ origin' = m_blocks /\ callers' = <<c>> \o callers
      /\ Size > SplitHeight(b) /\ SplitHeight(b) > 0
  BY ZenonT(40) DEF RequeueSwitches, EnterSwitch, AcceptedAsAlternative, ConnectsToMainChain,
         SwitchPermitted
<1>2. discard' \in BOOLEAN
  BY Zenon DEF RequeueSwitches, EnterSwitch, is_a_checkpoint
<1>3. /\ ChainOK /\ OtherTypes /\ CacheCovers /\ SwitchInv
      /\ Len(oldChain) \in Nat /\ pos \in Nat
  BY <1>1, Switching DEF Reorganising
<1>4. /\ b \in Block /\ pos > 0 /\ Len(oldChain) > 0
      /\ Len(altChain) > 0 /\ split_height > 0
  BY <1>1, <1>3, SMTT(30) DEF OtherTypes, SwitchInv, Reorganising
<1>5. c \in Frame /\ Suspended(c)
  BY <1>3, <1>4, ZenonT(40) DEF OtherTypes, Frame, Suspended, split_height
<1>6. callers' \in Seq(Frame) /\ \A i \in DOMAIN callers' : Suspended(callers'[i])
  <2> HIDE DEF c
  <2>1. callers \in Seq(Frame) /\ \A i \in DOMAIN callers : Suspended(callers[i])
    BY <1>3 DEF OtherTypes, SwitchInv
  <2>2. callers' \in Seq(Frame) /\ DOMAIN callers' = 1..(Len(callers) + 1)
    BY <1>1, <1>5, <2>1
  <2>3. \A i \in DOMAIN callers' : callers'[i] = IF i = 1 THEN c ELSE callers[i - 1]
    BY <1>1, <1>5, <2>1
  <2>4. \A i \in DOMAIN callers' : i # 1 => i - 1 \in DOMAIN callers
    BY <2>1, <2>2
  <2> QED
    BY <1>5, <2>1, <2>2, <2>3, <2>4
<1> HIDE DEF b, c
<1>7. ChainOK'
  BY <1>1, <1>3 DEF ChainOK, chainVars
<1>8. m_points' \subseteq Block
  BY <1>1, <1>3, PointsType DEF OtherTypes
<1>9. m_blocks \in Seq(Block) /\ altChain' \in Seq(Block) /\ << >> \in Seq(Block)
  BY <1>1, <1>3, <1>4, AltChainProperties DEF ChainOK, GoodChain
<1>10. OtherTypes' /\ CacheCovers'
  BY <1>1, <1>2, <1>3, <1>4, <1>6, <1>8, <1>9, SMTT(30) DEF OtherTypes, CacheCovers, diskVars, Phases, Reorganising
<1>11. SwitchInv'
  <2>1. Len(altChain') > 0 /\ split_height' = SplitHeight(b)
    BY <1>1, <1>4, AltChainProperties, SMTT(30) DEF split_height
  <2>2. Size' = Size
    BY <1>1 DEF Size, chainVars
  <2> QED
    BY <1>1, <1>6, <2>1, <2>2 DEF SwitchInv, Reorganising
<1> QED
  BY <1>1, <1>7, <1>10, <1>11, RunningNext, SMTT(30)

\* core::deinit, first half.
LEMMA StorePoolStep ==
    ASSUME IInv, StorePool
    PROVE  IInv'
<1>1. /\ phase = "idle" /\ phase' = "deinit" /\ poolFile' = m_transactions
      /\ UNCHANGED <<chainVars, m_alternative_chains, m_points, altChain, oldChain, pos,
                     failedAt, discard, callers, origin, cacheFile, stops>>
  BY DEF StorePool
<1>2. ChainOK /\ OtherTypes /\ CacheCovers /\ SwitchInv
  BY <1>1, Running
<1>3. ChainOK'
  BY <1>1, <1>2, SMTT(30) DEF ChainOK, chainVars
<1>4. OtherTypes' /\ CacheCovers' /\ SwitchInv'
  BY <1>1, <1>2 DEF ChainOK, OtherTypes, CacheCovers, SwitchInv, Phases, Reorganising
<1> QED
  BY <1>1, <1>3, <1>4, RunningNext

\* What is left of a daemon that is down.
LEMMA DownNext ==
    ASSUME LoseMemory, OtherTypes, GoodChain(m_blocks'), GoodChain(stored'),
           poolFile' \subseteq Tx, CacheCovers',
           cacheFile' \in [tail : Block, txs : SUBSET Tx, keys : SUBSET KeyImage] \cup {NoCache}
    PROVE  IInv'
<1>1. TypeOK'
  <2>1. /\ m_blocks' \in Seq(Block) /\ Size' > 0
        /\ stored' \in Seq(Block) /\ Len(stored') > 0
    BY DEF GoodChain, Size
  <2>2. /\ altChain' \in Seq(Block) /\ oldChain' \in Seq(Block) /\ origin' \in Seq(Block)
        /\ pos' \in Nat /\ failedAt' \in Nat /\ stops' \in Nat
    BY DEF LoseMemory, OtherTypes
  <2>3. phase' \in Phases /\ discard' \in BOOLEAN
    BY Zenon DEF LoseMemory, Phases
  <2>4. /\ m_transactionMap' \subseteq Tx /\ m_spent_keys' \subseteq KeyImage
        /\ m_alternative_chains' \subseteq Block /\ m_points' \subseteq Block
        /\ m_transactions' \subseteq Tx
    BY DEF LoseMemory
  <2>5. callers' \in Seq(Frame)
    BY DEF LoseMemory
  <2> QED
    BY <2>1, <2>2, <2>3, <2>4, <2>5 DEF TypeOK
<1>2. SwitchInv'
  BY SMTT(30) DEF SwitchInv, LoseMemory, Reorganising
<1> QED
  BY <1>1, <1>2 DEF IInv, InMemory, LoseMemory

\* core::deinit, second half: the cache covers the chain it was taken at.
LEMMA StoreCacheStep ==
    ASSUME IInv, StoreCache
    PROVE  IInv'
<1>1. /\ phase = "deinit" /\ LoseMemory /\ stored' = m_blocks
      /\ cacheFile' = [tail |-> TailId, txs |-> m_transactionMap, keys |-> m_spent_keys]
      /\ UNCHANGED <<m_blocks, poolFile>>
  BY DEF StoreCache
<1>2. ChainOK /\ OtherTypes
  BY <1>1, Running, SMTT(30)
<1>3. m_blocks = Path[TailId] /\ TailId \in Block
  BY <1>2 DEF ChainOK, GoodChain, TailId, LastOf
<1>4. CacheCovers'
  BY <1>1, <1>2, <1>3 DEF CacheCovers, ChainOK
<1>5. cacheFile' \in [tail : Block, txs : SUBSET Tx, keys : SUBSET KeyImage]
  BY <1>1, <1>2, <1>3 DEF ChainOK
<1> QED
  BY <1>1, <1>2, <1>4, <1>5, DownNext DEF ChainOK, OtherTypes

\* A crash finds one of two good chains on disk.
LEMMA CrashStep ==
    ASSUME IInv, Crash
    PROVE  IInv'
<1>1. /\ phase # "down" /\ LoseMemory
      /\ m_blocks' \in {m_blocks, stored} /\ stored' = m_blocks'
      /\ poolFile' \in {poolFile, {}}
      /\ cacheFile' \in {cacheFile, NoCache}
  BY DEF Crash
<1>2. ChainOK /\ OtherTypes /\ CacheCovers
  BY <1>1, Running
<1>3. GoodChain(m_blocks') /\ GoodChain(stored')
  BY <1>1, <1>2 DEF ChainOK
<1>4. CacheCovers'
  BY <1>1, <1>2 DEF CacheCovers
<1> QED
  BY <1>1, <1>2, <1>3, <1>4, DownNext DEF OtherTypes

\* A bounded set of natural numbers has a greatest element.
LEMMA BoundedMax ==
    ASSUME NEW V, V \subseteq Nat, V # {}, NEW H \in Nat, \A h \in V : h <= H
    PROVE  \E h \in V : \A k \in V : k <= h
<1> DEFINE T == {n \in Nat : \E h \in V : n + h = H}
<1>1. PICK v \in V : TRUE
  BY Zenon
<1>2. H - v \in T
  BY <1>1
<1>3. PICK x \in T : \A y \in T : ~(<<y, x>> \in OpToRel(<, Nat))
  <2>1. T \subseteq Nat /\ T # {}
    BY <1>2, Zenon
  <2> HIDE DEF T
  <2> QED
    BY <2>1, WFMin, NatLessThanWellFounded, Zenon
<1>4. \A y \in T : ~(y < x)
  BY <1>3, Zenon DEF OpToRel
<1>5. PICK h \in V : x + h = H
  BY <1>3, Zenon
<1>6. \A k \in V : H - k \in T
  OBVIOUS
<1>7. \A k \in V : k <= h
  <2> SUFFICES ASSUME NEW k \in V PROVE k <= h
    OBVIOUS
  <2>1. ~(H - k < x)
    BY <1>4, <1>6
  <2> QED
    BY <1>5, <2>1
<1> QED
  BY <1>7

\* checkCheckpoints settles on a height the chain has.
LEMMA LastValidType ==
    ASSUME m_blocks \in Seq(Block), Size > 0, NEW points, points \subseteq Block
    PROVE  lastValidCheckpointHeight(points) \in Nat
<1> DEFINE wrong == {p \in points : Height(p) < Size /\ m_blocks[Height(p) + 1] # p}
           valid == {Height(p) : p \in {q \in points : \A w \in wrong : Height(q) < Height(w)}}
           V == valid \cup {0}
<1>1. Size \in Nat /\ \A p \in Block : Height(p) \in Nat
  BY PathAssumption DEF Height, Size
<1>2. CASE wrong = {}
  BY <1>1, <1>2 DEF lastValidCheckpointHeight
<1>3. CASE wrong # {}
  <2>1. PICK w \in wrong : TRUE
    BY <1>3
  <2>2. Height(w) \in Nat
    BY <1>1, <2>1
  <2>3. V \subseteq Nat /\ \A h \in V : h <= Height(w)
    BY <1>1, <2>1, <2>2
  <2>4. \E h \in V : \A k \in V : k <= h
    <3> HIDE DEF V
    <3>1. V # {}
      BY DEF V
    <3> QED
      BY <2>2, <2>3, <3>1, BoundedMax, Zenon
  <2>5. (CHOOSE h \in V : \A k \in V : k <= h) \in V
    <3> HIDE DEF V
    <3> QED
      BY <2>4
  <2>6. lastValidCheckpointHeight(points) = CHOOSE h \in V : \A k \in V : k <= h
    BY <1>3, ZenonT(40) DEF lastValidCheckpointHeight
  <2> QED
    BY <2>3, <2>5, <2>6, Zenon
<1> QED
  BY <1>2, <1>3

\* init keeps a prefix of the stored chain, and the indices of that prefix.
LEMMA StartStep ==
    ASSUME IInv, NEW records \in SUBSET DnsCheckpoints, NEW expired \in SUBSET poolFile,
           NEW rollback \in 0..(Size - 1), Start(records, expired, rollback)
    PROVE  IInv'
<1> DEFINE points == load_checkpoints_from_dns(HardCheckpoints, records)
           valid == lastValidCheckpointHeight(points)
           top == IF rollback < valid THEN rollback ELSE valid
<1>1. /\ phase = "down" /\ phase' = "idle"
      /\ m_transactions' = poolFile \ expired
      /\ m_blocks' = SubSeq(m_blocks, 1, top + 1)
      /\ stored' = IF top + 1 < Size THEN SubSeq(m_blocks, 1, top + 2) ELSE m_blocks
      /\ m_transactionMap' =
             (IF CacheUsable THEN cacheFile.txs ELSE TxsOf(m_blocks)) \ RemovedTxs(top)
      /\ m_spent_keys' =
             (IF CacheUsable THEN cacheFile.keys ELSE ImagesOf(TxsOf(m_blocks)))
                 \ ImagesOf(RemovedTxs(top))
      /\ m_points' = points
      /\ UNCHANGED <<m_alternative_chains, altChain, oldChain, pos, failedAt, discard,
                     callers, origin, diskVars>>
  BY Zenon DEF Start
<1>2. TypeOK /\ GoodChain(m_blocks) /\ CacheCovers /\ SwitchInv
  BY DEF IInv
<1>3. points \subseteq Block
  BY PointsType, CheckpointAssumption
<1>4. Size \in Nat /\ Size > 0 /\ m_blocks \in Seq(Block) /\ Size = Len(m_blocks)
  BY <1>2 DEF TypeOK, Size
<1>5. top \in 0..(Size - 1)
  <2>1. valid \in Nat
    BY <1>3, <1>4, LastValidType, SMTT(30)
  <2> HIDE DEF valid
  <2> QED
    BY <1>4, <2>1
<1> HIDE DEF top, points
<1>6. GoodChain(m_blocks')
  BY <1>1, <1>2, <1>4, <1>5, GoodPrefix
<1>7. GoodChain(stored')
  <2>1. CASE top + 1 < Size
    BY <1>1, <1>2, <1>4, <1>5, <2>1, GoodPrefix, SMTT(30)
  <2>2. CASE ~(top + 1 < Size)
    BY <1>1, <1>2, <2>2, SMTT(30)
  <2> QED
    BY <2>1, <2>2, SMTT(30)
<1> DEFINE txs == IF CacheUsable THEN cacheFile.txs ELSE TxsOf(m_blocks)
           keys == IF CacheUsable THEN cacheFile.keys ELSE ImagesOf(TxsOf(m_blocks))
<1>8. Covers(txs, keys, m_blocks) /\ txs \subseteq Tx /\ keys \subseteq KeyImage
  <2>1. CASE CacheUsable
    <3>1. cacheFile # NoCache /\ Path[cacheFile.tail] = m_blocks
      BY <1>2, <2>1 DEF CacheUsable, TailId, GoodChain
    <3>2. cacheFile \in [tail : Block, txs : SUBSET Tx, keys : SUBSET KeyImage]
      BY <1>2, <3>1, SMTT(30) DEF TypeOK
    <3> QED
      BY <1>2, <2>1, <3>1, <3>2 DEF CacheCovers
  <2>2. CASE ~CacheUsable
    <3>1. \A i \in DOMAIN m_blocks : m_blocks[i] \in Block
      BY <1>4, SMTT(30)
    <3>2. TxsOf(m_blocks) \subseteq Tx
      BY <3>1, TxsOfMember, TxAssumption
    <3>3. ImagesOf(TxsOf(m_blocks)) \subseteq KeyImage
      BY <3>2, ImagesOfMember, TxAssumption
    <3> QED
      BY <2>2, <3>2, <3>3, Zenon DEF Covers
  <2> QED
    BY <2>1, <2>2
<1>9. \A t \in RemovedTxs(top) : \E j \in (top + 2)..Len(m_blocks) : t \in BlockTxs[m_blocks[j]]
  <2> SUFFICES ASSUME NEW t \in RemovedTxs(top)
               PROVE  \E j \in (top + 2)..Len(m_blocks) : t \in BlockTxs[m_blocks[j]]
    OBVIOUS
  <2> DEFINE r == SubSeq(m_blocks, top + 2, Size)
  <2>1. PICK i \in DOMAIN r : t \in BlockTxs[r[i]]
    BY TxsOfMember, ZenonT(40) DEF RemovedTxs
  <2>2. i \in 1..(Size - top - 1) /\ r[i] = m_blocks[top + 1 + i]
    <3>1. top \in Nat /\ top <= Size - 1
      BY <1>4, <1>5
    <3>2. DOMAIN r = 1..(Size - top - 1)
      BY <1>4, <3>1
    <3>3. \A j \in 1..(Size - top - 1) : r[j] = m_blocks[top + 1 + j]
      BY <1>4, <3>1, SMTT(30)
    <3> HIDE DEF r
    <3> QED
      BY <2>1, <3>2, <3>3, Zenon
  <2>3. top + 1 + i \in (top + 2)..Len(m_blocks)
    BY <1>4, <1>5, <2>2, SMTT(30)
  <2> QED
    BY <2>1, <2>2, <2>3, Zenon
<1>10. Covers(m_transactionMap', m_spent_keys', m_blocks')
  <2>1. top + 1 \in 1..Len(m_blocks) /\ (top + 1) + 1 = top + 2
    BY <1>4, <1>5, SMTT(30)
  <2> HIDE DEF txs, keys
  <2>2. Covers(txs \ RemovedTxs(top), keys \ ImagesOf(RemovedTxs(top)), SubSeq(m_blocks, 1, top + 1))
    BY <1>2, <1>8, <1>9, <2>1, CutCovers
  <2> QED
    BY <1>1, <2>2 DEF txs, keys
<1>11. ChainOK'
  <2>1. m_transactions' \subseteq Tx
    BY <1>1, <1>2, SMTT(30) DEF TypeOK
  <2>2. m_transactionMap' \subseteq Tx /\ m_spent_keys' \subseteq KeyImage
    BY <1>1, <1>8, ZenonT(40)
  <2> QED
    BY <1>6, <1>7, <1>10, <2>1, <2>2, SMTT(30) DEF ChainOK
<1>12. OtherTypes'
  BY <1>1, <1>2, <1>3, SMTT(30) DEF TypeOK, OtherTypes, Phases, diskVars
<1>13. CacheCovers' /\ SwitchInv'
  BY <1>1, <1>2, Zenon DEF CacheCovers, SwitchInv, Reorganising, diskVars
<1> QED
  BY <1>1, <1>11, <1>12, <1>13, RunningNext

-----------------------------------------------------------------------------
(* The theorems *)

\* The first start of a daemon: a chain of the genesis block alone.
LEMMA InitStep == Init => IInv
<1> SUFFICES ASSUME Init PROVE IInv
  OBVIOUS
<1>1. /\ m_blocks = <<Genesis>> /\ stored = <<Genesis>>
      /\ m_transactionMap = {} /\ m_spent_keys = {} /\ m_transactions = {}
      /\ m_alternative_chains = {} /\ phase = "idle"
      /\ altChain = << >> /\ oldChain = << >> /\ origin = << >>
      /\ pos = 1 /\ failedAt = 0 /\ discard = FALSE /\ callers = << >>
      /\ poolFile = {} /\ cacheFile = NoCache /\ stops = 0
  BY DEF Init
<1>2. m_points \subseteq Block
  BY PointsType, CheckpointAssumption DEF Init
<1>3. GoodChain(<<Genesis>>)
  <2>1. <<Genesis>> \in Seq(Block) /\ Len(<<Genesis>>) = 1 /\ LastOf(<<Genesis>>) = Genesis
    BY PathAssumption DEF LastOf
  <2>2. SpendsOnce(<<Genesis>>)
    BY TxAssumption DEF SpendsOnce
  <2> QED
    BY <2>1, <2>2, PathAssumption, Zenon DEF GoodChain
<1>4. Covers({}, {}, <<Genesis>>)
  <2>1. TxsOf(<<Genesis>>) = {}
    BY TxsOfMember, TxAssumption
  <2> QED
    BY <2>1, ImagesOfMember DEF Covers
<1>5. ChainOK
  <2>1. GoodChain(m_blocks) /\ GoodChain(stored)
    BY <1>1, <1>3
  <2>2. Covers(m_transactionMap, m_spent_keys, m_blocks)
    BY <1>1, <1>4
  <2>3. /\ m_transactionMap \subseteq Tx /\ m_spent_keys \subseteq KeyImage
        /\ m_transactions \subseteq Tx
    BY <1>1
  <2> QED
    BY <2>1, <2>2, <2>3 DEF ChainOK
<1>6. OtherTypes
  <2>1. altChain \in Seq(Block) /\ oldChain \in Seq(Block) /\ origin \in Seq(Block)
    BY <1>1
  <2>2. pos \in Nat /\ failedAt \in Nat /\ stops \in Nat
    BY <1>1
  <2>3. /\ m_alternative_chains \subseteq Block /\ poolFile \subseteq Tx
        /\ phase \in Phases /\ discard \in BOOLEAN
    BY <1>1, ZenonT(40) DEF Phases
  <2>4. callers \in Seq(Frame)
    BY <1>1
  <2> QED
    BY <1>1, <1>2, <2>1, <2>2, <2>3, <2>4 DEF OtherTypes
<1>7. CacheCovers /\ SwitchInv
  BY <1>1 DEF CacheCovers, SwitchInv, Reorganising
<1> QED
  BY <1>1, <1>5, <1>6, <1>7, Running

\* A step that changes nothing.
LEMMA StutterStep ==
    ASSUME IInv, UNCHANGED vars
    PROVE  IInv'
<1>1. UNCHANGED <<m_blocks, stored, m_transactionMap, m_spent_keys, m_transactions,
                  m_alternative_chains, m_points, phase, altChain, oldChain, pos,
                  failedAt, discard, callers, origin, poolFile, cacheFile, stops>>
  BY DEF vars, chainVars, switchVars, diskVars
<1> QED
  BY <1>1, Zenon DEF IInv, TypeOK, Size, GoodChain, InMemory, Covers, CacheCovers, SwitchInv,
              split_height, Suspended

\* Every step of the node keeps the invariant.
LEMMA NextStep == IInv /\ [Next]_vars => IInv'
<1> SUFFICES ASSUME IInv, [Next]_vars PROVE IInv'
  OBVIOUS
<1>1. ASSUME NEW t \in Tx, NEW keptByBlock \in BOOLEAN, add_new_tx(t, keptByBlock)
      PROVE  IInv'
  BY <1>1, PoolSteps
<1>2. ASSUME NEW t \in Tx, removeExpiredTransactions(t) PROVE IInv'
  BY <1>2, PoolSteps, Zenon
<1>3. ASSUME NEW b \in Block, AddToMainChain(b) \/ RefuseOversizeBlock(b) PROVE IInv'
  BY <1>3, MainChainSteps
<1>4. ASSUME NEW b \in Block, NEW records \in SUBSET DnsCheckpoints,
             RefuseAlternative(b, records) \/ StoreAlternative(b, records)
      PROVE  IInv'
  BY <1>4, AlternativeSteps
<1>5. ASSUME NEW b \in Block, NEW records \in SUBSET DnsCheckpoints, BeginSwitch(b, records)
      PROVE  IInv'
  BY <1>5, BeginStep
<1>6. CASE SwitchStep
  BY <1>6, DisconnectStep, ConnectStep, ConnectFailsStep, RollbackPopStep,
     RollbackPushSteps, RequeueSteps, NestedStep, FinishStep DEF SwitchStep
<1>7. CASE StorePool \/ StoreCache \/ Crash
  BY <1>7, StorePoolStep, StoreCacheStep, CrashStep
<1>8. ASSUME NEW records \in SUBSET DnsCheckpoints, NEW expired \in SUBSET poolFile,
             NEW rollback \in 0..(Size - 1), Start(records, expired, rollback)
      PROVE  IInv'
  BY <1>8, StartStep
<1>9. CASE UNCHANGED vars
  BY <1>9, StutterStep
<1> QED
  BY <1>1, <1>2, <1>3, <1>4, <1>5, <1>6, <1>7, <1>8, <1>9 DEF Next

\* The inductive invariant holds of every behaviour of the node.
THEOREM Invariance == Spec => []IInv
<1>1. Init => IInv
  BY InitStep
<1>2. IInv /\ [Next]_vars => IInv'
  BY NextStep
<1> QED
  BY <1>1, <1>2, PTL DEF Spec

\* Every variable keeps its type, through reorganisations, crashes and starts.
THEOREM TypeCorrect == Spec => []TypeOK
<1>1. IInv => TypeOK
  BY DEF IInv
<1> QED
  BY <1>1, Invariance, PTL

\* The main chain never spends a key image twice, whatever was reorganised, rolled
\* back, lost in a crash or taken from the cache (pushBlock, popBlock, init).
THEOREM DoubleSpendSafety == Spec => []NoDoubleSpend
<1>1. IInv => NoDoubleSpend
  BY DEF IInv, GoodChain, NoDoubleSpend
<1> QED
  BY <1>1, Invariance, PTL

\* The indices that double spends are refused by never miss a block of the chain.
THEOREM IndexCoverage == Spec => []IndexCoversChain
<1>1. IInv => IndexCoversChain
  BY DEF IInv, Covers, IndexCoversChain
<1> QED
  BY <1>1, Invariance, PTL

-----------------------------------------------------------------------------
(* What init makes of the checkpoints *)

\* Every good chain starts at the genesis block, the only block of height 0.
LEMMA GenesisFirst ==
    ASSUME NEW c, GoodChain(c)
    PROVE  c[1] = Genesis /\ \A p \in Block : Height(p) = 0 => p = Genesis
<1>1. LastOf(c) \in Block /\ c = Path[LastOf(c)] /\ Len(c) \in Nat /\ Len(c) > 0
  BY DEF GoodChain, LastOf
<1>2. Path[c[1]] = SubSeq(c, 1, 1) /\ c[1] \in Block
  <2> DEFINE b == LastOf(c)
  <2>1. b \in Block /\ Path[b] = c /\ 1 \in 1..Len(c)
    BY <1>1
  <2> HIDE DEF b
  <2>2. Path[Path[b][1]] = SubSeq(Path[b], 1, 1)
    BY <2>1, PathAssumption, Zenon
  <2>3. c[1] \in Block
    BY <2>1 DEF GoodChain
  <2> QED
    BY <2>1, <2>2, <2>3
<1>3. Len(SubSeq(c, 1, 1)) = 1
  BY <1>1, PrefixProperties DEF GoodChain
<1>4. \A p \in Block : Len(Path[p]) = 1 => p = Genesis
  <2> SUFFICES ASSUME NEW p \in Block, p # Genesis
               PROVE  Len(Path[p]) # 1
    OBVIOUS
  <2> DEFINE n == Len(Path[p])
  <2>1. n \in Nat /\ p \in Block \ {Genesis}
    BY PathAssumption
  <2>2. n > 1
    BY <2>1, PathAssumption
  <2> HIDE DEF n
  <2>3. n # 1
    BY <2>1, <2>2
  <2> QED
    BY <2>3 DEF n
<1>5. \A p \in Block : Height(p) = 0 => Len(Path[p]) = 1
  BY PathAssumption DEF Height
<1> QED
  BY <1>2, <1>3, <1>4, <1>5, SMTT(30)

\* Up to the height checkCheckpoints settles on, no checkpoint is contradicted.
LEMMA LastValidObeys ==
    ASSUME GoodChain(m_blocks), NEW points, points \subseteq Block,
           NEW p \in points, Height(p) < Size, Height(p) <= lastValidCheckpointHeight(points)
    PROVE  m_blocks[Height(p) + 1] = p
<1> DEFINE wrong == {q \in points : Height(q) < Size /\ m_blocks[Height(q) + 1] # q}
           valid == {Height(q) : q \in {r \in points : \A w \in wrong : Height(r) < Height(w)}}
           V == valid \cup {0}
           top == lastValidCheckpointHeight(points)
<1>1. \A q \in Block : Height(q) \in Nat
  BY PathAssumption DEF Height
<1> SUFFICES ASSUME p \in wrong
             PROVE  FALSE
  OBVIOUS
<1>2. top \in V
  <2>1. V \subseteq Nat /\ \A h \in V : h <= Height(p)
    BY <1>1
  <2>2. \E h \in V : \A k \in V : k <= h
    <3>1. V # {} /\ Height(p) \in Nat
      BY <1>1
    <3> HIDE DEF V
    <3> QED
      BY <2>1, <3>1, BoundedMax, Zenon
  <2>3. top = CHOOSE h \in V : \A k \in V : k <= h
    <3>1. wrong # {}
      OBVIOUS
    <3> QED
      BY <3>1 DEF lastValidCheckpointHeight
  <2> HIDE DEF V, top
  <2> QED
    BY <2>2, <2>3, SMTT(30)
<1>3. CASE top \in valid
  <2>1. top < Height(p)
    <3> HIDE DEF top, wrong
    <3>1. PICK r \in points : (\A w \in wrong : Height(r) < Height(w)) /\ top = Height(r)
      BY <1>3
    <3> QED
      BY <3>1
  <2>2. top \in Nat /\ Height(p) \in Nat
    BY <1>1, <1>3
  <2> QED
    BY <2>1, <2>2
<1>4. CASE top = 0
  <2>1. Height(p) = 0
    BY <1>1, <1>4
  <2> QED
    BY <2>1, GenesisFirst
<1> QED
  BY <1>2, <1>3, <1>4

\* A daemon that is down does nothing but start.
LEMMA OnlyStartLeavesDown ==
    ASSUME phase = "down", phase' = "idle", [Next]_vars
    PROVE  \E records \in SUBSET DnsCheckpoints, expired \in SUBSET poolFile,
              rollback \in 0..(Size - 1) : Start(records, expired, rollback)
<1>1. ~(UNCHANGED vars)
  BY DEF vars, switchVars
<1>2. ~SwitchStep
  BY Zenon DEF SwitchStep, Disconnect, Connect, ConnectFails, RollbackPop, RollbackPush,
         RollbackPanics, Requeue, RequeueStops, RequeueSwitches, Finish
<1>3. ~(StorePool \/ StoreCache \/ Crash)
  BY DEF StorePool, StoreCache, Crash
<1>4. \A t \in Tx, k \in BOOLEAN : ~add_new_tx(t, k) /\ ~removeExpiredTransactions(t)
  BY DEF add_new_tx, removeExpiredTransactions
<1>5. \A b \in Block : ~AddToMainChain(b) /\ ~RefuseOversizeBlock(b)
  BY DEF AddToMainChain, RefuseOversizeBlock
<1>6. \A b \in Block, records \in SUBSET DnsCheckpoints :
         ~RefuseAlternative(b, records) /\ ~StoreAlternative(b, records) /\ ~BeginSwitch(b, records)
  BY DEF RefuseAlternative, StoreAlternative, BeginSwitch, IsAlternative
<1> QED
  BY <1>1, <1>2, <1>3, <1>4, <1>5, <1>6, Zenon DEF Next

\* Whatever chain was stored, the one that init settles on contradicts no checkpoint,
\* compiled in or fetched (checkCheckpoints, rollbackBlockchainTo).
THEOREM StartCheckpointSafety == Spec => StartObeysCheckpoints
<1>1. IInv /\ [Next]_vars
        => [(phase = "down" /\ phase' = "idle")
              => \A p \in m_points' : Height(p) < Len(m_blocks') => m_blocks'[Height(p) + 1] = p]_vars
  <2> SUFFICES ASSUME IInv, [Next]_vars, phase = "down", phase' = "idle",
                      NEW p \in m_points', Height(p) < Len(m_blocks')
               PROVE  m_blocks'[Height(p) + 1] = p
    OBVIOUS
  <2>1. PICK records \in SUBSET DnsCheckpoints, expired \in SUBSET poolFile,
             rollback \in 0..(Size - 1) : Start(records, expired, rollback)
    BY OnlyStartLeavesDown, SMTT(30)
  <2> DEFINE valid == lastValidCheckpointHeight(m_points')
             top == IF rollback < valid THEN rollback ELSE valid
  <2>2. m_points' = load_checkpoints_from_dns(HardCheckpoints, records)
        /\ m_blocks' = SubSeq(m_blocks, 1, top + 1)
    BY <2>1 DEF Start
  <2>3. m_points' \subseteq Block
    BY <2>2, PointsType, CheckpointAssumption
  <2>4. GoodChain(m_blocks) /\ m_blocks \in Seq(Block) /\ Size = Len(m_blocks) /\ Size > 0
    BY DEF IInv, GoodChain, Size
  <2>5. valid \in Nat
    BY <2>3, <2>4, LastValidType
  <2>6. Height(p) \in Nat
    BY <2>3, PathAssumption DEF Height
  <2> HIDE DEF valid
  <2>7. top \in 0..(Size - 1) /\ top <= valid
    BY <2>4, <2>5
  <2> HIDE DEF top
  <2>8. Height(p) <= top /\ m_blocks'[Height(p) + 1] = m_blocks[Height(p) + 1]
    BY <2>2, <2>4, <2>6, <2>7, PrefixProperties, SMTT(30)
  <2>9. Height(p) < Size /\ Height(p) <= valid
    BY <2>4, <2>5, <2>6, <2>7, <2>8
  <2> QED
    BY <2>3, <2>4, <2>8, <2>9, LastValidObeys, Zenon DEF valid
<1> QED
  BY <1>1, Invariance, PTL DEF Spec, StartObeysCheckpoints
=============================================================================
