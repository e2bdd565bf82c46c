------------------------- MODULE BlockchainRefinement -------------------------
(***************************************************************************)
(* That Blockchain implements Ledger; and, for a node that no checkpoint    *)
(* surprises and that meets no oversize block ("calm"), that its indices    *)
(* are exact and that a rollback always restores the chain.                 *)
(***************************************************************************)
EXTENDS BlockchainProofs

-----------------------------------------------------------------------------
(* The invariants *)

\* The chains that switches began with are good; only a switch has callers.
OriginsInv ==
    /\ phase \in Reorganising => GoodChain(origin)
    /\ \A i \in DOMAIN callers : GoodChain(callers[i].origin)
    /\ callers # << >> => phase \in Reorganising

Calm == DnsCheckpoints = {} /\ Oversize = {}

\* The block at position i passed the checks of pushBlock that depend on the chain below.
SoundAt(c, i) ==
    /\ c[i] \notin BadBlocks /\ c[i] \notin BadReward
    /\ IF is_in_checkpoint_zone(HardCheckpoints, i - 1)
       THEN check_block(HardCheckpoints, c[i])
       ELSE /\ c[i] \notin WeakPow
            /\ \A t \in BlockTxs[c[i]] : \A r \in Ring[t] : \E j \in 1..(i - 1) : c[j] = r

Sound(c) == \A i \in 2..Len(c) : SoundAt(c, i)

\* The indices are those of the chain, and the cache those of the chain it was taken at.
Exact(txs, keys, c) == txs = TxsOf(c) /\ keys = ImagesOf(TxsOf(c))

ChainCalm ==
    /\ Sound(m_blocks) /\ Sound(stored)
    /\ InMemory => /\ Exact(m_transactionMap, m_spent_keys, m_blocks)
                   /\ m_points = HardCheckpoints
    /\ cacheFile # NoCache => Exact(cacheFile.txs, cacheFile.keys, Path[cacheFile.tail])

\* The first n blocks of the chain a switch began with are in place.
InPlace(n) == n <= Size /\ n <= Len(origin) /\ \A i \in 1..n : m_blocks[i] = origin[i]

\* oldChain is the rest of that chain, above n.
Kept(n) == /\ Len(oldChain) = Len(origin) - n
           /\ \A i \in 1..Len(oldChain) : oldChain[i] = origin[n + i]

Undoing == {"disconnect", "connect", "rollbackPop", "rollbackPush"}

\* How far a switch has come, and that every transaction it took off the chain is in the
\* pool or on the new chain.
SwitchCalm ==
    /\ phase \in Reorganising => Sound(origin)
    /\ phase \in Undoing =>
          /\ InPlace(split_height) /\ split_height < Len(origin)
          /\ TxsOf(origin) \subseteq TxsOf(m_blocks) \cup m_transactions
    /\ phase = "disconnect" => InPlace(Size) /\ Kept(Size)
    /\ phase \in Undoing \ {"disconnect"} => Kept(split_height)
    /\ phase \in {"disconnect", "connect"} =>
          \A i \in (split_height + 1)..Len(origin) : BlockTxs[origin[i]] \subseteq TxsOf(altChain)
    /\ phase = "connect" =>
          /\ Size = split_height + pos - 1
          /\ \A i \in 1..(pos - 1) : BlockTxs[altChain[i]] \subseteq TxsOf(m_blocks)
    /\ phase = "rollbackPush" => Size = split_height + pos - 1 /\ InPlace(Size)
    /\ phase \in {"requeue", "finish"} => TxsOf(origin) \subseteq TxsOf(m_blocks)

\* No switch of a stack of switches began with less than the one that waits for it.
StackCalm ==
    /\ \A i \in DOMAIN callers : /\ Sound(callers[i].origin)
                                 /\ TxsOf(callers[i].origin) \subseteq TxsOf(origin)
    /\ \A i, j \in DOMAIN callers :
          i <= j => TxsOf(callers[j].origin) \subseteq TxsOf(callers[i].origin)

CalmInv == ChainCalm /\ SwitchCalm /\ StackCalm

-----------------------------------------------------------------------------
(* Chains: exact indices, and checks that were passed *)

\* Cutting a good chain after n and erasing what the rest held leaves exactly the prefix.
LEMMA CutExact ==
    ASSUME NEW c, GoodChain(c), NEW n \in 1..Len(c), NEW rest,
           \A t : t \in rest <=> \E j \in (n + 1)..Len(c) : t \in BlockTxs[c[j]]
    PROVE  Exact(TxsOf(c) \ rest, ImagesOf(TxsOf(c)) \ ImagesOf(rest), SubSeq(c, 1, n))
<1> DEFINE p == SubSeq(c, 1, n)
<1>1. c \in Seq(Block) /\ DOMAIN c = 1..Len(c) /\ DOMAIN p = 1..n
  BY PrefixProperties DEF GoodChain
<1>2. \A i \in 1..n : i \in DOMAIN c /\ p[i] = c[i]
  BY <1>1, PrefixProperties
<1>3. Covers(TxsOf(c) \ rest, ImagesOf(TxsOf(c)) \ ImagesOf(rest), p)
  <2>1. Covers(TxsOf(c), ImagesOf(TxsOf(c)), c)
    BY DEF Covers
  <2> QED
    BY <2>1, CutCovers
<1> HIDE DEF p
<1>4. TxsOf(c) \ rest \subseteq TxsOf(p)
  <2> SUFFICES ASSUME NEW t \in TxsOf(c), t \notin rest PROVE t \in TxsOf(p)
    OBVIOUS
  <2>1. PICK i \in DOMAIN c : t \in BlockTxs[c[i]]
    BY TxsOfMember
  <2>2. i \in 1..n
    BY <1>1, <2>1
  <2>3. i \in DOMAIN p /\ t \in BlockTxs[p[i]]
    BY <1>1, <1>2, <2>1, <2>2
  <2> QED
    BY <2>3, TxsOfMember
<1>5. ImagesOf(TxsOf(c)) \ ImagesOf(rest) \subseteq ImagesOf(TxsOf(p))
  <2> SUFFICES ASSUME NEW k \in ImagesOf(TxsOf(c)), k \notin ImagesOf(rest)
               PROVE  k \in ImagesOf(TxsOf(p))
    OBVIOUS
  <2>1. PICK t \in TxsOf(c) : k \in KeyImages[t]
    BY ImagesOfMember
  <2>2. t \notin rest
    BY <2>1, ImagesOfMember
  <2> QED
    BY <1>4, <2>1, <2>2, ImagesOfMember
<1> QED
  BY <1>3, <1>4, <1>5 DEF Exact, Covers, p

\* What a chain with one more block holds.
LEMMA AppendTxs ==
    ASSUME NEW c \in Seq(Block), NEW b \in Block
    PROVE  /\ TxsOf(Append(c, b)) = TxsOf(c) \cup BlockTxs[b]
           /\ ImagesOf(TxsOf(Append(c, b))) = ImagesOf(TxsOf(c)) \cup ImagesOf(BlockTxs[b])
<1> DEFINE d == Append(c, b)
<1>1. /\ Len(c) \in Nat
      /\ DOMAIN c = 1..Len(c) /\ DOMAIN d = 1..(Len(c) + 1)
      /\ \A i \in 1..Len(c) : d[i] = c[i]
      /\ d[Len(c) + 1] = b
  OBVIOUS
<1> HIDE DEF d
<1>2. ASSUME NEW t PROVE t \in TxsOf(d) <=> t \in TxsOf(c) \/ t \in BlockTxs[b]
  <2>1. ASSUME t \in TxsOf(d) PROVE t \in TxsOf(c) \/ t \in BlockTxs[b]
    <3>1. PICK i \in DOMAIN d : t \in BlockTxs[d[i]]
      BY <2>1, TxsOfMember
    <3>2. i = Len(c) + 1 \/ (i \in DOMAIN c /\ d[i] = c[i])
      BY <1>1
    <3> QED
      BY <1>1, <3>1, <3>2, TxsOfMember
  <2>2. ASSUME t \in TxsOf(c) PROVE t \in TxsOf(d)
    <3>1. PICK i \in DOMAIN c : t \in BlockTxs[c[i]]
      BY <2>2, TxsOfMember
    <3>2. i \in DOMAIN d /\ d[i] = c[i]
      BY <1>1
    <3> QED
      BY <3>1, <3>2, TxsOfMember
  <2>3. ASSUME t \in BlockTxs[b] PROVE t \in TxsOf(d)
    <3>1. Len(c) + 1 \in DOMAIN d /\ d[Len(c) + 1] = b
      BY <1>1
    <3> QED
      BY <2>3, <3>1, TxsOfMember
  <2> QED
    BY <2>1, <2>2, <2>3
<1>3. ASSUME NEW k
      PROVE  k \in ImagesOf(TxsOf(d)) <=> k \in ImagesOf(TxsOf(c)) \/ k \in ImagesOf(BlockTxs[b])
  BY <1>2, ImagesOfMember
<1> QED
  BY <1>2, <1>3 DEF d

\* What a chain cut by its last block holds, and what it held.
LEMMA CutTxs ==
    ASSUME NEW c, GoodChain(c), Len(c) > 1
    PROVE  LET p == SubSeq(c, 1, Len(c) - 1) IN
           /\ Exact(TxsOf(c) \ BlockTxs[LastOf(c)],
                    ImagesOf(TxsOf(c)) \ ImagesOf(BlockTxs[LastOf(c)]), p)
           /\ TxsOf(c) = TxsOf(p) \cup BlockTxs[LastOf(c)]
<1> DEFINE n == Len(c) - 1
           p == SubSeq(c, 1, n)
<1>1. c \in Seq(Block) /\ Len(c) \in Nat /\ n \in 1..Len(c) /\ Len(c) \in DOMAIN c
  BY DEF GoodChain
<1>2. \A t : t \in BlockTxs[LastOf(c)] <=> \E j \in (n + 1)..Len(c) : t \in BlockTxs[c[j]]
  BY <1>1 DEF LastOf
<1>3. Exact(TxsOf(c) \ BlockTxs[LastOf(c)],
            ImagesOf(TxsOf(c)) \ ImagesOf(BlockTxs[LastOf(c)]), p)
  <2> HIDE DEF n
  <2> QED
    BY <1>1, <1>2, CutExact, Zenon
<1>4. BlockTxs[LastOf(c)] \subseteq TxsOf(c)
  BY <1>1, TxsOfMember DEF LastOf
<1> QED
  BY <1>3, <1>4 DEF Exact

\* The blocks of a good chain: where they are, what is below them, and that all differ.
LEMMA GoodPositions ==
    ASSUME NEW c, GoodChain(c), NEW i \in 1..Len(c)
    PROVE  /\ c[i] \in Block /\ Path[c[i]] = SubSeq(c, 1, i) /\ Height(c[i]) = i - 1
           /\ \A j \in 1..Len(c) : c[j] = c[i] => j = i
           /\ i > 1 => c[i] # Genesis /\ Prev(c[i]) = c[i - 1]
<1>1. c \in Seq(Block) /\ Len(c) \in Nat /\ Path[LastOf(c)] = c /\ LastOf(c) \in Block
  BY DEF GoodChain, LastOf
<1>2. \A j \in 1..Len(c) : c[j] \in Block /\ Path[c[j]] = SubSeq(c, 1, j)
  <2>1. PICK b \in Block : Path[b] = c
    BY <1>1
  <2>2. \A j \in 1..Len(Path[b]) : Path[Path[b][j]] = SubSeq(Path[b], 1, j)
    BY PathAssumption, Zenon
  <2> QED
    BY <1>1, <2>1, <2>2
<1>3. \A j \in 1..Len(c) : Len(Path[c[j]]) = j
  BY <1>1, <1>2, PrefixProperties
<1>4. i > 1 => Path[c[i]][i - 1] = c[i - 1]
  BY <1>1, <1>2, PrefixProperties
<1>5. i > 1 => c[i] # Genesis
  BY <1>3, PathAssumption
<1> QED
  BY <1>2, <1>3, <1>4, <1>5 DEF Height, Prev

\* A prefix of a sound chain is sound.
LEMMA SoundPrefix ==
    ASSUME NEW c \in Seq(Block), Sound(c), NEW n \in 1..Len(c)
    PROVE  Sound(SubSeq(c, 1, n))
<1> DEFINE p == SubSeq(c, 1, n)
<1>1. Len(p) = n /\ \A i \in 1..n : p[i] = c[i]
  BY PrefixProperties
<1> HIDE DEF p
<1>2. ASSUME NEW i \in 2..n PROVE SoundAt(p, i)
  <2>1. SoundAt(c, i) /\ p[i] = c[i] /\ \A j \in 1..(i - 1) : p[j] = c[j]
    BY <1>1 DEF Sound
  <2> QED
    BY <2>1 DEF SoundAt
<1> QED
  BY <1>1, <1>2 DEF Sound, p

\* A block that pushBlock accepts keeps the chain sound.
LEMMA SoundAppend ==
    ASSUME NEW c \in Seq(Block), Sound(c), Len(c) > 0, NEW b \in Block,
           SoundAt(Append(c, b), Len(c) + 1)
    PROVE  Sound(Append(c, b))
<1> DEFINE d == Append(c, b)
<1>1. Len(c) \in Nat /\ Len(d) = Len(c) + 1 /\ \A i \in 1..Len(c) : d[i] = c[i]
  OBVIOUS
<1>2. SoundAt(d, Len(c) + 1)
  OBVIOUS
<1> HIDE DEF d
<1>3. ASSUME NEW i \in 2..Len(d) PROVE SoundAt(d, i)
  <2>1. CASE i = Len(c) + 1
    BY <1>2, <2>1
  <2>2. CASE i # Len(c) + 1
    <3>1. i \in 2..Len(c)
      BY <1>1, <2>2
    <3>2. SoundAt(c, i) /\ d[i] = c[i] /\ \A j \in 1..(i - 1) : d[j] = c[j]
      BY <1>1, <3>1 DEF Sound
    <3> QED
      BY <3>2, SMTT(30) DEF SoundAt
  <2> QED
    BY <2>1, <2>2
<1> QED
  BY <1>3 DEF Sound, d

-----------------------------------------------------------------------------
(* One block pushed, refused or popped by a calm node *)

\* The chain, its stored form and its indices, of a calm node that runs.
LiveCalm ==
    /\ Sound(m_blocks) /\ Sound(stored)
    /\ Exact(m_transactionMap, m_spent_keys, m_blocks)
    /\ m_points = HardCheckpoints

\* pushBlock: the indices stay exact, and the transactions move from the pool to the chain.
LEMMA CalmPush ==
    ASSUME ChainOK, LiveCalm, NEW b \in Block, pushBlock(b), m_points' = m_points
    PROVE  /\ LiveCalm'
           /\ m_blocks' = Append(m_blocks, b)
           /\ TxsOf(m_blocks') = TxsOf(m_blocks) \cup BlockTxs[b]
           /\ m_transactions' = m_transactions \ BlockTxs[b]
<1>1. /\ m_blocks \in Seq(Block) /\ Len(m_blocks) \in Nat /\ Len(m_blocks) > 0
      /\ m_blocks' = Append(m_blocks, b) /\ stored' = m_blocks
      /\ m_transactions' = m_transactions \ BlockTxs[b]
  BY DEF ChainOK, GoodChain, pushBlock
<1>2. Exact(m_transactionMap', m_spent_keys', m_blocks')
  BY <1>1, AppendTxs DEF LiveCalm, Exact, pushBlock, IndexTransactions
<1>3. SoundAt(Append(m_blocks, b), Len(m_blocks) + 1)
  <2> DEFINE d == Append(m_blocks, b)
             n == Len(m_blocks)
  <2>1. d[n + 1] = b /\ \A j \in 1..n : d[j] = m_blocks[j]
    BY <1>1
  <2>2. /\ b \notin BadBlocks /\ b \notin BadReward
        /\ IF is_in_checkpoint_zone(HardCheckpoints, n) THEN check_block(HardCheckpoints, b)
                                                       ELSE b \notin WeakPow
    BY DEF pushBlock, CanPush, HeaderAccepted, LiveCalm, Size
  <2>3. \A t \in BlockTxs[b] :
           is_in_checkpoint_zone(HardCheckpoints, n) \/ Ring[t] \subseteq Elems(m_blocks)
    BY DEF pushBlock, CanPush, TransactionsAccepted, checkTransactionInputs, LiveCalm, Size
  <2>4. \A r \in Elems(m_blocks) : \E j \in 1..n : m_blocks[j] = r
    BY <1>1 DEF Elems
  <2>5. n \in Nat /\ (n + 1) - 1 = n
    BY <1>1
  <2> HIDE DEF d, n
  <2>6. SoundAt(d, n + 1)
    BY <2>1, <2>2, <2>3, <2>4, <2>5 DEF SoundAt
  <2> QED
    BY <2>6 DEF d, n
<1>4. Sound(m_blocks') /\ Sound(stored')
  BY <1>1, <1>3, SoundAppend DEF LiveCalm
<1> QED
  BY <1>1, <1>2, <1>4, AppendTxs DEF LiveCalm

\* A block that is refused leaves no trace.
LEMMA CalmFail ==
    ASSUME Calm, LiveCalm, NEW b, pushBlockFails(b), m_points' = m_points
    PROVE  LiveCalm' /\ UNCHANGED <<m_blocks, m_transactions>>
<1>1. ~Leaks(b)
  BY DEF Leaks, Calm
<1>2. UNCHANGED <<m_blocks, stored, m_transactions, m_transactionMap, m_spent_keys>>
  BY <1>1 DEF pushBlockFails
<1> QED
  BY <1>2 DEF LiveCalm

\* popBlock: the indices stay exact, and the transactions move from the chain to the pool.
LEMMA CalmPop ==
    ASSUME ChainOK, LiveCalm, Size > 1, popBlock, m_points' = m_points
    PROVE  /\ LiveCalm'
           /\ m_blocks' = SubSeq(m_blocks, 1, Size - 1)
           /\ TxsOf(m_blocks) = TxsOf(m_blocks') \cup BlockTxs[TailId]
           /\ m_transactions' = m_transactions \cup BlockTxs[TailId]
<1>1. /\ m_blocks \in Seq(Block) /\ Len(m_blocks) \in Nat /\ Size = Len(m_blocks)
      /\ Size - 1 \in 1..Len(m_blocks)
      /\ m_blocks' = SubSeq(m_blocks, 1, Size - 1) /\ stored' = m_blocks
      /\ m_transactions' = m_transactions \cup BlockTxs[TailId]
      /\ TailId = LastOf(m_blocks)
  BY DEF ChainOK, GoodChain, popBlock, Size, TailId
<1>2. /\ Exact(TxsOf(m_blocks) \ BlockTxs[TailId],
               ImagesOf(TxsOf(m_blocks)) \ ImagesOf(BlockTxs[TailId]), m_blocks')
      /\ TxsOf(m_blocks) = TxsOf(m_blocks') \cup BlockTxs[TailId]
  BY <1>1, CutTxs, Zenon DEF ChainOK
<1>3. Exact(m_transactionMap', m_spent_keys', m_blocks')
  BY <1>2, Zenon DEF LiveCalm, Exact, popBlock, popTransactions
<1>4. Sound(m_blocks') /\ Sound(stored')
  BY <1>1, SoundPrefix DEF LiveCalm
<1> QED
  BY <1>1, <1>2, <1>3, <1>4 DEF LiveCalm

\* A block of a good and sound chain can always be pushed back on the blocks below it, when
\* its transactions have not been lost.
LEMMA PushBack ==
    ASSUME Calm, ChainOK, LiveCalm, GoodChain(origin), Sound(origin),
           Size < Len(origin), InPlace(Size),
           TxsOf(origin) \subseteq TxsOf(m_blocks) \cup m_transactions
    PROVE  CanPush(origin[Size + 1])
<1> DEFINE n == Size
           b == origin[n + 1]
<1>1. /\ m_blocks \in Seq(Block) /\ n \in Nat /\ n > 0 /\ DOMAIN m_blocks = 1..n
      /\ origin \in Seq(Block) /\ Len(origin) \in Nat /\ DOMAIN origin = 1..Len(origin)
      /\ n + 1 \in 1..Len(origin) /\ n + 1 \in 2..Len(origin) /\ (n + 1) - 1 = n
      /\ \A i \in 1..n : i \in 1..Len(origin) /\ m_blocks[i] = origin[i]
  BY DEF ChainOK, GoodChain, Size, InPlace
<1>2. b \in Block /\ b # Genesis /\ Prev(b) = origin[n] /\ \A j \in 1..n : origin[j] # b
  BY <1>1, GoodPositions
<1>3. SoundAt(origin, n + 1)
  BY <1>1 DEF Sound
<1>4. TailId = origin[n]
  BY <1>1 DEF TailId, LastOf, Size
<1>5. \A i \in 1..n : /\ BlockTxs[b] \cap BlockTxs[m_blocks[i]] = {}
                      /\ ImagesOf(BlockTxs[b]) \cap ImagesOf(BlockTxs[m_blocks[i]]) = {}
  <2> SUFFICES ASSUME NEW i \in 1..n
               PROVE  /\ BlockTxs[b] \cap BlockTxs[m_blocks[i]] = {}
                      /\ ImagesOf(BlockTxs[b]) \cap ImagesOf(BlockTxs[m_blocks[i]]) = {}
    OBVIOUS
  <2>1. i \in DOMAIN origin /\ n + 1 \in DOMAIN origin /\ i # n + 1 /\ m_blocks[i] = origin[i]
    BY <1>1
  <2> QED
    BY <2>1, PositionsDisjoint
<1> HIDE DEF n
<1>6. Loadable(b)
  <2> SUFFICES ASSUME NEW t \in BlockTxs[b] PROVE t \in m_transactions
    BY DEF Loadable
  <2>1. t \in TxsOf(origin)
    BY <1>1, TxsOfMember
  <2>2. t \notin TxsOf(m_blocks)
    BY <1>1, <1>5, TxsOfMember
  <2> QED
    BY <2>1, <2>2
<1>7. HeaderAccepted(b)
  <2>1. b \notin Elems(m_blocks)
    BY <1>1, <1>2 DEF Elems
  <2> QED
    BY <1>1, <1>2, <1>3, <1>4, <2>1 DEF HeaderAccepted, SoundAt, LiveCalm, n
<1>8. \A t \in BlockTxs[b] : checkTransactionInputs(t)
  <2> SUFFICES ASSUME NEW t \in BlockTxs[b] PROVE checkTransactionInputs(t)
    OBVIOUS
  <2>1. KeyImages[t] \cap m_spent_keys = {}
    <3> SUFFICES ASSUME NEW k \in KeyImages[t], k \in ImagesOf(TxsOf(m_blocks)) PROVE FALSE
      BY DEF LiveCalm, Exact
    <3>1. PICK u \in TxsOf(m_blocks) : k \in KeyImages[u]
      BY ImagesOfMember
    <3>2. PICK i \in 1..n : u \in BlockTxs[m_blocks[i]]
      BY <1>1, TxsOfMember
    <3>3. k \in ImagesOf(BlockTxs[b])
      BY ImagesOfMember
    <3>4. k \in ImagesOf(BlockTxs[m_blocks[i]])
      BY <3>1, <3>2, ImagesOfMember
    <3> QED
      BY <1>5, <3>3, <3>4
  <2>2. is_in_checkpoint_zone(m_points, Size) \/ Ring[t] \subseteq Elems(m_blocks)
    <3>1. CASE is_in_checkpoint_zone(HardCheckpoints, n)
      BY <3>1 DEF LiveCalm, n
    <3>2. CASE ~is_in_checkpoint_zone(HardCheckpoints, n)
      <4>1. \A r \in Ring[t] : \E j \in 1..n : origin[j] = r
        BY <1>1, <1>3, <3>2 DEF SoundAt
      <4>2. \A r \in Ring[t] : r \in Elems(m_blocks)
        BY <1>1, <4>1 DEF Elems
      <4> QED
        BY <4>2
    <3> QED
      BY <3>1, <3>2
  <2> QED
    BY <2>1, <2>2 DEF checkTransactionInputs
<1>9. \A t, u \in BlockTxs[b] : t # u => KeyImages[t] \cap KeyImages[u] = {}
  BY <1>1 DEF GoodChain, SpendsOnce
<1>10. b \notin Oversize /\ b \notin BadReward
  BY <1>3 DEF Calm, SoundAt
<1> QED
  BY <1>6, <1>7, <1>8, <1>9, <1>10 DEF CanPush, TransactionsAccepted, n

-----------------------------------------------------------------------------
(* OriginsInv, action by action *)

\* Steps that neither begin a switch nor return from one keep the chains it began with.
LEMMA OriginsKept ==
    ASSUME OriginsInv, UNCHANGED <<callers, origin>>,
           phase' \in Reorganising <=> phase \in Reorganising
    PROVE  OriginsInv'
BY DEF OriginsInv

\* switch_to_alternative_blockchain returns.
LEMMA OriginsReturn ==
    ASSUME OriginsInv, callers \in Seq(Frame), NEW ok \in BOOLEAN, Return(ok)
    PROVE  OriginsInv'
<1>1. CASE callers = << >>
  BY <1>1 DEF OriginsInv, Return, Reorganising
<1>2. CASE callers # << >>
  <2>1. /\ origin' = Head(callers).origin /\ callers' = Tail(callers)
        /\ phase' \in {"requeue", "finish"}
    BY <1>2 DEF Return
  <2>2. 1 \in DOMAIN callers /\ Head(callers) = callers[1]
    BY <1>2
  <2>3. \A i \in DOMAIN callers' : i + 1 \in DOMAIN callers /\ callers'[i] = callers[i + 1]
    BY <1>2, <2>1
  <2> QED
    BY <2>1, <2>2, <2>3 DEF OriginsInv, Reorganising
<1> QED
  BY <1>1, <1>2

\* A switch begins with the chain it finds, which the switch around it keeps on the stack.
LEMMA OriginsNested ==
    ASSUME OriginsInv, GoodChain(m_blocks), callers \in Seq(Frame),
           NEW records, RequeueSwitches(records)
    PROVE  OriginsInv'
<1> DEFINE c == [altChain |-> altChain, oldChain |-> oldChain, origin |-> origin, pos |-> pos]
<1>1. /\ phase = "requeue" /\ phase' = "disconnect" /\ origin' = m_blocks
      /\ callers' = <<c>> \o callers
  BY DEF RequeueSwitches, EnterSwitch
<1>2. GoodChain(origin) /\ c.origin = origin
  BY <1>1 DEF OriginsInv, Reorganising
<1> HIDE DEF c
<1>3. \A i \in DOMAIN callers' :
         IF i = 1 THEN callers'[i] = c
         ELSE i - 1 \in DOMAIN callers /\ callers'[i] = callers[i - 1]
  BY <1>1
<1>4. \A i \in DOMAIN callers' : GoodChain(callers'[i].origin)
  BY <1>2, <1>3 DEF OriginsInv
<1>5. phase' \in Reorganising
  BY <1>1 DEF Reorganising
<1> QED
  BY <1>1, <1>4, <1>5 DEF OriginsInv

\* Every step keeps the chains that switches began with good.
LEMMA OriginsNext == IInv /\ OriginsInv /\ [Next]_vars => OriginsInv'
<1> SUFFICES ASSUME IInv, OriginsInv, [Next]_vars PROVE OriginsInv'
  OBVIOUS
<1> USE DEF Reorganising
<1>1. callers \in Seq(Frame) /\ GoodChain(m_blocks)
  BY DEF IInv, TypeOK
<1>2. ASSUME NEW t \in Tx, NEW keptByBlock \in BOOLEAN,
             add_new_tx(t, keptByBlock) \/ removeExpiredTransactions(t)
      PROVE  OriginsInv'
  BY <1>2, OriginsKept DEF add_new_tx, removeExpiredTransactions, switchVars
<1>3. ASSUME NEW b \in Block, AddToMainChain(b) \/ RefuseOversizeBlock(b) PROVE OriginsInv'
  BY <1>3, OriginsKept DEF AddToMainChain, RefuseOversizeBlock, switchVars
<1>4. ASSUME NEW b \in Block, NEW records \in SUBSET DnsCheckpoints,
             RefuseAlternative(b, records) \/ StoreAlternative(b, records)
      PROVE  OriginsInv'
  BY <1>4, OriginsKept DEF RefuseAlternative, StoreAlternative, switchVars
<1>5. ASSUME NEW b \in Block, NEW records \in SUBSET DnsCheckpoints, BeginSwitch(b, records)
      PROVE  OriginsInv'
  BY <1>1, <1>5 DEF BeginSwitch, EnterSwitch, IsAlternative, OriginsInv
<1>6. CASE Disconnect \/ Connect \/ ConnectFails \/ RollbackPop
  BY <1>6, OriginsKept DEF Disconnect, Connect, ConnectFails, RollbackPop
<1>7. CASE RollbackPush \/ RollbackPanics
  <2>1. CASE Return(FALSE)
    BY <1>1, <2>1, OriginsReturn, Zenon
  <2>2. CASE ~Return(FALSE)
    BY <1>7, <2>2, OriginsKept, Zenon DEF RollbackPush, RollbackPanics
  <2> QED
    BY <2>1, <2>2, Zenon
<1>8. CASE Finish
  BY <1>1, <1>8, OriginsReturn, Zenon DEF Finish
<1>9. ASSUME NEW records \in SUBSET DnsCheckpoints, Requeue(records) \/ RequeueStops(records)
      PROVE  OriginsInv'
  BY <1>9, OriginsKept DEF Requeue, RequeueStops
<1>10. ASSUME NEW records \in SUBSET DnsCheckpoints, RequeueSwitches(records)
       PROVE  OriginsInv'
  BY <1>1, <1>10, OriginsNested
<1>11. CASE StorePool
  BY <1>11, OriginsKept DEF StorePool
<1>12. CASE StoreCache \/ Crash
  BY <1>12 DEF StoreCache, Crash, LoseMemory, OriginsInv
<1>13. ASSUME NEW records \in SUBSET DnsCheckpoints, NEW expired \in SUBSET poolFile,
              NEW rollback \in 0..(Size - 1), Start(records, expired, rollback)
       PROVE  OriginsInv'
  BY <1>13, OriginsKept DEF Start
<1>14. CASE UNCHANGED vars
  BY <1>14, OriginsKept DEF vars, switchVars
<1> QED
  BY <1>2, <1>3, <1>4, <1>5, <1>6, <1>7, <1>8, <1>9, <1>10, <1>11, <1>12, <1>13, <1>14,
      Zenon DEF Next, SwitchStep

-----------------------------------------------------------------------------
(* CalmInv, action by action *)

CacheExact ==
    cacheFile # NoCache => Exact(cacheFile.txs, cacheFile.keys, Path[cacheFile.tail])

\* ChainCalm of a node that runs, taken apart.
LEMMA CalmRunning ==
    phase # "down" => (ChainCalm <=> LiveCalm /\ CacheExact)
BY DEF ChainCalm, LiveCalm, CacheExact, InMemory

\* The same in the next state.
LEMMA CalmRunningNext ==
    phase' # "down" => (ChainCalm' <=> LiveCalm' /\ CacheExact')
BY DEF ChainCalm, LiveCalm, CacheExact, InMemory

\* Without DNS records the checkpoints do not change.
LEMMA CalmPoints ==
    ASSUME Calm, NEW points, NEW records \in SUBSET DnsCheckpoints
    PROVE  load_checkpoints_from_dns(points, records) = points
BY DEF Calm, load_checkpoints_from_dns

\* Outside of a switch nothing is promised about one.
LEMMA Quiet ==
    ASSUME phase' \notin Reorganising, callers' = << >>
    PROVE  SwitchCalm' /\ StackCalm'
<1>1. SwitchCalm'
  BY DEF SwitchCalm, Reorganising, Undoing
<1>2. StackCalm'
  BY DEF StackCalm
<1> QED
  BY <1>1, <1>2

\* A switch that begins has everything in place.
LEMMA EnterCalm ==
    ASSUME ChainOK, Sound(m_blocks), NEW b \in Block, NEW points,
           EnterSwitch(b, points), SwitchPermitted(b), SplitHeight(b) > 0,
           UNCHANGED chainVars
    PROVE  SwitchCalm'
<1> DEFINE h == SplitHeight(b)
<1>1. /\ phase' = "disconnect" /\ altChain' = AltChainTo(b) /\ oldChain' = << >>
      /\ pos' = 1 /\ origin' = m_blocks
      /\ m_blocks' = m_blocks /\ m_transactions' = m_transactions
  BY DEF EnterSwitch, chainVars
<1>2. /\ m_blocks \in Seq(Block) /\ Size \in Nat /\ Size = Len(m_blocks) /\ Size' = Size
      /\ h \in Nat /\ h < Size /\ split_height' = h
  <2>1. h \in Nat /\ Height(AltChainTo(b)[1]) = h
    BY AltChainProperties
  <2>2. split_height' = Height(AltChainTo(b)[1])
    BY <1>1 DEF split_height
  <2>3. m_blocks \in Seq(Block) /\ Size = Len(m_blocks) /\ Size' = Size
    BY <1>1 DEF ChainOK, GoodChain, Size
  <2> QED
    BY <2>1, <2>2, <2>3 DEF SwitchPermitted
<1>3. \A i \in (h + 1)..Len(m_blocks) : BlockTxs[m_blocks[i]] \subseteq TxsOf(AltChainTo(b))
  <2> DEFINE r == SubSeq(m_blocks, h + 1, Size)
  <2>1. TxsOf(r) \subseteq TxsOf(AltChainTo(b))
    BY DEF SwitchPermitted
  <2> SUFFICES ASSUME NEW i \in (h + 1)..Len(m_blocks), NEW t \in BlockTxs[m_blocks[i]]
               PROVE  t \in TxsOf(r)
    BY <2>1
  <2>2. i - h \in DOMAIN r /\ r[i - h] = m_blocks[i]
    BY <1>2
  <2> HIDE DEF r
  <2> QED
    BY <2>2, TxsOfMember
<1> HIDE DEF h
<1>4. InPlace(split_height)' /\ InPlace(Size)' /\ Kept(Size)'
  <2>1. \A i \in 1..0 : FALSE
    OBVIOUS
  <2> QED
    BY <1>1, <1>2, <2>1 DEF InPlace, Kept
<1> QED
  BY <1>1, <1>2, <1>3, <1>4 DEF SwitchCalm, Undoing

\* "disconnecting old chain".
LEMMA CalmDisconnect ==
    ASSUME IInv, OriginsInv, LiveCalm, SwitchCalm, Disconnect
    PROVE  LiveCalm' /\ SwitchCalm'
<1>1. /\ phase = "disconnect" /\ popBlock
      /\ oldChain' = <<TailId>> \o oldChain
      /\ phase' = IF Size - 1 > split_height THEN "disconnect" ELSE "connect"
      /\ UNCHANGED <<altChain, pos, origin, m_points>>
  BY DEF Disconnect
<1>2. /\ ChainOK /\ oldChain \in Seq(Block) /\ Size \in Nat
      /\ split_height \in Nat /\ split_height > 0 /\ Size > split_height /\ pos = 1
  BY <1>1, Switching DEF OtherTypes, SwitchInv, Reorganising
<1>3. /\ InPlace(split_height) /\ split_height < Len(origin)
      /\ TxsOf(origin) \subseteq TxsOf(m_blocks) \cup m_transactions
      /\ InPlace(Size) /\ Kept(Size) /\ Sound(origin)
      /\ \A i \in (split_height + 1)..Len(origin) : BlockTxs[origin[i]] \subseteq TxsOf(altChain)
  BY <1>1 DEF SwitchCalm, Undoing, Reorganising
<1>4. /\ LiveCalm'
      /\ m_blocks' = SubSeq(m_blocks, 1, Size - 1)
      /\ TxsOf(m_blocks) = TxsOf(m_blocks') \cup BlockTxs[TailId]
      /\ m_transactions' = m_transactions \cup BlockTxs[TailId]
  BY <1>1, <1>2, CalmPop
<1>5. /\ m_blocks \in Seq(Block) /\ origin \in Seq(Block) /\ Len(origin) \in Nat
      /\ Size' = Size - 1 /\ \A i \in 1..(Size - 1) : m_blocks'[i] = m_blocks[i]
      /\ TailId = origin[Size] /\ TailId \in Block
  <2>1. m_blocks \in Seq(Block) /\ Size = Len(m_blocks) /\ Size - 1 \in 1..Len(m_blocks)
    BY <1>2 DEF ChainOK, GoodChain, Size
  <2>2. origin \in Seq(Block)
    BY DEF IInv, TypeOK
  <2> QED
    BY <1>2, <1>3, <1>4, <2>1, <2>2, PrefixProperties DEF Size, InPlace, TailId, LastOf
<1>6. split_height' = split_height
  BY <1>1 DEF split_height
<1>7. InPlace(Size)' /\ InPlace(split_height)'
  BY <1>1, <1>2, <1>3, <1>5, <1>6, SMTT(30) DEF InPlace
<1>8. Kept(Size)'
  <2>1. /\ Len(oldChain') = Len(oldChain) + 1
        /\ oldChain'[1] = TailId
        /\ \A i \in 1..Len(oldChain) : oldChain'[i + 1] = oldChain[i]
    BY <1>1, <1>2, <1>5
  <2>2. \A i \in 1..Len(oldChain') : oldChain'[i] = origin[(Size - 1) + i]
    <3> SUFFICES ASSUME NEW i \in 1..Len(oldChain')
                 PROVE  oldChain'[i] = origin[(Size - 1) + i]
      OBVIOUS
    <3>1. CASE i = 1
      BY <1>2, <1>5, <2>1, <3>1
    <3>2. CASE i # 1
      <4>1. i - 1 \in 1..Len(oldChain) /\ (i - 1) + 1 = i /\ Size + (i - 1) = (Size - 1) + i
        BY <1>2, <2>1, <3>2
      <4>2. oldChain'[(i - 1) + 1] = oldChain[i - 1] /\ oldChain[i - 1] = origin[Size + (i - 1)]
        BY <1>3, <2>1, <4>1 DEF Kept
      <4> QED
        BY <4>1, <4>2
    <3> QED
      BY <3>1, <3>2
  <2> QED
    BY <1>1, <1>2, <1>3, <1>5, <2>1, <2>2, SMTT(30) DEF Kept
<1>9. TxsOf(origin) \subseteq TxsOf(m_blocks') \cup m_transactions'
  BY <1>3, <1>4, SMTT(30)
<1>10. CASE Size - 1 > split_height
  BY <1>1, <1>3, <1>4, <1>6, <1>7, <1>8, <1>9, <1>10, SMTT(30) DEF SwitchCalm, Undoing
<1>11. CASE ~(Size - 1 > split_height)
  <2>1. Size' = split_height' /\ phase' = "connect" /\ pos' = 1 /\ Size' \in Nat
    BY <1>1, <1>2, <1>5, <1>6, <1>11, SMTT(30)
  <2>2. Kept(split_height)'
    BY <1>8, <2>1 DEF Kept
  <2>3. Size' = split_height' + pos' - 1 /\ \A i \in 1..(pos' - 1) : FALSE
    <3>1. \A n \in Nat : n = n + 1 - 1
      OBVIOUS
    <3>2. \A i \in 1..(1 - 1) : FALSE
      OBVIOUS
    <3> QED
      BY <2>1, <3>1, <3>2, ZenonT(40)
  <2> QED
    BY <1>1, <1>3, <1>4, <1>6, <1>7, <1>9, <2>1, <2>2, <2>3, SMTT(30) DEF SwitchCalm, Undoing
<1> QED
  BY <1>10, <1>11

\* "connecting new alternative chain".
LEMMA CalmConnect ==
    ASSUME IInv, OriginsInv, LiveCalm, SwitchCalm, Connect
    PROVE  LiveCalm' /\ SwitchCalm'
<1> DEFINE h == split_height
           b == altChain[pos]
<1>1. /\ phase = "connect" /\ pushBlock(b)
      /\ \/ pos < Len(altChain) /\ pos' = pos + 1 /\ phase' = "connect"
         \/ pos = Len(altChain) /\ pos' = 1 /\ phase' \in {"requeue", "finish"}
      /\ UNCHANGED <<altChain, oldChain, origin, m_points>>
  BY DEF Connect
<1>2. /\ ChainOK /\ altChain \in Seq(Block) /\ Size \in Nat /\ h \in Nat /\ h > 0
      /\ pos \in Nat /\ pos > 0 /\ pos <= Len(altChain) /\ b \in Block
  BY <1>1, Switching, SMTT(30) DEF OtherTypes, SwitchInv, Reorganising
<1>3. /\ InPlace(h) /\ h < Len(origin) /\ Kept(h) /\ Sound(origin)
      /\ TxsOf(origin) \subseteq TxsOf(m_blocks) \cup m_transactions
      /\ \A i \in (h + 1)..Len(origin) : BlockTxs[origin[i]] \subseteq TxsOf(altChain)
      /\ Size = h + pos - 1
      /\ \A i \in 1..(pos - 1) : BlockTxs[altChain[i]] \subseteq TxsOf(m_blocks)
  BY <1>1, SMTT(30) DEF SwitchCalm, Undoing, Reorganising
<1>4. /\ LiveCalm' /\ m_blocks' = Append(m_blocks, b)
      /\ TxsOf(m_blocks') = TxsOf(m_blocks) \cup BlockTxs[b]
      /\ m_transactions' = m_transactions \ BlockTxs[b]
  BY <1>1, <1>2, CalmPush
<1>5. split_height' = h
  BY <1>1, SMTT(30) DEF split_height
<1>6. /\ Size' = Size + 1 /\ \A i \in 1..Size : m_blocks'[i] = m_blocks[i]
      /\ origin \in Seq(Block) /\ Len(origin) \in Nat
  BY <1>2, <1>4, SMTT(30) DEF ChainOK, GoodChain, Size, IInv, TypeOK
<1> HIDE DEF h, b
<1>7. h <= Size' /\ h <= Len(origin) /\ \A i \in 1..h : m_blocks'[i] = origin[i]
  BY <1>2, <1>3, <1>6 DEF InPlace
<1>8. \A i \in 1..pos : BlockTxs[altChain[i]] \subseteq TxsOf(m_blocks')
  <2> SUFFICES ASSUME NEW i \in 1..pos PROVE BlockTxs[altChain[i]] \subseteq TxsOf(m_blocks')
    OBVIOUS
  <2>1. i = pos \/ i \in 1..(pos - 1)
    BY <1>2
  <2> QED
    BY <1>3, <1>4, <2>1 DEF b
<1>9. TxsOf(origin) \subseteq TxsOf(m_blocks') \cup m_transactions'
  BY <1>3, <1>4, SMTT(30)
<1>10. CASE phase' = "connect"
  <2>1. pos' = pos + 1 /\ pos' - 1 = pos /\ Size' = h + pos' - 1
    <3>1. pos' = pos + 1
      BY <1>1, <1>10
    <3>2. pos \in Nat /\ h \in Nat /\ Size \in Nat
      BY <1>2
    <3>3. Size = h + pos - 1
      BY <1>3
    <3>4. Size' = Size + 1
      BY <1>6
    <3> QED
      BY <3>1, <3>2, <3>3, <3>4
  <2>2. \A i \in 1..(pos' - 1) : BlockTxs[altChain'[i]] \subseteq TxsOf(m_blocks')
    BY <1>1, <1>8, <2>1, SMTT(30)
  <2>3. InPlace(split_height)' /\ Kept(split_height)'
    BY <1>1, <1>3, <1>5, <1>7, SMTT(30) DEF InPlace, Kept
  <2> QED
    BY <1>1, <1>3, <1>4, <1>5, <1>9, <1>10, <2>1, <2>2, <2>3, SMTT(30) DEF SwitchCalm, Undoing
<1>11. CASE phase' # "connect"
  <2>1. pos = Len(altChain) /\ phase' \in {"requeue", "finish"}
    BY <1>1, <1>11
  <2>2. TxsOf(origin) \subseteq TxsOf(m_blocks')
    <3> SUFFICES ASSUME NEW t \in TxsOf(origin) PROVE t \in TxsOf(m_blocks')
      OBVIOUS
    <3>1. PICK i \in DOMAIN origin : t \in BlockTxs[origin[i]]
      BY TxsOfMember
    <3>2. i \in 1..Len(origin)
      BY <1>6
    <3>3. CASE i <= h
      <4>1. m_blocks'[i] = origin[i]
        BY <1>2, <1>7, <3>2, <3>3, SMTT(30)
      <4>2. i \in DOMAIN m_blocks'
        <5>1. m_blocks' \in Seq(Block)
          <6>1. m_blocks \in Seq(Block) /\ b \in Block
            BY <1>2, Zenon DEF ChainOK, GoodChain
          <6>2. \A s \in Seq(Block), x \in Block : Append(s, x) \in Seq(Block)
            OBVIOUS
          <6>3. m_blocks' = Append(m_blocks, b)
            BY <1>4, Zenon
          <6> QED
            BY <6>1, <6>2, <6>3, Zenon
        <5>2. DOMAIN m_blocks' = 1..Size'
          BY <5>1 DEF Size
        <5>3. h <= Size'
          BY <1>7
        <5>4. h \in Nat /\ Size' \in Nat
          BY <1>2, <1>6
        <5>5. i \in Nat /\ i >= 1 /\ i <= h
          BY <1>6, <3>2, <3>3
        <5> QED
          BY <5>2, <5>3, <5>4, <5>5, SMTT(30)
      <4> QED
        BY <3>1, <4>1, <4>2, TxsOfMember, SMTT(30)
    <3>4. CASE ~(i <= h)
      <4>1. t \in TxsOf(altChain)
        <5>1. h \in Nat /\ Len(origin) \in Nat
          BY <1>2, <1>6
        <5>2. i \in (h + 1)..Len(origin)
          BY <5>1, <3>2, <3>4, SMTT(30)
        <5>3. \A k \in (h + 1)..Len(origin) : BlockTxs[origin[k]] \subseteq TxsOf(altChain)
          BY <1>3, Zenon
        <5> QED
          BY <3>1, <5>2, <5>3
      <4>2. PICK j \in DOMAIN altChain : t \in BlockTxs[altChain[j]]
        BY <4>1, TxsOfMember
      <4>3. j \in 1..pos
        BY <1>2, <2>1
      <4> QED
        BY <1>8, <4>2, <4>3
    <3> QED
      BY <3>3, <3>4
  <2> QED
    BY <1>1, <1>3, <1>4, <2>1, <2>2 DEF SwitchCalm, Undoing, Reorganising
<1> QED
  BY <1>10, <1>11

\* A block of the alternative chain fails, and the rollback starts.
LEMMA CalmConnectFails ==
    ASSUME Calm, IInv, LiveCalm, SwitchCalm, ConnectFails
    PROVE  LiveCalm' /\ SwitchCalm'
<1>1. /\ phase = "connect" /\ pushBlockFails(altChain[pos]) /\ pos' = 1
      /\ phase' = IF Size > split_height THEN "rollbackPop" ELSE "rollbackPush"
      /\ UNCHANGED <<altChain, oldChain, origin, m_points>>
  BY DEF ConnectFails
<1>2. /\ Size \in Nat /\ split_height \in Nat /\ pos \in Nat /\ pos > 0
  BY <1>1, Switching, SMTT(30) DEF SwitchInv, Reorganising
<1>3. /\ InPlace(split_height) /\ split_height < Len(origin) /\ Kept(split_height)
      /\ Sound(origin) /\ TxsOf(origin) \subseteq TxsOf(m_blocks) \cup m_transactions
      /\ Size = split_height + pos - 1
  BY <1>1 DEF SwitchCalm, Undoing, Reorganising
<1>4. LiveCalm' /\ UNCHANGED <<m_blocks, m_transactions>>
  BY <1>1, CalmFail
<1>5. split_height' = split_height /\ Size' = Size
  BY <1>1, <1>4, SMTT(30) DEF split_height, Size
<1>6. InPlace(split_height)' /\ Kept(split_height)'
  BY <1>1, <1>3, <1>4, <1>5, SMTT(30) DEF InPlace, Kept
<1>7. CASE Size > split_height
  BY <1>1, <1>3, <1>4, <1>5, <1>6, <1>7, SMTT(30) DEF SwitchCalm, Undoing
<1>8. CASE ~(Size > split_height)
  <2>1. Size = split_height /\ Size' = split_height' + pos' - 1
    BY <1>1, <1>2, <1>3, <1>5, <1>8
  <2>2. InPlace(Size)'
    BY <1>5, <1>6, <2>1 DEF InPlace
  <2> QED
    BY <1>1, <1>3, <1>4, <1>5, <1>6, <1>8, <2>1, <2>2, SMTT(30) DEF SwitchCalm, Undoing
<1> QED
  BY <1>7, <1>8

\* "remove failed subchain".
LEMMA CalmRollbackPop ==
    ASSUME IInv, LiveCalm, SwitchCalm, RollbackPop
    PROVE  LiveCalm' /\ SwitchCalm'
<1>1. /\ phase = "rollbackPop" /\ popBlock
      /\ phase' = IF Size - 1 > split_height THEN "rollbackPop" ELSE "rollbackPush"
      /\ UNCHANGED <<altChain, oldChain, pos, origin, m_points>>
  BY DEF RollbackPop
<1>2. /\ ChainOK /\ Size \in Nat /\ split_height \in Nat /\ split_height > 0
      /\ Size > split_height /\ pos = 1
  BY <1>1, Switching, SMTT(30) DEF SwitchInv, Reorganising
<1>3. /\ InPlace(split_height) /\ split_height < Len(origin) /\ Kept(split_height)
      /\ Sound(origin) /\ TxsOf(origin) \subseteq TxsOf(m_blocks) \cup m_transactions
  BY <1>1, SMTT(30) DEF SwitchCalm, Undoing, Reorganising
<1>4. /\ LiveCalm' /\ m_blocks' = SubSeq(m_blocks, 1, Size - 1)
      /\ TxsOf(m_blocks) = TxsOf(m_blocks') \cup BlockTxs[TailId]
      /\ m_transactions' = m_transactions \cup BlockTxs[TailId]
  BY <1>1, <1>2, CalmPop
<1>5. split_height' = split_height
  BY <1>1, SMTT(30) DEF split_height
<1>6. Size' = Size - 1 /\ \A i \in 1..(Size - 1) : m_blocks'[i] = m_blocks[i]
  <2>1. m_blocks \in Seq(Block) /\ Size - 1 \in 1..Len(m_blocks)
    BY <1>2 DEF ChainOK, GoodChain, Size
  <2> QED
    BY <1>4, <2>1, PrefixProperties DEF Size
<1>7. InPlace(split_height)' /\ Kept(split_height)'
  BY <1>1, <1>2, <1>3, <1>5, <1>6, SMTT(30) DEF InPlace, Kept
<1>8. TxsOf(origin) \subseteq TxsOf(m_blocks') \cup m_transactions'
  BY <1>3, <1>4, SMTT(30)
<1>9. CASE Size - 1 > split_height
  BY <1>1, <1>3, <1>4, <1>5, <1>7, <1>8, <1>9, SMTT(30) DEF SwitchCalm, Undoing
<1>10. CASE ~(Size - 1 > split_height)
  <2>1. Size' = split_height /\ pos' = 1
    BY <1>1, <1>2, <1>6, <1>10
  <2>2. Size' = split_height' + pos' - 1
    <3>1. \A n \in Nat : n = n + 1 - 1
      OBVIOUS
    <3> QED
      BY <1>2, <1>5, <2>1, <3>1
  <2>3. InPlace(Size)'
    BY <1>5, <1>7, <2>1 DEF InPlace
  <2> QED
    BY <1>1, <1>3, <1>4, <1>5, <1>7, <1>8, <1>10, <2>2, <2>3, SMTT(30) DEF SwitchCalm, Undoing
<1> QED
  BY <1>9, <1>10

\* switch_to_alternative_blockchain returns, with a chain that lost nothing.
LEMMA CalmReturn ==
    ASSUME callers \in Seq(Frame), StackCalm, TxsOf(origin) \subseteq TxsOf(m_blocks'),
           NEW ok \in BOOLEAN, Return(ok)
    PROVE  SwitchCalm' /\ StackCalm'
<1>1. CASE callers = << >>
  <2>1. phase' \notin Reorganising /\ callers' = << >>
    BY <1>1 DEF Return, Reorganising
  <2> QED
    BY <2>1, Quiet
<1>2. CASE callers # << >>
  <2>1. /\ origin' = Head(callers).origin /\ callers' = Tail(callers)
        /\ phase' \in {"requeue", "finish"}
    BY <1>2 DEF Return
  <2>2. 1 \in DOMAIN callers /\ Head(callers) = callers[1]
    BY <1>2
  <2>3. \A i \in DOMAIN callers' :
           i \in Nat /\ i + 1 \in DOMAIN callers /\ callers'[i] = callers[i + 1]
    BY <1>2, <2>1, SMTT(30)
  <2>4. Sound(origin') /\ TxsOf(origin') \subseteq TxsOf(origin)
    BY <2>1, <2>2, SMTT(30) DEF StackCalm
  <2>5. SwitchCalm'
    BY <2>1, <2>4, Zenon DEF SwitchCalm, Undoing
  <2>6. \A i \in DOMAIN callers' : /\ Sound(callers'[i].origin)
                                   /\ TxsOf(callers'[i].origin) \subseteq TxsOf(origin')
    <3> SUFFICES ASSUME NEW i \in DOMAIN callers'
                 PROVE  /\ Sound(callers'[i].origin)
                        /\ TxsOf(callers'[i].origin) \subseteq TxsOf(origin')
      OBVIOUS
    <3>1. i + 1 \in DOMAIN callers /\ callers'[i] = callers[i + 1] /\ 1 <= i + 1
      BY <2>3
    <3> QED
      BY <2>1, <2>2, <3>1, Zenon DEF StackCalm
  <2>7. \A i, j \in DOMAIN callers' :
           i <= j => TxsOf(callers'[j].origin) \subseteq TxsOf(callers'[i].origin)
    <3> SUFFICES ASSUME NEW i \in DOMAIN callers', NEW j \in DOMAIN callers', i <= j
                 PROVE  TxsOf(callers'[j].origin) \subseteq TxsOf(callers'[i].origin)
      OBVIOUS
    <3>1. /\ i + 1 \in DOMAIN callers /\ callers'[i] = callers[i + 1]
          /\ j + 1 \in DOMAIN callers /\ callers'[j] = callers[j + 1]
          /\ i + 1 <= j + 1
      BY <2>3, SMTT(30)
    <3> QED
      BY <3>1 DEF StackCalm
  <2> QED
    BY <2>5, <2>6, <2>7, Zenon DEF StackCalm
<1> QED
  BY <1>1, <1>2

\* "return back original chain": the next block of it can be pushed, and the last one
\* completes the chain the switch found.
LEMMA ReturnBack ==
    ASSUME Calm, IInv, OriginsInv, LiveCalm, SwitchCalm, phase = "rollbackPush"
    PROVE  /\ CanPush(oldChain[pos]) /\ oldChain[pos] \in Block /\ pos < Len(oldChain) + 1
           /\ pushBlock(oldChain[pos]) =>
                 /\ Size' = split_height + pos /\ Size' <= Len(origin)
                 /\ \A i \in 1..Size' : m_blocks'[i] = origin[i]
                 /\ pos = Len(oldChain) => m_blocks' = origin
<1> DEFINE h == split_height
           b == oldChain[pos]
<1>1. /\ ChainOK /\ Size \in Nat /\ h \in Nat /\ h > 0
      /\ pos \in Nat /\ pos > 0 /\ pos <= Len(oldChain) /\ b \in Block
      /\ GoodChain(origin) /\ origin \in Seq(Block) /\ Len(origin) \in Nat
      /\ Len(oldChain) \in Nat
  BY Switching, SMTT(30) DEF OtherTypes, SwitchInv, OriginsInv, Reorganising, GoodChain
<1>2. /\ h < Len(origin) /\ Kept(h) /\ Sound(origin)
      /\ TxsOf(origin) \subseteq TxsOf(m_blocks) \cup m_transactions
      /\ Size = h + pos - 1 /\ InPlace(Size)
  BY DEF SwitchCalm, Undoing, Reorganising
<1>3. /\ Len(oldChain) = Len(origin) - h /\ Size < Len(origin)
      /\ b = origin[h + pos] /\ h + pos = Size + 1
  BY <1>1, <1>2, SMTT(30) DEF Kept
<1>4. CanPush(b)
  BY <1>1, <1>2, <1>3, PushBack, SMTT(30)
<1>5. ASSUME pushBlock(b)
      PROVE  /\ Size' = Size + 1 /\ m_blocks' \in Seq(Block) /\ Len(m_blocks') = Size + 1
             /\ \A i \in 1..(Size + 1) : m_blocks'[i] = origin[i]
  <2>1. /\ m_blocks \in Seq(Block) /\ Size = Len(m_blocks)
        /\ \A i \in 1..Size : m_blocks[i] = origin[i]
        /\ m_blocks' = Append(m_blocks, b)
    BY <1>1, <1>2, <1>5, SMTT(30) DEF ChainOK, GoodChain, Size, InPlace, pushBlock
  <2>2. /\ Len(m_blocks') = Size + 1 /\ m_blocks' \in Seq(Block)
        /\ \A i \in 1..Size : m_blocks'[i] = m_blocks[i]
        /\ m_blocks'[Size + 1] = origin[Size + 1]
    BY <1>1, <1>3, <2>1
  <2>3. Size' = Len(m_blocks')
    BY DEF Size
  <2> QED
    BY <1>1, <2>1, <2>2, <2>3, SMTT(30)
<1>6. ASSUME pushBlock(b), pos = Len(oldChain) PROVE m_blocks' = origin
  <2>1. Len(m_blocks') = Len(origin)
    BY <1>1, <1>2, <1>3, <1>5, <1>6
  <2> QED
    BY <1>1, <1>5, <1>6, <2>1, SeqEqual, SMTT(30)
<1> QED
  BY <1>1, <1>3, <1>4, <1>5, <1>6, SMTT(30)

\* One step of the rollback: a push, since a panic is impossible.
LEMMA CalmRollbackPush ==
    ASSUME Calm, IInv, OriginsInv, LiveCalm, SwitchCalm, StackCalm,
           RollbackPush \/ RollbackPanics
    PROVE  LiveCalm' /\ SwitchCalm' /\ StackCalm'
<1> DEFINE h == split_height
           b == oldChain[pos]
<1>1. /\ phase = "rollbackPush" /\ m_points' = m_points
      /\ CanPush(b) /\ b \in Block
  BY ReturnBack, Zenon DEF RollbackPush, RollbackPanics
<1>2. pushBlock(b) /\ RollbackPush
  BY <1>1, ZenonT(40) DEF pushBlockFails, RollbackPush, RollbackPanics
<1>3. /\ ChainOK /\ callers \in Seq(Frame) /\ h \in Nat /\ pos \in Nat /\ pos > 0
      /\ Len(origin) \in Nat
  BY <1>1, Switching, SMTT(30) DEF OtherTypes, SwitchInv, Reorganising
<1>4. /\ h < Len(origin) /\ Kept(h) /\ Sound(origin)
      /\ TxsOf(origin) \subseteq TxsOf(m_blocks) \cup m_transactions
  BY <1>1, SMTT(30) DEF SwitchCalm, Undoing, Reorganising
<1>5. /\ LiveCalm' /\ TxsOf(m_blocks') = TxsOf(m_blocks) \cup BlockTxs[b]
      /\ m_transactions' = m_transactions \ BlockTxs[b]
  BY <1>1, <1>2, <1>3, CalmPush, SMTT(30)
<1>6. /\ Size' = h + pos /\ Size' <= Len(origin)
      /\ \A i \in 1..Size' : m_blocks'[i] = origin[i]
      /\ pos = Len(oldChain) => m_blocks' = origin
  BY <1>1, <1>2, ReturnBack
<1>7. CASE /\ pos < Len(oldChain) /\ pos' = pos + 1
           /\ UNCHANGED <<phase, altChain, oldChain, callers, origin>>
  <2>1. split_height' = h
    BY <1>7 DEF split_height
  <2> HIDE DEF h, b
  <2>2. Size' = h + pos' - 1 /\ h <= Size' /\ Size' \in Nat
    BY <1>3, <1>6, <1>7
  <2>3. \A i \in 1..h : i \in 1..Size'
    BY <1>3, <2>2
  <2>4. InPlace(Size)'
    BY <1>6, <1>7, <2>2, SMTT(30) DEF InPlace
  <2>5. InPlace(split_height)'
    BY <1>3, <1>4, <1>6, <1>7, <2>1, <2>2, <2>3, SMTT(30) DEF InPlace
  <2>6. Kept(split_height)'
    BY <1>4, <1>7, <2>1, SMTT(30) DEF Kept
  <2>7. TxsOf(origin') \subseteq TxsOf(m_blocks') \cup m_transactions'
    BY <1>4, <1>5, <1>7, SMTT(30)
  <2>8. SwitchCalm'
    BY <1>1, <1>4, <1>7, <2>1, <2>2, <2>4, <2>5, <2>6, <2>7, SMTT(30) DEF SwitchCalm, Undoing
  <2>9. StackCalm'
    BY <1>7, Zenon DEF StackCalm
  <2> QED
    BY <1>5, <2>8, <2>9
<1>8. CASE pos = Len(oldChain) /\ Return(FALSE)
  BY <1>3, <1>5, <1>6, <1>8, CalmReturn, Zenon
<1> QED
  BY <1>2, <1>7, <1>8, Zenon DEF RollbackPush

\* The end of a switch.
LEMMA CalmFinish ==
    ASSUME IInv, LiveCalm, SwitchCalm, StackCalm, Finish
    PROVE  LiveCalm' /\ SwitchCalm' /\ StackCalm'
<1>1. phase = "finish" /\ Return(TRUE) /\ UNCHANGED <<chainVars, m_points>>
  BY Zenon DEF Finish
<1>2. callers \in Seq(Frame)
  BY SMTT(30) DEF IInv, TypeOK
<1>3. TxsOf(origin) \subseteq TxsOf(m_blocks')
  BY <1>1 DEF SwitchCalm, chainVars
<1>4. LiveCalm'
  BY <1>1 DEF LiveCalm, chainVars
<1> QED
  BY <1>1, <1>2, <1>3, <1>4, CalmReturn, Zenon

\* "pushing old chain as alternative chain", without a second switch.
LEMMA CalmRequeue ==
    ASSUME Calm, LiveCalm, SwitchCalm, StackCalm, NEW records \in SUBSET DnsCheckpoints,
           Requeue(records) \/ RequeueStops(records)
    PROVE  LiveCalm' /\ SwitchCalm' /\ StackCalm'
<1>1. /\ phase = "requeue" /\ phase' \in {"requeue", "finish"}
      /\ UNCHANGED <<chainVars, callers, origin>>
      /\ m_points' = m_points
  BY CalmPoints DEF Requeue, RequeueStops
<1>2. LiveCalm'
  BY <1>1, SMTT(30) DEF LiveCalm, chainVars
<1>3. SwitchCalm'
  BY <1>1 DEF SwitchCalm, Undoing, Reorganising, chainVars
<1>4. StackCalm'
  BY <1>1, SMTT(30) DEF StackCalm
<1> QED
  BY <1>2, <1>3, <1>4, SMTT(30)

\* A switch inside a switch: what the outer one found is on the chain the inner one finds.
LEMMA CalmNested ==
    ASSUME Calm, IInv, LiveCalm, SwitchCalm, StackCalm, NEW records \in SUBSET DnsCheckpoints,
           RequeueSwitches(records)
    PROVE  LiveCalm' /\ SwitchCalm' /\ StackCalm'
<1> DEFINE c == [altChain |-> altChain, oldChain |-> oldChain, origin |-> origin, pos |-> pos]
           points == load_checkpoints_from_dns(m_points, records)
           b == oldChain[pos]
<1>1. /\ phase = "requeue" /\ EnterSwitch(b, points) /\ SwitchPermitted(b)
      /\ AcceptedAsAlternative(b, points)
      /\ callers' = <<c>> \o callers
      /\ UNCHANGED chainVars /\ m_points' = points
  BY DEF RequeueSwitches
<1>2. /\ ChainOK /\ b \in Block /\ callers \in Seq(Frame) /\ SplitHeight(b) > 0
  <2>1. ChainOK /\ OtherTypes /\ SwitchInv
    BY <1>1, Switching, SMTT(30) DEF Reorganising
  <2>2. pos > 0 /\ pos <= Len(oldChain)
    BY <1>1, <2>1 DEF SwitchInv, Reorganising
  <2>3. pos \in Nat /\ oldChain \in Seq(Block) /\ callers \in Seq(Frame)
    BY <2>1 DEF OtherTypes
  <2>4. b \in Block
    BY <2>2, <2>3, SMTT(30)
  <2>5. SplitHeight(b) > 0
    <3> HIDE DEF b, points
    <3> QED
      BY <1>1, Zenon DEF AcceptedAsAlternative, ConnectsToMainChain
  <2> QED
    BY <2>1, <2>3, <2>4, <2>5, SMTT(30)
<1>3. LiveCalm'
  BY <1>1, CalmPoints DEF LiveCalm, chainVars
<1>4. SwitchCalm'
  <2> HIDE DEF points, b
  <2> QED
    BY <1>1, <1>2, EnterCalm, SMTT(30) DEF LiveCalm
<1>5. /\ Sound(origin) /\ TxsOf(origin) \subseteq TxsOf(m_blocks)
      /\ origin' = m_blocks /\ c.origin = origin
  BY <1>1, ZenonT(40) DEF SwitchCalm, Reorganising, EnterSwitch
<1> HIDE DEF c
<1>6. \A i \in DOMAIN callers' :
         /\ i \in Nat
         /\ IF i = 1 THEN callers'[i] = c
                     ELSE i - 1 \in DOMAIN callers /\ callers'[i] = callers[i - 1]
  BY <1>1, <1>2, SMTT(30)
<1>7. \A i \in DOMAIN callers' : /\ Sound(callers'[i].origin)
                                 /\ TxsOf(callers'[i].origin) \subseteq TxsOf(origin)
  BY <1>5, <1>6 DEF StackCalm
<1>8. \A i, j \in DOMAIN callers' :
         i <= j => TxsOf(callers'[j].origin) \subseteq TxsOf(callers'[i].origin)
  <2> SUFFICES ASSUME NEW i \in DOMAIN callers', NEW j \in DOMAIN callers', i <= j
               PROVE  TxsOf(callers'[j].origin) \subseteq TxsOf(callers'[i].origin)
    OBVIOUS
  <2>1. CASE i = 1
    BY <1>5, <1>6, <1>7, <2>1, SMTT(30)
  <2>2. CASE i # 1 /\ j # 1
    <3>1. i - 1 \in DOMAIN callers /\ j - 1 \in DOMAIN callers /\ i - 1 <= j - 1
      BY <1>2, <1>6, <2>2
    <3> QED
      BY <1>6, <2>2, <3>1, SMTT(30) DEF StackCalm
  <2>3. CASE i # 1 /\ j = 1
    <3>1. i \in Nat /\ i - 1 >= 1
      BY <1>2, <1>6, <2>3
    <3> QED
      BY <2>3, <3>1, SMTT(30)
  <2> QED
    BY <2>1, <2>2, <2>3, SMTT(30)
<1> QED
  BY <1>3, <1>4, <1>5, <1>7, <1>8, ZenonT(40) DEF StackCalm

\* The steps of a switch.
LEMMA CalmSwitch ==
    ASSUME Calm, IInv, OriginsInv, CalmInv, SwitchStep
    PROVE  CalmInv'
<1>1. phase \in Reorganising /\ phase' # "down" /\ cacheFile' = cacheFile
  BY Zenon DEF SwitchStep, Disconnect, Connect, ConnectFails, RollbackPop, RollbackPush,
      RollbackPanics,
         Requeue, RequeueStops, RequeueSwitches, Finish, Return, EnterSwitch, diskVars, Reorganising
<1>2. LiveCalm /\ CacheExact /\ SwitchCalm /\ StackCalm
  BY <1>1, CalmRunning, SMTT(30) DEF CalmInv, Reorganising
<1>3. CASE Disconnect \/ Connect \/ ConnectFails \/ RollbackPop
  <2>1. LiveCalm' /\ SwitchCalm'
    BY <1>2, <1>3, CalmDisconnect, CalmConnect, CalmConnectFails, CalmRollbackPop, SMTT(30)
  <2>2. UNCHANGED <<callers, origin>>
    BY <1>3 DEF Disconnect, Connect, ConnectFails, RollbackPop
  <2>3. StackCalm'
    BY <1>2, <2>2, SMTT(30) DEF StackCalm
  <2> QED
    BY <1>1, <1>2, <2>1, <2>3, CalmRunningNext, Zenon DEF CalmInv, CacheExact
<1>4. CASE ~(Disconnect \/ Connect \/ ConnectFails \/ RollbackPop)
  <2>1. LiveCalm' /\ SwitchCalm' /\ StackCalm'
    BY <1>2, <1>4, CalmRollbackPush, CalmRequeue, CalmNested, CalmFinish, SMTT(30) DEF SwitchStep
  <2> QED
    BY <1>1, <1>2, <2>1, CalmRunningNext, SMTT(30) DEF CalmInv, CacheExact
<1> QED
  BY <1>3, <1>4, SMTT(30)

\* The steps of a node between two reorganisations.
LEMMA CalmIdle ==
    ASSUME Calm, IInv, OriginsInv, CalmInv, phase = "idle",
           \/ \E t \in Tx, k \in BOOLEAN : add_new_tx(t, k) \/ removeExpiredTransactions(t)
           \/ \E b \in Block : AddToMainChain(b) \/ RefuseOversizeBlock(b)
           \/ \E b \in Block, records \in SUBSET DnsCheckpoints :
                 RefuseAlternative(b, records) \/ StoreAlternative(b, records)
           \/ StorePool
    PROVE  CalmInv'
<1>1. /\ ChainOK /\ LiveCalm /\ CacheExact /\ callers = << >>
  BY Running, CalmRunning, SMTT(30) DEF CalmInv, OriginsInv, Reorganising
<1>2. phase' \in {"idle", "deinit"} /\ cacheFile' = cacheFile /\ callers' = callers
  BY Zenon DEF add_new_tx, removeExpiredTransactions, AddToMainChain, RefuseOversizeBlock,
         RefuseAlternative, StoreAlternative, StorePool, switchVars, diskVars
<1>3. LiveCalm'
  <2>1. ASSUME NEW b \in Block, AddToMainChain(b) PROVE LiveCalm'
    <3>1. pushBlock(b) /\ m_points' = m_points
      BY <2>1 DEF AddToMainChain
    <3> QED
      BY <1>1, <3>1, CalmPush
  <2>2. ASSUME NEW b \in Block, RefuseOversizeBlock(b) PROVE LiveCalm'
    BY <2>2 DEF RefuseOversizeBlock, Leaks, Calm
  <2>3. ASSUME NEW b \in Block, NEW records \in SUBSET DnsCheckpoints,
               RefuseAlternative(b, records) \/ StoreAlternative(b, records)
        PROVE  LiveCalm'
    <3>1. UNCHANGED chainVars /\ m_points' = m_points
      BY <2>3, CalmPoints, SMTT(30) DEF RefuseAlternative, StoreAlternative
    <3> QED
      BY <1>1, <3>1, SMTT(30) DEF LiveCalm, chainVars
  <2>4. ASSUME NEW t \in Tx, NEW k \in BOOLEAN, add_new_tx(t, k) \/ removeExpiredTransactions(t)
        PROVE  LiveCalm'
    BY <1>1, <2>4, SMTT(30) DEF LiveCalm, add_new_tx, removeExpiredTransactions
  <2>5. CASE StorePool
    BY <1>1, <2>5 DEF LiveCalm, StorePool, chainVars
  <2> QED
    BY <2>1, <2>2, <2>3, <2>4, <2>5, SMTT(30)
<1>4. SwitchCalm' /\ StackCalm'
  BY <1>1, <1>2, Quiet, SMTT(30) DEF Reorganising
<1> QED
  BY <1>1, <1>2, <1>3, <1>4, CalmRunningNext, SMTT(30) DEF CalmInv, CacheExact

\* handle_alternative_block starts a switch.
LEMMA CalmBegin ==
    ASSUME Calm, IInv, OriginsInv, CalmInv, NEW b \in Block, NEW records \in SUBSET DnsCheckpoints,
           BeginSwitch(b, records)
    PROVE  CalmInv'
<1> DEFINE points == load_checkpoints_from_dns(m_points, records)
<1>1. /\ phase = "idle" /\ EnterSwitch(b, points) /\ SwitchPermitted(b)
      /\ SplitHeight(b) > 0 /\ m_points' = points
      /\ UNCHANGED <<chainVars, callers, diskVars>>
  BY Zenon DEF BeginSwitch, IsAlternative, AcceptedAsAlternative, ConnectsToMainChain
<1>2. /\ ChainOK /\ LiveCalm /\ CacheExact /\ callers = << >>
  BY <1>1, Running, CalmRunning, SMTT(30) DEF CalmInv, OriginsInv, Reorganising
<1>3. LiveCalm'
  BY <1>1, <1>2, CalmPoints, SMTT(30) DEF LiveCalm, chainVars
<1>4. SwitchCalm' /\ phase' = "disconnect"
  <2> HIDE DEF points
  <2> QED
    BY <1>1, <1>2, EnterCalm, SMTT(30) DEF LiveCalm, EnterSwitch
<1>5. StackCalm'
  <2>1. callers' = << >>
    BY <1>1, <1>2
  <2>2. DOMAIN callers' = {}
    BY <2>1, SMTT(30)
  <2> QED
    BY <2>2 DEF StackCalm
<1> QED
  BY <1>1, <1>2, <1>3, <1>4, <1>5, CalmRunningNext, SMTT(30) DEF CalmInv, CacheExact, diskVars

\* The daemon stops, or is stopped.
LEMMA CalmDown ==
    ASSUME IInv, CalmInv, StoreCache \/ Crash
    PROVE  CalmInv'
<1>1. phase # "down" /\ phase' = "down" /\ callers' = << >>
  BY DEF StoreCache, Crash, LoseMemory
<1>2. LiveCalm /\ CacheExact /\ GoodChain(m_blocks)
  BY <1>1, CalmRunning, SMTT(30) DEF CalmInv, IInv
<1>3. Sound(m_blocks') /\ Sound(stored')
  BY <1>2, SMTT(30) DEF StoreCache, Crash, LiveCalm
<1>4. cacheFile' # NoCache => Exact(cacheFile'.txs, cacheFile'.keys, Path[cacheFile'.tail])
  <2>1. CASE StoreCache
    <3>1. /\ cacheFile'.txs = m_transactionMap /\ cacheFile'.keys = m_spent_keys
          /\ cacheFile'.tail = TailId
      BY <2>1 DEF StoreCache
    <3>2. Path[TailId] = m_blocks
      BY <1>2, SMTT(30) DEF GoodChain, TailId
    <3> QED
      BY <1>2, <3>1, <3>2, SMTT(30) DEF LiveCalm
  <2>2. CASE Crash
    BY <1>2, <2>2 DEF Crash, CacheExact
  <2> QED
    BY <2>1, <2>2, SMTT(30)
<1>5. SwitchCalm' /\ StackCalm'
  BY <1>1, Quiet, SMTT(30) DEF Reorganising
<1> QED
  BY <1>1, <1>3, <1>4, <1>5, SMTT(30) DEF CalmInv, ChainCalm, InMemory

\* init: whatever the indices come from, they are those of the chain it settles on.
LEMMA CalmStart ==
    ASSUME Calm, IInv, OriginsInv, CalmInv, NEW records \in SUBSET DnsCheckpoints,
           NEW expired \in SUBSET poolFile, NEW rollback \in 0..(Size - 1),
           Start(records, expired, rollback)
    PROVE  CalmInv'
<1> DEFINE points == load_checkpoints_from_dns(HardCheckpoints, records)
           valid == lastValidCheckpointHeight(points)
           top == IF rollback < valid THEN rollback ELSE valid
<1>1. /\ phase = "down" /\ phase' = "idle"
      /\ m_blocks' = SubSeq(m_blocks, 1, top + 1)
      /\ stored' = IF top + 1 < Size THEN SubSeq(m_blocks, 1, top + 2) ELSE m_blocks
      /\ m_transactionMap' =
             (IF CacheUsable THEN cacheFile.txs ELSE TxsOf(m_blocks)) \ RemovedTxs(top)
      /\ m_spent_keys' =
             (IF CacheUsable THEN cacheFile.keys ELSE ImagesOf(TxsOf(m_blocks)))
                 \ ImagesOf(RemovedTxs(top))
      /\ m_points' = points
      /\ UNCHANGED <<callers, cacheFile>>
  BY ZenonT(40) DEF Start, diskVars
<1>2. /\ GoodChain(m_blocks) /\ Sound(m_blocks) /\ CacheExact
      /\ Size \in Nat /\ Size > 0 /\ m_blocks \in Seq(Block) /\ Size = Len(m_blocks)
  BY DEF IInv, TypeOK, Size, CalmInv, ChainCalm, CacheExact
<1>3. points = HardCheckpoints /\ points \subseteq Block
  BY CalmPoints, CheckpointAssumption
<1>4. top \in 0..(Size - 1)
  <2>1. valid \in Nat
    BY <1>2, <1>3, LastValidType
  <2> HIDE DEF valid
  <2> QED
    BY <1>2, <2>1
<1> HIDE DEF top, points
<1>5. /\ top + 1 \in 1..Len(m_blocks) /\ (top + 1) + 1 = top + 2
      /\ top + 1 < Size => top + 2 \in 1..Len(m_blocks)
  BY <1>2, <1>4, SMTT(30)
<1>6. Sound(m_blocks') /\ Sound(stored')
  BY <1>1, <1>2, <1>5, SoundPrefix, SMTT(30)
<1>7. /\ (IF CacheUsable THEN cacheFile.txs ELSE TxsOf(m_blocks)) = TxsOf(m_blocks)
      /\ (IF CacheUsable THEN cacheFile.keys ELSE ImagesOf(TxsOf(m_blocks)))
            = ImagesOf(TxsOf(m_blocks))
  <2>1. CASE CacheUsable
    <3>1. cacheFile # NoCache /\ Path[cacheFile.tail] = m_blocks
      BY <1>2, <2>1, SMTT(30) DEF CacheUsable, TailId, GoodChain
    <3> QED
      BY <1>2, <2>1, <3>1, SMTT(30) DEF CacheExact, Exact
  <2> QED
    BY <2>1, SMTT(30)
<1>8. ASSUME NEW t
      PROVE  t \in RemovedTxs(top) <=> \E j \in (top + 2)..Len(m_blocks) : t \in BlockTxs[m_blocks[j]]
  <2> DEFINE r == SubSeq(m_blocks, top + 2, Size)
  <2>1. /\ DOMAIN r = 1..(Size - top - 1)
        /\ \A i \in 1..(Size - top - 1) : r[i] = m_blocks[top + 1 + i]
    BY <1>2, <1>4, SMTT(30)
  <2>2. t \in RemovedTxs(top) <=> \E i \in DOMAIN r : t \in BlockTxs[r[i]]
    BY TxsOfMember, ZenonT(40) DEF RemovedTxs
  <2> HIDE DEF r
  <2>3. \A i \in 1..(Size - top - 1) : top + 1 + i \in (top + 2)..Len(m_blocks)
    BY <1>2, <1>4
  <2>4. ASSUME NEW j \in (top + 2)..Len(m_blocks)
        PROVE  j - top - 1 \in 1..(Size - top - 1) /\ top + 1 + (j - top - 1) = j
    BY <1>2, <1>4
  <2>5. ASSUME NEW j \in (top + 2)..Len(m_blocks), t \in BlockTxs[m_blocks[j]]
        PROVE  \E i \in DOMAIN r : t \in BlockTxs[r[i]]
    <3>1. j - top - 1 \in DOMAIN r /\ r[j - top - 1] = m_blocks[top + 1 + (j - top - 1)]
      BY <2>1, <2>4, Zenon
    <3>2. r[j - top - 1] = m_blocks[j]
      BY <2>4, <3>1, Zenon
    <3> QED
      BY <2>5, <3>1, <3>2, Zenon
  <2>6. ASSUME NEW i \in DOMAIN r, t \in BlockTxs[r[i]]
        PROVE  \E j \in (top + 2)..Len(m_blocks) : t \in BlockTxs[m_blocks[j]]
    BY <2>1, <2>3, <2>6, Zenon
  <2> QED
    BY <2>2, <2>5, <2>6, Zenon
<1>9. Exact(m_transactionMap', m_spent_keys', m_blocks')
  <2>1. Exact(TxsOf(m_blocks) \ RemovedTxs(top), ImagesOf(TxsOf(m_blocks)) \ ImagesOf(RemovedTxs(top)),
              SubSeq(m_blocks, 1, top + 1))
    BY <1>2, <1>5, <1>8, CutExact, SMTT(30)
  <2> QED
    BY <1>1, <1>7, <2>1, ZenonT(30)
<1>10. SwitchCalm' /\ StackCalm'
  <2>1. callers = << >>
    BY <1>1 DEF OriginsInv, Reorganising
  <2> QED
    BY <1>1, <2>1, Quiet DEF Reorganising
<1> QED
  BY <1>1, <1>2, <1>3, <1>6, <1>9, <1>10, CalmRunningNext, ZenonT(40) DEF CalmInv, LiveCalm,
      CacheExact

\* Every step of a calm node keeps the invariant.
LEMMA CalmNext == Calm /\ IInv /\ OriginsInv /\ CalmInv /\ [Next]_vars => CalmInv'
<1> SUFFICES ASSUME Calm, IInv, OriginsInv, CalmInv, [Next]_vars PROVE CalmInv'
  OBVIOUS
<1>1. ASSUME NEW t \in Tx, NEW k \in BOOLEAN, add_new_tx(t, k) PROVE CalmInv'
  BY <1>1, CalmIdle DEF add_new_tx
<1>2. ASSUME NEW t \in Tx, removeExpiredTransactions(t) PROVE CalmInv'
  BY <1>2, CalmIdle, Zenon DEF removeExpiredTransactions
<1>3. ASSUME NEW b \in Block, AddToMainChain(b) \/ RefuseOversizeBlock(b) PROVE CalmInv'
  BY <1>3, CalmIdle, SMTT(30) DEF AddToMainChain, RefuseOversizeBlock
<1>4. ASSUME NEW b \in Block, NEW records \in SUBSET DnsCheckpoints,
             RefuseAlternative(b, records) \/ StoreAlternative(b, records)
      PROVE  CalmInv'
  BY <1>4, CalmIdle DEF RefuseAlternative, StoreAlternative, IsAlternative
<1>5. ASSUME NEW b \in Block, NEW records \in SUBSET DnsCheckpoints, BeginSwitch(b, records)
      PROVE  CalmInv'
  BY <1>5, CalmBegin
<1>6. CASE SwitchStep
  BY <1>6, CalmSwitch, SMTT(30)
<1>7. CASE StorePool
  BY <1>7, CalmIdle DEF StorePool
<1>8. CASE StoreCache \/ Crash
  BY <1>8, CalmDown
<1>9. ASSUME NEW records \in SUBSET DnsCheckpoints, NEW expired \in SUBSET poolFile,
             NEW rollback \in 0..(Size - 1), Start(records, expired, rollback)
      PROVE  CalmInv'
  BY <1>9, CalmStart
<1>10. CASE UNCHANGED vars
  <2>1. UNCHANGED <<m_blocks, stored, m_transactionMap, m_spent_keys, m_transactions,
                    m_points, phase, altChain, oldChain, pos, callers, origin, cacheFile>>
    BY <1>10, SMTT(30) DEF vars, chainVars, switchVars, diskVars
  <2>2. ChainCalm'
    BY <2>1, ZenonT(40) DEF CalmInv, ChainCalm, InMemory
  <2>3. SwitchCalm'
    BY <2>1, Zenon DEF CalmInv, SwitchCalm, InPlace, Kept, split_height, Size
  <2>4. StackCalm'
    BY <2>1 DEF CalmInv, StackCalm
  <2> QED
    BY <2>2, <2>3, <2>4, SMTT(30) DEF CalmInv
<1> QED
  BY <1>1, <1>2, <1>3, <1>4, <1>5, <1>6, <1>7, <1>8, <1>9, <1>10, SMTT(30) DEF Next

-----------------------------------------------------------------------------
(* What a calm node guarantees *)

\* A fresh node is calm, and no switch has begun.
LEMMA CalmInit == Init => OriginsInv /\ (Calm => CalmInv)
<1> SUFFICES ASSUME Init PROVE OriginsInv /\ (Calm => CalmInv)
  OBVIOUS
<1>1. OriginsInv
  BY DEF Init, OriginsInv, Reorganising
<1>2. ASSUME Calm PROVE CalmInv
  <2>1. Sound(<<Genesis>>)
    BY DEF Sound
  <2>2. Exact({}, {}, <<Genesis>>)
    <3>1. \A t : t \notin TxsOf(<<Genesis>>)
      BY TxsOfMember, TxAssumption
    <3>2. \A k : k \notin ImagesOf(TxsOf(<<Genesis>>))
      BY <3>1, ImagesOfMember
    <3> QED
      BY <3>1, <3>2 DEF Exact
  <2>3. m_points = HardCheckpoints
    BY <1>2, CalmPoints, SMTT(30) DEF Init
  <2>4. ChainCalm
    BY <2>1, <2>2, <2>3, ZenonT(40) DEF ChainCalm, Init
  <2>5. SwitchCalm
    <3>1. phase = "idle"
      BY DEF Init
    <3> QED
      BY <3>1, Zenon DEF SwitchCalm, Reorganising, Undoing
  <2>6. StackCalm
    <3>1. callers = << >>
      BY DEF Init
    <3>2. DOMAIN callers = {}
      BY <3>1
    <3> QED
      BY <3>2 DEF StackCalm
  <2> QED
    BY <2>4, <2>5, <2>6 DEF CalmInv
<1> QED
  BY <1>1, <1>2

\* Where switches began is known at every step of the node.
THEOREM OriginsInvariance == Spec => []OriginsInv
<1>1. Init => OriginsInv
  BY CalmInit
<1>2. IInv /\ OriginsInv /\ [Next]_vars => OriginsInv'
  BY OriginsNext
<1> QED
  BY <1>1, <1>2, Invariance, PTL DEF Spec

\* The inductive invariant of a calm node.
THEOREM CalmInvariance == ASSUME Calm PROVE Spec => []CalmInv
<1>1. Init => CalmInv
  BY CalmInit
<1>2. IInv /\ OriginsInv /\ CalmInv /\ [Next]_vars => CalmInv'
  BY CalmNext
<1> QED
  BY <1>1, <1>2, Invariance, OriginsInvariance, PTL DEF Spec

\* Without oversize blocks and late checkpoints the indices are exactly those of the
\* chain, at every step of a reorganisation and after every start (pushBlock, popBlock,
\* init, BlockCacheSerializer).
THEOREM CalmIndices == ASSUME Calm PROVE Spec => []IndexConsistency
<1>1. CalmInv => IndexConsistency
  BY DEF CalmInv, ChainCalm, IndexConsistency, Exact
<1> QED
  BY <1>1, CalmInvariance, PTL

\* Then rollback_blockchain_switching never meets a block of the old chain it cannot push.
THEOREM CalmRollbacks == ASSUME Calm PROVE Spec => []RollbackNeverPanics
<1>1. IInv /\ OriginsInv /\ CalmInv => RollbackNeverPanics
  <2> SUFFICES ASSUME IInv, OriginsInv, CalmInv, phase = "rollbackPush"
               PROVE  CanPush(oldChain[pos])
    BY DEF RollbackNeverPanics
  <2>1. LiveCalm /\ SwitchCalm
    BY CalmRunning DEF CalmInv
  <2> QED
    BY <2>1, ReturnBack
<1> QED
  BY <1>1, Invariance, OriginsInvariance, CalmInvariance, PTL

\* A switch settles in one of three steps.
LEMMA SettlingStep ==
    ASSUME SwitchSettles, [Next]_vars
    PROVE  Connect \/ RollbackPush \/ RollbackPanics
<1> USE DEF SwitchSettles
<1>1. ~(UNCHANGED vars)
  BY DEF vars, switchVars
<1>2. SwitchStep => Connect \/ RollbackPush \/ RollbackPanics
  BY Zenon DEF SwitchStep, Disconnect, ConnectFails, RollbackPop, Requeue, RequeueStops,
         RequeueSwitches, Finish
<1>3. ~(StorePool \/ StoreCache \/ Crash)
  BY DEF StorePool, StoreCache, Crash, LoseMemory
<1>4. \A t \in Tx, k \in BOOLEAN : ~add_new_tx(t, k) /\ ~removeExpiredTransactions(t)
  BY DEF add_new_tx, removeExpiredTransactions
<1>5. \A b \in Block : ~AddToMainChain(b) /\ ~RefuseOversizeBlock(b)
  BY SMTT(30) DEF AddToMainChain, RefuseOversizeBlock
<1>6. \A b \in Block, records \in SUBSET DnsCheckpoints :
         ~RefuseAlternative(b, records) /\ ~StoreAlternative(b, records) /\ ~BeginSwitch(b, records)
  BY SMTT(30) DEF RefuseAlternative, StoreAlternative, BeginSwitch, IsAlternative
<1>7. \A records \in SUBSET DnsCheckpoints, expired \in SUBSET poolFile, rollback \in 0..(Size - 1) :
         ~Start(records, expired, rollback)
  BY DEF Start
<1> QED
  BY <1>1, <1>2, <1>3, <1>4, <1>5, <1>6, <1>7, Zenon DEF Next

\* Where a failed or a completed switch leaves the chain.
LEMMA Settles ==
    ASSUME Calm, IInv, OriginsInv, CalmInv, [Next]_vars, SwitchSettles
    PROVE  /\ phase = "rollbackPush" => m_blocks' = origin
           /\ TxsOf(origin) \subseteq m_transactionMap'
<1>1. LiveCalm /\ SwitchCalm
  BY CalmRunning DEF CalmInv, SwitchSettles
<1>2. LiveCalm' /\ SwitchCalm'
  BY CalmNext, CalmRunningNext DEF CalmInv, SwitchSettles
<1>3. m_transactionMap' = TxsOf(m_blocks')
  BY <1>2, SMTT(30) DEF LiveCalm, Exact
<1>4. CASE Connect
  <2>1. phase = "connect" /\ phase' \in {"requeue", "finish"} /\ origin' = origin
    BY <1>4 DEF Connect, SwitchSettles
  <2> QED
    BY <1>2, <1>3, <2>1, ZenonT(40) DEF SwitchCalm
<1>5. CASE RollbackPush \/ RollbackPanics
  <2>1. phase = "rollbackPush"
    BY <1>5, Zenon DEF RollbackPush, RollbackPanics
  <2>2. CanPush(oldChain[pos])
    BY <1>1, <2>1, ReturnBack
  <2>3. pushBlock(oldChain[pos]) /\ pos = Len(oldChain)
    BY <1>5, <2>1, <2>2, Zenon DEF RollbackPush, RollbackPanics, pushBlockFails, SwitchSettles
  <2> QED
    BY <1>1, <1>3, <2>1, <2>3, ReturnBack, SMTT(30)
<1> QED
  BY <1>4, <1>5, SettlingStep

\* Then a reorganisation that fails leaves exactly the chain it found.
THEOREM CalmRestores == ASSUME Calm PROVE Spec => RollbackRestores
<1>1. IInv /\ OriginsInv /\ CalmInv /\ [Next]_vars
        => [SwitchSettles /\ phase = "rollbackPush" => m_blocks' = origin]_vars
  BY Settles
<1> QED
  BY <1>1, Invariance, OriginsInvariance, CalmInvariance, PTL DEF Spec, RollbackRestores

\* And no reorganisation takes a transaction off the main chain.
THEOREM CalmKeepsTransactions == ASSUME Calm PROVE Spec => ReorganisationKeepsTransactions
<1>1. IInv /\ OriginsInv /\ CalmInv /\ [Next]_vars
        => [SwitchSettles => TxsOf(origin) \subseteq m_transactionMap']_vars
  BY Settles
<1> QED
  BY <1>1, Invariance, OriginsInvariance, CalmInvariance, PTL
     DEF Spec, ReorganisationKeepsTransactions

-----------------------------------------------------------------------------
(* Blockchain implements Ledger *)

\* Whoever looks at the chain sees a good one.
LEMMA VisibleGood == IInv /\ OriginsInv => GoodChain(Visible)
<1> SUFFICES ASSUME IInv, OriginsInv PROVE GoodChain(Visible)
  OBVIOUS
<1>1. CASE callers # << >>
  <2>1. callers \in Seq(Frame)
    BY DEF IInv, TypeOK
  <2>2. Len(callers) \in DOMAIN callers
    BY <1>1, <2>1, SMTT(30)
  <2> QED
    BY <1>1, <2>2, SMTT(30) DEF OriginsInv, Visible, LastOf
<1>2. CASE callers = << >>
  BY <1>2 DEF OriginsInv, IInv, Visible
<1> QED
  BY <1>1, <1>2

\* A good chain is a ledger.
LEMMA GoodIsValid == ASSUME NEW c, GoodChain(c) PROVE L!Valid(c)
<1>1. LastOf(c) \in Block /\ c = Path[LastOf(c)]
  BY SMTT(30) DEF GoodChain, LastOf
<1>2. L!SpendsOnce(c)
  BY DEF GoodChain, SpendsOnce, L!SpendsOnce
<1> QED
  BY <1>1, <1>2 DEF L!Valid

\* Only the outermost switch shows its result when it returns.
LEMMA VisibleReturn ==
    ASSUME callers \in Seq(Frame), phase \in Reorganising, NEW ok \in BOOLEAN, Return(ok)
    PROVE  /\ phase' # "rollbackPush"
           /\ Visible' = Visible \/ (Visible = origin /\ Visible' = m_blocks')
<1>1. CASE callers = << >>
  BY <1>1 DEF Return, Visible, Reorganising
<1>2. CASE callers # << >>
  <2>1. /\ origin' = Head(callers).origin /\ callers' = Tail(callers)
        /\ phase' \in Reorganising /\ phase' # "rollbackPush"
    BY <1>2 DEF Return, Reorganising
  <2>2. Visible = callers[Len(callers)].origin /\ Head(callers) = callers[1]
    BY <1>2, SMTT(30) DEF Visible, LastOf
  <2>3. CASE Len(callers) = 1
    <3>1. callers' = << >>
      <4>1. callers' \in Seq(Frame) /\ Len(callers') = 0
        BY <1>2, <2>1, <2>3, SMTT(30)
      <4> QED
        BY <4>1
    <3> QED
      BY <2>1, <2>2, <2>3, <3>1 DEF Visible
  <2>4. CASE Len(callers) # 1
    <3>1. Len(callers) \in Nat /\ Len(callers) > 1
      <4>1. Len(callers) \in Nat /\ Len(callers) # 0
        BY <1>2, EmptySeq, LenProperties
      <4>2. \A n \in Nat : n # 0 /\ n # 1 => n > 1
        OBVIOUS
      <4> QED
        BY <2>4, <4>1, <4>2, Zenon
    <3>2. /\ Len(callers') = Len(callers) - 1
          /\ \A i \in 1..(Len(callers) - 1) : callers'[i] = callers[i + 1]
      BY <1>2, <2>1
    <3>3. callers' # << >> /\ callers'[Len(callers')] = callers[Len(callers)]
      BY <3>1, <3>2
    <3> QED
      BY <2>1, <2>2, <3>3 DEF Visible, LastOf
  <2> QED
    BY <2>1, <2>3, <2>4, SMTT(30)
<1> QED
  BY <1>1, <1>2, SMTT(30)

\* The steps of a switch show nothing, but for its return.
LEMMA VisibleSwitch ==
    ASSUME IInv, SwitchStep
    PROVE  \/ Visible' = Visible
           \/ /\ Visible = origin /\ Visible' = m_blocks'
              /\ Finish \/ RollbackPush \/ RollbackPanics
              /\ phase' # "rollbackPush"
<1>1. callers \in Seq(Frame)
  BY SMTT(30) DEF IInv, TypeOK
<1>2. CASE Disconnect \/ Connect \/ ConnectFails \/ RollbackPop
  BY <1>2, SMTT(30) DEF Disconnect, Connect, ConnectFails, RollbackPop, Visible, Reorganising
<1>3. ASSUME NEW records \in SUBSET DnsCheckpoints, Requeue(records) \/ RequeueStops(records)
      PROVE  Visible' = Visible
  BY <1>3 DEF Requeue, RequeueStops, Visible, Reorganising
<1>4. ASSUME NEW records \in SUBSET DnsCheckpoints, RequeueSwitches(records)
      PROVE  Visible' = Visible
  <2> DEFINE c == [altChain |-> altChain, oldChain |-> oldChain, origin |-> origin, pos |-> pos]
  <2>1. phase = "requeue" /\ callers' = <<c>> \o callers /\ c.origin = origin
    BY <1>4 DEF RequeueSwitches
  <2> HIDE DEF c
  <2>2. /\ callers' # << >> /\ Len(callers') = Len(callers) + 1
        /\ callers = << >> => callers'[Len(callers')] = c
        /\ callers # << >> => callers'[Len(callers')] = callers[Len(callers)]
    BY <1>1, <2>1
  <2> QED
    BY <2>1, <2>2, SMTT(30) DEF Visible, LastOf, Reorganising
<1>5. CASE Finish
  <2>1. phase \in Reorganising /\ Return(TRUE)
    BY <1>5, Zenon DEF Finish, Reorganising
  <2> QED
    BY <1>1, <1>5, <2>1, VisibleReturn, Zenon
<1>6. CASE RollbackPush \/ RollbackPanics
  <2>1. phase = "rollbackPush"
    BY <1>6, Zenon DEF RollbackPush, RollbackPanics
  <2>2. CASE UNCHANGED <<phase, callers, origin>>
    BY <2>1, <2>2 DEF Visible, Reorganising
  <2>3. CASE Return(FALSE)
    BY <1>1, <1>6, <2>1, <2>3, VisibleReturn, Zenon DEF Reorganising
  <2> QED
    BY <1>6, <2>2, <2>3, Zenon DEF RollbackPush, RollbackPanics
<1> QED
  BY <1>2, <1>3, <1>4, <1>5, <1>6, SMTT(30) DEF SwitchStep

\* A switch of a calm node, when it returns, shows a chain that lost no transaction.
LEMMA CalmReturns ==
    ASSUME Calm, IInv, OriginsInv, CalmInv, Visible = origin, Visible' = m_blocks',
           Finish \/ RollbackPush \/ RollbackPanics, phase' # "rollbackPush"
    PROVE  TxsOf(Visible) \subseteq TxsOf(Visible')
<1>1. LiveCalm /\ SwitchCalm
  BY CalmRunning, Zenon DEF CalmInv, Finish, RollbackPush, RollbackPanics
<1>2. CASE Finish
  BY <1>1, <1>2, Zenon DEF Finish, SwitchCalm, chainVars
<1>3. CASE RollbackPush \/ RollbackPanics
  <2>1. phase = "rollbackPush"
    BY <1>3, Zenon DEF RollbackPush, RollbackPanics
  <2>2. CanPush(oldChain[pos])
    BY <1>1, <2>1, ReturnBack
  <2>3. pushBlock(oldChain[pos]) /\ pos = Len(oldChain)
    BY <1>3, <2>1, <2>2, Zenon DEF RollbackPush, RollbackPanics, pushBlockFails
  <2> QED
    BY <1>1, <2>1, <2>3, ReturnBack, SMTT(30)
<1> QED
  BY <1>2, <1>3

\* init cuts the chain, or leaves it.
LEMMA StartCuts ==
    ASSUME IInv, NEW records \in SUBSET DnsCheckpoints, NEW expired \in SUBSET poolFile,
           NEW rollback \in 0..(Size - 1), Start(records, expired, rollback)
    PROVE  \E n \in 1..Size : m_blocks' = SubSeq(m_blocks, 1, n)
<1> DEFINE points == load_checkpoints_from_dns(HardCheckpoints, records)
           valid == lastValidCheckpointHeight(points)
           top == IF rollback < valid THEN rollback ELSE valid
<1>1. m_blocks' = SubSeq(m_blocks, 1, top + 1)
  BY DEF Start
<1>2. points \subseteq Block
  BY PointsType, CheckpointAssumption
<1>3. m_blocks \in Seq(Block) /\ Size \in Nat /\ Size > 0
  BY DEF IInv, TypeOK, Size
<1>4. valid \in Nat
  BY <1>2, <1>3, LastValidType
<1> HIDE DEF valid
<1>5. top + 1 \in 1..Size
  BY <1>3, <1>4
<1> QED
  BY <1>1, <1>5, SMTT(30)

\* Between two reorganisations the chain that is seen is the chain, and it only grows.
LEMMA VisibleIdle ==
    ASSUME IInv, OriginsInv, phase = "idle",
           \/ \E t \in Tx, k \in BOOLEAN : add_new_tx(t, k) \/ removeExpiredTransactions(t)
           \/ \E b \in Block : AddToMainChain(b) \/ RefuseOversizeBlock(b)
           \/ \E b \in Block, records \in SUBSET DnsCheckpoints :
                 \/ RefuseAlternative(b, records)
                 \/ StoreAlternative(b, records)
                 \/ BeginSwitch(b, records)
           \/ StorePool
    PROVE  InMemory' /\ TxsOf(Visible) \subseteq TxsOf(Visible')
<1>1. Visible = m_blocks /\ callers = << >> /\ m_blocks \in Seq(Block)
  BY ZenonT(40) DEF OriginsInv, Visible, Reorganising, IInv, TypeOK
<1>2. ASSUME NEW b \in Block, AddToMainChain(b)
      PROVE  InMemory' /\ TxsOf(Visible) \subseteq TxsOf(Visible')
  <2>1. phase' = "idle" /\ callers' = << >> /\ m_blocks' = Append(m_blocks, b)
    BY <1>1, <1>2, Zenon DEF AddToMainChain, pushBlock, switchVars
  <2>2. Visible' = m_blocks' /\ InMemory'
    BY <2>1, SMTT(30) DEF Visible, Reorganising, InMemory
  <2>3. TxsOf(Append(m_blocks, b)) = TxsOf(m_blocks) \cup BlockTxs[b]
    BY <1>1, AppendTxs, Zenon
  <2>4. TxsOf(m_blocks) \subseteq TxsOf(m_blocks')
    BY <2>1, <2>3, Zenon
  <2> QED
    BY <1>1, <2>2, <2>4, Zenon
<1>3. ASSUME NEW b \in Block, RefuseOversizeBlock(b)
      PROVE  InMemory' /\ Visible' = Visible
  BY <1>1, <1>3, SMTT(30) DEF RefuseOversizeBlock, pushBlockFails, switchVars, Visible,
      Reorganising, InMemory
<1>4. ASSUME NEW b \in Block, NEW records \in SUBSET DnsCheckpoints,
             RefuseAlternative(b, records) \/ StoreAlternative(b, records)
      PROVE  InMemory' /\ Visible' = Visible
  BY <1>1, <1>4, ZenonT(40) DEF RefuseAlternative, StoreAlternative, chainVars, switchVars, Visible,
                    Reorganising, InMemory
<1>5. ASSUME NEW b \in Block, NEW records \in SUBSET DnsCheckpoints, BeginSwitch(b, records)
      PROVE  InMemory' /\ Visible' = Visible
  BY <1>1, <1>5, SMTT(30) DEF BeginSwitch, EnterSwitch, Visible, Reorganising, InMemory
<1>6. ASSUME NEW t \in Tx, NEW k \in BOOLEAN, add_new_tx(t, k) \/ removeExpiredTransactions(t)
      PROVE  InMemory' /\ Visible' = Visible
  BY <1>1, <1>6, ZenonT(40) DEF add_new_tx, removeExpiredTransactions, switchVars, Visible,
      Reorganising, InMemory
<1>7. CASE StorePool
  BY <1>1, <1>7, SMTT(30) DEF StorePool, chainVars, Visible, Reorganising, InMemory
<1> QED
  BY <1>2, <1>3, <1>4, <1>5, <1>6, <1>7, SMTT(30)

\* What the steps of the node are for those who look: one of the steps of a ledger.
LEMMA LedgerStep ==
    ASSUME IInv, OriginsInv, Calm => CalmInv, [Next]_vars, GoodChain(Visible')
    PROVE  [L!Next]_<<Visible, InMemory>>
<1>1. L!Valid(Visible')
  BY GoodIsValid
<1>2. ASSUME InMemory, InMemory', ~Calm PROVE L!Next
  BY <1>1, <1>2, SMTT(30) DEF L!Next, L!Lose, Calm
<1>3. ASSUME InMemory, InMemory', TxsOf(Visible) \subseteq TxsOf(Visible') PROVE L!Next
  BY <1>1, <1>3, SMTT(30) DEF L!Next, L!Advance, TxsOf, L!TxsOf
<1>4. CASE StoreCache \/ Crash
  <2>1. InMemory /\ ~InMemory'
    BY <1>4 DEF StoreCache, Crash, LoseMemory, InMemory
  <2> QED
    BY <1>1, <2>1, SMTT(30) DEF L!Next, L!Halt, InMemory
<1>5. ASSUME NEW records \in SUBSET DnsCheckpoints, NEW expired \in SUBSET poolFile,
             NEW rollback \in 0..(Size - 1), Start(records, expired, rollback)
      PROVE  L!Next
  <2>1. phase = "down" /\ phase' = "idle" /\ callers' = callers
    BY <1>5, ZenonT(40) DEF Start
  <2>2. ~InMemory /\ InMemory' /\ Visible = m_blocks /\ Visible' = m_blocks'
    BY <2>1 DEF InMemory, OriginsInv, Visible, Reorganising
  <2>3. \E n \in 1..Len(Visible) : Visible' = SubSeq(Visible, 1, n)
    BY <1>5, <2>2, StartCuts DEF Size
  <2> QED
    BY <2>2, <2>3, SMTT(30) DEF L!Next, L!Start
<1>6. CASE SwitchStep
  <2>1. InMemory /\ InMemory'
    BY <1>6, Zenon DEF SwitchStep, Disconnect, Connect, ConnectFails, RollbackPop, RollbackPush,
           RollbackPanics, Requeue, RequeueStops, RequeueSwitches, Finish, Return, EnterSwitch,
           InMemory
  <2>2. CASE Calm
    <3>1. TxsOf(Visible) \subseteq TxsOf(Visible')
      BY <1>6, <2>2, VisibleSwitch, CalmReturns, SMTT(30)
    <3> QED
      BY <1>3, <2>1, <3>1
  <2> QED
    BY <1>2, <2>1, <2>2, SMTT(30)
<1>7. ASSUME phase = "idle",
             \/ \E t \in Tx, k \in BOOLEAN : add_new_tx(t, k) \/ removeExpiredTransactions(t)
             \/ \E b \in Block : AddToMainChain(b) \/ RefuseOversizeBlock(b)
             \/ \E b \in Block, records \in SUBSET DnsCheckpoints :
                   \/ RefuseAlternative(b, records)
                   \/ StoreAlternative(b, records)
                   \/ BeginSwitch(b, records)
             \/ StorePool
      PROVE  L!Next
  <2>1. InMemory
    BY <1>7, SMTT(30) DEF InMemory
  <2>2. InMemory' /\ TxsOf(Visible) \subseteq TxsOf(Visible')
    BY <1>7, VisibleIdle, SMTT(30)
  <2> QED
    BY <1>3, <2>1, <2>2, SMTT(30)
<1>8. CASE UNCHANGED vars
  BY <1>8 DEF vars, chainVars, switchVars, Visible, InMemory
<1>9. CASE \/ \E t \in Tx, k \in BOOLEAN : add_new_tx(t, k)
           \/ \E t \in Tx : removeExpiredTransactions(t)
  BY <1>7, <1>9, Zenon DEF add_new_tx, removeExpiredTransactions
<1>10. CASE \E b \in Block : AddToMainChain(b) \/ RefuseOversizeBlock(b)
  BY <1>7, <1>10 DEF AddToMainChain, RefuseOversizeBlock
<1>11. CASE \E b \in Block, records \in SUBSET DnsCheckpoints :
               \/ RefuseAlternative(b, records)
               \/ StoreAlternative(b, records)
               \/ BeginSwitch(b, records)
  BY <1>7, <1>11, ZenonT(40) DEF RefuseAlternative, StoreAlternative, BeginSwitch, IsAlternative
<1>12. CASE StorePool
  BY <1>7, <1>12 DEF StorePool
<1> QED
  BY <1>4, <1>5, <1>6, <1>8, <1>9, <1>10, <1>11, <1>12, SMTT(30) DEF Next

\* For every tree of blocks, every set of checkpoints and any interleaving of blocks,
\* reorganisations, crashes and starts, those who look at the chain between two operations
\* see a ledger: switch_to_alternative_blockchain with its rollback is one step of it, and
\* loses no transaction unless a checkpoint arrives late or an oversize block leaks.
THEOREM Refinement == Spec => ImplementsLedger
<1>1. Init => L!Init
  BY DEF Init, L!Init, Visible, InMemory, Reorganising
<1>2. IInv /\ OriginsInv => GoodChain(Visible)
  BY VisibleGood
<1>3. IInv /\ OriginsInv /\ (Calm => CalmInv) /\ [Next]_vars /\ GoodChain(Visible)'
        => [L!Next]_<<Visible, InMemory>>
  BY LedgerStep
<1>4. Spec => [](Calm => CalmInv)
  <2>1. Init => (Calm => CalmInv)
    BY CalmInit
  <2>2. IInv /\ OriginsInv /\ (Calm => CalmInv) /\ [Next]_vars => (Calm => CalmInv)'
    BY CalmNext DEF Calm
  <2> QED
    BY <2>1, <2>2, Invariance, OriginsInvariance, PTL DEF Spec
<1> QED
  BY <1>1, <1>2, <1>3, <1>4, Invariance, OriginsInvariance, PTL
     DEF Spec, ImplementsLedger, L!Spec
=============================================================================
