------------------------ MODULE TransactionPoolProofs ------------------------
(***************************************************************************)
(* The input indices of the transaction pool are exact, relayed            *)
(* transactions never conflict and the bookkeeping never fails, for every   *)
(* block tree, every set of transactions and every choice of the limits.    *)
(***************************************************************************)
EXTENDS TransactionPool, NaturalsInduction, WellFoundedInduction, TLAPS

\* IndicesExact and RelayedNeverConflict, for any entries and indices.
Exact(entries, images, outputs) ==
    /\ \A k \in KeyImage : images[k] = {t \in DOMAIN entries : k \in Images[t]}
    /\ outputs = UNION {Spends[t] : t \in RelayedIn(entries, DOMAIN entries)}

NoConflict(entries) ==
    \A t, u \in RelayedIn(entries, DOMAIN entries) :
        t # u => Images[t] \cap Images[u] = {} /\ Spends[t] \cap Spends[u] = {}

\* The multisignature outputs that the relayed transactions of T hold.
HeldBy(entries, T) == UNION {Spends[t] : t \in RelayedIn(entries, T)}

\* F is what E is without T, as far as keptByBlock goes.
LeftOf(F, E, T) ==
    /\ T \subseteq DOMAIN E
    /\ DOMAIN F = DOMAIN E \ T
    /\ \A t \in DOMAIN F : F[t].kept = E[t].kept

\* While a template is filled no block is processed, and what is left to look at is still
\* in the pool.
Filling == template.pc # "none" => adding = NullHash /\ template.todo \subseteq Pool

\* The inductive invariant.
Inv ==
    /\ TypeOK
    /\ Exact(m_transactions, m_spent_key_images, m_spentOutputs)
    /\ NoConflict(m_transactions)
    /\ m_ttlIndex = {t \in Pool : TTL[t] # 0}
    /\ m_validated \subseteq Pool
    /\ m_blocks[1] = Genesis
    /\ Filling
    /\ ~fault

-----------------------------------------------------------------------------
(* Types of what the chain's validator returns. *)

\* A set of heights of the chain has a greatest element, 0 standing in for none.
LEMMA GreatestHeight ==
    ASSUME NEW n \in Nat, NEW S, S \subseteq 0..n
    PROVE  \E h \in S \cup {0} : \A g \in S : g <= h
<1> DEFINE U == {k \in Nat : \A g \in S : g <= k}
<1>1. n \in U
  OBVIOUS
<1>2. PICK x \in U : \A y \in U : ~(<<y, x>> \in OpToRel(<, Nat))
  <2>1. U \subseteq Nat /\ U # {}
    BY <1>1
  <2> HIDE DEF U
  <2> QED
    BY <2>1, WFMin, NatLessThanWellFounded, Zenon
<1>3. \A y \in U : ~(y < x)
  BY <1>2, Zenon DEF OpToRel
<1>4. x \in S \cup {0}
  <2> SUFFICES ASSUME x \notin S, x # 0 PROVE FALSE
    OBVIOUS
  <2>1. x - 1 \in U
    OBVIOUS
  <2> QED
    BY <1>3, <2>1
<1> QED
  BY <1>4

LEMMA MaxUsedHeightOnChain ==
    ASSUME m_blocks \in Seq(Block), m_blocks # <<>>, NEW B
    PROVE  MaxUsedHeight(B) \in 0..(Len(m_blocks) - 1)
<1>1. Len(m_blocks) - 1 \in Nat /\ DOMAIN m_blocks = 1..Len(m_blocks)
  OBVIOUS
<1>2. HeightsOf(B) \subseteq 0..(Len(m_blocks) - 1)
  BY <1>1 DEF HeightsOf
<1>3. \E h \in HeightsOf(B) \cup {0} : \A g \in HeightsOf(B) : g <= h
  BY <1>1, <1>2, GreatestHeight, Zenon
<1>4. MaxUsedHeight(B) \in HeightsOf(B) \cup {0}
  BY <1>3 DEF MaxUsedHeight
<1> QED
  BY <1>1, <1>2, <1>4

LEMMA MaxUsedBlockType ==
    ASSUME m_blocks \in Seq(Block), m_blocks # <<>>, NEW t
    PROVE  MaxUsedBlock(t) \in BlockInfo
<1>1. MaxUsedHeight(Ring[t]) \in 0..(Len(m_blocks) - 1)
  BY MaxUsedHeightOnChain
<1> HIDE DEF MaxUsedHeight
<1>2. m_blocks[MaxUsedHeight(Ring[t]) + 1] \in Block
  BY <1>1
<1> QED
  BY <1>1, <1>2 DEF MaxUsedBlock, BlockInfo

LEMMA NewEntryType ==
    ASSUME TypeOK, NEW t, NEW kept \in BOOLEAN
    PROVE  NewEntry(t, kept) \in Entry /\ NewEntry(t, kept).kept = kept
<1>1. NoBlock \in BlockInfo
  BY DEF NoBlock, BlockInfo
<1>2. MaxUsedBlock(t) \in BlockInfo
  BY MaxUsedBlockType DEF TypeOK
<1> QED
  BY <1>1, <1>2 DEF NewEntry, Entry, CheckInfo, TypeOK

LEMMA RecheckedType ==
    ASSUME TypeOK, NEW t, NEW info \in CheckInfo, NEW r \in Rechecked(t, info)
    PROVE  r.info \in CheckInfo /\ r.ok \in BOOLEAN
<1>1. NoBlock \in BlockInfo /\ MaxUsedBlock(t) \in BlockInfo
  BY MaxUsedBlockType DEF NoBlock, BlockInfo, TypeOK
<1>2. CASE InputsValid(t)
  <2>1. r = [ok |-> TRUE, info |-> [info EXCEPT !.maxUsed = MaxUsedBlock(t)]]
    BY <1>2 DEF Rechecked
  <2> QED
    BY <2>1, <1>1 DEF CheckInfo
<1>3. CASE ~InputsValid(t)
  <2>1. PICK h \in HeightsOf(Ring[t]) \cup {0} :
           r = [ok |-> FALSE,
                info |-> [maxUsed |-> IF info.maxUsed.id = NullHash THEN NoBlock
                                      ELSE [info.maxUsed EXCEPT !.height = h],
                          lastFailed |-> TailInfo]]
    BY <1>3 DEF Rechecked
  <2>2. h \in Nat
    BY DEF HeightsOf, TypeOK
  <2>3. TailInfo \in BlockInfo
    BY DEF TailInfo, BlockInfo, getTailId, TypeOK
  <2>4. info.maxUsed \in BlockInfo
    BY DEF CheckInfo
  <2>5. [info.maxUsed EXCEPT !.height = h] \in BlockInfo
    BY <2>2, <2>4 DEF BlockInfo
  <2> QED
    BY <2>1, <2>3, <2>5, <1>1 DEF CheckInfo
<1> QED
  BY <1>2, <1>3

LEMMA VerdictType ==
    ASSUME TypeOK, NEW t \in Pool, NEW r \in Verdicts(t)
    PROVE  r.info \in CheckInfo /\ r.ok \in BOOLEAN
<1> DEFINE info == m_transactions[t].info
<1>1. info \in CheckInfo
  BY DEF TypeOK, Entry
<1> HIDE DEF info
<1>2. \A q \in Skipped(info) : q.info \in CheckInfo /\ q.ok \in BOOLEAN
  <2>1. \A q \in Skipped(info) : q = [ok |-> FALSE, info |-> info]
    BY DEF Skipped
  <2>2. \A q \in Skipped(info) : q.info = info /\ q.ok = FALSE
    BY <2>1
  <2> QED
    BY <2>2, <1>1, Zenon
<1>3. \A q \in Rechecked(t, info) : q.info \in CheckInfo /\ q.ok \in BOOLEAN
  BY <1>1, RecheckedType
<1>4. CASE t \in m_validated
  <2>1. r = [ok |-> TRUE, info |-> info]
    BY <1>4 DEF Verdicts, info
  <2>2. r.info = info /\ r.ok = TRUE
    BY <2>1
  <2> QED
    BY <2>2, <1>1, Zenon
<1>5. CASE t \notin m_validated
  <2>1. r \in checkTransactionInputs(t, info)
    BY <1>5 DEF Verdicts, info
  <2>2. r \in Skipped(info) \/ r \in Rechecked(t, info)
    BY <2>1 DEF checkTransactionInputs, CheckedBefore
  <2> QED
    BY <2>2, <1>2, <1>3
<1> QED
  BY <1>4, <1>5

-----------------------------------------------------------------------------
(* Adding to and removing from the pool keep the indices exact. *)

\* Removing outputs of relayed transactions frees exactly theirs, because no two relayed
\* transactions spend the same.
LEMMA OutputsLeft ==
    ASSUME NEW E, NEW T, NEW F, NoConflict(E), LeftOf(F, E, T)
    PROVE  HeldBy(E, DOMAIN E) \ HeldBy(E, T) = HeldBy(F, DOMAIN F)
<1> DEFINE A == UNION {Spends[t] : t \in RelayedIn(E, DOMAIN E)}
           R == UNION {Spends[t] : t \in RelayedIn(E, T)}
           L == UNION {Spends[t] : t \in RelayedIn(F, DOMAIN F)}
<1> USE DEF LeftOf
<1>1. ASSUME NEW o \in A, o \notin R PROVE o \in L
  <2>1. PICK t \in RelayedIn(E, DOMAIN E) : o \in Spends[t]
    OBVIOUS
  <2>2. t \notin T
    BY <2>1, <1>1 DEF RelayedIn
  <2>3. t \in RelayedIn(F, DOMAIN F)
    BY <2>1, <2>2 DEF RelayedIn
  <2> QED
    BY <2>1, <2>3
<1>2. ASSUME NEW o \in L PROVE o \in A /\ o \notin R
  <2>1. PICK t \in RelayedIn(F, DOMAIN F) : o \in Spends[t]
    BY Zenon
  <2>2. t \in RelayedIn(E, DOMAIN E) /\ t \notin T
    BY <2>1 DEF RelayedIn
  <2>3. o \notin R
    <3> SUFFICES ASSUME NEW u \in RelayedIn(E, T), o \in Spends[u] PROVE FALSE
      OBVIOUS
    <3>1. u \in RelayedIn(E, DOMAIN E) /\ u # t
      BY <2>2 DEF RelayedIn
    <3> QED
      BY <2>1, <2>2, <3>1 DEF NoConflict
  <2> QED
    BY <2>1, <2>2, <2>3
<1>3. A \ R = L
  BY <1>1, <1>2, Zenon
<1> QED
  BY <1>3, Zenon DEF HeldBy

\* removeTransaction, on a sound pool, leaves a sound pool and meets no internal error.
LEMMA RemoveSound ==
    ASSUME NEW p, NEW T, RemoveFrom(p, T), T \subseteq DOMAIN p.transactions,
           DOMAIN p.transactions \subseteq Tx,
           p.transactions \in [DOMAIN p.transactions -> Entry],
           p.images \in [KeyImage -> SUBSET Tx], p.outputs \subseteq Output,
           Exact(p.transactions, p.images, p.outputs), NoConflict(p.transactions),
           ~fault, fault \in BOOLEAN
    PROVE  /\ Pool' = DOMAIN p.transactions \ T
           /\ m_transactions' \in [DOMAIN p.transactions \ T -> Entry]
           /\ m_spent_key_images' \in [KeyImage -> SUBSET Tx]
           /\ m_spentOutputs' \subseteq Output
           /\ Exact(m_transactions', m_spent_key_images', m_spentOutputs')
           /\ NoConflict(m_transactions')
           /\ fault' \in BOOLEAN /\ ~fault'
<1> DEFINE E == p.transactions
           I == p.images
           O == p.outputs
           F == [t \in DOMAIN E \ T |-> E[t]]
<1>1. /\ m_transactions' = F
      /\ m_spent_key_images' = [k \in KeyImage |-> I[k] \ SpentBy(k, T)]
      /\ m_spentOutputs' = O \ UNION {Spends[t] : t \in RelayedIn(E, T)}
      /\ fault' = (fault \/ RemovalFails(p, T))
  BY DEF RemoveFrom
<1>2. /\ DOMAIN E \subseteq Tx /\ E \in [DOMAIN E -> Entry] /\ T \subseteq DOMAIN E
      /\ I \in [KeyImage -> SUBSET Tx] /\ O \subseteq Output
      /\ Exact(E, I, O) /\ NoConflict(E)
  OBVIOUS
<1>3. ~RemovalFails(p, T)
  <2> SUFFICES ASSUME NEW t \in T
               PROVE  /\ \A k \in Images[t] : t \in I[k]
                      /\ ~E[t].kept => Spends[t] \subseteq O
    BY DEF RemovalFails
  <2>1. Images[t] \subseteq KeyImage
    BY <1>2, PoolAssumption
  <2>2. \A k \in Images[t] : t \in I[k]
    BY <1>2, <2>1 DEF Exact
  <2>3. ~E[t].kept => Spends[t] \subseteq O
    BY <1>2 DEF Exact, RelayedIn
  <2> QED
    BY <2>2, <2>3
<1> HIDE DEF E, I, O
<1>4. DOMAIN F = DOMAIN E \ T /\ \A t \in DOMAIN F : F[t] = E[t]
  OBVIOUS
<1>5. Pool' = DOMAIN E \ T
  BY <1>1, <1>4 DEF Pool
<1>6. F \in [DOMAIN E \ T -> Entry]
  BY <1>2
<1>7. \A k \in KeyImage : I[k] \ SpentBy(k, T) = {t \in DOMAIN F : k \in Images[t]}
  BY <1>2, <1>4 DEF Exact, SpentBy
<1>8. O \ UNION {Spends[t] : t \in RelayedIn(E, T)}
        = UNION {Spends[t] : t \in RelayedIn(F, DOMAIN F)}
  <2> HIDE DEF F
  <2>1. O = UNION {Spends[t] : t \in RelayedIn(E, DOMAIN E)}
    BY <1>2 DEF Exact
  <2>2. LeftOf(F, E, T) /\ NoConflict(E)
    BY <1>2, <1>4 DEF LeftOf
  <2>3. HeldBy(E, DOMAIN E) \ HeldBy(E, T) = HeldBy(F, DOMAIN F)
    BY <2>2, OutputsLeft
  <2> QED
    BY <2>1, <2>3 DEF HeldBy
<1>9. NoConflict(F)
  <2> HIDE DEF F
  <2>1. RelayedIn(F, DOMAIN F) \subseteq RelayedIn(E, DOMAIN E)
    BY <1>4 DEF RelayedIn
  <2> QED
    BY <2>1, <1>2 DEF NoConflict
<1>10. Exact(m_transactions', m_spent_key_images', m_spentOutputs')
  <2> HIDE DEF F
  <2> QED
    BY <1>1, <1>7, <1>8 DEF Exact
<1>11. m_spent_key_images' \in [KeyImage -> SUBSET Tx] /\ m_spentOutputs' \subseteq Output
  BY <1>1, <1>2
<1>12. fault' \in BOOLEAN /\ ~fault'
  BY <1>1, <1>3
<1> QED
  <2> HIDE DEF F
  <2> QED
    BY <1>1, <1>5, <1>6, <1>9, <1>10, <1>11, <1>12 DEF E

\* The entries after an insertion: their domain, and the new and the old ones.
LEMMA WithEntriesType ==
    ASSUME TypeOK, m_blocks # <<>>, NEW T, T \subseteq Tx, NEW kept, kept \in BOOLEAN
    PROVE  /\ DOMAIN WithEntries(T, kept) = Pool \cup T
           /\ WithEntries(T, kept) \in [Pool \cup T -> Entry]
           /\ \A t \in T : WithEntries(T, kept)[t].kept = kept
           /\ \A t \in Pool \ T : WithEntries(T, kept)[t] = m_transactions[t]
<1> DEFINE W == WithEntries(T, kept)
<1>1. W = [t \in Pool \cup T |-> IF t \in T THEN NewEntry(t, kept) ELSE m_transactions[t]]
  BY DEF WithEntries
<1>2. \A t \in T : NewEntry(t, kept) \in Entry
  BY NewEntryType
<1>3. \A t \in T : NewEntry(t, kept).kept = kept
  BY DEF NewEntry
<1>4. m_transactions \in [Pool -> Entry]
  BY DEF TypeOK
<1> HIDE DEF W
<1>5. DOMAIN W = Pool \cup T
  BY <1>1
<1>6. W \in [Pool \cup T -> Entry]
  BY <1>1, <1>2, <1>4
<1>7. \A t \in T : W[t] = NewEntry(t, kept)
  BY <1>1
<1>8. \A t \in Pool \ T : W[t] = m_transactions[t]
  BY <1>1
<1> QED
  BY <1>3, <1>5, <1>6, <1>7, <1>8 DEF W

\* add_tx keeps the indices exact: a block's transactions register their key images only,
\* a relayed one finds its inputs free.
LEMMA AddSound ==
    ASSUME Inv, NEW T, T \subseteq Tx, T \cap Pool = {}, NEW kept \in BOOLEAN,
           kept \/ \E t \in Tx : T = {t} /\ ~haveSpentInputs(t),
           AddEntries(T, kept)
    PROVE  /\ Pool' = Pool \cup T
           /\ m_transactions' \in [Pool \cup T -> Entry]
           /\ m_spent_key_images' \in [KeyImage -> SUBSET Tx]
           /\ m_spentOutputs' \subseteq Output
           /\ Exact(m_transactions', m_spent_key_images', m_spentOutputs')
           /\ NoConflict(m_transactions')
           /\ m_ttlIndex' = {t \in Pool' : TTL[t] # 0}
           /\ fault' \in BOOLEAN /\ ~fault'
<1> DEFINE F == m_transactions'
<1>1. /\ F = WithEntries(T, kept)
      /\ m_ttlIndex' = m_ttlIndex \cup {t \in T : TTL[t] # 0}
      /\ addTransactionInputs(T, kept)
  BY DEF AddEntries
<1>2. TypeOK /\ m_blocks # <<>> /\ m_transactions \in [Pool -> Entry]
  BY DEF Inv, TypeOK
<1>3. /\ DOMAIN F = Pool \cup T
      /\ F \in [Pool \cup T -> Entry]
      /\ \A t \in T : F[t].kept = kept
      /\ \A t \in Pool \ T : F[t] = m_transactions[t]
  <2>1. /\ DOMAIN WithEntries(T, TRUE) = Pool \cup T
        /\ WithEntries(T, TRUE) \in [Pool \cup T -> Entry]
        /\ \A t \in T : WithEntries(T, TRUE)[t].kept = TRUE
        /\ \A t \in Pool \ T : WithEntries(T, TRUE)[t] = m_transactions[t]
    BY <1>2, WithEntriesType, Zenon
  <2>2. /\ DOMAIN WithEntries(T, FALSE) = Pool \cup T
        /\ WithEntries(T, FALSE) \in [Pool \cup T -> Entry]
        /\ \A t \in T : WithEntries(T, FALSE)[t].kept = FALSE
        /\ \A t \in Pool \ T : WithEntries(T, FALSE)[t] = m_transactions[t]
    BY <1>2, WithEntriesType, Zenon
  <2>3. kept = TRUE \/ kept = FALSE
    OBVIOUS
  <2> QED
    BY <1>1, <2>1, <2>2, <2>3, Zenon
<1> HIDE DEF F
<1>4. RelayedIn(F, DOMAIN F)
        = RelayedIn(m_transactions, Pool) \cup (IF kept THEN {} ELSE T)
  <2>1. \A t \in Pool : t \notin T
    OBVIOUS
  <2>2. \A t \in Pool : F[t].kept = m_transactions[t].kept
    BY <1>3, <2>1
  <2>3. \A t \in DOMAIN F : t \in Pool \/ t \in T
    BY <1>3
  <2> QED
    BY <1>3, <2>1, <2>2, <2>3 DEF RelayedIn
<1>5. \A k \in KeyImage : m_spent_key_images'[k] = {t \in DOMAIN F : k \in Images[t]}
  BY <1>1, <1>3 DEF addTransactionInputs, SpentBy, Inv, Exact, Pool
<1>6. m_spentOutputs' = UNION {Spends[t] : t \in RelayedIn(F, DOMAIN F)}
  <2>1. m_spentOutputs = UNION {Spends[t] : t \in RelayedIn(m_transactions, Pool)}
    BY DEF Inv, Exact, Pool
  <2>2. m_spentOutputs' = m_spentOutputs \cup (IF kept THEN {} ELSE UNION {Spends[t] : t \in T})
    BY <1>1 DEF addTransactionInputs
  <2> QED
    BY <2>1, <2>2, <1>4
<1>7. ~kept => \A t \in T, u \in RelayedIn(m_transactions, Pool) :
                  Images[t] \cap Images[u] = {} /\ Spends[t] \cap Spends[u] = {}
  <2> SUFFICES ASSUME ~kept, NEW t \in T, NEW u \in RelayedIn(m_transactions, Pool)
               PROVE  Images[t] \cap Images[u] = {} /\ Spends[t] \cap Spends[u] = {}
    OBVIOUS
  <2>1. ~haveSpentInputs(t)
    OBVIOUS
  <2>2. u \in Pool /\ u \in Tx /\ Images[u] \subseteq KeyImage
    BY <1>2, PoolAssumption, SMTT(30) DEF RelayedIn, TypeOK
  <2>3. \A k \in Images[u] : u \in m_spent_key_images[k]
    BY <2>2 DEF Inv, Exact, Pool
  <2>4. Spends[u] \subseteq m_spentOutputs
    BY DEF Inv, Exact, Pool
  <2> QED
    BY <2>1, <2>3, <2>4 DEF haveSpentInputs
<1>8. NoConflict(F)
  <2> SUFFICES ASSUME NEW t \in RelayedIn(F, DOMAIN F), NEW u \in RelayedIn(F, DOMAIN F),
                      t # u
               PROVE  Images[t] \cap Images[u] = {} /\ Spends[t] \cap Spends[u] = {}
    BY DEF NoConflict
  <2>1. CASE t \in RelayedIn(m_transactions, Pool) /\ u \in RelayedIn(m_transactions, Pool)
    BY <2>1 DEF Inv, NoConflict, Pool
  <2>2. CASE ~kept /\ t \in T /\ u \in RelayedIn(m_transactions, Pool)
    BY <2>2, <1>7
  <2>3. CASE ~kept /\ u \in T /\ t \in RelayedIn(m_transactions, Pool)
    BY <2>3, <1>7
  <2>4. ~(~kept /\ t \in T /\ u \in T)
    OBVIOUS
  <2> QED
    BY <2>1, <2>2, <2>3, <2>4, <1>4
<1>9. m_spent_key_images' \in [KeyImage -> SUBSET Tx]
  BY <1>1, <1>2 DEF addTransactionInputs, SpentBy, TypeOK
<1>10. m_spentOutputs' \subseteq Output
  <2>1. m_spentOutputs \subseteq Output /\ \A t \in T : Spends[t] \subseteq Output
    BY <1>2, PoolAssumption, Zenon DEF TypeOK
  <2> QED
    BY <1>1, <2>1 DEF addTransactionInputs
<1>11. fault' \in BOOLEAN /\ ~fault'
  <2>1. kept \/ \A t \in T : ~haveSpentInputs(t)
    OBVIOUS
  <2> QED
    BY <1>1, <2>1 DEF addTransactionInputs, haveSpentInputs, Inv, TypeOK
<1>12. Pool' = Pool \cup T
  BY <1>3 DEF Pool, F
<1>13. m_ttlIndex' = {t \in Pool' : TTL[t] # 0}
  BY <1>1, <1>12 DEF Inv
<1> QED
  BY <1>3, <1>5, <1>6, <1>8, <1>9, <1>10, <1>11, <1>12, <1>13, Zenon DEF Exact, F

\* Taking transactions out and returning them as a block's frees the outputs that the
\* relayed ones among them held, and changes no other index.
LEMMA TakeSound ==
    ASSUME Inv, NEW T, T \subseteq Pool, TakeAndReturn(T)
    PROVE  /\ Pool' = Pool
           /\ m_transactions' \in [Pool -> Entry]
           /\ m_spentOutputs' \subseteq Output
           /\ Exact(m_transactions', m_spent_key_images, m_spentOutputs')
           /\ NoConflict(m_transactions')
           /\ fault' \in BOOLEAN /\ ~fault'
<1> DEFINE E == m_transactions
           F == m_transactions'
           G == [t \in Pool \ T |-> m_transactions[t]]
<1>1. /\ F = WithEntries(T, TRUE)
      /\ m_spentOutputs' = m_spentOutputs \ UNION {Spends[t] : t \in RelayedIn(E, T)}
      /\ fault' = (fault \/ RemovalFails(Snapshot, T))
  BY DEF TakeAndReturn
<1>2. TypeOK /\ m_blocks # <<>> /\ T \subseteq Tx
  BY DEF Inv, TypeOK
<1>3. /\ DOMAIN F = Pool
      /\ F \in [Pool -> Entry]
      /\ \A t \in T : F[t].kept = TRUE
      /\ \A t \in Pool \ T : F[t] = m_transactions[t]
  <2>1. Pool \cup T = Pool
    OBVIOUS
  <2> QED
    <3>1. /\ DOMAIN WithEntries(T, TRUE) = Pool \cup T
          /\ WithEntries(T, TRUE) \in [Pool \cup T -> Entry]
          /\ \A t \in T : WithEntries(T, TRUE)[t].kept = TRUE
          /\ \A t \in Pool \ T : WithEntries(T, TRUE)[t] = m_transactions[t]
      BY <1>2, WithEntriesType, Zenon
    <3> QED
      BY <1>1, <2>1, <3>1, Zenon
<1>4. DOMAIN G = Pool \ T /\ \A t \in DOMAIN G : G[t].kept = E[t].kept
  OBVIOUS
<1> HIDE DEF F, G
<1>5. RelayedIn(F, DOMAIN F) = RelayedIn(G, DOMAIN G)
  <2>1. \A t \in Pool \ T : G[t].kept = F[t].kept
    BY <1>3, <1>4
  <2> QED
    BY <1>3, <1>4, <2>1 DEF RelayedIn
<1>6. m_spentOutputs' = UNION {Spends[t] : t \in RelayedIn(F, DOMAIN F)}
  <2>1. NoConflict(E) /\ LeftOf(G, E, T)
    BY <1>4 DEF Inv, Pool, LeftOf
  <2>2. HeldBy(E, DOMAIN E) \ HeldBy(E, T) = HeldBy(G, DOMAIN G)
    BY <2>1, OutputsLeft
  <2>3. m_spentOutputs = UNION {Spends[t] : t \in RelayedIn(E, DOMAIN E)}
    BY DEF Inv, Exact
  <2> QED
    BY <1>1, <1>5, <2>2, <2>3, Zenon DEF HeldBy
<1>7. \A k \in KeyImage : m_spent_key_images[k] = {t \in DOMAIN F : k \in Images[t]}
  BY <1>3 DEF Inv, Exact, Pool
<1>8. NoConflict(F)
  <2>1. RelayedIn(F, DOMAIN F) \subseteq RelayedIn(E, DOMAIN E)
    BY <1>4, <1>5 DEF RelayedIn, Pool
  <2> QED
    BY <2>1 DEF Inv, NoConflict
<1>9. ~RemovalFails(Snapshot, T)
  <2>1. /\ Snapshot.transactions = E /\ Snapshot.images = m_spent_key_images
        /\ Snapshot.outputs = m_spentOutputs
    BY DEF Snapshot
  <2> SUFFICES ASSUME NEW t \in T
               PROVE  /\ \A k \in Images[t] : t \in m_spent_key_images[k]
                      /\ ~E[t].kept => Spends[t] \subseteq m_spentOutputs
    BY <2>1 DEF RemovalFails
  <2>2. Images[t] \subseteq KeyImage
    BY <1>2, PoolAssumption
  <2>3. \A k \in Images[t] : t \in m_spent_key_images[k]
    BY <2>2 DEF Inv, Exact, Pool
  <2>4. ~E[t].kept => Spends[t] \subseteq m_spentOutputs
    BY DEF Inv, Exact, RelayedIn, Pool
  <2> QED
    BY <2>3, <2>4
<1>10. fault' \in BOOLEAN /\ ~fault'
  BY <1>1, <1>9 DEF Inv, TypeOK
<1>11. m_spentOutputs' \subseteq Output
  BY <1>1, <1>2 DEF TypeOK
<1> QED
  BY <1>3, <1>6, <1>7, <1>8, <1>10, <1>11 DEF Exact, Pool, F

-----------------------------------------------------------------------------
(* Every action preserves the invariant. *)

\* Steps that leave the pool alone need only keep the types of the rest.
LEMMA PoolUnchanged ==
    ASSUME Inv, UNCHANGED poolVars,
           m_blocks' \in Seq(Block), m_blocks' # <<>>, m_blocks'[1] = Genesis,
           adding' \in Block \cup {NullHash}, now' \in Nat, m_lastWorkedTime' \in Nat,
           template' \in [pc: {"none", "fusion", "fees"}, todo: SUBSET Tx,
                          txs: SUBSET Tx, size: Nat],
           Filling'
    PROVE  Inv'
<1>1. Pool' = Pool
  BY DEF poolVars, Pool
<1>2. TypeOK'
  BY <1>1 DEF Inv, TypeOK, poolVars
<1> QED
  BY <1>1, <1>2 DEF Inv, poolVars

LEMMA InitInv == ASSUME Init PROVE Inv
<1>1. /\ EmptyFile.transactions = [t \in {} |-> 0]
      /\ EmptyFile.images = [k \in KeyImage |-> {}]
      /\ EmptyFile.deleted = [t \in {} |-> 0]
  BY DEF EmptyFile
<1>2. Pool = {} /\ m_transactions \in [{} -> Entry]
  BY <1>1 DEF Init, Pool
<1>3. /\ NoTemplate \in [pc: {"none", "fusion", "fees"}, todo: SUBSET Tx,
                         txs: SUBSET Tx, size: Nat]
      /\ NoTemplate.pc = "none"
  BY DEF NoTemplate
<1>4. TypeOK
  <2>1. m_blocks \in Seq(Block) /\ m_blocks # <<>> /\ m_blocks[1] = Genesis
    BY PoolAssumption DEF Init
  <2>2. DOMAIN m_recentlyDeleted = {} /\ m_recentlyDeleted \in [{} -> Nat]
    BY <1>1 DEF Init
  <2>3. m_spent_key_images \in [KeyImage -> SUBSET Tx]
    BY <1>1 DEF Init
  <2> QED
    BY <1>2, <1>3, <2>1, <2>2, <2>3, Zenon DEF Init, TypeOK
<1>5. Exact(m_transactions, m_spent_key_images, m_spentOutputs)
  BY <1>1, <1>2 DEF Exact, Init, Pool, RelayedIn
<1>6. NoConflict(m_transactions)
  BY <1>2 DEF NoConflict, RelayedIn, Pool
<1> QED
  BY <1>2, <1>3, <1>4, <1>5, <1>6 DEF Inv, Init, Filling

LEMMA AddTxInv ==
    ASSUME Inv, NEW t \in Tx, NEW kept \in BOOLEAN, AddTx(t, kept) PROVE Inv'
<1>1. /\ {t} \subseteq Tx /\ {t} \cap Pool = {}
      /\ kept \/ \E u \in Tx : {t} = {u} /\ ~haveSpentInputs(u)
      /\ AddEntries({t}, kept)
      /\ UNCHANGED <<m_recentlyDeleted, m_validated, chainVars, timeVars, template>>
  BY DEF AddTx, RelayAccepted
<1>2. /\ Pool' = Pool \cup {t}
      /\ m_transactions' \in [Pool \cup {t} -> Entry]
      /\ m_spent_key_images' \in [KeyImage -> SUBSET Tx]
      /\ m_spentOutputs' \subseteq Output
      /\ Exact(m_transactions', m_spent_key_images', m_spentOutputs')
      /\ NoConflict(m_transactions')
      /\ m_ttlIndex' = {u \in Pool' : TTL[u] # 0}
      /\ fault' \in BOOLEAN /\ ~fault'
  BY <1>1, AddSound, Zenon
<1>3. TypeOK'
  BY <1>1, <1>2 DEF Inv, TypeOK, chainVars, timeVars
<1> QED
  BY <1>1, <1>2, <1>3 DEF Inv, Filling, chainVars

\* What removeTransaction does to the pool in memory.
LEMMA RemoveEntriesSound ==
    ASSUME Inv, NEW T, T \subseteq Pool, RemoveEntries(T)
    PROVE  /\ Pool' = Pool \ T
           /\ m_transactions' \in [Pool \ T -> Entry]
           /\ m_spent_key_images' \in [KeyImage -> SUBSET Tx]
           /\ m_spentOutputs' \subseteq Output
           /\ Exact(m_transactions', m_spent_key_images', m_spentOutputs')
           /\ NoConflict(m_transactions')
           /\ m_ttlIndex' = {t \in Pool' : TTL[t] # 0}
           /\ m_validated' \subseteq Pool'
           /\ fault' \in BOOLEAN /\ ~fault'
<1> DEFINE p == Snapshot
<1>1. /\ p.transactions = m_transactions /\ p.images = m_spent_key_images
      /\ p.outputs = m_spentOutputs
  BY DEF Snapshot
<1>2. RemoveFrom(p, T) /\ m_ttlIndex' = m_ttlIndex \ T /\ m_validated' = m_validated \ T
  BY DEF RemoveEntries
<1> HIDE DEF p
<1>3. /\ T \subseteq DOMAIN p.transactions /\ DOMAIN p.transactions \subseteq Tx
      /\ p.transactions \in [DOMAIN p.transactions -> Entry]
      /\ p.images \in [KeyImage -> SUBSET Tx] /\ p.outputs \subseteq Output
      /\ Exact(p.transactions, p.images, p.outputs) /\ NoConflict(p.transactions)
      /\ ~fault /\ fault \in BOOLEAN
  BY <1>1 DEF Inv, TypeOK, Pool
<1>4. /\ Pool' = DOMAIN p.transactions \ T
      /\ m_transactions' \in [DOMAIN p.transactions \ T -> Entry]
      /\ m_spent_key_images' \in [KeyImage -> SUBSET Tx]
      /\ m_spentOutputs' \subseteq Output
      /\ Exact(m_transactions', m_spent_key_images', m_spentOutputs')
      /\ NoConflict(m_transactions')
      /\ fault' \in BOOLEAN /\ ~fault'
  BY <1>2, <1>3, RemoveSound, Zenon
<1>5. DOMAIN p.transactions = Pool
  BY <1>1 DEF Pool
<1>6. m_ttlIndex' = {t \in Pool' : TTL[t] # 0} /\ m_validated' \subseteq Pool'
  BY <1>2, <1>4, <1>5 DEF Inv
<1> QED
  BY <1>4, <1>5, <1>6

LEMMA PushBlockInv == ASSUME Inv, NEW b \in Block, PushBlock(b) PROVE Inv'
<1> DEFINE T == Range(BlockTxs[b])
<1>1. /\ T \subseteq Pool /\ RemoveEntries(T)
      /\ m_blocks' = Append(m_blocks, b) /\ adding # NullHash
      /\ UNCHANGED <<adding, m_recentlyDeleted, timeVars, template>>
  BY DEF PushBlock, AllTaken
<1> HIDE DEF T
<1>2. /\ Pool' = Pool \ T
      /\ m_transactions' \in [Pool \ T -> Entry]
      /\ m_spent_key_images' \in [KeyImage -> SUBSET Tx]
      /\ m_spentOutputs' \subseteq Output
      /\ Exact(m_transactions', m_spent_key_images', m_spentOutputs')
      /\ NoConflict(m_transactions')
      /\ m_ttlIndex' = {t \in Pool' : TTL[t] # 0}
      /\ m_validated' \subseteq Pool'
      /\ fault' \in BOOLEAN /\ ~fault'
  BY <1>1, RemoveEntriesSound, Zenon
<1>3. m_blocks' \in Seq(Block) /\ m_blocks' # <<>> /\ m_blocks'[1] = Genesis
  BY <1>1 DEF Inv, TypeOK
<1>4. TypeOK'
  BY <1>1, <1>2, <1>3 DEF Inv, TypeOK, timeVars
<1> QED
  BY <1>1, <1>2, <1>3, <1>4 DEF Inv, Filling

LEMMA RefuseBlockInv == ASSUME Inv, NEW b \in Block, RefuseBlock(b) PROVE Inv'
<1> DEFINE T == Taken(b)
<1>1. T \subseteq Pool
  <2> SUFFICES ASSUME NEW j \in DOMAIN BlockTxs[b], \A l \in 1..j : BlockTxs[b][l] \in Pool
               PROVE  BlockTxs[b][j] \in Pool
    BY DEF Taken
  <2>1. BlockTxs[b] \in Seq(Tx)
    BY PoolAssumption
  <2>2. j \in 1..j
    BY <2>1
  <2> QED
    BY <2>2
<1>2. /\ TakeAndReturn(T) /\ adding # NullHash
      /\ UNCHANGED <<chainVars, timeVars, template>>
  BY DEF RefuseBlock
<1> HIDE DEF T
<1>3. /\ Pool' = Pool
      /\ m_transactions' \in [Pool -> Entry]
      /\ m_spentOutputs' \subseteq Output
      /\ Exact(m_transactions', m_spent_key_images, m_spentOutputs')
      /\ NoConflict(m_transactions')
      /\ fault' \in BOOLEAN /\ ~fault'
  BY <1>1, <1>2, TakeSound
<1>4. /\ m_validated' = m_validated \ T
      /\ UNCHANGED <<m_spent_key_images, m_ttlIndex, m_recentlyDeleted>>
  BY <1>2 DEF TakeAndReturn
<1>5. TypeOK'
  BY <1>2, <1>3, <1>4 DEF Inv, TypeOK, chainVars, timeVars
<1> QED
  BY <1>2, <1>3, <1>4, <1>5 DEF Inv, Filling, chainVars

\* SubSeq(s, 1, n) is s cut off after n.
LEMMA PrefixProperties ==
    ASSUME NEW s \in Seq(Block), NEW n \in 1..Len(s)
    PROVE  /\ SubSeq(s, 1, n) \in Seq(Block)
           /\ SubSeq(s, 1, n) # <<>>
           /\ SubSeq(s, 1, n)[1] = s[1]
OBVIOUS

LEMMA PopBlockInv == ASSUME Inv, PopBlock PROVE Inv'
<1> DEFINE T == Range(BlockTxs[getTailId]) \ Pool
<1>1. /\ AddEntries(T, TRUE) /\ T \cap Pool = {} /\ adding # NullHash
      /\ m_blocks' = SubSeq(m_blocks, 1, Len(m_blocks) - 1) /\ getTailId # Genesis
      /\ UNCHANGED <<adding, m_recentlyDeleted, m_validated, timeVars, template>>
  BY Zenon DEF PopBlock
<1>2. m_blocks \in Seq(Block) /\ m_blocks # <<>> /\ m_blocks[1] = Genesis
  BY DEF Inv, TypeOK
<1>3. Len(m_blocks) \in Nat /\ Len(m_blocks) # 0 /\ Len(m_blocks) # 1
  BY <1>1, <1>2 DEF getTailId
<1>4. m_blocks' \in Seq(Block) /\ m_blocks' # <<>> /\ m_blocks'[1] = Genesis
  <2>1. Len(m_blocks) - 1 \in 1..Len(m_blocks)
    <3>1. \A n \in Nat : n # 0 /\ n # 1 => n - 1 \in 1..n
      OBVIOUS
    <3> QED
      BY <1>3, <3>1, Zenon
  <2> QED
    BY <1>1, <1>2, <2>1, PrefixProperties
<1>5. T \subseteq Tx
  <2>1. getTailId \in Block
    BY <1>2, <1>3 DEF getTailId
  <2>2. BlockTxs[getTailId] \in Seq(Tx)
    BY <2>1, PoolAssumption
  <2> QED
    BY <2>2 DEF Range
<1> HIDE DEF T
<1>6. /\ Pool' = Pool \cup T
      /\ m_transactions' \in [Pool \cup T -> Entry]
      /\ m_spent_key_images' \in [KeyImage -> SUBSET Tx]
      /\ m_spentOutputs' \subseteq Output
      /\ Exact(m_transactions', m_spent_key_images', m_spentOutputs')
      /\ NoConflict(m_transactions')
      /\ m_ttlIndex' = {t \in Pool' : TTL[t] # 0}
      /\ fault' \in BOOLEAN /\ ~fault'
  <2> DEFINE kept == TRUE
  <2>1. /\ kept \in BOOLEAN /\ AddEntries(T, kept)
        /\ kept \/ \E t \in Tx : T = {t} /\ ~haveSpentInputs(t)
    BY <1>1, Zenon
  <2> HIDE DEF kept
  <2> QED
    BY <1>1, <1>5, <2>1, AddSound, Zenon
<1>7. TypeOK'
  BY <1>1, <1>4, <1>5, <1>6 DEF Inv, TypeOK, timeVars
<1> QED
  BY <1>1, <1>4, <1>6, <1>7 DEF Inv, Filling

\* The deletions remembered are transactions with a time.
LEMMA DeletionsType ==
    ASSUME TypeOK, NEW deleted, DOMAIN deleted \subseteq Tx,
           deleted \in [DOMAIN deleted -> Nat], NEW T, T \subseteq Tx
    PROVE  /\ DOMAIN Deletions(deleted, T) \subseteq Tx
           /\ Deletions(deleted, T) \in [DOMAIN Deletions(deleted, T) -> Nat]
<1> DEFINE R == {t \in DOMAIN deleted : Since(deleted[t]) <= Forget}
<1>1. Deletions(deleted, T) = [t \in R \cup T |-> IF t \in R THEN deleted[t] ELSE now]
  BY DEF Deletions
<1>2. R \subseteq DOMAIN deleted /\ now \in Nat
  BY DEF TypeOK
<1> HIDE DEF R
<1>3. DOMAIN Deletions(deleted, T) = R \cup T
  BY <1>1
<1>4. Deletions(deleted, T) \in [R \cup T -> Nat]
  BY <1>1, <1>2
<1> QED
  BY <1>2, <1>3, <1>4

LEMMA IdleInv == ASSUME Inv, Idle PROVE Inv'
<1> DEFINE T == Outlived(m_transactions, m_ttlIndex)
<1>1. /\ RemoveEntries(T)
      /\ m_recentlyDeleted' = Deletions(m_recentlyDeleted, T)
      /\ m_lastWorkedTime' = now
      /\ UNCHANGED <<now, chainVars, template>> /\ Unlocked
  BY DEF Idle
<1>2. T \subseteq Pool /\ T \subseteq Tx
  BY DEF Outlived, Pool, Inv, TypeOK
<1> HIDE DEF T
<1>3. /\ Pool' = Pool \ T
      /\ m_transactions' \in [Pool \ T -> Entry]
      /\ m_spent_key_images' \in [KeyImage -> SUBSET Tx]
      /\ m_spentOutputs' \subseteq Output
      /\ Exact(m_transactions', m_spent_key_images', m_spentOutputs')
      /\ NoConflict(m_transactions')
      /\ m_ttlIndex' = {t \in Pool' : TTL[t] # 0}
      /\ m_validated' \subseteq Pool'
      /\ fault' \in BOOLEAN /\ ~fault'
  BY <1>1, <1>2, RemoveEntriesSound, Zenon
<1>4. /\ DOMAIN m_recentlyDeleted' \subseteq Tx
      /\ m_recentlyDeleted' \in [DOMAIN m_recentlyDeleted' -> Nat]
  <2>1. /\ TypeOK /\ DOMAIN m_recentlyDeleted \subseteq Tx
        /\ m_recentlyDeleted \in [DOMAIN m_recentlyDeleted -> Nat]
    BY DEF Inv, TypeOK
  <2> QED
    BY <1>1, <1>2, <2>1, DeletionsType
<1>5. TypeOK'
  BY <1>1, <1>3, <1>4 DEF Inv, TypeOK, chainVars
<1> QED
  BY <1>1, <1>3, <1>5 DEF Inv, Filling, Unlocked, chainVars

LEMMA LoadInv ==
    ASSUME Inv, NEW file \in {Snapshot, EmptyFile}, Restart(file) PROVE Inv'
<1> DEFINE ttl == {t \in DOMAIN file.transactions : TTL[t] # 0}
           T == Outlived(file.transactions, ttl)
<1>1. /\ RemoveFrom(file, T) /\ m_ttlIndex' = ttl \ T
      /\ m_recentlyDeleted' = Deletions(file.deleted, T)
      /\ m_validated' = {} /\ m_lastWorkedTime' = 0 /\ Unlocked
      /\ UNCHANGED <<now, chainVars, template>>
  BY DEF Restart, Load
<1>2. /\ DOMAIN file.transactions \subseteq Tx
      /\ file.transactions \in [DOMAIN file.transactions -> Entry]
      /\ file.images \in [KeyImage -> SUBSET Tx] /\ file.outputs \subseteq Output
      /\ Exact(file.transactions, file.images, file.outputs)
      /\ NoConflict(file.transactions)
      /\ DOMAIN file.deleted \subseteq Tx /\ file.deleted \in [DOMAIN file.deleted -> Nat]
  <2>1. CASE file = Snapshot
    <3>1. /\ file.transactions = m_transactions /\ file.images = m_spent_key_images
          /\ file.outputs = m_spentOutputs /\ file.deleted = m_recentlyDeleted
      BY <2>1 DEF Snapshot
    <3> QED
      BY <3>1 DEF Inv, TypeOK, Pool
  <2>2. CASE file = EmptyFile
    <3>1. /\ file.transactions = [t \in {} |-> 0] /\ file.outputs = {}
          /\ file.images = [k \in KeyImage |-> {}] /\ file.deleted = [t \in {} |-> 0]
      BY <2>2 DEF EmptyFile
    <3>2. DOMAIN file.transactions = {} /\ DOMAIN file.deleted = {}
      BY <3>1
    <3> QED
      BY <3>1, <3>2 DEF Exact, NoConflict, RelayedIn
  <2> QED
    BY <2>1, <2>2
<1>3. T \subseteq DOMAIN file.transactions /\ T \subseteq Tx
  BY <1>2 DEF Outlived
<1> HIDE DEF T
<1>4. ~fault /\ fault \in BOOLEAN /\ TypeOK
  BY DEF Inv, TypeOK
<1>5. /\ Pool' = DOMAIN file.transactions \ T
      /\ m_transactions' \in [DOMAIN file.transactions \ T -> Entry]
      /\ m_spent_key_images' \in [KeyImage -> SUBSET Tx]
      /\ m_spentOutputs' \subseteq Output
      /\ Exact(m_transactions', m_spent_key_images', m_spentOutputs')
      /\ NoConflict(m_transactions')
      /\ fault' \in BOOLEAN /\ ~fault'
  BY <1>1, <1>2, <1>3, <1>4, RemoveSound, Zenon
<1>6. /\ DOMAIN m_recentlyDeleted' \subseteq Tx
      /\ m_recentlyDeleted' \in [DOMAIN m_recentlyDeleted' -> Nat]
  BY <1>1, <1>2, <1>3, <1>4, DeletionsType
<1>7. m_ttlIndex' = {t \in Pool' : TTL[t] # 0}
  BY <1>1, <1>5
<1>8. Pool' \subseteq Tx
  BY <1>2, <1>5
<1>9. TypeOK'
  <2> HIDE DEF ttl
  <2>1. m_ttlIndex' \subseteq Tx
    BY <1>7, <1>8
  <2> QED
    BY <1>1, <1>5, <1>6, <1>8, <2>1 DEF Inv, TypeOK, chainVars
<1> QED
  BY <1>1, <1>5, <1>7, <1>9 DEF Inv, Filling, Unlocked, chainVars

\* What a template becomes when a transaction of the pool is offered.
LEMMA OfferType ==
    ASSUME Inv, NEW t \in Tx, template.pc # "none", NEW ready \in BOOLEAN,
           template' = Offer(t, ready), UNCHANGED adding, Pool' = Pool
    PROVE  /\ template' \in [pc: {"none", "fusion", "fees"}, todo: SUBSET Tx,
                             txs: SUBSET Tx, size: Nat]
           /\ Filling'
<1>1. template \in [pc: {"none", "fusion", "fees"}, todo: SUBSET Tx,
                    txs: SUBSET Tx, size: Nat]
  BY DEF Inv, TypeOK
<1>2. Size[t] \in Nat
  BY PoolAssumption
<1>3. \/ template' = [template EXCEPT !.todo = @ \ {t}, !.txs = @ \cup {t}, !.size = @ + Size[t]]
      \/ template' = [template EXCEPT !.todo = @ \ {t}]
  BY DEF Offer
<1>4. /\ template' \in [pc: {"none", "fusion", "fees"}, todo: SUBSET Tx,
                        txs: SUBSET Tx, size: Nat]
      /\ template'.todo = template.todo \ {t}
  <2>1. CASE template' = [template EXCEPT !.todo = @ \ {t}, !.txs = @ \cup {t}, !.size = @ + Size[t]]
    <3>1. /\ template.todo \ {t} \in SUBSET Tx /\ template.txs \cup {t} \in SUBSET Tx
          /\ template.size + Size[t] \in Nat
      BY <1>1, <1>2
    <3> QED
      BY <1>1, <2>1, <3>1, Zenon
  <2>2. CASE template' = [template EXCEPT !.todo = @ \ {t}]
    BY <1>1, <2>2
  <2> QED
    BY <1>3, <2>1, <2>2
<1>5. adding = NullHash /\ template.todo \subseteq Pool
  BY DEF Inv, Filling
<1> QED
  BY <1>4, <1>5 DEF Filling

\* The fusion loop leaves the pool as it is: its verdicts are thrown away.
LEMMA FillFusionInv == ASSUME Inv, NEW t \in Tx, FillFusion(t) PROVE Inv'
<1>1. /\ UNCHANGED poolVars /\ UNCHANGED <<m_blocks, adding, now, m_lastWorkedTime>>
      /\ template.pc = "fusion"
  BY DEF FillFusion, chainVars, timeVars
<1>2. template' = Offer(t, TRUE) \/ template' = Offer(t, FALSE)
  <2>1. CASE FitsFusion(t)
    <3>1. PICK r \in checkTransactionInputs(t, m_transactions[t].info) :
                template' = Offer(t, r.ok)
      BY <2>1 DEF FillFusion
    <3>2. Offer(t, r.ok) = Offer(t, TRUE) \/ Offer(t, r.ok) = Offer(t, FALSE)
      BY DEF Offer
    <3> QED
      BY <3>1, <3>2, Zenon
  <2>2. CASE ~FitsFusion(t)
    BY <2>2 DEF FillFusion
  <2> QED
    BY <2>1, <2>2, Zenon
<1>3. Pool' = Pool
  BY <1>1 DEF poolVars, Pool
<1>4. /\ template' \in [pc: {"none", "fusion", "fees"}, todo: SUBSET Tx,
                        txs: SUBSET Tx, size: Nat]
      /\ Filling'
  BY <1>1, <1>2, <1>3, OfferType, Zenon
<1>5. /\ m_blocks' \in Seq(Block) /\ m_blocks' # <<>> /\ m_blocks'[1] = Genesis
      /\ adding' \in Block \cup {NullHash} /\ now' \in Nat /\ m_lastWorkedTime' \in Nat
  BY <1>1, SMTT(30) DEF Inv, TypeOK
<1> QED
  BY <1>1, <1>4, <1>5, PoolUnchanged

\* The fee loop writes back what the check found out, and never keptByBlock.
LEMMA FillFeesInv == ASSUME Inv, NEW t \in Tx, FillFees(t) PROVE Inv'
<1>1. /\ UNCHANGED <<m_spent_key_images, m_spentOutputs, m_ttlIndex, m_recentlyDeleted, fault>>
      /\ UNCHANGED <<m_blocks, adding, now, m_lastWorkedTime>>
      /\ template.pc = "fees" /\ t \in template.todo
  BY SMTT(30) DEF FillFees, chainVars, timeVars
<1>2. t \in Pool
  BY <1>1 DEF Inv, Filling
<1>3. /\ template' = Offer(t, TRUE) \/ template' = Offer(t, FALSE)
      /\ DOMAIN m_transactions' = Pool /\ m_transactions' \in [Pool -> Entry]
      /\ \A u \in Pool : m_transactions'[u].kept = m_transactions[u].kept
      /\ m_validated' \subseteq Pool
  <2>1. CASE Fits(t)
    <3>1. PICK r \in Verdicts(t) :
             /\ template' = Offer(t, r.ok)
             /\ m_transactions' = [m_transactions EXCEPT ![t].info = r.info]
             /\ m_validated' = IF r.ok THEN m_validated \cup {t} ELSE m_validated
      BY <2>1 DEF FillFees
    <3>2. Offer(t, r.ok) = Offer(t, TRUE) \/ Offer(t, r.ok) = Offer(t, FALSE)
      BY DEF Offer
    <3>3. r.info \in CheckInfo
      BY <1>2, VerdictType DEF Inv
    <3>4. m_transactions \in [Pool -> Entry]
      BY DEF Inv, TypeOK
    <3> DEFINE e == [m_transactions[t] EXCEPT !.info = r.info]
    <3>5. e \in Entry /\ e.kept = m_transactions[t].kept
      BY <3>3, <3>4, <1>2 DEF Entry
    <3>6. m_transactions' = [m_transactions EXCEPT ![t] = e]
      BY <3>1
    <3> HIDE DEF e
    <3>7. /\ DOMAIN m_transactions' = Pool /\ m_transactions' \in [Pool -> Entry]
          /\ \A u \in Pool : m_transactions'[u].kept = m_transactions[u].kept
      BY <3>4, <3>5, <3>6, <1>2
    <3>8. m_validated' \subseteq Pool
      BY <3>1, <1>2 DEF Inv
    <3> QED
      BY <3>1, <3>2, <3>7, <3>8, Zenon
  <2>2. CASE ~Fits(t)
    <3>1. template' = Offer(t, FALSE) /\ UNCHANGED <<m_transactions, m_validated>>
      BY <2>2 DEF FillFees
    <3> QED
      BY <3>1 DEF Inv, TypeOK, Pool
  <2> QED
    BY <2>1, <2>2, Zenon
<1>4. Pool' = Pool
  BY <1>3 DEF Pool
<1>5. /\ template' \in [pc: {"none", "fusion", "fees"}, todo: SUBSET Tx,
                        txs: SUBSET Tx, size: Nat]
      /\ Filling'
  BY <1>1, <1>3, <1>4, OfferType, ZenonT(40)
<1>6. RelayedIn(m_transactions', DOMAIN m_transactions')
        = RelayedIn(m_transactions, DOMAIN m_transactions)
  BY <1>3 DEF RelayedIn, Pool
<1>7. /\ Exact(m_transactions', m_spent_key_images', m_spentOutputs')
      /\ NoConflict(m_transactions')
  BY <1>1, <1>3, <1>6 DEF Inv, Exact, NoConflict, Pool
<1>8. TypeOK'
  BY <1>1, <1>3, <1>4, <1>5 DEF Inv, TypeOK
<1> QED
  BY <1>1, <1>3, <1>4, <1>5, <1>7, <1>8 DEF Inv

LEMMA GetDifferenceInv == ASSUME Inv, GetDifference PROVE Inv'
<1>1. /\ UNCHANGED <<m_transactions, m_spent_key_images, m_spentOutputs, m_ttlIndex,
                     m_recentlyDeleted, fault, m_blocks, adding, now, m_lastWorkedTime, template>>
      /\ m_validated' \subseteq Pool
  BY DEF GetDifference, chainVars, timeVars, Inv
<1>2. Pool' = Pool
  BY <1>1 DEF Pool
<1>3. TypeOK'
  BY <1>1, <1>2 DEF Inv, TypeOK
<1> QED
  BY <1>1, <1>2, <1>3, Zenon DEF Inv, Filling

\* Steps of the chain, the clock and the template that leave the pool alone.
LEMMA ControlInv ==
    ASSUME Inv, BeginBlock \/ EndBlock \/ Clock \/ BeginFill \/ EndFusion \/ EndFill
    PROVE  Inv'
<1> DEFINE TT == [pc: {"none", "fusion", "fees"}, todo: SUBSET Tx, txs: SUBSET Tx, size: Nat]
<1>1. /\ m_blocks \in Seq(Block) /\ m_blocks # <<>> /\ m_blocks[1] = Genesis
      /\ adding \in Block \cup {NullHash} /\ now \in Nat /\ m_lastWorkedTime \in Nat
      /\ template \in TT /\ Pool \subseteq Tx /\ Filling
  BY DEF Inv, TypeOK
<1>2. UNCHANGED poolVars /\ UNCHANGED m_blocks /\ UNCHANGED m_lastWorkedTime
  BY DEF BeginBlock, EndBlock, Clock, BeginFill, EndFusion, EndFill, chainVars, timeVars
<1>3. now' \in Nat
  <2>1. CASE Clock
    BY <2>1, PoolAssumption DEF Clock
  <2>2. CASE ~Clock
    BY <2>2, <1>1 DEF BeginBlock, EndBlock, BeginFill, EndFusion, EndFill, timeVars
  <2> QED
    BY <2>1, <2>2
<1>4. adding' \in Block \cup {NullHash}
  <2>1. getTailId \in Block
    BY <1>1 DEF getTailId
  <2> QED
    BY <1>1, <2>1 DEF BeginBlock, EndBlock, Clock, BeginFill, EndFusion, EndFill, chainVars
<1>5. Pool' = Pool
  BY <1>2 DEF poolVars, Pool
<1>6. NoTemplate \in TT /\ NoTemplate.pc = "none"
  BY DEF NoTemplate
<1>7. template' \in TT /\ Filling'
  <2>1. CASE BeginBlock \/ EndBlock \/ Clock
    <3>1. template' = template
      BY <2>1 DEF BeginBlock, EndBlock, Clock
    <3>2. CASE adding' = NullHash
      BY <1>1, <1>5, <3>1, <3>2 DEF Filling
    <3>3. CASE adding' # NullHash
      <4>1. template.pc = "none"
        BY <2>1, <3>3, <1>1 DEF BeginBlock, EndBlock, Clock, Unlocked, Filling, chainVars
      <4> QED
        BY <1>1, <3>1, <4>1 DEF Filling
    <3> QED
      BY <3>2, <3>3
  <2>2. CASE BeginFill
    <3> DEFINE T == {t \in Pool : Fee[t] = 0}
    <3>1. /\ template' = [pc |-> "fusion", todo |-> T, txs |-> {}, size |-> 0]
          /\ adding' = NullHash
      BY <2>2, Zenon DEF BeginFill, NoTemplate, Unlocked, chainVars
    <3>2. T \subseteq Pool /\ T \in SUBSET Tx
      BY <1>1
    <3> HIDE DEF T
    <3>3. template' \in TT /\ template'.todo = T
      BY <3>1, <3>2
    <3> QED
      BY <3>1, <3>2, <3>3, <1>5 DEF Filling
  <2>3. CASE EndFusion
    <3>1. /\ template' = [template EXCEPT !.pc = "fees", !.todo = Pool]
          /\ adding' = adding /\ template.pc = "fusion"
      BY <2>3 DEF EndFusion, chainVars
    <3>2. template' \in TT /\ template'.todo = Pool
      BY <3>1, <1>1, Zenon
    <3> QED
      BY <3>1, <3>2, <1>1, <1>5 DEF Filling
  <2>4. CASE EndFill
    BY <2>4, <1>6 DEF EndFill, Filling
  <2> QED
    BY <2>1, <2>2, <2>3, <2>4
<1> QED
  BY <1>1, <1>2, <1>3, <1>4, <1>7, PoolUnchanged

-----------------------------------------------------------------------------
(* The theorems. *)

\* Inv is an inductive invariant: every operation on the pool, the chain's blocks that come
\* and go, expiry and the pool file keep the indices and the entries together.
THEOREM PoolInvariance == Spec => []Inv
<1>1. Init => Inv
  BY InitInv
<1>2. Inv /\ [Next]_vars => Inv'
  <2> SUFFICES ASSUME Inv, [Next]_vars PROVE Inv'
    OBVIOUS
  <2>1. CASE Next
    <3>1. CASE \E t \in Tx, kept \in BOOLEAN : AddTx(t, kept)
      BY <3>1, AddTxInv
    <3>2. CASE \E b \in Block : PushBlock(b) \/ RefuseBlock(b)
      BY <3>2, PushBlockInv, RefuseBlockInv
    <3>3. CASE PopBlock
      BY <3>3, PopBlockInv
    <3>4. CASE BeginBlock \/ EndBlock \/ Clock \/ BeginFill \/ EndFusion \/ EndFill
      BY <3>4, ControlInv
    <3>5. CASE Idle
      BY <3>5, IdleInv
    <3>6. CASE \E t \in Tx : FillFusion(t) \/ FillFees(t)
      BY <3>6, FillFusionInv, FillFeesInv
    <3>7. CASE GetDifference
      BY <3>7, GetDifferenceInv
    <3>8. CASE \E file \in {Snapshot, EmptyFile} : Restart(file)
      BY <3>8, LoadInv
    <3> QED
      BY <2>1, <3>1, <3>2, <3>3, <3>4, <3>5, <3>6, <3>7, <3>8 DEF Next
  <2>2. CASE UNCHANGED vars
    <3>1. /\ UNCHANGED poolVars
          /\ UNCHANGED <<m_blocks, adding, now, m_lastWorkedTime, template>>
      BY <2>2 DEF vars, chainVars, timeVars
    <3>2. Pool' = Pool
      BY <3>1 DEF Pool, poolVars
    <3>3. Filling'
      BY <3>1, <3>2 DEF Inv, Filling
    <3>4. /\ m_blocks' \in Seq(Block) /\ m_blocks' # <<>> /\ m_blocks'[1] = Genesis
          /\ adding' \in Block \cup {NullHash} /\ now' \in Nat /\ m_lastWorkedTime' \in Nat
          /\ template' \in [pc: {"none", "fusion", "fees"}, todo: SUBSET Tx,
                            txs: SUBSET Tx, size: Nat]
      BY <3>1 DEF Inv, TypeOK
    <3> QED
      BY <3>1, <3>3, <3>4, PoolUnchanged
  <2> QED
    BY <2>1, <2>2
<1> QED
  BY <1>1, <1>2, PTL DEF Spec

\* The indices of tx_memory_pool agree with its entries in every reachable state.
THEOREM PoolIndicesExact == Spec => []IndicesExact
<1>1. Inv => IndicesExact
  BY DEF Inv, Exact, IndicesExact, RelayedIn, Pool
<1> QED
  BY <1>1, PoolInvariance, PTL

\* Two relayed transactions never spend the same input.
THEOREM PoolRelayedNeverConflict == Spec => []RelayedNeverConflict
<1>1. Inv => RelayedNeverConflict
  <2> SUFFICES ASSUME Inv, NEW t \in Pool, NEW u \in Pool, t # u,
                      ~m_transactions[t].kept, ~m_transactions[u].kept
               PROVE  ~Conflict(t, u)
    BY DEF RelayedNeverConflict
  <2>1. t \in Tx /\ u \in Tx
    BY DEF Inv, TypeOK
  <2>2. Images[t] \cap Images[u] = {} /\ Spends[t] \cap Spends[u] = {}
    BY DEF Inv, NoConflict, RelayedIn, Pool
  <2>3. /\ Images[t] \subseteq KeyImage /\ Images[u] \subseteq KeyImage
        /\ Spends[t] \subseteq Output /\ Spends[u] \subseteq Output
    BY <2>1, PoolAssumption
  <2>4. InputsOf({t}) = Images[t] \cup Spends[t] /\ InputsOf({u}) = Images[u] \cup Spends[u]
    BY DEF InputsOf
  <2>5. KeyImage \cap Output = {}
    BY PoolAssumption
  <2> QED
    BY <2>2, <2>3, <2>4, <2>5, Zenon DEF Conflict
<1> QED
  BY <1>1, PoolInvariance, PTL

\* No "internal error" branch and no assert of the index functions is ever reached.
THEOREM PoolBookkeepingNeverFails == Spec => []BookkeepingNeverFails
<1>1. Inv => BookkeepingNeverFails
  BY DEF Inv, BookkeepingNeverFails
<1> QED
  BY <1>1, PoolInvariance, PTL
=============================================================================
