-------------------------------- MODULE Ledger --------------------------------
(***************************************************************************)
(* What Blockchain promises to everyone who looks at it between two         *)
(* operations: one chain of blocks that spends no key image twice, and that *)
(* changes, in one step, only to a chain that confirms at least the same    *)
(* transactions.  A stop or a crash may leave another valid chain, and a    *)
(* start may cut it.                                                        *)
(***************************************************************************)
EXTENDS Integers, Sequences

CONSTANTS
    Block, Genesis, Path, Tx, BlockTxs, KeyImages,
    Disturbed     \* a failed reorganisation may be unable to restore the chain

VARIABLES
    ledger,       \* the chain
    running

TxsOf(s) == UNION {BlockTxs[s[i]] : i \in DOMAIN s}

SpendsOnce(chain) ==
    \A i, j \in DOMAIN chain : \A t \in BlockTxs[chain[i]], u \in BlockTxs[chain[j]] :
        (i # j \/ t # u) => KeyImages[t] \cap KeyImages[u] = {}

\* The chains a ledger may be: the path to a block, without a double spend.
Valid(chain) == (\E b \in Block : chain = Path[b]) /\ SpendsOnce(chain)

Init == ledger = <<Genesis>> /\ running = TRUE

\* A block on top, or another branch.
Advance ==
    /\ running = TRUE /\ running' = TRUE
    /\ Valid(ledger')
    /\ TxsOf(ledger) \subseteq TxsOf(ledger')

\* The reorganisation of a disturbed ledger may lose blocks and transactions.
Lose ==
    /\ Disturbed
    /\ running = TRUE /\ running' = TRUE
    /\ Valid(ledger')

Halt ==
    /\ running = TRUE /\ running' = FALSE
    /\ Valid(ledger')

Start ==
    /\ running = FALSE /\ running' = TRUE
    /\ \E n \in 1..Len(ledger) : ledger' = SubSeq(ledger, 1, n)

Next == Advance \/ Lose \/ Halt \/ Start

Spec == Init /\ [][Next]_<<ledger, running>>
=============================================================================
