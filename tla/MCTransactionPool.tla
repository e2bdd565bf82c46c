-------------------------- MODULE MCTransactionPool --------------------------
(* A small instance of TransactionPool: branches A and B off the genesis block. *)
EXTENDS TransactionPool, TLC

\* A1 is a first main chain, B1-B2 outweighs it.  r pays a fee and spends k1; s pays
\* none and spends k1 too; m spends a multisignature output, pays no fee, has a TTL.
MCBlock == {"G", "A1", "B1", "B2"}

MCPrev == "G" :> "G" @@ "A1" :> "G" @@ "B1" :> "G" @@ "B2" :> "B1"

MCWork == "G" :> 1 @@ "A1" :> 2 @@ "B1" :> 2 @@ "B2" :> 3

MCTx == {"r", "s", "m"}

MCBlockTxs == [b \in MCBlock |->
    CASE b = "A1" -> <<"r">> [] b = "B1" -> <<"s", "m">> [] OTHER -> <<>>]

MCImages == "r" :> {"k1"} @@ "s" :> {"k1"} @@ "m" :> {}

MCSpends == "r" :> {} @@ "s" :> {} @@ "m" :> {"o"}

MCRing == "r" :> {"G"} @@ "s" :> {"G"} @@ "m" :> {"G"}

MCFee == "r" :> 2 @@ "s" :> 0 @@ "m" :> 0

MCSize == "r" :> 2 @@ "s" :> 1 @@ "m" :> 1

MCTTL == "r" :> 0 @@ "s" :> 0 @@ "m" :> 1
==============================================================================
