---------------------------- MODULE MCBlockchain ----------------------------
(* Instances of Blockchain: small block trees given as parents and weights. *)
EXTENDS Blockchain, TLC

\* The path to b in a tree of blocks in which parent[b] = b only for the root.
RECURSIVE PathTo(_, _)
PathTo(parent, b) ==
    IF parent[b] = b THEN <<b>> ELSE Append(PathTo(parent, parent[b]), b)

PathsOf(parent) == [b \in DOMAIN parent |-> PathTo(parent, b)]

-----------------------------------------------------------------------------
(* "Fork": branches A and B off A1, each of which overtakes the other once.  t1 is
   mined on both; t2 and t3 spend the same key image.  B3b pays a wrong reward, and
   B4t spends k2 again. *)

ForkParent ==
    "G" :> "G" @@ "A1" :> "G" @@ "A2" :> "A1" @@ "A3" :> "A2" @@ "A3x" :> "A2"
    @@ "A4" :> "A3" @@ "B2" :> "A1" @@ "B3" :> "B2" @@ "B3b" :> "B2"
    @@ "B4" :> "B3" @@ "B4t" :> "B3" @@ "B5" :> "B4"

ForkBlock == DOMAIN ForkParent

ForkPath == PathsOf(ForkParent)

ForkWork ==
    "G" :> 10 @@ "A1" :> 20 @@ "A2" :> 30 @@ "A3" :> 40 @@ "A3x" :> 40
    @@ "A4" :> 55 @@ "B2" :> 30 @@ "B3" :> 41 @@ "B3b" :> 42
    @@ "B4" :> 51 @@ "B4t" :> 52 @@ "B5" :> 60

ForkTx == {"t1", "t2", "t3"}

ForkKeyImage == {"k1", "k2"}

ForkBlockTxs == [b \in ForkBlock |->
    CASE b \in {"A2", "B3", "B3b"} -> {"t1"}
      [] b \in {"B2", "A4"}        -> {"t2"}
      [] b \in {"A3x", "B4t"}      -> {"t3"}
      [] OTHER                     -> {}]

ForkKeyImages == "t1" :> {"k1"} @@ "t2" :> {"k2"} @@ "t3" :> {"k2"}

ForkRing == "t1" :> {"G"} @@ "t2" :> {"G"} @@ "t3" :> {"A1"}

-----------------------------------------------------------------------------
(* "Zone": main branch A; branch C off A1 is long and holds the DNS checkpoint C4, and
   all but its last block C5 are light, so that A2 overtakes a longer chain; branch D
   off the genesis is heavy and contradicts the DNS checkpoint A1. *)

ZoneParent ==
    "G" :> "G" @@ "A1" :> "G" @@ "A2" :> "A1" @@ "A3" :> "A2"
    @@ "C2" :> "A1" @@ "C3" :> "C2" @@ "C4" :> "C3" @@ "C5" :> "C4" @@ "C5x" :> "C4"
    @@ "D1" :> "G" @@ "D2" :> "D1" @@ "D3" :> "D2"

ZoneBlock == DOMAIN ZoneParent

ZonePath == PathsOf(ZoneParent)

ZoneWork ==
    "G" :> 10 @@ "A1" :> 20 @@ "A2" :> 40 @@ "A3" :> 60
    @@ "C2" :> 22 @@ "C3" :> 24 @@ "C4" :> 26 @@ "C5" :> 90 @@ "C5x" :> 28
    @@ "D1" :> 15 @@ "D2" :> 50 @@ "D3" :> 100

ZoneTx == {"t1", "t2"}

ZoneKeyImage == {"k1", "k2"}

ZoneBlockTxs == [b \in ZoneBlock |->
    CASE b \in {"A2", "C3", "D2"} -> {"t1"}
      [] b \in {"A3", "D3"}       -> {"t2"}
      [] OTHER                    -> {}]

ZoneKeyImages == "t1" :> {"k1"} @@ "t2" :> {"k2"}

ZoneRing == "t1" :> {"G"} @@ "t2" :> {"A1"}

-----------------------------------------------------------------------------
(* "Limits": blocks that single checks refuse.  A1 is a checkpoint and needs no proof
   of work, W2 is above it and does; X2 is malformed; O2 is too large once t1 is
   known; P3 heads an alternative chain that the Poisson check rejects. *)

LimitsParent ==
    "G" :> "G" @@ "A1" :> "G" @@ "A2" :> "A1" @@ "A3" :> "A2"
    @@ "O2" :> "A1" @@ "O3" :> "O2" @@ "P2" :> "A1" @@ "P3" :> "P2"
    @@ "Q3" :> "P2" @@ "W2" :> "A1" @@ "X2" :> "A1"

LimitsBlock == DOMAIN LimitsParent

LimitsPath == PathsOf(LimitsParent)

LimitsWork ==
    "G" :> 10 @@ "A1" :> 20 @@ "A2" :> 30 @@ "A3" :> 40
    @@ "O2" :> 29 @@ "O3" :> 45 @@ "P2" :> 28 @@ "P3" :> 60
    @@ "Q3" :> 50 @@ "W2" :> 70 @@ "X2" :> 70

LimitsTx == {"t1", "t2"}

LimitsKeyImage == {"k1", "k2"}

LimitsBlockTxs == [b \in LimitsBlock |->
    CASE b \in {"A3", "O2", "P2"} -> {"t1"}
      [] b = "Q3"                 -> {"t2"}
      [] OTHER                    -> {}]

LimitsKeyImages == "t1" :> {"k1"} @@ "t2" :> {"k1", "k2"}

LimitsRing == "t1" :> {"G"} @@ "t2" :> {"A1"}
=============================================================================
