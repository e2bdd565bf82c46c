----------------------- MODULE MCBlockchainSynchronizer -----------------------
(* A small instance of BlockchainSynchronizer: the node changes branches. *)
EXTENDS BlockchainSynchronizer

MCBlock == {"G", "A1", "A2", "A3", "B1"}

MCPath == "G" :> <<"G">> @@ "A1" :> <<"G", "A1">> @@ "A2" :> <<"G", "A1", "A2">>
          @@ "A3" :> <<"G", "A1", "A2", "A3">> @@ "B1" :> <<"G", "B1">>

\* To a shorter branch and back to the longer one; A1 and A2 come together.
MCWork == "G" :> 1 @@ "A1" :> 1 @@ "A2" :> 2 @@ "B1" :> 3 @@ "A3" :> 4
=============================================================================
