-------------------------- MODULE MCTransfersConsumer --------------------------
(* Small instances of TransfersConsumer. *)
EXTENDS TransfersConsumer

MCBlock == {"G", "A1", "A2", "B2", "B3", "C2", "A3"}

MCPath == "G" :> <<"G">> @@ "A1" :> <<"G", "A1">> @@ "A2" :> <<"G", "A1", "A2">>
          @@ "A3" :> <<"G", "A1", "A2", "A3">>
          @@ "B2" :> <<"G", "A1", "B2">> @@ "B3" :> <<"G", "A1", "B2", "B3">>
          @@ "C2" :> <<"G", "A1", "C2">>

\* B2 and B3 come together.
MCWork == "G" :> 1 @@ "A1" :> 2 @@ "A2" :> 3 @@ "B2" :> 1 @@ "B3" :> 4 @@ "C2" :> 5
          @@ "A3" :> 6

\* c pays the wallet; t and v both spend that; w spends what t leaves; f, d and v pay to one
\* key, f another amount, and x spends one of these; d also pays to a key of its own.  v comes
\* after d in one batch; A3 has d one block higher, and C2 sends it back to the pool.
MCTx == {"c", "t", "v", "w", "d", "f", "x"}

MCBlockTxs == "G" :> <<>> @@ "A1" :> <<"c">> @@ "A2" :> <<"t", "w">> @@ "A3" :> <<"d", "x">>
              @@ "B2" :> <<"f", "d">> @@ "B3" :> <<"v">> @@ "C2" :> <<>>

MCInputs == "c" :> <<>> @@ "t" :> ("k1" :> 5) @@ "v" :> ("k1" :> 5) @@ "w" :> ("k2" :> 4)
            @@ "d" :> <<>> @@ "f" :> <<>> @@ "x" :> ("k3" :> 4)

MCOutput == {"oc", "ot", "ov", "ow", "oe", "od", "of"}

MCOutputs == "c" :> <<"oc">> @@ "t" :> <<"ot">> @@ "v" :> <<"ov">> @@ "w" :> <<"ow">>
             @@ "d" :> <<"od", "oe">> @@ "f" :> <<"of">> @@ "x" :> <<>>

MCKey == "oc" :> "k1" @@ "ot" :> "k2" @@ "ov" :> "k3" @@ "ow" :> "k4" @@ "oe" :> "k5"
         @@ "od" :> "k3" @@ "of" :> "k3"

MCAmount == "oc" :> 5 @@ "ot" :> 4 @@ "ov" :> 4 @@ "ow" :> 3 @@ "oe" :> 2 @@ "od" :> 4
            @@ "of" :> 7
=============================================================================
