------------------------ MODULE MCCryptoNoteProtocol ------------------------
(* Small instances of CryptoNoteProtocol. *)
EXTENDS CryptoNoteProtocol

MCNode == {"k", "m", "n"}

MCPath == "G" :> <<"G">> @@ "A1" :> <<"G", "A1">> @@ "A2" :> <<"G", "A1", "A2">>
          @@ "A3" :> <<"G", "A1", "A2", "A3">> @@ "B1" :> <<"G", "B1">>

MCBlock == DOMAIN MCPath

\* B1 replaces A2, so that a chain gets shorter, and A3 replaces B1.
MCWork == "G" :> 1 @@ "A1" :> 2 @@ "A2" :> 4 @@ "B1" :> 5 @@ "A3" :> 6

TwoNodes(blocks, txs, disturbances) ==
    [link |-> {<<"n", "m">>}, top |-> "n" :> "G" @@ "m" :> "A2" @@ "k" :> "G",
     blocks |-> blocks, txs |-> txs, disturbances |-> disturbances]

ThreeNodes(n, m, k, blocks) ==
    [link |-> {<<"n", "m">>, <<"n", "k">>}, top |-> "n" :> n @@ "m" :> m @@ "k" :> k,
     blocks |-> blocks, txs |-> {}, disturbances |-> 0]

\* n is behind two nodes at once, or between two; or behind one, and disturbed.
MCNetwork ==
    {ThreeNodes("G", "A2", "A2", {}), ThreeNodes("A2", "A2", "A2", {"A3"}),
     TwoNodes({"A3", "B1"}, {}, 1), TwoNodes({"A3"}, {"t"}, 0), TwoNodes({}, {"t"}, 1)}

\* While n synchronises with two nodes, a shorter chain replaces theirs.
StallNetwork == {ThreeNodes("G", "A2", "A2", {"B1"})}
=============================================================================
