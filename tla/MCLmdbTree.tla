----------------------------- MODULE MCLmdbTree -----------------------------
(* Instances of LmdbTree for TLC: one key is short and has values of two       *)
(* sizes, and the value of the last key is kept on overflow pages.             *)
EXTENDS LmdbTree

MCKeySize == [k \in Keys |-> IF k = 3 THEN 1 ELSE 3]
MCValSize == ("small" :> 1) @@ ("large" :> 4) @@ ("huge" :> 20)
MCOvPages == [v \in Vals |-> IF v = "huge" THEN 2 ELSE 1]
MCPairs == ((Keys \ {NKeys}) \X {"large"}) \cup {<<3, "small">>, <<NKeys, "huge">>}
=============================================================================
