-------------------------- MODULE MCDownloadQueue --------------------------
(* Values of the constants: two requests for one game, one for another.    *)
EXTENDS DownloadQueue
CONSTANTS a1, a2, b, ka, kb
MCItems == {a1, a2, b}
MCKeyOf == [i \in MCItems |-> IF i = b THEN kb ELSE ka]
MCPairKeyOf == [i \in {a1, b} |-> MCKeyOf[i]]
MCSymmetry == Permutations({a1, a2})   \* the two requests for one game
=============================================================================
