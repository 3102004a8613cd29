--------------------------- MODULE MCPlaytimeSync ---------------------------
(* A game of a store that counts minutes, one of a store that counts       *)
(* seconds and one of a store that is not told.                            *)
EXTENDS PlaytimeSync, TLC
CONSTANTS g1, g2, g3, gog, epic, amazon
MCStoreOf == g1 :> gog @@ g2 :> epic @@ g3 :> amazon
=============================================================================
