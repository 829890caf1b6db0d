--------------------------- MODULE MCLocalStores ---------------------------
(* LocalStores for TLC: entries of one, three and five bytes, on a budget of four. *)
EXTENDS LocalStores, TLC

CONSTANTS small, medium, large

Weighing(e) == CASE e = small -> 1 [] e = medium -> 3 [] OTHER -> 5
HeadOnly == {"head"}
Anywhere == {"head", "body"}
Interchangeable == Permutations(Keys)
=============================================================================
