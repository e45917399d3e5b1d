--------------------------- MODULE MCAvgAspWindow ---------------------------
(***************************************************************************)
(* TLC instances of the moving-average core: four cells instead of 64, and *)
(* windows of two and four.                                                *)
(***************************************************************************)
EXTENDS AvgAspWindow

MCWindowSize == [code \in 0 .. 7 |-> IF code = 0 THEN 2 ELSE 4]
=============================================================================
