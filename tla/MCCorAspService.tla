-------------------------- MODULE MCCorAspService --------------------------
(***************************************************************************)
(* TLC instance of the correlation ASP with its service: a memory of four  *)
(* cells and two different averages.                                       *)
(***************************************************************************)
EXTENDS CorAspService

MCCorWindow == [code \in 0 .. 7 |-> CASE code = 0 -> 1 [] code = 1 -> 2 [] code = 2 -> 4
                                      [] code = 3 -> 8 [] OTHER -> 15]
MCNoWord  == [kind |-> "none"]
MCOthers  == {MCNoWord}
============================================================================
