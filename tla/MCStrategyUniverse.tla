------------------------ MODULE MCStrategyUniverse ------------------------
(* Two events, one of them ranked, over two instruments. *)
EXTENDS StrategyUniverse

CONSTANTS e1, e2, w1

MCEventOrder == <<e1>>
===========================================================================
