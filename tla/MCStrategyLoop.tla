--------------------------- MODULE MCStrategyLoop ---------------------------
(* Small instances of the strategy's loop for TLC.                         *)
EXTENDS StrategyLoop, TLC

CONSTANTS s1, s2, s3

\* Symbols are interchangeable: no action and no property names one.
Symbols == Permutations(Symbol)
=============================================================================
