---------------------------- MODULE MCTokenLimits ----------------------------
(***************************************************************************)
(* Instances of TokenLimits.  Requests are interchangeable.                *)
(***************************************************************************)
EXTENDS TokenLimits, TLC

PromptSymmetry == Permutations(Prompts)
=============================================================================
