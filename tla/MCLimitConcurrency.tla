------------------------- MODULE MCLimitConcurrency -------------------------
(***************************************************************************)
(* Instances of LimitConcurrency.  No symmetry: the run checks liveness.   *)
(***************************************************************************)
EXTENDS LimitConcurrency

\* Two policies with the same key that disagree, and requests that pass both.
McMaxCounts == {1, 2}
=============================================================================
