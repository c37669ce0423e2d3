--------------------------- MODULE MCBackendCalls ---------------------------
(***************************************************************************)
(* Instances of BackendCalls.  No symmetry: the run checks liveness.       *)
(***************************************************************************)
EXTENDS BackendCalls

\* An answer the retry policy likes, one it retries and the breaker's rule
\* does not count, and no answer at all, which both act on.
McOutcomes == {"ok", "status", "error"}
McFailureOn == {"error"}
McRetryOn == {"status", "error"}
=============================================================================
