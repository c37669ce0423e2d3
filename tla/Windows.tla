------------------------------ MODULE Windows ------------------------------
(***************************************************************************)
(* Trimming a window: the gateway's limiters and its circuit breaker keep  *)
(* their stamps in slices, oldest first, and drop the stale ones in a loop *)
(* that appends what it keeps to an empty slice.                           *)
(***************************************************************************)
EXTENDS Naturals, Sequences

\* The elements of s that are in keep, in their order.
Select(s, keep) ==
    LET kept[n \in 0..Len(s)] ==
            IF n = 0 THEN <<>>
            ELSE IF s[n] \in keep THEN Append(kept[n - 1], s[n]) ELSE kept[n - 1]
    IN  kept[Len(s)]
=============================================================================
