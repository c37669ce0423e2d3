---------------------------- MODULE MCCallLimits ----------------------------
(***************************************************************************)
(* Instances of CallLimits.  Requests are interchangeable.                 *)
(***************************************************************************)
EXTENDS CallLimits, TLC

\* rate-limit with increment-count 2.
Sliding ==
    [calls |-> 3, bandwidth |-> 0, period |-> 2,
     fixed |-> FALSE, deferred |-> FALSE, increments |-> {2}]

\* quota with calls and bandwidth.
Quota ==
    [calls |-> 2, bandwidth |-> 3, period |-> 2,
     fixed |-> TRUE, deferred |-> FALSE, increments |-> {1}]

\* rate-limit-by-key whose increment-condition is an expression.
Conditional ==
    [calls |-> 1, bandwidth |-> 0, period |-> 2,
     fixed |-> FALSE, deferred |-> TRUE, increments |-> {0, 1}]

\* quota-by-key whose increment-count is an expression.
Counted ==
    [calls |-> 2, bandwidth |-> 0, period |-> 2,
     fixed |-> TRUE, deferred |-> TRUE, increments |-> {1, 2}]

\* quota-by-key on bandwidth with an increment-condition expression.
Bytes ==
    [calls |-> 0, bandwidth |-> 3, period |-> 2,
     fixed |-> TRUE, deferred |-> TRUE, increments |-> {0, 1}]

\* quota with an infinite period.
Endless ==
    [calls |-> 1, bandwidth |-> 0, period |-> 0,
     fixed |-> TRUE, deferred |-> FALSE, increments |-> {1}]

McLimits == {Sliding, Quota, Conditional, Counted, Bytes, Endless}

RequestSymmetry == Permutations(Requests)
=============================================================================
