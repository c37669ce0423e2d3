--------------------------- MODULE MCApiRevisions ---------------------------
(* Small instances of ApiRevisions: "my_api" with a second revision, and a   *)
(* revision of "my-api", which the patterns of the first match as well.      *)
EXTENDS ApiRevisions

MCNames == {"my_api", "my_api;rev=2", "my-api;rev=2"}
MCBases == {"my_api"}
MCLogical == [n \in MCNames |-> IF n = "my-api;rev=2" THEN "my-api" ELSE "my_api"]
MCLookalike == {<<"my_api", "my-api">>, <<"my_api;rev=2", "my-api;rev=2">>}

\* Bound: one of the three names has no children.  No step looks at the children
\* of more than two: a clone and its source, a deleted row and its lookalike.
SomeBare == \E n \in Names : children[n] = {}
=============================================================================
