------------------------------ MODULE MCDagPlan ------------------------------
EXTENDS DagPlan

\* A directory, two files below it.
MCResource == {"dir", "a", "b"}
MCOverlap == {<<r, r>> : r \in MCResource}
             \cup {<<"dir", "a">>, <<"a", "dir">>, <<"dir", "b">>, <<"b", "dir">>}

ClaimsOf(S) == [exclusive |-> FALSE, claims |-> {[res |-> p[1], access |-> p[2]] : p \in S}]

MCResolutions ==
  { [exclusive |-> TRUE, claims |-> {}],
    ClaimsOf({}),
    ClaimsOf({<<"a", "write">>}),
    ClaimsOf({<<"a", "read">>}),
    ClaimsOf({<<"b", "write">>}),
    ClaimsOf({<<"dir", "read">>}),
    ClaimsOf({<<"a", "read">>, <<"b", "write">>}) }

===============================================================================
