------------------------------ MODULE MCUpdate ------------------------------
EXTENDS Update

\* Two calls of `apply` at once beside a second release or a mishap, and a
\* mishap beside a second release.
AnyTwo ==
    {[releases |-> 2, clicks |-> 1, mishaps |-> 0],
     [releases |-> 1, clicks |-> 1, mishaps |-> 1],
     [releases |-> 2, clicks |-> 0, mishaps |-> 1]}
=============================================================================
