--------------------------- MODULE MCPagedListing ---------------------------
\* PagedListing with three names of different lengths, and of attributes.
EXTENDS PagedListing

CONSTANTS e1, e2, e3

Lengths == (e1 :> 1) @@ (e2 :> 5) @@ (e3 :> 8)

\* Attributes with the filehandle among them: that of a long path is hashed.
Values == (e1 :> 21) @@ (e2 :> 30) @@ (e3 :> 21)

\* Less room than an empty reply takes, room for no entry, for one or two, and for all,
\* by either limit.
SomeLimits ==
  {[maxcount |-> m, dircount |-> 0] : m \in {12, 60, 98, 200, 1000}}
    \cup {[maxcount |-> 1000, dircount |-> d] : d \in {8, 16, 22}}
=============================================================================
