--------------------------- MODULE MCHandleStore ---------------------------
\* HandleStore on small instances.
EXTENDS HandleStore
=============================================================================
