------------------------- MODULE MCAnonymousHandles -------------------------
\* AnonymousHandles on small instances.
EXTENDS AnonymousHandles
=============================================================================
